# A TLA+ model of stream-sync

stream-sync brings the screens of several players together: a *client* on each
player's PC captures and encodes frames and sends them over UDP to a *server*;
a *switcher* reads frames from the server through a named pipe, decodes them
and lays them out for OBS.  This directory holds a model of the parts that keep
state and talk to each other, the TLC runs that check it and the TLAPS proofs
about it.

## Inventory

Line numbers in this file are those of the crate's `src/lib.rs` unless
`main.rs` is named; SL, CL and WL are the library files of server, client and
switcher, WM is the switcher's `main.rs`.

| Part | State | Operations | Correct when |
| --- | --- | --- | --- |
| Server: authentication and gate | client id -> endpoint and run | decide an AuthRequest, register, evaluate a packet | only packets from the endpoint and run of an accepted request get through; a new registration shuts the old one out |
| Server: video frame queue | a queue of frames per client id; the last keyframe per client/run | store with eviction, pop the oldest of a run, four read modes | bounded; frames of a run in order; reads in scope; a decodable frame stays available |
| Server: fragment reassembly | chunks per (client, run, frame id) | apply a fragment | a frame is one capture, whole and in order, whatever UDP does |
| Server: receive counters and thresholds | some 30 counters, per-scope counters | tally a packet, evaluate thresholds, finalize | counters agree with each other and with the state; the loop stops with the packet that meets the threshold |
| Server: staged launchers | the stage | first auth, video loop, serve requests | bounded; serves what it reported |
| Server: concurrent receive and handoff runtime | two threads, a mutex around the above, a stop flag, a named pipe | receive loop, serve loop, wake-up, join | whichever thread stops, the other stops too and the verdict says why |
| Server: heartbeat liveness and sweep | last heartbeat per client, pending notices, metrics | commit, evaluate, invalidate, notify, sweep | a silent client loses its binding, a live one does not; nobody is told twice or forgotten |
| Server: receive/send runtime | drain cycles, socket mode, outbound queue, counters | receive, dispatch, answer, commit | an accepted request is answered in its iteration; it stops only after silence, a limit or a failure |
| Server: RTT/offset policy | last exchange per client and run, estimates per client | match, calculate, refuse outliers, smooth, commit | an estimate comes from one exchange and is right within its round trip; no sample of another run |
| net-core outbound queue | queued packets with priorities | enqueue, drop, send | control packets are not dropped for video |
| Wire protocol and handoff codec | none | encode and decode of every packet and of the pipe's requests and answers | inverse; a damaged packet is refused |
| Client: heartbeat loop | heartbeat state, counters, cadence, stop flag | send, wait for the ack, commit, export, retry, stop | counts what happened; keeps its cadence; stops when told |
| Client: capture, encode, send | an encoder process, a byte-stream reader, cached parameter sets, frame ids | write a frame, read a picture, fragment, send | pictures leave whole, once and in order; fragments cover the payload |
| Switcher: frame selection | selected frame, target time, clock offsets | peek, select, take, drop late ones, request over the pipe | shows the newest frame that is due and consumes what it decided on |
| Switcher: live two-view | a socket, sender bindings, two slots | receive, gate, select, decode, draw | only authenticated frames of the configured views are shown; bounded |
| Switcher: two-view display | per-view frame, scheduler counters | schedule, decode, compose, summarise | each view shows its own last picture, whatever becomes of the other |
| Switcher: continuous decoder | feeder, writer and reader threads, ffmpeg, FIFO of unanswered inputs, decoded lookup | feed, correlate, look up, restart, stop | an output is paired with its input; stopping ends every thread |
| Switcher: request/response decoders | a process per payload, or one persistent process behind a reader thread | decode, time out, restart, fall back | each call gets its own picture; no process or thread is left behind |
| Switcher: preview loop | retained slot pictures, program picture, visual identities | read, decode, retain, refresh, compose | each slot its own client; a retained picture stays; the program survives ticks without a frame |
| Switcher: controlled loop | window, commands, quit guard, control pipe | key, script and pipe commands, answer, quit | each command runs once and is answered; quit needs its confirmation |
| Launchers of client and server | the command's progress, its socket, what it counted | read files, bind, ask, wait, send, log | the first failure ends the launch with what was done before it; no launch takes another's answer for its own; counts agree with what happened |
| Client: capture session | a frame pool, its size, the shots taken from it | prepare, capture, copy, mark, encode once, send | a shot is the picture it says, of the size the encoder is told |
| Config files | the file, and the copy read again later | parse settings, clients and log, resolve tokens, decide | a file means the same to each of its parsers; a client has one secret, its own |
| Logging, `ui-core`, `video-core`, `sync-core` | none | a choice of sink, or nothing yet | not modelled |

How they interact: UDP packets drive authentication, reassembly and queue on
the server's receive thread; the switcher's requests read and dequeue on the
handoff thread.  Both hold the same mutex for one packet or one request at a
time.  The two threads tell each other to stop through an atomic flag; because
the handoff thread blocks in `ConnectNamedPipe`, the receive thread also opens
the pipe itself to wake it.  The client waits for one answer per heartbeat on
the socket it sent it from.  Client and switcher each drive ffmpeg through two
pipes; the switcher's feeder, writer and reader share a mutex and a channel,
and its operators reach the running loop through another named pipe that is
made anew for each command.

What is hard: UDP repeats, loses and reorders; a client that restarts binds
the same client id to another endpoint or run while its old packets are still
in flight; one queue is shared by all runs of a client and searched in the
middle; a keyframe is kept in two places; a thread that must stop is blocked
in a call without a timeout; a duration expires between its check and its use;
a timestamp is read before a receive that blocks and used after it; one socket
is switched between blocking and non-blocking for every drain cycle; an answer
that comes after its timeout is read in place of the next one; an external
encoder or decoder holds pictures back and blocks on its own output; an output
carries no identity and is matched by position; a frame is looked at, fed and
taken in three calls between which the server may evict it; a retained picture
must stay, or go, when a read fails.  `PROJECT.json` lists these hazards with
the properties aimed at them.

## Modules

| Module | Models |
| --- | --- |
| `ServerBase` | identifiers and the map operations the server uses |
| `ServerAuth` | decision on AuthRequests, registry, gate |
| `VideoFrameQueue` | queue, retained keyframes, reads |
| `VideoIngest` | reassembly of fragments, and the composition: every packet and every handoff request as one atomic action (one critical section of the mutex) |
| `ScopedFifo` | abstract specification: one lossy FIFO and one kept keyframe per client/run; the mapping to it is at the end of `VideoIngest` |
| `ReceiveSummary` | counters and thresholds, conjoined to the actions of `VideoIngest` |
| `ServiceSession` | the staged launchers |
| `HandoffRuntime` | the two threads of the concurrent runtime |
| `HeartbeatState` | what the server keeps of heartbeats: liveness, the last exchange of a client and run, round-trip and offset estimates with outlier policy and smoothing |
| `ReceiveSendRuntime` | the continuous receive/send launcher: drain cycles, one packet per iteration with its answer and its commits, every failure on the way; composes `VideoIngest` and `HeartbeatState` |
| `HeartbeatSweep` | the server's sweep over silent clients: evaluate, remove the sender, log, notify, export metrics, with every write failing in turn |
| `WireFormat`, `ProtocolCodec`, `HandoffCodec` | byte layouts: client/server packets, handoff requests and answers |
| `ClientHeartbeat` | the client's heartbeat loop and the runner above it, with a server answering over a link that loses, repeats, delays and reorders |
| `HeartbeatTurn` | a completed heartbeat step on its way through the boundaries: order of effects, carry, cleanup, turns, reconnect slot |
| `ClientLaunch` | every client command's plan of steps on its socket, two launches side by side |
| `CaptureSession` | target, session, frame pool and one-shot captures with every call failing in turn |
| `ServerLaunch` | the server commands that handle a fixed number of packets |
| `StartupConfig` | the parsers of both config files, token resolution and the decision on the request |
| `AnnexBReader` | cutting an H.264 byte stream into access units |
| `EncodeSendLoop` | the client's continuous loop with either encoder runtime, ffmpeg and its two pipes |
| `FragmentSend` | cutting a payload into datagrams and sending them, put together again by `VideoIngest` |
| `TargetTimeSource` | selection of frames by target time, in process and over the handoff |
| `LiveTwoView` | the switcher's own receive loop for two clients |
| `TwoViewDisplay` | scheduler, policy, composition and summary of the two-view display |
| `ContinuousDecoder` | the slot-0 continuous decoder: feeder, writer, reader, process, correlation, lookup, budget, restart and stop |
| `FfmpegDecode` | the one-shot decoder and the persistent one with its reader thread, timeouts and fallback |
| `PreviewLoop` | the operator preview: slots, retained pictures, program picture, refresh and incremental compose |
| `ControlledPreview` | fixed and command-driven preview loops, quit guard, control pipe, operator wrapper |
| `VideoIngest_proofs` | theorems about `VideoIngest`, with the refinement of `ScopedFifo` |
| `ReceiveSummary_proofs` | theorems and lemmas about the counters, used by the next two |
| `ServiceSession_proofs`, `Handoff_proofs` | theorems about the staged launchers and the two threads; the first also has those about `FragmentSend`, which is built on the same video core and needs the same sums |
| `ReceiveSend_proofs` | theorems about `ReceiveSendRuntime` |
| `Heartbeat_proofs` | theorems about both ends of the heartbeat: `ClientHeartbeat`, and `HeartbeatSweep` as the instance `Server` |
| `EncodeSendLoop_proofs` | theorems about the client's capture, encode and send loop |
| `Switcher_proofs` | theorems about the switcher: `ContinuousDecoder`, and as the instances `Live`, `Pass` and `Source` `LiveTwoView`, `TwoViewDisplay` and `TargetTimeSource` |
| `MC...` | constants for TLC; `MCClient`, `MCSwitcherSources`, `MCDisplay` and `MCEnds` each explore several components in one run |

Conventions.  A `BTreeMap` is a function over its keys.  An option is a set
with at most one element.  A client or run id is the sequence of its
'/'-separated segments, so `format!("{}/{}", a, b)` is `a \o b` and the blank id
is the empty sequence.  A payload is the sequence of its chunks, a chunk
carries the capture and the place it was cut from and the endpoint that sent
it: that is all the properties tell apart.  `granted` is a history variable.
An operator `Name_Variant` in front of `Name` is a mutated form of it, the
slip that `PROJECT.json` pairs with the property that notices it; no
specification uses it.  In the map of `PROJECT.json` every action has its
lines; a helper that lies wholly within the lines of another definition has no
entry of its own, and an entry takes in the result types and entry points its
definition stands for.

UDP is not a variable of the server's modules: any packet of `Packets` may
arrive in any state any number of times, which covers loss, repetition and
reordering.  Where answers matter (`ClientHeartbeat`) the link is a variable.

Several components in one run.  A component that shares nothing with the others
of its run is explored on its own: `running` is chosen in the initial states
and never changes, the variables of the other components hold the value "off",
and a grouped property such as `DecoderInvariant` says, for each component,
that if it is running then its named parts hold.  The union of the graphs is
what separate runs would explore.  Each named part was falsified by a mutation
of the code it is about; `PROJECT.json` lists one mutation per property.

Correspondence.  `VideoIngest!ProcessPacket` is
`handle_received_packet_with_gate` followed by the dispatch of
`process_received_packet_for_video_queue`; `handle_request` is the handoff
service; the `R...` actions of `HandoffRuntime` are the steps of
`run_receive_loop_until_stopped` between two points where the other thread can
interfere, the `H...` actions those of `serve_many_shared_state` and of the join
in `run_with_policy_and_ready`.  `PROJECT.json` maps every definition to its
lines.

`ReceiveSendRuntime` is a single thread, so an action ends where the outside can
interfere: `BeginIteration` reads the timestamp and enters the receive,
`ReceivePacket`, `ReceiveHeartbeat` and `ReceiveClientStats` are the return of
the receive with a packet and everything `run_once` and
`observe_continuous_iteration` do with it, `ReceiveTimesOut` and `ReceiveFails`
its return without one.  `FailIteration` lists what is already done when a log
write or the send fails; the error ends the run.  Time (`Tick`) passes only
while a receive blocks.  A client's clock is the server's plus `Skew`; a
heartbeat carries any time up to now, and statistics return what any earlier
ack of that client and run said, so heartbeats, acks and statistics are
delayed, repeated, reordered and lost.  `acks`, `heard`, `last_packet` and the
field `now` of the report are history.

`HeartbeatSweep`: a pass is one action, because `run_all_registered` borrows the
registry mutably; who calls it, and when, is external.  `QuietAfter` is the time
after which clients stop sending.  A fresh binding whose client has only
authenticated is judged by the liveness entry its id kept.

`ClientHeartbeat`: the shipped client runs one tick; the driver that feeds
`next_runtime_input` back is external, and the runner repeats the same carried
invocation up to the turn guard.  The reconnect decision is always
`NoReconnectExecution` there, so the re-establishment hook (CL 11102-11182,
12818-12973) is unreachable and not modelled.  After one late ack on a link that
is otherwise reliable no ack is counted again.

`HeartbeatTurn`: the loop's own planning never asks for a reconnect; a caller
that composes a turn itself may, and that is what `ComposeTurn` stands for.
`ClientLaunch`: the launches share nothing but the server, so one server and two
ports are enough for one to take what was meant for the other.  The placeholder
commands expect a direct datagram: with identifiers of 1131 to 1134 bytes in
all the picture goes out in fragments and the command panics after sending
(CL 5398, client `main.rs` 104-170).  `CaptureSession`: the stripes painted for a
label that is no player may leave the marker's box.  `ServerLaunch`: the bounded
summary counts a statistics return as sent although none is (SL 2766-2785).

`StartupConfig` takes a line as what the parsers see of it: a header, an
assignment or neither, where a '#' cuts it, and whether the value has quotes.
What follows from the code and no text says: a wrong log destination is reported
at the first `destination` of any section, or at line 0 (SL 4010); one client's
missing token variable turns every request into an internal error (SL 9401); a
request of another protocol version is not answered at all; the commands that
send pictures read the client's file twice; a rate above a million gives a frame
interval of zero; a connect timeout of zero ends the launch at the socket.

`AnnexBReader` hands a picture out when the first NAL unit of the next one has
ended, which takes a third start code: pictures of one NAL unit come out two
behind.  `first_mb` is one byte, as it is for pictures up to 1080p.  A read may
have any length from one byte on; one that leaves less than the stream's first
start code in hand makes the stream malformed and the caller gives the session
up, and `RefusedOnlyAtTheStart` says that no other cut does.
`EncodeSendLoop`: a frame write blocks because a raw frame is much larger than
the pipe; `Ahead` is the number of later pictures that must have begun before
one is complete; `build_frame` cannot refuse; a read without a unit ends the
tick, so a cut picture is not sent.  Counters that only reach a log line are
left out here and in all switcher modules.

`ContinuousDecoder`: one action per critical section or blocking call of
feeder, writer, reader and caller; ffmpeg answers in order, holds pictures
back, and may die.  The queue length counter, which only classifies diagnostics,
goes down with the `recv` of the writer, in the code one statement later (WM
5033-5034), so `QueueLenCounts` is exact in the model and one behind in the code
in between.  All inputs have one size: in the no-scale experiment an input of
another size is refused before anything happens (WM 4516-4520).  `FfmpegDecode`: ffmpeg is external, holds back `Delay`
pictures and may die; the pipe takes at least one payload.  The reader probes
for extra output until the end of the stream (WL 8208), so a living persistent
process never answers: every wait times out and the first timeout disables it,
as docs/operations/persistent-decoder-plan.md:36-38 reports;
`AnswersOnlyAtTheEnd` states it.  The branch for a reader that is gone at the
request is unreachable (`ReaderIsThere`).

`TargetTimeSource`: consuming over the handoff is library-only; the response's
`request_id` is not compared; reads after the connect have no timeout.
`LiveTwoView` is the diagnostic path: an endpoint stands for endpoint and run,
the schedule clock advances by one interval per tick, a failed send leaves the
client registered.  `TwoViewDisplay` is a library boundary whose caller carries
the displayed frames; `MaxCanvas` stands for the limit of u32; in process the
pass borrows the queues, over the handoff they move between requests.

`HandoffRuntime`: of the three ways a response can fail to leave (server
`lib.rs` 6583-6591) only the write can happen: whatever is to be encoded came in
under the limits of the encoding, and flushing a `File` does nothing.
`PreviewLoop`: a picture is the pair of the slot's client and the frame id;
placeholder slots are left out.  A tick is cut where the server or the decoder
may act: `Store` between reads, an output of the decoder before a lookup.
`ControlledPreview`: frames, decoder and window system are external; time
counts only while the quit guard is armed.  Making the next pipe instance while
the last client has not closed may be refused and then ends the preview; a
command whose answer cannot be written is executed but not counted.

## Runs

| Run | Shows |
| --- | --- |
| `video_ingest` | only authenticated chunks, whole captures, bounded queues, reads in scope, a decodable frame that stays available, nothing queued for a binding that was replaced; `VideoIngest` implements `ScopedFifo` |
| `service_session` | counters agree with the state after any packets, the loop stops exactly at its thresholds, the serve stage works on what was reported, the session ends |
| `handoff_runtime` | no wake-up is lost, the end of either thread ends the runtime, the verdict names a cause, the summary covers the queue, every request is counted |
| `receive_send_runtime` | answers leave in the iteration of their request, timeouts are reported within one receive timeout of the truth, the run stops only after real silence, at its limit or with an error, and always ends; its counters add up; only authenticated clients leave a trace |
| `clock_offset` | every committed offset is within its error bound; smoothing neither overshoots nor mixes runs |
| `client` | heartbeat loop and sweep count, retry, expire and tell correctly; launches of either side stop at their first failure, count what they did and read their files as the files say; pictures leave the byte stream whole, in order and at their cadence, in fragments the server joins again; codecs are inverse and refuse damaged packets |
| `switcher_sources` | decoders pair input and output whatever thread or process ends; selection takes and drops what its rules say; the live two-view shows only authenticated, eligible frames |
| `display` | each slot its own client, retained pictures stay, playout follows the decoder, a failing view leaves the other alone, commands run once and are answered, quit is confirmed |
| `ends` | loops, threads and processes told to stop do, bounded runs end, nothing accepted or expired waits for ever |
| `scope_key_collision` (violated) | identifiers with '/' make two scopes share a retained keyframe |
| `duration_race` (violated) | a duration that expires between check and use ends the run with an error and without its summary |
| `encoder_backpressure` (violated) | the loop waits for the encoder to take a frame while the encoder waits for the loop to read its output |

Bounds.  Two clients, one with two runs and two endpoints, are the smallest
instance in which bindings are replaced and runs share a queue.  Queues of two
frames overflow with the third; frames of two chunks can be incomplete,
reordered and repeated; frame 3 is captured twice under the same id, so chunks
of two captures compete for one entry.  `MaxVideoPackets` (4 and 5) exceeds what
a threshold needs, so both ways to stop happen.  `WakeAttempts` is 2 where the
code has 101: one attempt fails before and one after the pipe is created.  Two
handoff requests let one be served before the limit.  No symmetry is used.

`receive_send_runtime`: four iterations hold an authentication, a heartbeat, a
drain cycle of two packets and a silence; a receive blocks for one unit and the
heartbeat timeout is two, so clients time out between iterations.  `MaxClock` is
5, later than any run of four iterations gets, so it cuts nothing off.
`clock_offset`: six iterations hold two authentications and two exchanges, which
is what it takes to smooth an estimate and to replace a run; there are no
failures, and `MaxClock` is 2, which lets acks and statistics be up to two units
late.  `OffsetsAreBounded` and `SmoothingIsSound` do not depend on it.

The bounds of the other runs stand with the constants in `MCClient`,
`MCSwitcherSources`, `MCDisplay` and `MCEnds`.  The rule is the same: one more
than the smallest number that lets a buffer overflow, a second item overtake the
first, a retry follow a failure and a process die with work in flight.

In `client` the reader's `ReadLen` is 12, longer than any start code and than most
pictures of the streams, and reads have 1 to 12 bytes: they cut
first start codes of three and of four bytes, later start codes, headers, slices
and emulation bytes, and take in parts of two pictures at once.  In `display` the
preview loop runs with retained snapshots in four ways: smoothly, refreshed on
each of two ticks or skipped on the second; and decoded one by one over three
ticks with a refresh on the first and the third, with a program window (the
second tick is skipped) and without (it is drawn).  So a picture drawn once is
followed by a drawn tick whose read failed, had no frame or was not decoded.

`handoff_runtime` and `receive_send_runtime` both check `ImplementsVideoIngest`:
seen through the registry, the reassembly and the queue, either launcher does
nothing that the core alone might not do, so what `video_ingest` checks and the
proofs establish holds there too.

Fairness.  `ServiceSession`: weak fairness of the receive step, because the
socket has a read timeout by then, and of leaving a loop that has reached its
bound.  `HandoffRuntime`: weak fairness of each thread; a receive returns at its
timeout, and a switcher that has connected sends its request or closes the pipe
(what the model takes as a read error).  Nobody need ever connect.
`ReceiveSendRuntime`: weak fairness of the server's own steps and of time, so a
blocked receive returns at its timeout; packets need not arrive, and nothing
need fail.  `MCEnds`: each component's own threads and timers are weakly fair,
strongly where a lock or a channel must be won against another thread; link,
senders, operators and failures are not fair.  Fairness over the disjunction of
the components is fairness of each, because `running` never changes.  The
encoder's run assumes that loop and encoder each take a step they can take.

Deadlock is checked everywhere but in `ends`, where components simply stop; a
finished launcher stutters explicitly.

## Findings

Shown by a run:

* `client_run_scope_key` joins ids with '/', which nothing keeps out of them.
* The read timeout is clamped to a remaining duration that can be zero by then;
  the operating system refuses a zero timeout.
* The continuous encoder loop writes a frame and then reads once, both blocking;
  pictures larger than one read fill ffmpeg's output pipe and both wait for ever.

Other places where code and text differ.  The property that says what the text
says is defined in the module, but is no property of a run:

| Code | Text | Property |
| --- | --- | --- |
| A frame all of whose chunks come again is queued again (SL 7092) | protocol.md:2912 | `DuplicateChunksQueueNothing` |
| An ack's receipt time is read before the receive that may block, so an ack can claim a receipt before the sending (SL 3147) | protocol.md:1082 | `ReceivedAfterSent` |
| A picture of the persistent encoder carries id and capture time of a later tick (CL 7208) | protocol.md:2892 | `CaptureTimeIsThePictures` |
| A first read shorter than a start code is a malformed stream (CL 4400); the `client` run explores such reads, and `RefusedOnlyAtTheStart` says that this is the only way in which cutting matters | "accepts arbitrary stdout byte chunks", comment CL 4221 | `AcceptsAnyChunks` |
| An encoder with lookahead writes nothing before it has more frames, and the loop waits for its first picture (CL 4025) | system-design.md:8456 | `RunEnds` |
| A frame that render demand enqueues overtakes older ones the feeder feeds later (WM 4568) | continuous-feed-drain-plan.md:112 | `FedInOrder` |
| The feeder checks the previewed head and consumes whatever is the head by then (WM 6962) | continuous-feed-drain-plan.md:89 | `ConsumesOnlyDueFrames` |
| After out-of-order feeding the newest decoded picture is not the nearest (WM 4035) | continuous-decoded-lookup-plan.md:80 | `BoundedHitIsNearest` |
| Over the pipe, look and take are two requests; a newer frame can be dequeued and lost (WL 1575) | system-design.md:10651 | `DequeuesOnlyEligible` |
| When the second take of a pair fails, one side is consumed (WL 3104) | system-design.md:10716 | `AllOrNothing` |
| The client's offset is added to the target as well as to the captures and cancels (WL 6445) | comment WL 5036 | `TargetInServerTime` |
| A restarted persistent decoder is not asked for a key picture (WL 7300) | the error "persistent_bootstrap_requires_sps_pps_idr" | `FreshProcessGetsAKeyPicture` |
| A refresh compares with the skipped tick and may keep an older picture (WM 10319) | obs-capture-validation.md:246 | `RefreshShowsSlots` |
| After a read or decode error the slot shows its snapshot although the program has a newer picture (WM 8981) | obs-capture-validation.md:348 | `FreshBeforeSnapshot` |
| A window the operator closed goes on reporting "rendered" (WM 15921) | the result's name | `RenderedIsSeen` |

## Proofs

Every safety invariant and action property of the five server runs is a theorem:
it holds for all values of the constants, where TLC shows it for small ones.  On
the other side of the network the heartbeat loop, the encode and send loop, the
fragmenting sender, the sweep, the continuous decoder, the live two-view runtime, the two-view display
and the target-time selection are proved.  The assumptions are the ones the modules name
(`...Assumption`).  Those of the video core are `ASSUME`s that TLC evaluates in
its runs, the others are hypotheses of the theorems.  They
say that constants are of their kinds, that a datagram's labels are true, that
heartbeats and statistics come from `Senders` and not `Packets`, and that a
configuration is finite.  What a theorem adds to them stands in its statement.

Video core (`VideoIngest_proofs`).  `OnlyAuthenticatedVideo` and
`PayloadIsOneCapture` speak of frames, but a frame is made of chunks that waited
in the reassembly and is let in by the registry, so the inductive invariant
`HeldInv` adds that every registry entry was granted and that every waiting chunk
belongs to its entry's capture and to an authenticated endpoint of its scope.
`IngestIsInvariant` and `IngestStepsAreAllowed` state the run's grouped
properties; their parts are theorems of their own.  `DecodableNeverLost` needs
nothing further: the keys of the retained map only grow, and every queued
keyframe has one.  `RetainedIsNewest` and `ReadsInScope` hold under
`ScopeKeysInjective`, the condition whose failure `scope_key_collision` shows;
`ScopeInv` says where queued and retained frames belong, and `StoreKeepsNewest`
and `PopKeepsNewest` follow the newest keyframe through eviction and through a
removal from the middle.

`IngestImplementsScopedFifo`: the queue of a client interleaves its runs, the
abstract specification has a queue for each.  A run's queue is the shared one
read at the positions of its frames in increasing order; that there is exactly
one such reading is the counting argument of `VideoIngest_proofs`, and the
theorem follows it through an append, an eviction at the head and a removal from
the middle, where the positions behind the gap are renumbered in order.  It too
assumes `ScopeKeysInjective`.

Counters (`ReceiveSummary_proofs`).  A report is compared with sums over the state: queued frames
of all clients, chunks of all waiting frames.  Such a sum is a recursive function
on the subsets of a finite set, so what a single change does to it is proved by
well-founded induction over the sizes for which the claim holds.  A queue
without capacity (`MaxFrames = 0`) takes no frame although fragments are still
put together, which is why `frames_queued` has a case for it.

Launchers (`ServiceSession_proofs`).  `SessionReportsAgree`: `SessionInv` joins
the counters, the stage, the threshold that ended the loop and
`ServedFromReportedQueue`: what is left in the queue is what was reported less
what switchers took.

The two threads (`Handoff_proofs`), for every limit, number of wake-up attempts
and set of failures: `RuntimeImplementsIngest`, `WakeupNotLost`,
`VerdictsHaveCauses`, `RequestsAddUp` and `RuntimeReportsAgree`.  The stop flag
does not say who set it, so `ThreadInv` does: a set flag has an author that
stopped for a reason of its own (`FlagInv`), and the pipe exists only between its
creation and the end of the request (`WakeInv`); a thread that follows the flag
therefore follows the other one.  `CountingInv` ties the summary to the state while the
receive thread counts, `ReportInv` to the queue once it has stopped; `RequestInv` adds that a
request is begun only below the limit.

Receive and send (`ReceiveSend_proofs`), for every skew, timeout, drain limit and
set of failures: `ReceiveSendIsSound`, `ReceiveSendImplementsIngest`,
`ReceiveSendKeepsVideo`, `AuthenticatedHeartbeatsOnly`, `OffsetsAreBounded` and
`SmoothingIsSound`.  `ClockInv` follows an exchange: while the receive blocks the
iteration's timestamp is at most `ReceiveTimeout` old; the queue is empty between
iterations, so an ack leaves in the iteration that made it and carries a
timestamp that old at most; an observation is only used with the timestamps of
one ack; the rest is the arithmetic of `CalculateBounded` and of the truncating
division.  `OnlyAuthenticatedHeartbeats` uses `RegistryGranted` of the core
through the refinement.

Sweep (`Heartbeat_proofs`, instance `Server`): `SweepIsSound` and `SweepStepsAreAllowed`.  An
entry outlives its binding, so the invariant keeps the time each binding was last
heard equal to the entry that will judge it; the notices of a pass are those of
the removed clients in order, and a finite registry has one such order.

Heartbeat loop (`Heartbeat_proofs`): `ClientLoopIsSound` and
`HeartbeatsKeepTheirInterval`, for every interval, limit and retry policy and
every loss, repetition and reordering.

Encode and send loop (`EncodeSendLoop_proofs`), for either encoder runtime, every
limit, pipe size and failure: `LoopSafe` and `LoopPaces`.  A frame is known by
its name from its capture to the reader's buffer, and on the way the names only
grow, from the reader's buffer back through the encoder's pipe to the frame the
loop holds.  The order is what makes each captured frame have one fate: a
picture leaves before everything still in the pipeline, so nothing sent
can be met again.  The counters of attempts are sums over their outcomes with
the unfinished attempt added; the session, the process and the reason to stop
are separate conjuncts of `IInv`.

Fragmenting sender (last part of `ServiceSession_proofs`): `FragmentSendIsSound`,
the whole invariant of `FragmentSend`, for every sequence of frames, every
length of identifier, datagram and chunk, every failing send, and every loss,
repetition and reordering on the way.  The invariant has one part for each end.
`ClientInv`: what is left to send are the last fragments of the current frame,
and the wire holds what the reports, and the progress of the current frame, say
was sent.  `ServerInv`: a waiting entry belongs to one frame, every chunk in it
was accepted, and one is missing; whatever was accepted of a frame waits there or the
frame was queued; and of a queued frame every datagram was accepted.
`FragmentFits` is the arithmetic of the planned chunk length,
and `PiecesAddUp` shows by induction over the number of pieces that the chunks
of a payload are as long as the payload, so the server never refuses a complete
frame for its length.  The hypotheses: a client's captures have different stamps
(in the model the stamp is the capture); two frames that are cut do not share
client, run and frame id, as within a run the id counts up (otherwise the second
finds the first one's entry); the datagrams of the frames are among `Packets`;
and the queue has capacity, since without it an accepted frame is not queued.
TLC checked the invariant, and that the instance of the run satisfies the
hypotheses, before it was proved.

Continuous decoder (`Switcher_proofs`), for every bound and every
interleaving of the main thread, the writer, the reader and the process.  The
argument has two layers.  `FeedInv` holds whatever the process does: the accepted
inputs are those drained, then those emitted, then those between the channel and
the reader, in the order they were fed, which gives `DecoderKeepsOrder`.
`PairInv` is about the pictures: as long as the process has swallowed nothing,
the pictures it still owes are those of the correspondence queue position by
position, so the one that is matched by position only is the right one, which
gives `DecoderIsSound` (under `MaxSkips = 0`, as `DecodedUnderOwnKey` says).
Draining folds the waiting events into the cache; its effect is proved by
induction over the events.  `PreviewStaysInBudget` is the step property.  TLC
checked `DecoderInv` as an invariant before it was proved, also with a process
that swallows a unit.

Live two-view runtime (`Switcher_proofs`, instance `Live`), for every schedule,
clock offset, packet budget and failure.  A view is shown after its endpoint
authenticated, so `LiveInv` says that the bindings are made before the first
tick; and the count of draws is compared with the counts
of outcomes, which grow in other actions.  `LiveIsSound` needs nothing else.
`LivePairsInSync` and `LiveSelectsTheClosest` are about distances between times
that the code computes with saturating subtraction: they hold under
`ClocksPastZero`, which says that no capture lies before the zero of the
server's clock and that the target does not saturate.  Without it two frames far
apart can both count as being at zero.

Two-view display (`Switcher_proofs`, instance `Pass`): `TwoViewsAreSound`, the
whole invariant of the module, for every set of frames, offset, policy and
canvas.  `DisplayInv` follows one pass through its steps: the window agrees with
what counts as displayed except between the drawing and the policy that
accounts for it; in process the queues stand still during a pass, so what was
said of a late head is still true when it is dropped; and the canvas of either
layout is as large as its slots, whatever pictures are put there.  TLC checked
`DisplayInv` before it was proved.

Target-time selection (`Switcher_proofs`, instance `Source`): `SelectionIsSound`
for both ways to reach the queues, `InProcessSelectionIsSound` for the one
without a pipe.  A selection reads in several steps and takes in a later one,
and over the handoff the queues move in between, so `SourceInv` cannot say that
what was seen is still there.  It says that a frame stands once in the queue of its
client and that a retained keyframe is of the scope it is kept for; what was
seen therefore was a frame of the view when it was seen.  `StandingInv` adds for the selection in process that the head looked
at is the head that is taken.  Two hypotheses stand in both statements:
`ScopeKeysDiffer`, the condition whose failure `scope_key_collision` shows, and `OneViewPerClient`, because a selection counts what it
takes by client (the switcher's command line takes two slots that differ).  TLC
checked both invariants before they were proved, in process and over the
handoff.

Only model-checked:

- of the client, `ClientLaunch`, `HeartbeatTurn`, `CaptureSession`
  and `AnnexBReader`; of the switcher, `PreviewLoop`,
  `ControlledPreview` and `FfmpegDecode`; of the server, `ServerLaunch` and
  `StartupConfig`.  The runs' grouped properties (`MCClient`,
  `MCSwitcherSources`, `MCDisplay`) include these components, so a theorem
  states its own component's part of such a property;
- the codecs, whose definitions recurse over bytes;
- `OldestFirst` of the selection, which compares subsequences (`SelectSeq`), and
  so is induction over data; `LateAnswerDesynchronises` of the heartbeat loop;
- `EveryRejectionCounted` of the sweep, a sum that the tally has to match, and
  the types of the launchers;
- all liveness, which is out of the prover's reach.

## Not modelled

Command-line options, log records, the string handling inside one line of a
config file, pixel work, the Windows calls behind capture and window, and the
crates that are still empty.  Encoding errors of the server's own responses, and
the poisoning of the mutex, would need a bug elsewhere first.

## Plan

1. Theorems about `PreviewLoop` and `ControlledPreview`.
2. `EveryRejectionCounted`, with the sums of `ReceiveSummary_proofs`.
