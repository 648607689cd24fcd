# couchlink in TLA+

couchlink lets friends on the network play a local split-screen game: a *host*
captures and encodes the game and streams it over WebRTC to up to three
*players*, in a browser or in a native client, whose pads become virtual
controllers on the host. A *signaling server* brings the two together. When the
host runs under WSL, a *capturer* and a pad *companion* are Windows processes
beside it.

This directory holds TLA+ modules translated from that code, TLC configurations
that check them on small instances, and TLAPS proofs of the properties that
matter most for every instance. `tlc -config X.cfg M` runs a configuration;
`tlapm M.tla` checks a module's proofs. PROJECT.json lists the components, the
runs, the theorems, the source lines behind every definition, the hazards, and
one mutant for each property: a small bug that makes the property fail. A mutant
is defined beside the operator it stands for and its comment says so; it is in no
specification.

## The system

| component | state | operations | talks to |
|---|---|---|---|
| signaling server (`crates/signaling`) | per session: PIN, host socket, player table with epoch, PIN failures and lockout, last activity; per socket task: role, slot, session | register host or player, relay, heartbeat, close, sweep every 60 s | hosts and players over websockets; tasks share the session map |
| host supervisor (`host/signaling_client.rs`) | socket, inbound and outbound channel | connect, register, pump, ping, reconnect | server; host main loop through the channels |
| host main loop (`host/main.rs`) | peer per slot, with the epoch it was built for; commanded target; rate window; keyframe flags and clock | joins and bursts of joins, departures, answers, requests, client reports, the cadence tick | supervisor, WebRTC peers, governor, capture bridge |
| WebRTC peer (`host/webrtc_peer.rs`) | offer epoch, signaling state, present path, data channels, keyframe request and its coalescing clock | offer, answer, push a frame, read pads, RTCP | player |
| link governor (`host/link_gov.rs`) | target, two hysteresis counters, congestion seen, loss in this window | note a report, close a window | main loop |
| capture bridge (`host/capture`) | connection to the capturer, last frame, outage, frame and session clocks, target | read a frame, accept or dial, resynchronise, relaunch, command | capturer, over TCP or Hyper-V sockets |
| Windows capturer (`crates/capture-bridge`) | target in atomics, encoder and its size and rate, fallback flag, queues | capture callback, encoder thread, command reader, socket writer | the bridge; Windows |
| encoder stream (`mf_encoder.rs`) | parameter sets learnt | rewrite a sample, put sets before a keyframe | encoder, writer |
| video frames (`proto/video_frame.rs`, `web/src/clvd.ts`) | the access unit being assembled | fragment, parity, header, assemble | WebRTC peer, browser |
| browser player (`web/src/player.ts`, `App.tsx`, canvases) | websocket, peer connection, last offer epoch, health, recovery timer; view and its decoder; pad hold | connect, offer, peer left, recover media, promote a view, poll the pad, report | server, host peer |
| native client (`crates/client`) | window, network thread, shutdown channel, track reader, decode queue, keyboard and readers | join, rejoin, tick, read, decode, close | server, host peer |
| pads (`crates/pad`, `proto/pad_frame.rs`) | readers, parsers, virtual controller, connection to the companion | recognise, parse, pack, map, inject, reconnect, rumble | player's devices, host's drivers |
| companion (`crates/ds-vhid`) | connections, controller of each seat | hello, find or make the controller, apply reports | host's pad client, Windows driver |

What is hard:

- **Concurrency.** Socket tasks of the server run in parallel and take the
  session's lock several times each. The capturer's threads share atomics that
  are stored one by one. The native client replaces its network thread by a loop
  of the main thread while the former may be in an await. The browser's handler
  of an offer awaits four times.
- **Identity over time.** A reloading browser or a reconnecting host leaves an
  old socket that closes after the new one has registered. Table epochs, offer
  epochs and channel identity tell old from new, and each starts again at a
  different moment (server start, peer construction, page load). Pad
  connections overlap across a companion's restart and a rebuilt peer.
- **Lost and reordered work.** A link breaks with messages queued; a burst of
  joins is applied before what was queued between them; fragments, pad frames
  and requests for a keyframe get lost, cut, coalesced or ignored.
- **References.** An encoded frame refers to the one before. Whatever is shed on
  any of five queues breaks the chain until a keyframe comes, and something has
  to ask for it.
- **Clocks.** The bridge kills and relaunches a capturer by three clocks and two
  floors; the governor's decisions need long sequences of windows; media
  recovers by timers that race with late success.

What makes each component correct:

- server: seats and tasks agree; nobody is seated without the host being told;
  epochs tell registrations apart; a stale close touches nothing;
- host and player: a seated player ends connected to a peer made for its
  registration;
- governor: falls and rises are earned; bitrate is held until congestion is seen;
  it recovers on a clean link and drains a bad one;
- capture: a dead capturer is relaunched and a working one left alone; the
  target survives; the picture heals; the encoder follows rate and size, answers
  requests, never waits for itself, and its death is followed by raw frames;
- stream: units unchanged, entry at every keyframe; what is assembled is what
  was sent; a broken picture heals in bounded time;
- client: one loop at a time, bounded delay, no torn stream, it can be closed;
- pads: the game sees what the player holds, through one controller per seat.

PROJECT.json lists the hazards behind these, each at its line.

## Modules

| module | models | checked by | proved in |
|---|---|---|---|
| `Signaling` | one session of the server, one step per stay under its lock | `SignalingRaces` | `SignalingProofs` |
| `Session` | host process, browser players, and the server between them | `SessionServes` | `SessionProofs` |
| `LinkGov` | the governor, the report handler and the rate window | `LinkGovCore`, `LinkGovWedged` | `LinkGovProofs` |
| `CaptureLink` | the bridge, the socket, the capturer's life and its relaunch | `CaptureRecovers` | `CaptureLinkProofs` |
| `CaptureEncoder` | the threads inside the capturer | `EncoderMoving` | `CaptureEncoderProofs` |
| `NalStream` | the rewriting of the encoder's samples | `NalRewrites` | `CaptureEncoderProofs` |
| `VideoPath` | the cadence tick, peers and viewers, and keyframe requests | `VideoHeals` | `VideoProofs` |
| `FrameChannel` | what the video data channel promises | as a property of `ClvdChannel` | `VideoProofs` |
| `Clvd` | fragments, parity, headers and the assembler | `ClvdChannel` | `VideoProofs` |
| `PadDevices` | controllers, readers, virtual controllers, rumble reports | with `PadReports` | `PadsProofs` |
| `PadReports` | one press or rumble through every parser and mapping | `PadReports` | `PadsProofs` |
| `Pads` | one button over channel, reconnecting client and companion | `PadsFollow` | `PadsProofs` |
| `NativeClient` | the client's threads, window, keyboard and video queue | `ClientEnds` | `NativeClientProofs` |

Each checked module has an `MC` module that gives the configuration its sets.

How they fit: `Signaling` shows how the server's handlers interleave; `Session`
composes the host, the players and the server, each registration, close and relay
being one step. `LinkGov` decides the target that `CaptureLink` carries to the
capturer and `CaptureEncoder` builds. `CaptureEncoder` makes the stream whose
bytes `NalStream` rewrites, `CaptureLink` carries to the host, `VideoPath` pushes
to the viewers, and `Clvd` cuts up for the data channel; `NativeClient` ends with
the decoder. `PadReports` says what one report means, `Pads` when it arrives.
Each module takes what its neighbours do as its own nondeterminism: `VideoPath`'s
frames may be raw or encoded and get lost, `CaptureLink`'s capturer may fall back.

### Signaling

`exists, pin, host, slots, epoch, failures, locked, idle` are the fields of
`Session` and its `PlayerTable` that decide something; clocks become Booleans
(locked out or not, idle for longer than the time to live or not). A socket is
the identity of its channel (`same_channel`). `task, role, mySlot, myEpoch, pend`
are the locals of `handle_socket` and the place it has reached. The channel to a
host is reduced to the newest epoch announced per slot.

Each registration is one action under the lock (`HostRegisters`,
`PlayerRegisters`, `WrongPin`) and one for each later stay: `AnnounceJoin`,
`SeatedReplay` and `ReplaySend`, `RecordPinFailure`. A close is `CloseHost`,
`ClosePlayer` or `CloseUnregistered`, then `AnnounceLeft`. The sweep is
`SweepCollect` and `SweepRemove`. A refusal that changes nothing is a stutter.
A socket registers in one role only, as every client of this repository does.
Of the relayed messages only the addressing is kept: `Stamps` is the slot under which
the host gets what a player's task relays, `Routes` the task that gets what the host
sends to a slot.

### Session

The server is atomic here. The host's inbound channel is a queue;
`HostCoalesces` and `HostCatchesUp` are the two halves of a rejoin burst, with
messages arriving meanwhile. The outbound channel outlives the link, and what a
failed send was given is lost. A player is its queue, its peer connection (which
host peer it was made for), `lastOfferEpoch`, whether it is healthy, whether its
recovery timer is set (`armed`), and the offers its handlers hold between their
awaits (`applying`): `TakesOffer` ends where `applyRemoteOffer` first awaits,
`AnswersOffer` is what it does once WebRTC has taken the description, `ResetPeer`
what `peer_left` and the timer do in between.

Kept out: ICE candidates, pads, statistics, split-screen settings. Assumed of
WebRTC: a description taken in place works as a new connection would, two ends
with each other's descriptions connect, and an end without its counterpart
fails, after everything on its way has been read (ICE needs tens of seconds).

### LinkGov

A target is a frame rate and a bitrate; the two ladders are functions of the
position. `ClientLinkStats` is the handler of a report with the notes it makes;
`CloseWindow` is the end of a rate window and contains `on_window` whole. `last`
is history.

### CaptureLink

Time is counted in ticks; the bridge's clocks (`downFor`, `respawnAge`,
`healthyAge`) count up to the largest value anything compares them with.
`healthyAge` is the time since the later of the last frame read and the acceptance of
the session; `drained`, history, counts the joins since that threw frames away. `Capture` is one poll of the frame loop: reconnect if there is no
connection, read what is there, decide on a relaunch, serve a kept frame.
`Resync`, `SetTarget` and `AskKeyframe` are the other calls. On the far side
`phase` is the capturer's life (gone, starting, up, hung, sleeping in its
launcher); `Encode`, `WriteFrame`, `WriteLost`, `WriterReady` and `WatchCommands`
are its encoder (reduced to frames that are a keyframe, refer to the one before,
or refer to one that was lost), writer and reader; `RunScript` and `Start` are the
relaunch. `Crash`, `Hang`, `Cut`, `SourceClosed` and `GpuFallback` are faults.
`Tick` waits until the bridge has been polled, and its other guards are the
timing assumptions below.

### CaptureEncoder

`WatchCommands` and `ApplyTarget` store a target in its four atomics and then raise the
keyframe flag, one store a step, and every reader loads them one a step too, so that a
size and a rate can be mixed from two targets. The callback is `ScreenChanges` (it loads
the width), `OnFrameArrived` (it loads the height and chooses its path) and `SendFrame`.
The thread is `StartBuild` and `Build`, `TakeIdr`, `NeedInput`, `Feed`, `FollowTarget`
and `HaveOutput`; its locals are variables of the same names. `Feed` takes the surface of
a beat and compares its size, `FollowTarget` compares the rate, whose frame rate was
loaded before its bitrate, and submits, drops or keeps the surface.

What the machine's encoder can do is the record `machine`, chosen at the start with the
host's commands (`orders`) and the number of `faults` to come: the rates it is built with,
the device, the conversion on the GPU, a new rate while running, whether it makes a
keyframe when told to, how many pictures apart the build bounds its keyframes (`spacing`, 0
for no bound), and the input requests it keeps outstanding. `RequestKeyframe` is
`request_keyframe`: without an `ICodecAPI`, or when the value is refused, nothing is
forced. Keyframes are then bound to come only where the build fell back to Baseline,
the one branch that sets their spacing (`BoundsGop`; the spacing is taken to be
honoured); any other encoder may make one or not. `credits` and `inside` are the external
encoder's: an asynchronous transform posts one input event for each surface it is given.
`EncoderFails` ends the thread.

### NalStream

Bytes are numbers below `Base`. `ReadSample` is the whole of one read: is it
Annex-B, rewrite the lengths if not, learn parameter sets, put sets before a
keyframe that lacks them. `Renegotiate` is a change of the stream with a new
header. The encoder's emulation prevention is external: a payload never looks
like a start code. `known` and `outdated` are history: whether the stream has shown
its parameter sets, and whether it hides them after another's were learned.

### VideoPath

`TickEncoded` and `TickRaw` are the two halves of the cadence tick: collect the
requests, push, decide on the next keyframe, in the order of the code. `Rtcp`,
`HostOpensDc`, `ViewOpensDc`, `Statistics`, `DecoderFails` and `Connect` are the ways
to ask for one, `Ask` the coalescing. `PathArrives` is a report of the present
path. A viewer is what it can decode (`pic`), for how long it could not (`since`,
history), and the state of its WebCodecs view. One unit of time is the coalescing
window. RTP is always on, as `should_send_rtp` says; `RtpOn` stands for it so that
the code that depends on it is there.

### Clvd and FrameChannel

A payload is a sequence of bits, a header a sequence of words whose number depends
on the version. `Send` fragments an access unit, with parity or not; `Lose` and
`Receive` take any message off the channel, and `Receive` is `push_fragment` whole.
`FrameChannel` has two actions, push and deliver once; `Clvd` implements it with
what was sent and what the assembler returned.

### PadReports, PadDevices and Pads

`PadReports` follows one state of the controls from the raw report through
recognition, parser, packet and mapping to what the game reads, and one rumble
back. A report is a set of places (byte and bit) with hat, sticks and triggers as
numbers, so that two parsers that look in different places differ. `PadDevices`
says which of the plugged-in controllers is heard (four readers, one device each)
and which virtual controller the host finds (six drivers, in the order of its
attempts).

`Pads` keeps one button and looks at time instead: the client's or the browser's
sampling with its hold and resends, the unordered and lossy channel, the host's
handler and reconnecting client, and the companion's connections, each `Lookup`,
`Make` and `Serve` around the registry's lock.

### NativeClient

`main` is where the main thread stands; `net` the loop of the network thread and
the loop the main thread runs instead after its window failed. `WindowEnds`,
`FallBack`, `Reexec`, `Exit` follow `main`; `Registered`, `Stop`, `Offer`, `WireEnds`, `Forward`
and `Tick` a loop. `Arrive` to `HandOver` are the track reader on either side of the
counter it shares, `Take`, `Discount` and `Decode` the decode thread.

## Runs

| run | checks | result | distinct states |
|---|---|---|---|
| `SignalingRaces` | `TypeOK`, `SeatAgreement`, `NobodyStranded`, `EpochsDistinct`, `HostRoleKept` | hold | 2.08 M |
| `SessionServes` | `Served`, `Connects` | hold | 1.01 M |
| `LinkGovCore` | `BitrateHeld`, `FallsOnlyWhenBad`, `RisesOnlyWhenClean`, `RecoversUnlessWedged`, `DrainsUnlessWedged` | hold | 2 282 |
| `LinkGovWedged` | `Recovers` | violated | |
| `CaptureRecovers` | `KeptFrameFits`, `WorkingIsLeftAlone`, `Recovers`, `GapHeals`, `TargetReached` | hold | 602 k |
| `EncoderMoving` | `NotStarved`, `IdrAnswered`, `FollowsTarget`, `FallsBackUnlessTexture` | hold | 429 k |
| `NalRewrites` | `Unchanged`, `JoinsAtKeyframe` | hold | 844 |
| `VideoHeals` | `HealsInTime`, `WarmsUp` | hold | 216 k |
| `ClvdChannel` | `ImplementsFrameChannel`, `EnoughIsEnough` | hold | 324 k |
| `PadReports` | `ReportExact`, `StickFollows`, `TriggerSeen`, `RumbleFelt` | hold | 772 k |
| `PadsFollow` | `OneController`, `SeatKept`, `PressFollows`, `ReleaseFollows` | hold | 236 k |
| `ClientEnds` | `OneClient`, `NeverOrphans`, `DelayBounded`, `LastWord`, `CloseEnds` | hold | 247 k |

What each shows is in PROJECT.json ("about"), and what each property says in the
comment before it.

**Bounds, and why they are enough.**

- `SignalingRaces`: seats and sockets are only compared. Two hosts are a replaced
  and a live one; two players and two seats give a second occupant of a seat and a
  neighbour that must not be disturbed; two wrong PINs make a lockout; one expiry
  makes a second session of the same name. The epoch saturates at 3: a registration,
  a replay and another registration have been numbered by then, and the proof covers
  larger epochs. Sockets are symmetric; `HostRoleKept` is a property of steps, for
  which symmetry is sound.
- `SessionServes`: three registrations make a burst with a successor, or a player
  that comes back twice; one departure frees a seat in between; one break makes the
  host's replay, or one restart the server's. Without symmetry, since `Connects` is a
  liveness property.
- `LinkGovCore`: three reports is what a browser that reports every two seconds can
  send in a window of five. At 300 frames a window, 33 shed frames are 9 % and 60 are
  16 %, either side of the severe threshold of 12 %. `LinkGovWedged` uses the 90 fps
  preset, whose rungs show the case in the fewest windows.
- `CaptureRecovers`: the intervals of 3, 4, 5 and 6 ticks keep the order of the code's
  1.5, 2, 5 and 20 seconds, with a capturer that shows a frame in every tick or every
  other; two events give a fault during the
  recovery from another, or a join or a new target during one; two targets and two
  sizes make old and new differ.
- `EncoderMoving`: a *scenario* (`MCScenarios`) is a machine, what the host commands there
  and how much goes wrong; every interleaving of a scenario is explored, and there are
  four groups of them. One fault, a failure or a shed frame, with a keyframe
  commanded, on machines that lack one means or another, among them one that nothing can
  be forced from and that schedules its keyframes (`MCFaults`). A new bitrate that needs
  another encoder, with textures on the way, or that no build takes (`MCRebuilds`).
  Three commands of two frame rates and two bitrates between which both mixtures of two
  targets occur, so that a mixed rate is built for, a refused one comes back after
  another, and a new target arrives during the rebuild for the last, on machines that
  refuse the rate commanded, a mixture, all but the first, or none, with and without a new
  bitrate while running (`MCRates`). And a target of another width and height, two of the
  four sizes being mixtures (`MCSizes`). Three outstanding requests where textures can be
  on the way, which the proof shows to be the least that suffices; one with pixels, which
  no encoder drops.
- `NalRewrites`: with 16 values for a byte, 300 is a length of three bytes, 33 one of two,
  15 the last of one, and 20 one that looks like a start code. Three samples are one
  before, at and after a change of the stream; the proof has any number, and any lengths.
- `VideoHeals`: requests of several viewers only meet in one flag, so one viewer of
  each kind in turn; three faults may strike one recovery twice and another after it.
  The proof of `HealsInTime` has any number of viewers.
- `ClvdChannel`: two units mix in every order; one to three fragments, whole and
  short; more losses only take away fragments, which the proof covers.
- `PadReports`: every pair of controls, so that two that share a place collide; every
  controller, backend and neighbour.
- `PadsFollow`: one connection that is alive and one that is left over; two frames on
  the channel can overtake; a second fault strikes the recovery from the first.
- `ClientEnds`: two waiting units are the least for the limit to be passed by the one
  in the reader's hands; two processes are the old and the new link.

`CHECK_DEADLOCK FALSE` is in `SignalingRaces`, `SessionServes` and `ClientEnds`: when
all sockets are closed, the bounds used up and everything read, or the client has
exited, these systems are at rest.

**Fairness and timing, and why the code justifies them.**

- `Session`: the supervisor retries for ever (its loop has no exit while the host
  lives; a dead link is noticed by the ping), the host's loop reads its channels, each
  browser reads its messages and its timers fire. Joins, departures, breaks, restarts
  and the server's noticing of a dead link are never forced.
- `LinkGov`: windows close for ever: the cadence tick fires every 2 ms and, while
  frames are delivered, a window closes after five seconds. The liveness properties
  speak of links that stay clean, or bad, from some moment on.
- `CaptureLink`: the frame loop polls, threads and the relaunch script run. Tick's
  guards bound the script, a capturer's start and the silence of a working one
  (`TimingAssumption`): a start that took longer than the hung floor would be killed
  and started for ever, which is what the code's comments choose the floors against.
- `CaptureEncoder`: its threads run; only for `MovingSpec` does the screen keep
  changing (the keep-alive window of `keep_rendering.rs` sees to it). Faults are free.
  `FollowsTarget` has two parts. That of the size (`FollowsSize`) has a premise of its own,
  that captured pictures keep reaching the beats: the threads alone do not see to it, since
  an output may forget the picture kept (below).
- `VideoPath`: a tick in each unit of time; connections come up, channels drain, the
  decoder answers a keyframe, reports arrive. Losses are bounded in number, and no
  request for a keyframe is assumed to arrive.
- `Pads`: strong fairness of delivery says that the channel does not lose every
  frame of one kind for ever. Late polls (`Poll(FALSE)`) must occur now and then:
  see the browser's hold below.
- `NativeClient`: threads run; the server answers a registration or its connection
  ends (the TCP connection of an unresponsive server breaks in the end). `Break`,
  which is the server's doing, is not forced.

## What the violated run shows

`LinkGovWedged`: a target chosen on the first ladder's frame rate rungs is not on the
second ladder, which is in force once congestion is seen; `index_of` then returns
`None` and the governor commands that target for good (`link_gov.rs:217`). The test
`recovering_link_returns_to_baseline` passes because its first window is severe.
`RecoversUnlessWedged` and `DrainsUnlessWedged` say what remains true.

## What the models leave true but no property claims

The models contain these behaviours; no property says they cannot happen, because the
code does not prevent them. File names are those of the code's crates.

Signaling and sessions:
- A departing player's `PeerLeft` is sent after the lock is released and can overtake
  the `PeerJoined` of its seat's next occupant, whose peer the host drops
  (`session.rs:338`). `NobodyStranded` is therefore about announcements.
- The sweep removes a session that was empty when it looked, with whoever registered
  since (`session.rs:361`); `SeatAgreement` excepts the sockets it unseated.
- A restarted server counts epochs from 1, and the host takes registrations for stale
  (`main.rs:377`); `Served` and `Connects` are stated for runs without a restart.
- A replay that races a departure leaves the host a peer for an empty seat, as does a
  `PeerLeft` drained with a burst of joins, which `route_slot_msg` ignores
  (`main.rs:354`).
- Each peer counts its offers from 1, so an answer to a replaced peer can be taken by
  its successor (`main.rs:161`); and of two offers interleaved in `applyRemoteOffer` the
  answer of one goes out under the epoch of the other (`player.ts:771`). The recovery
  timer mends both, which `Connects` shows.
- Three reports of a high round trip are 24 synthetic frames, 7 % of a window at 60
  fps, under the 8 % trigger (`main.rs:937`).

Capture and encoding:
- A dead encoder is not followed by raw pixels when the callback still converts on the
  GPU and sends its textures to the thread that has ended (`win_capture.rs:280-283`,
  `785-843`); `FallsBackUnlessTexture` excepts it.
- An encoder from which nothing can be forced need not make another keyframe
  (`mf_encoder.rs:382-404`: no `ICodecAPI`, or `SetValue` refused). The comment promises
  "a decodable frame coming within a known time - even if forcing one on demand is
  unsupported" (`mf_encoder.rs:255`), but `MF_MT_MAX_KEYFRAME_SPACING` is set only in the
  branch after the Main profile was rejected (`mf_encoder.rs:259`): with Main, what a join
  or a shed frame asks for can be owed for ever. `IdrAnswered` excepts that encoder.
  `GapHeals` and `HealsInTime`, whose modules reduce the encoder, are about encoders that
  do as told.
- An output puts the newest picture of the queue in `latest` for the next beat, and
  another output before that beat, finding the queue empty, puts nothing there
  (`win_capture.rs:610`). "So we always submit the freshest frame"
  (`win_capture.rs:428-430`) fails then: the beat replays an older picture, and if the
  screen stands still its last change is not shown. A picture of a new size can be lost
  so again and again, while the encoder stays at the old one; the premise of
  `FollowsSize` excepts it.
- A refused rate is "never retried until the host commands something different"
  (`encode_target.rs:23`), but when the host does so and comes back to it, it is not tried
  either (`encode_target.rs:25`, `win_capture.rs:346-347`): the encoder stays at the rate in
  between. `FollowsTarget` excepts the rate last refused.
- An encoder that keeps two or fewer input requests outstanding and refuses the device
  can be starved by the textures already on the way; TLC finds it with `requests = 2`.
- An AVCC sample whose first unit has a length of 256 to 511 bytes begins with bytes
  0, 0, 1 and is taken for Annex-B (`mf_encoder.rs:584`). With 16 values for a byte
  those are 16 to 31. `Unchanged` excepts such a sample (`Mistaken`), and no other.
- Parameter sets are learnt from samples once. After a change of the stream to a type
  without a usable header, the new ones are not learnt again (`mf_encoder.rs:779`), and
  a keyframe that lacks them is sent without; `JoinsAtKeyframe` excepts that stream
  (`outdated`).
- Repeated joins make a working capturer count as hung: `resync` reads frames off the
  socket without refreshing `last_frame_at` (`bridge.rs:411`), although the comment on that field says
  "when the last frame (of any kind, including a stale-frame no-op) was actually pulled
  off the socket" (`bridge.rs:103`). `WorkingIsLeftAlone` says how many it takes.

Video:
- A hybrid viewer's picture-loss reports are ignored, and the native client stays
  hybrid (`webrtc_peer.rs:541`); RTP is always on, so trickle mode is never entered
  (`webrtc_peer.rs:669`). Only the periodic keyframe heals such a viewer.
- A page does not report its present path again to a rebuilt peer when it has not
  changed (`player.ts:396`), which leaves that peer hybrid.
- A fresh join's keyframe request is one burst on raw frames and one keyframe on
  encoded ones (`main.rs:989`, `1002`, `1210-1212`).

Pads:
- A browser's resends carry the state at the time of the press (`player.ts:1212`). Its
  hold of the last buttons renews itself while polls come faster than it expires
  (`player.ts:1154`, `1190-1192`): `ReleaseFollows` needs late polls.
- After a player leaves or a controller is unplugged, its last report stays pressed.
  The keyboard's last frame goes once over the unreliable channel (client
  `main.rs:644`).
- A pad built while the companion is absent injects nothing for good.
- The guide packet of older Xbox firmware says that nothing else is down
  (`parse_xbox.rs:49`); the triggers of a Switch controller, which have no axis, are
  lost on XInput; a raw -32768 of a Steam controller wraps (`parse_steam.rs:52`).
- Two controllers on one machine, or a keyboard beside one, write to the same seat in
  turn.
- The feedback task ends on the first error (`main.rs:209`); a rumble's end can be lost
  on the channel; a DualShock 4, or a DualSense over Bluetooth, is sent a USB
  DualSense's report; ViGEm pads relay no rumble.

Native client:
- The network loop ends and the picture freezes without a message; a closed signaling
  socket ends a game whose peer is alive; a second offer that fails ends the client.
- The reader does not notice lost RTP packets. A decoder that cannot be built leaves a
  receive that is ready at once, in a loop.
- One report is read per 4 ms tick, so a controller that sends more lets the kernel's
  queue grow. The last key stays pressed when the loop ends.

## Proofs

All theorems hold for every value of the constants that the modules' assumptions
allow. Those are: kinds of sockets are disjoint, `None` is no value of the sort it
stands beside, bounds are naturals, and a rate, an interval, a chunk or a number of
seats is positive; `CaptureLink` adds the order of its intervals, `Pads` that there
are two connections at least and `PadReports` that a pushed stick is pushed by a
thirty-second at least (`Thrown`), for a smaller lean is what a stick at rest may show,
and eight bits round it away. `NalStream` assumes that a byte has more than ten values
(the types of unit), room for every version of the parameter sets, and that a unit's
length fits three bytes. Nothing else is assumed; each module proves an inductive
invariant, a step for every action, and derives the properties from it.

`SignalingProofs`

- `TypeCorrect`: `TypeOK /\ LocalsInv` is inductive. `LocalsInv` says which locals a
  handler has set at each place; without it the announcement of a join could be about
  slot 0.
- `SeatsAgree`: nothing a player says is attributed to another, and nothing meant for
  one reaches another. It follows from `SeatsKnown`, inductive on top of the types: the
  table and the number each task remembers agree. The step that matters is a
  registration: a socket that already has a seat gets that seat (`SeatFor`).
- `NobodyIsStranded`: a handler in the middle owes an announcement, so
  `NobodyStranded` is not inductive. `AnnouncedOrOwed` says that for every seated player
  the current host's channel has an epoch as new as the player's, or the player's
  handler has yet to announce it, or the host's handler has yet to take the replay
  list, or the list still has it. Epochs only grow, so a replayed epoch is never older
  than the registration.
- `HostKeepsRole`: from `TypeOK` and one lemma: no action but a close of the host's own
  socket or a sweep takes a host out of its role.
- `EpochsAreDistinct`: needs `Issued`, that every epoch sent to a host or waiting to be
  sent is at most the table's counter; `ReplayIsNew` shows that a replay numbers the
  seats above it. The property stops where the counter saturates, as the code's
  `saturating_add` does, and at a sweep.

`SessionProofs`: `EverySeatIsServed` proves `Served`. Quiet is reached along the queues,
so the invariant says of every message what it still does. `SeatInv`, for a seated
player and a host that is registered: the host's inbound queue tells of the registration
with no departure from that seat behind it (`Tells`), or no departure is queued and the
host has the peer or holds the join in its burst (`Known`); and the player, when it has
read what was sent, will hold a peer connection, or an offer is queued for its seat, or
something on the way to the host makes the host offer (`OfferComes`). Each stage keeps
order in its own manner, which the lemmas say: a queue by appending (`TellsConcat`,
`TellsTail`), a replay because epochs grow along the table (`Replayed`), a burst because
the newest join of a seat is kept (`Coalesced`). While the host is not registered nothing
is claimed: its replay at the next registration makes `SeatInv` true again. `HostInv`,
`PlayerInv` and `EpochsInv` type the queues and say that the host knows of no epoch above
the table's counter, which is what a restart of the server breaks.

`LinkGovProofs`: `GovInv` is `TypeOK` with three facts: the target is on the first ladder
while no congestion was seen, and a counter at 1 means that the last window was clean,
or bad. Lemmas on the ladders (each rung is no faster and no richer than the one
before, for every preset) carry the steps. `GovernorTyped`, `HoldsBitrate`,
`FallsAreEarned` and `RisesAreEarned` follow.

`CaptureLinkProofs`: `KeptFrameAlwaysFits`, from `LinkInv`, that every connection,
queued or accepted, holds only frames. The work is in `Capture`, where a poll may read
several frames of different kinds, lose the connection half way or throw frames away.

`WorkersAreLeftAlone`, from `AliveInv`, is about what a hung verdict rests on: as long as
a capturer works and is connected, `healthyAge` is at most the ticks since its last frame
plus one silence for each join that drained frames, for the last frame written is still
queued, and the next poll reads it, or was read and made `healthyAge` zero, or was
drained. With no such join a verdict would need a silence longer than the hung floor.

`CaptureEncoderProofs`: `ThreeBeatsAreEnough` proves that `NotStarved` holds of
every encoder that keeps more than two requests outstanding. A
*beat* is an input request waiting, in use, or due for a surface inside. `BeatInv`: an
encoder that takes textures has all its beats; one that does not has lost at most as
many as textures have vanished, and of those at most two (one in the callback's hands,
one next in line) can have been on the way before the flag was down. The one in the
thread's own hands, between the load of the frame rate and its submission, was next in
line before, and `OnTheWay` counts it while its beat is in use. TLC's counterexample for two requests shows that the bound is tight.

`CaptureEncoderProofs`, on `NalStream`: `UnitsArriveUnchanged` proves `Unchanged` and
`KeyframesStartAStream` proves `JoinsAtKeyframe`, for every base of a byte, every length
that fits three bytes, every format and media type. Three parts carry them.
`avcc_to_annex_b` is a recursion over the bytes: `AvccUnitsIs` shows, by induction on the
length of a sample (as the least counterexample), that it has a result and satisfies its
equation, so that a unit behind its length becomes itself behind a start code
(`AvccFront`). `nal_ranges` is followed from the back: a unit put in front of a sample
is found at its code, and the others as far behind as it is long (`CodedUnits`, from
`StartsOfCoded`, `EndOfFirst` and `EndOfLater`), so what is found is what was coded
(`UnitsFound`). A length is read back from its digits, and only one of 1 or of `Base` to
`2 * Base - 1` looks like a start code (`Digits`, `LengthInFront`); with 1 the sample is
Annex-B and right. The invariant proper is short: the header is the sets of this
version or nothing (`HeaderInUse`), and not nothing once they were shown
(`HeaderKept`).

The encoder's samples hold one unit or three; the code takes any number, so the two
conversions are proved for that too, by induction on the number (`AnyUnits`):
`EveryUnitIsFound` (the units found in units behind start codes, long or short, are those
units), `EveryLengthBecomesACode` (units behind lengths become the same units behind
codes) and `RewritingKeepsUnits`, the two together. A payload there is any sequence of
bytes other than zero: zeros that cannot be taken for a code are left out.

`VideoProofs`, on `VideoPath`: `PicturesHeal` proves `HealsInTime`. `HealInv` compares two clocks:
while no keyframe is asked for, no picture has been broken for longer than `age`, the
time since the last one; the tick that finds `age` at the interval asks, and the next
one sends. Requests only ever add keyframes, so none of them appears in it.

`VideoProofs`, on `Clvd`: `HeaderReadBack` says that a decoded header is what was
encoded, in each version. `OneMayBeMissing` proves `EnoughIsEnough`; `ClvdInv` says that
what is in flight are fragments of units sent, and that the assembler's parts are
exactly the indices it was given since the unit last changed, none of them enough to
give the unit out; counting does the rest. `VideoChannelKeepsItsPromise` is the
refinement `ImplementsFrameChannel`: every step of `Clvd` is a push, a delivery or a
stutter of `FrameChannel`. Two more facts carry it. `PiecesInv`: each part held is the
piece of the unit cut at its index, and the parity is the exclusive or of the pieces, so
that the one missing is what remains (`ParityRecovers`); that the joined pieces are the
unit (`PiecesJoin`) is an induction on where they end, written out with the least
counterexample since no prover here can instantiate the library's. `SpentInv`: of a
unit given out one fragment at most is left to come, which cannot complete it again.

`PadsProofs`, on `Pads`: `OneControllerServes` and `SeatIsKept`. `PadsInv`: a connection that is
served has the seat's controller, and a companion that is dead has no seat and serves
nobody. The second look at the registry in `Make` is what keeps it.

`PadsProofs`, on `PadReports`: `PressesArrive`, `SticksAreFollowed`, `TriggersAreSeen` and
`RumblesAreFelt`, for every set of controllers, any number of buttons at a time, every
pull and every push that is `Thrown`. `Says` is what a frame tells of the player's hands,
and every stage keeps it: each parser's frame says what its controller's report was made
of (`Parsed`, with a lemma for each family and the tables compared place by place), the
packet of either encoder is decoded to the frame it was made of (`FrameArrives`; the
browser's fixed offsets are the running ones, `Offsets`), and each virtual controller
shows a frame as what it says (`FrameShown`). `PadsAre` says that a host finds no pad
but those the mappings know. `PadInv` then says that what the game sees is what the host
was told last (`Told`), that a controller the client hears can be read and that a
DualSense heard on USB is the only Sony controller heard, without which a rumble could
go to one that does not know the report.

`NativeClientProofs`: three independent invariants. `LoopsInv` gives `NeverTwoClients`
(the main thread's loop, or its end, implies that the network thread has ended),
`GateInv` gives `NothingRefersToWhatWasShed` (an open gate means that the last unit was
given), `QueueInv` gives `DelayIsBounded` (the counter is what waits, and the unit in
the reader's and in the decoder's hands).

**Only model-checked.** The liveness properties, which need fairness and are out of the
prover's reach. Every safety property that a run checks is proved.

## Not modelled

- *Audio*, in the capturer, the bridge's queue and the clients: it is lossy by design,
  and nothing waits for it.
- *Calls into systems*: Windows graphics and media foundation, kernel devices (uhid's
  rumble depends on the kernel), the drivers of virtual pads, WebRTC itself. Their
  promises appear as fairness, timing assumptions or external definitions.
- *Pictures*: scaling, encoding, motion, painting, cropping, the X11 and test sources.
- *Split-screen settings, `PlayersStatus`, telemetry, ICE candidates*: relayed or shown,
  and no decision modelled here depends on them.
- *Lightbar, adaptive triggers, controller tester, touch and the page's keyboard.*
- *The HTTP API, audit log, metrics, invites, NAT probing, launchers, the Windows
  helper, panels and terminal, latency simulations, scripts and packaging*: counters,
  one-shot actions, interfaces, arithmetic for reports.

PROJECT.json gives the status and the reason for each component.

## What is left

- A composition of `Signaling`'s departures with `Session`'s peers, which would show
  the overtaking `PeerLeft` end to end.
- The audio queue of the bridge, at its cap.
- `VideoPath` with two viewers at a time, one of them in a burst, when the time a run
  may take allows it.
