---------------------------- MODULE CaptureLink ----------------------------
(***************************************************************************)
(* The host's capture bridge (crates/host/src/capture/bridge.rs and        *)
(* hyperv_bridge.rs), the socket, and the Windows capturer on its far side *)
(* (crates/capture-bridge/src/bin/win_capture.rs) with the scripts that    *)
(* launch it.  The bridge has three clocks - the outage, the last frame,   *)
(* the accepted session - and from them decides that a capturer is dead    *)
(* and has it killed and launched again.                                   *)
(*                                                                         *)
(* Time is counted in ticks.  The host's frame loop polls the bridge many  *)
(* times a tick, so Tick waits for a poll; the other guards of Tick are    *)
(* the timing assumptions on the Windows side, each with a named bound.    *)
(***************************************************************************)
EXTENDS Naturals, Sequences

CONSTANTS
  Stale,        \* FRAME_STALE_AFTER: silence on an open socket that means hung
  RespawnAfter, \* RESPAWN_AFTER: outage after which the capturer is relaunched
  HungRetry,    \* HUNG_RESPAWN_RETRY_INTERVAL: floor between hung relaunches
  Retry,        \* RESPAWN_RETRY_INTERVAL: floor between outage relaunches
  WrapperSleep, \* the launcher's pause before it restarts a capturer that exited
  StartMax,     \* longest start of a capturer, launch to first connection
  ScriptMax,    \* longest run of the relaunch script up to its kill
  QuietMax,     \* longest time a working capturer goes without sending a frame
  QueueDepth,   \* slots between the encoder and the socket writer
  WireCap,      \* bound: frames in the socket buffers of one connection
  Sizes,        \* sizes of raw frames
  None,         \* the None of the code's Options
  MaxTarget,    \* encode targets the host commands: 1 .. MaxTarget
  MaxEvents     \* bound: faults, player joins and new targets, together

ASSUME BoundsAssumption ==
  /\ {Stale, RespawnAfter, HungRetry, Retry, QuietMax, QueueDepth, WireCap, MaxTarget}
       \subseteq Nat \ {0}
  /\ {WrapperSleep, StartMax, ScriptMax, MaxEvents} \subseteq Nat

\* The order of the code's intervals, and how slow the Windows side may be.
ASSUME TimingAssumption ==
  /\ Stale < RespawnAfter /\ RespawnAfter < HungRetry /\ HungRetry < Retry
  /\ QuietMax < Stale
  /\ ScriptMax + StartMax < HungRetry

Encoded == {"K", "P", "X"} \* keyframe; P-frame; P-frame whose predecessor is lost
ASSUME SizesAssumption == (Encoded \cap Sizes = {}) /\ (None \notin Sizes) /\ (None \notin Nat)

\* A connection: the frames on their way to the host, the newest target (0: none)
\* and whether a keyframe request is on its way to the capturer.
Fresh == [open |-> TRUE, frames |-> <<>>, cmd |-> 0, idr |-> FALSE]

VARIABLES
  transport,     \* "tcp": the capturer dials the host; "hyperv": the host dials
  \* the bridge
  stream,        \* WindowsBridge.stream is Some
  conn,          \* the accepted connection, meaningful while stream
  fmt, size,     \* format, width and height of the last frame read
  last,          \* the raw frame kept for re-serving, by its size
  target,        \* the commanded encode target
  everConnected,
  downFor,       \* disconnected_at.elapsed()
  respawnAge,    \* last_respawn.elapsed()
  healthyAge,    \* healthy_at.elapsed(): since the newer of last_frame_at and
                 \* session_started_at, which are read only together
  dialled,       \* hyperv: a connect was tried within CONNECT_RETRY_INTERVAL
  polled,        \* the frame loop polled the bridge since the last tick
  synced,        \* history: what was relayed since the last loss is decodable
  drained,       \* history: joins that emptied the socket since it last proved alive
  script,        \* age of the relaunch script that is running
  \* the listener's backlog and the capturer
  dial, phase, wait, writer, capTarget, idr, gap, raw, out, quiet,
  events

sock    == <<stream, conn, dial, writer>>
picture == <<fmt, size, last, synced>>
clocks  == <<downFor, respawnAge, healthyAge, drained>>
encoder == <<capTarget, idr, gap, raw, out>>
vars == <<transport, sock, picture, target, everConnected, clocks, dialled, polled,
          script, phase, wait, encoder, quiet, events>>

Upto(age, cap) == IF age < cap THEN age + 1 ELSE cap

Init ==
  /\ transport \in {"tcp", "hyperv"}
  /\ stream = FALSE /\ conn = Fresh /\ dial = <<>> /\ writer = "off"
  /\ fmt = "Bgra" /\ size = None /\ last = None /\ synced = TRUE
  /\ target = 1 /\ everConnected = FALSE
  /\ downFor = 0 /\ respawnAge = None /\ healthyAge = 0 /\ drained = 0
  /\ dialled = FALSE /\ polled = FALSE /\ script = None
  /\ phase \in {"gone", "starting"} /\ wait = 0
  /\ capTarget = 0 /\ idr = FALSE /\ gap = FALSE /\ raw = FALSE /\ out = <<>> /\ quiet = 0
  /\ events = 0

----------------------------------------------------------------------------
(* The bridge *)

\* Mutant: a connection is not told the target.
TcpAcceptSilent ==
  /\ transport = "tcp" /\ dial # <<>>
  /\ conn' = Head(dial)
  /\ dial' = Tail(dial)
  /\ writer' = IF writer = "dialled" /\ Len(dial) = 1 THEN "accepted" ELSE writer
  /\ UNCHANGED dialled

TcpAccept ==
  /\ transport = "tcp" /\ dial # <<>>
  /\ conn' = [Head(dial) EXCEPT !.cmd = target]
  /\ dial' = Tail(dial)
  /\ writer' = IF writer = "dialled" /\ Len(dial) = 1 THEN "accepted" ELSE writer
  /\ UNCHANGED dialled

HyperVConnect ==
  /\ transport = "hyperv" /\ ~dialled /\ writer = "listening"
  /\ conn' = [Fresh EXCEPT !.cmd = target]
  /\ writer' = "accepted"
  /\ dialled' = TRUE
  /\ UNCHANGED dial

CanReconnect ==
  IF transport = "tcp" THEN dial # <<>> ELSE ~dialled /\ writer = "listening"

\* Mutant: the session clock is not started again.
TryReconnectNoClock ==
  IF CanReconnect
    THEN /\ TcpAccept \/ HyperVConnect
         /\ stream' = TRUE /\ everConnected' = TRUE /\ drained' = 0
         /\ UNCHANGED healthyAge
    ELSE /\ stream' = FALSE /\ conn' = Fresh
         /\ dialled' = (transport = "hyperv")
         /\ UNCHANGED <<dial, writer, everConnected, healthyAge, drained>>

\* A new connection is told the target at once.  Its session starts to be healthy
\* (session_started_at); the outage lasts until a frame (disconnected_at).
TryReconnect ==
  IF CanReconnect
    THEN /\ TcpAccept \/ HyperVConnect
         /\ stream' = TRUE /\ everConnected' = TRUE
         /\ healthyAge' = 0 /\ drained' = 0
    ELSE /\ stream' = FALSE /\ conn' = Fresh
         /\ dialled' = (transport = "hyperv")
         /\ UNCHANGED <<dial, writer, everConnected, healthyAge, drained>>

SpawnRespawn(floor) ==
  IF respawnAge = None \/ respawnAge >= floor
    THEN respawnAge' = 0 /\ script' = 0
    ELSE UNCHANGED <<respawnAge, script>>

MaybeRespawn ==
  IF everConnected /\ downFor # None /\ downFor >= RespawnAfter
    THEN SpawnRespawn(Retry)
    ELSE UNCHANGED <<respawnAge, script>>

\* Mutant: a hung capturer is disconnected and not relaunched.
ForceRespawnHungNever == UNCHANGED <<respawnAge, script>>

ForceRespawnHung ==
  IF everConnected THEN SpawnRespawn(HungRetry) ELSE UNCHANGED <<respawnAge, script>>

\* Mutant: only the drop on a new size is forgotten.
KeptAfterFormatOnly(fs) == IF fmt = "Bgra" THEN last ELSE None

\* The kept frame after raw frames fs were read: any change of format or size
\* drops it.
KeptAfter(fs) ==
  IF fmt = "Bgra" /\ \A i \in 1 .. Len(fs) : fs[i] = size THEN last ELSE None

Relay(f) == synced' = CASE f = "X" -> FALSE [] f = "P" -> synced [] OTHER -> TRUE

\* capture() with no stream: take a waiting client, else consider a relaunch.
CaptureAway ==
  /\ ~stream
  /\ TryReconnect
  /\ IF CanReconnect THEN UNCHANGED <<respawnAge, script>> ELSE MaybeRespawn
  /\ UNCHANGED <<picture, downFor>>

\* capture() with an encoded frame: exactly one, in order, never kept.
CaptureEncoded ==
  /\ stream /\ conn.frames # <<>> /\ Head(conn.frames) \in Encoded
  /\ conn' = [conn EXCEPT !.frames = Tail(@)]
  /\ Relay(Head(conn.frames))
  /\ fmt' = "H264" /\ last' = IF fmt = "H264" THEN last ELSE None
  /\ healthyAge' = 0 /\ drained' = 0 /\ downFor' = None
  /\ UNCHANGED <<size, stream, dial, writer, everConnected, dialled, respawnAge, script>>

RawWaiting == stream /\ conn.frames # <<>> /\ Head(conn.frames) \in Sizes
Newest == conn.frames[Len(conn.frames)]

\* capture() with raw frames: the backlog is drained to the newest one.
CaptureRaw ==
  /\ RawWaiting /\ conn.open
  /\ conn' = [conn EXCEPT !.frames = <<>>]
  /\ Relay(Newest)
  /\ fmt' = "Bgra" /\ size' = Newest /\ last' = Newest
  /\ healthyAge' = 0 /\ drained' = 0 /\ downFor' = None
  /\ UNCHANGED <<stream, dial, writer, everConnected, dialled, respawnAge, script>>

\* capture() with nothing to read: the hung-capturer watchdog.
CaptureNothing ==
  /\ stream /\ conn.frames = <<>> /\ conn.open
  /\ IF healthyAge >= Stale
       THEN /\ stream' = FALSE /\ conn' = Fresh
            /\ writer' = IF writer = "accepted" THEN "lost" ELSE writer
            /\ downFor' = IF downFor = None THEN 0 ELSE downFor
            /\ ForceRespawnHung
       ELSE UNCHANGED <<stream, conn, writer, downFor, respawnAge, script>>
  /\ UNCHANGED <<dial, picture, everConnected, healthyAge, drained, dialled>>

\* capture() with a read error.  Raw frames drained on the way to it are not
\* returned, but they have already set the format, the size and the kept frame.
CaptureLost ==
  /\ stream /\ ~conn.open
  /\ IF RawWaiting
       THEN /\ fmt' = "Bgra" /\ size' = Newest
            /\ last' = KeptAfter(conn.frames)
       ELSE conn.frames = <<>> /\ UNCHANGED <<fmt, size, last>>
  /\ downFor' = 0
  /\ TryReconnect
  /\ UNCHANGED <<synced, respawnAge, script>>

Capture ==
  /\ CaptureAway \/ CaptureEncoded \/ CaptureRaw \/ CaptureNothing \/ CaptureLost
  /\ polled' = TRUE
  /\ UNCHANGED <<transport, target, phase, wait, encoder, quiet, events>>

Event == events < MaxEvents /\ events' = events + 1

SetTarget ==
  /\ Event
  /\ target' \in 1 .. MaxTarget \ {target}
  /\ conn' = IF stream THEN [conn EXCEPT !.cmd = target'] ELSE conn
  /\ UNCHANGED <<transport, stream, dial, writer, picture, everConnected, clocks, dialled,
                 polled, script, phase, wait, encoder, quiet>>

RequestIdr(c, f) == IF stream /\ f = "H264" THEN [c EXCEPT !.idr = TRUE] ELSE c

\* A viewer's keyframe request, passed on by the frame loop.
AskKeyframe ==
  /\ conn' = RequestIdr(conn, fmt)
  /\ conn' # conn
  /\ UNCHANGED <<transport, stream, dial, writer, picture, target, everConnected, clocks,
                 dialled, polled, script, phase, wait, encoder, quiet, events>>

Reassert(c) == [c EXCEPT !.cmd = target]

\* A player joined: drop the backlog, ask for a keyframe, repeat the target.
Resync ==
  /\ Event
  /\ last' = None
  /\ IF stream /\ conn.frames # <<>>
       THEN /\ fmt' = IF Newest \in Encoded THEN "H264" ELSE "Bgra"
            /\ size' = IF Newest \in Sizes THEN Newest ELSE size
            /\ synced' = FALSE /\ drained' = drained + 1
       ELSE UNCHANGED <<fmt, size, synced, drained>>
  /\ conn' = IF stream
               THEN Reassert(RequestIdr([conn EXCEPT !.frames = <<>>], fmt'))
               ELSE conn
  /\ UNCHANGED <<transport, stream, dial, writer, target, everConnected, downFor, respawnAge,
                 healthyAge, dialled, polled, script, phase, wait, encoder, quiet>>

----------------------------------------------------------------------------
(* The capturer: its encoder, its socket writer, its command reader *)

Working == phase = "up"
Alive == phase \in {"up", "hung"}

\* Mutant: a shed frame asks for no keyframe.
EncodeSilent ==
  /\ Working
  /\ \E f \in IF raw THEN Sizes ELSE {IF idr THEN "K" ELSE IF gap THEN "X" ELSE "P"} :
       IF Len(out) < QueueDepth
         THEN out' = Append(out, f) /\ idr' = (idr /\ raw) /\ gap' = FALSE
         ELSE out' = out /\ idr' = FALSE /\ gap' = ~raw
  /\ UNCHANGED <<transport, sock, picture, target, everConnected, clocks, dialled, polled,
                 script, phase, wait, capTarget, raw, quiet, events>>

\* The encoder posts one frame; a full queue sheds it and asks for a keyframe.
Encode ==
  /\ Working
  /\ \E f \in IF raw THEN Sizes ELSE {IF idr THEN "K" ELSE IF gap THEN "X" ELSE "P"} :
       IF Len(out) < QueueDepth
         THEN out' = Append(out, f) /\ idr' = (idr /\ raw) /\ gap' = FALSE
         ELSE out' = out /\ idr' = (~raw \/ idr) /\ gap' = ~raw
  /\ UNCHANGED <<transport, sock, picture, target, everConnected, clocks, dialled, polled,
                 script, phase, wait, capTarget, raw, quiet, events>>

WriteFrame ==
  /\ Alive /\ out # <<>>
  /\ \/ /\ writer = "accepted" /\ Len(conn.frames) < WireCap
        /\ conn' = [conn EXCEPT !.frames = Append(@, Head(out))]
        /\ UNCHANGED dial
     \/ /\ writer = "dialled" /\ Len(dial[Len(dial)].frames) < WireCap
        /\ dial' = [dial EXCEPT ![Len(dial)].frames = Append(@, Head(out))]
        /\ UNCHANGED conn
  /\ out' = Tail(out)
  /\ quiet' = 0
  /\ UNCHANGED <<transport, stream, writer, picture, target, everConnected, clocks, dialled,
                 polled, script, phase, wait, capTarget, idr, gap, raw, events>>

\* A P-frame that follows a lost frame no longer has its reference.
AfterLoss(q) == IF q # <<>> /\ Head(q) = "P" THEN <<"X">> \o Tail(q) ELSE q

\* The host has closed the socket; a write into its buffer still succeeds.
WriteLost ==
  /\ Alive /\ writer = "lost" /\ out # <<>>
  /\ out' = AfterLoss(Tail(out))
  /\ gap' = (gap \/ Tail(out) = <<>>)
  /\ UNCHANGED <<transport, sock, picture, target, everConnected, clocks, dialled, polled,
                 script, phase, wait, capTarget, idr, raw, quiet, events>>

\* The writer thread connects to the host, or goes back to accept.
WriterReady ==
  /\ Alive /\ writer \in {"off", "lost"}
  /\ IF transport = "tcp"
       THEN dial' = Append(dial, Fresh) /\ writer' = "dialled"
       ELSE UNCHANGED dial /\ writer' = "listening"
  /\ quiet' = 0
  /\ UNCHANGED <<transport, stream, conn, picture, target, everConnected, clocks, dialled,
                 polled, script, phase, wait, encoder, events>>

\* The command reader thread: a new target also starts with a keyframe.
WatchCommands ==
  /\ Alive /\ writer = "accepted" /\ (conn.cmd # 0 \/ conn.idr)
  /\ conn' = [conn EXCEPT !.cmd = 0, !.idr = FALSE]
  /\ capTarget' = IF conn.cmd # 0 THEN conn.cmd ELSE capTarget
  /\ idr' = TRUE
  /\ UNCHANGED <<transport, stream, dial, writer, picture, target, everConnected, clocks,
                 dialled, polled, script, phase, wait, gap, raw, out, quiet, events>>

\* The process ends: its connection is closed behind the frames already sent.
EndProcess(next) ==
  /\ phase' = next /\ wait' = 0 /\ quiet' = 0 /\ writer' = "off"
  /\ conn' = IF writer = "accepted" THEN [conn EXCEPT !.open = FALSE] ELSE conn
  /\ dial' = IF writer = "dialled" THEN [dial EXCEPT ![Len(dial)].open = FALSE] ELSE dial
  /\ capTarget' = 0 /\ idr' = FALSE /\ gap' = FALSE /\ raw' = FALSE /\ out' = <<>>

\* The relaunch script kills whatever runs and launches a capturer.
RunScript ==
  /\ script # None /\ script' = None
  /\ EndProcess("starting")
  /\ UNCHANGED <<transport, stream, picture, target, everConnected, clocks, dialled, polled,
                 events>>

Start ==
  /\ \/ phase = "sleeping" /\ wait = WrapperSleep /\ phase' = "starting" /\ idr' = idr
     \/ phase = "starting" /\ phase' = "up" /\ idr' = TRUE
  /\ wait' = 0
  /\ UNCHANGED <<transport, sock, picture, target, everConnected, clocks, dialled, polled,
                 script, capTarget, gap, raw, out, quiet, events>>

----------------------------------------------------------------------------
(* Faults of the Windows side *)

\* The window closes: the process exits, its launcher waits and starts another.
SourceClosed ==
  /\ Working /\ Event /\ EndProcess("sleeping")
  /\ UNCHANGED <<transport, stream, picture, target, everConnected, clocks, dialled, polled,
                 script>>

\* The process and its launcher die together: nobody restarts it but the host.
Crash ==
  /\ phase # "gone" /\ Event /\ EndProcess("gone")
  /\ UNCHANGED <<transport, stream, picture, target, everConnected, clocks, dialled, polled,
                 script>>

\* Capture or encoding stops; the socket threads live on.
Hang ==
  /\ Working /\ Event /\ phase' = "hung" /\ quiet' = 0
  /\ UNCHANGED <<transport, sock, picture, target, everConnected, clocks, dialled, polled,
                 script, wait, encoder>>

\* The connection is cut with the frames it carried.
Cut ==
  /\ Event /\ stream /\ writer = "accepted"
  /\ conn' = [conn EXCEPT !.open = FALSE, !.frames = <<>>, !.cmd = 0, !.idr = FALSE]
  /\ writer' = "lost"
  /\ IF conn.frames # <<>>
       THEN out' = AfterLoss(out) /\ gap' = (gap \/ out = <<>>)
       ELSE UNCHANGED <<out, gap>>
  /\ UNCHANGED <<transport, stream, dial, picture, target, everConnected, clocks, dialled,
                 polled, script, phase, wait, capTarget, idr, raw, quiet>>

\* The hardware encoder fails: raw pixels from now on.
GpuFallback ==
  /\ Working /\ ~raw /\ Event /\ raw' = TRUE
  /\ UNCHANGED <<transport, sock, picture, target, everConnected, clocks, dialled, polled,
                 script, phase, wait, capTarget, idr, gap, out, quiet>>

----------------------------------------------------------------------------
Busy == Working /\ writer \notin {"dialled", "listening"}

Tick ==
  /\ polled /\ polled' = FALSE /\ dialled' = FALSE
  /\ script # None => script < ScriptMax
  /\ phase = "starting" => wait < StartMax
  /\ phase = "sleeping" => wait < WrapperSleep
  /\ Busy => quiet < QuietMax
  /\ script' = IF script = None THEN None ELSE script + 1
  /\ wait' = IF phase \in {"starting", "sleeping"} THEN wait + 1 ELSE wait
  /\ quiet' = IF Busy THEN quiet + 1 ELSE quiet
  /\ downFor' = IF downFor = None THEN None ELSE Upto(downFor, RespawnAfter)
  /\ respawnAge' = IF respawnAge = None THEN None ELSE Upto(respawnAge, Retry)
  /\ healthyAge' = Upto(healthyAge, Stale)
  /\ UNCHANGED <<transport, sock, picture, drained, target, everConnected, phase, encoder,
                 events>>

Next ==
  \/ Capture \/ SetTarget \/ AskKeyframe \/ Resync
  \/ Encode \/ WriteFrame \/ WriteLost \/ WriterReady \/ WatchCommands \/ RunScript \/ Start
  \/ SourceClosed \/ Crash \/ Hang \/ Cut \/ GpuFallback
  \/ Tick

Fairness ==
  /\ WF_vars(Capture) /\ WF_vars(Tick) /\ WF_vars(Encode) /\ WF_vars(WriteFrame)
  /\ WF_vars(WriterReady) /\ WF_vars(WatchCommands) /\ WF_vars(RunScript) /\ WF_vars(Start)

Spec == Init /\ [][Next]_vars /\ Fairness

----------------------------------------------------------------------------
\* The frame served again while the capturer is silent or away is a raw one,
\* and has the size the host scales it by (bridge.rs: "last", read_frame).
KeptFrameFits == last # None => fmt = "Bgra" /\ last = size

\* The bridge decides to kill a capturer that works and is connected only when
\* joins threw its frames away one after the other: resync reads them without
\* counting them as life (bridge.rs: resync, last_frame_at).  A session just
\* accepted has a clock of its own.
WorkingIsLeftAlone ==
  [][respawnAge # 0 /\ respawnAge' = 0 /\ Working /\ writer = "accepted"
       => Stale < (drained + 1) * (QuietMax + 1)]_vars

\* Once a capturer has been seen, every crash, hang or cut of it ends with
\* frames again (bridge.rs: maybe_respawn, force_respawn_hung).
Delivering ==
  stream /\ Working /\ writer = "accepted" /\ downFor = None /\ healthyAge = 0
Recovers == everConnected ~> Delivering

\* Whatever is lost - a frame shed on a full queue, a connection with frames in
\* it, the backlog a join throws away - the picture becomes decodable again
\* without waiting for the periodic keyframe.
GapHeals == ~synced ~> synced

\* The capturer ends up at the host's target, through restarts and reconnects.
TargetReached == <>[](everConnected => capTarget = target)
=============================================================================
