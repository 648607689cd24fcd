------------------------- MODULE CaptureLinkProofs -------------------------
(***************************************************************************)
(* The raw frame the bridge keeps to serve again always has the size the   *)
(* host reads it by, whatever formats and sizes arrive, are lost half read *)
(* or are thrown away by a join; and a capturer that works and is          *)
(* connected is relaunched only when joins kept its frames from counting.  *)
(***************************************************************************)
EXTENDS CaptureLink, TLAPS

-----------------------------------------------------------------------------

Frame == Encoded \cup Sizes
Connection == [open : BOOLEAN, frames : Seq(Frame), cmd : Nat, idr : BOOLEAN]

\* What the socket carries are frames, in every connection there is.
SocketTypes ==
  /\ conn \in Connection /\ dial \in Seq(Connection)
  /\ out \in Seq(Frame) /\ target \in Nat

LinkInv == SocketTypes /\ KeptFrameFits

\* The newest of some frames is one of them.
LEMMA NewestIsRead ==
  ASSUME NEW fs \in Seq(Frame), fs # <<>> PROVE Len(fs) \in 1 .. Len(fs)
OBVIOUS

LEMMA FreshTyped == Fresh \in Connection
BY DEF Fresh, Connection

LEMMA FrameAppended ==
  ASSUME NEW c \in Connection, NEW f \in Frame
  PROVE  [c EXCEPT !.frames = Append(@, f)] \in Connection
BY DEF Connection

\* A connection with other frames in it, or closed behind its frames.
LEMMA Framed ==
  ASSUME NEW c \in Connection, NEW fs \in Seq(Frame)
  PROVE  [c EXCEPT !.frames = fs] \in Connection
BY DEF Connection

LEMMA Closed ==
  ASSUME NEW c \in Connection PROVE [c EXCEPT !.open = FALSE] \in Connection
BY DEF Connection

LEMMA NoFrames == <<>> \in Seq(Frame)
OBVIOUS

\* What a cut leaves of a connection.
LEMMA CutOff ==
  ASSUME NEW c \in Connection, NEW fs \in Seq(Frame)
  PROVE  [c EXCEPT !.open = FALSE, !.frames = fs, !.cmd = 0, !.idr = FALSE] \in Connection
BY DEF Connection

LEMMA AfterLossTyped == ASSUME NEW q \in Seq(Frame) PROVE AfterLoss(q) \in Seq(Frame)
<1>1. CASE q # <<>>
  <2>1. <<"X">> \in Seq(Frame)
    BY DEF Frame, Encoded
  <2>2. Tail(q) \in Seq(Frame)
    BY <1>1
  <2>3. <<"X">> \o Tail(q) \in Seq(Frame)
    BY <2>1, <2>2
  <2>4. QED
    BY <2>3 DEF AfterLoss
<1>2. CASE q = <<>>
  BY <1>2 DEF AfterLoss
<1>3. QED
  BY <1>1, <1>2

LEMMA InitLink == Init => LinkInv
BY FreshTyped DEF Init, LinkInv, SocketTypes, KeptFrameFits

\* The picture is the bridge's own: only a capture or a join changes it.
LEMMA PictureKept == KeptFrameFits /\ UNCHANGED picture => KeptFrameFits'
BY DEF KeptFrameFits, picture

LEMMA ReconnectTyped ==
  ASSUME SocketTypes, TryReconnect, UNCHANGED <<out, target>> PROVE SocketTypes'
<1>1. CASE CanReconnect /\ TcpAccept
  <2>1. Head(dial) \in Connection /\ Tail(dial) \in Seq(Connection)
    BY <1>1 DEF SocketTypes, TcpAccept
  <2>2. [Head(dial) EXCEPT !.cmd = target] \in Connection
    BY <2>1 DEF SocketTypes, Connection
  <2>3. QED
    BY <1>1, <2>1, <2>2 DEF SocketTypes, TcpAccept
<1>2. CASE CanReconnect /\ HyperVConnect
  <2>1. [Fresh EXCEPT !.cmd = target] \in Connection
    BY FreshTyped DEF SocketTypes, Connection
  <2>2. QED
    BY <1>2, <2>1 DEF SocketTypes, HyperVConnect
<1>3. CASE ~CanReconnect
  BY <1>3, FreshTyped DEF TryReconnect, SocketTypes
<1>4. QED
  BY <1>1, <1>2, <1>3 DEF TryReconnect

\* The frame loop's poll: a frame is kept only as it is read, and dropped by
\* whatever changes the format or the size.
LEMMA CaptureKeeps == LinkInv /\ Capture => LinkInv'
<1> SUFFICES ASSUME LinkInv, Capture PROVE LinkInv'
  OBVIOUS
<1> USE DEF LinkInv
<1>0. UNCHANGED <<out, target>>
  BY DEF Capture, encoder
<1>1. CASE CaptureAway
  BY <1>0, <1>1, ReconnectTyped, PictureKept DEF CaptureAway
<1>2. CASE CaptureEncoded
  <2>0. conn \in Connection /\ conn.frames \in Seq(Frame)
    BY DEF SocketTypes, Connection
  <2>1. conn' \in Connection
    <3>1. conn.frames # <<>> /\ conn' = [conn EXCEPT !.frames = Tail(conn.frames)]
      BY <1>2 DEF CaptureEncoded
    <3>2. Tail(conn.frames) \in Seq(Frame)
      BY <2>0, <3>1
    <3>3. QED
      BY <2>0, <3>1, <3>2, Framed
  <2>2. SocketTypes'
    BY <1>0, <1>2, <2>1 DEF CaptureEncoded, SocketTypes
  <2>3. last' = None
    BY <1>2 DEF CaptureEncoded, KeptFrameFits
  <2>4. QED
    BY <2>2, <2>3 DEF KeptFrameFits
<1>3. CASE CaptureRaw
  <2>1. conn' \in Connection
    BY <1>3, NoFrames, Framed DEF CaptureRaw, SocketTypes
  <2>2. SocketTypes'
    BY <1>0, <1>3, <2>1 DEF CaptureRaw, SocketTypes
  <2>3. QED
    BY <1>3, <2>2 DEF CaptureRaw, KeptFrameFits
<1>4. CASE CaptureNothing
  <2>1. SocketTypes'
    BY <1>0, <1>4, FreshTyped DEF CaptureNothing, SocketTypes
  <2>2. QED
    BY <1>4, <2>1, PictureKept DEF CaptureNothing
<1>5. CASE CaptureLost
  <2>1. SocketTypes'
    BY <1>0, <1>5, ReconnectTyped DEF CaptureLost
  <2>2. CASE RawWaiting
    <3>1. conn.frames \in Seq(Frame) /\ conn.frames # <<>>
      BY <2>2 DEF RawWaiting, SocketTypes, Connection
    <3>2. last' # None => fmt = "Bgra" /\ last' = last /\ Newest = size
      BY <1>5, <2>2, <3>1, NewestIsRead DEF CaptureLost, KeptAfter, Newest
    <3>3. fmt' = "Bgra" /\ size' = Newest
      BY <1>5, <2>2 DEF CaptureLost
    <3>4. QED
      BY <2>1, <3>2, <3>3 DEF KeptFrameFits
  <2>3. CASE ~RawWaiting
    BY <1>5, <2>1, <2>3 DEF CaptureLost, KeptFrameFits
  <2>4. QED
    BY <2>2, <2>3
<1>6. QED
  BY <1>1, <1>2, <1>3, <1>4, <1>5 DEF Capture

\* What the host sends the other way carries no frame.
LEMMA HostKeeps ==
  LinkInv /\ (SetTarget \/ AskKeyframe \/ Resync \/ Tick) => LinkInv'
<1> SUFFICES ASSUME LinkInv, SetTarget \/ AskKeyframe \/ Resync \/ Tick PROVE LinkInv'
  OBVIOUS
<1> USE DEF LinkInv
<1>1. CASE SetTarget
  <2>1. target' \in Nat
    BY <1>1, BoundsAssumption DEF SetTarget
  <2>2. conn' \in Connection
    BY <1>1, <2>1 DEF SetTarget, SocketTypes, Connection
  <2>3. QED
    BY <1>1, <2>1, <2>2, PictureKept DEF SetTarget, SocketTypes, encoder
<1>2. CASE AskKeyframe
  <2>1. conn' \in Connection
    BY <1>2 DEF AskKeyframe, RequestIdr, SocketTypes, Connection
  <2>2. QED
    BY <1>2, <2>1, PictureKept DEF AskKeyframe, SocketTypes, encoder
<1>3. CASE Resync
  <2>1. conn' \in Connection
    <3>1. CASE stream
      <4>1. conn' = Reassert(RequestIdr([conn EXCEPT !.frames = <<>>], fmt'))
        BY <1>3, <3>1 DEF Resync
      <4>2. [conn EXCEPT !.frames = <<>>] \in Connection
        BY NoFrames, Framed DEF SocketTypes
      <4>3. RequestIdr([conn EXCEPT !.frames = <<>>], fmt') \in Connection
        BY <4>2 DEF RequestIdr, Connection
      <4>4. QED
        BY <4>1, <4>3 DEF Reassert, SocketTypes, Connection
    <3>2. CASE ~stream
      BY <1>3, <3>2 DEF Resync, SocketTypes
    <3>3. QED
      BY <3>1, <3>2
  <2>2. QED
    BY <1>3, <2>1 DEF Resync, SocketTypes, KeptFrameFits, encoder
<1>4. CASE Tick
  BY <1>4, PictureKept DEF Tick, SocketTypes, sock, encoder
<1>5. QED
  BY <1>1, <1>2, <1>3, <1>4

\* However a capturer ends, it takes no frame back.
LEMMA EndTyped ==
  ASSUME SocketTypes, NEW next, EndProcess(next), UNCHANGED target PROVE SocketTypes'
<1>1. conn' \in Connection
  BY Closed DEF EndProcess, SocketTypes
<1>2. dial' \in Seq(Connection)
  <2>1. dial \in Seq(Connection)
    BY DEF SocketTypes
  <2>2. dial' = dial \/ dial' = [dial EXCEPT ![Len(dial)].open = FALSE]
    BY DEF EndProcess
  <2>3. \A i \in 1 .. Len(dial) : [dial[i] EXCEPT !.open = FALSE] \in Connection
    BY <2>1, Closed
  <2>4. QED
    BY <2>1, <2>2, <2>3
<1>3. out' \in Seq(Frame)
  BY NoFrames DEF EndProcess
<1>4. QED
  BY <1>1, <1>2, <1>3 DEF SocketTypes

\* The capturer puts frames on the wire and takes commands off it.
LEMMA CapturerKeeps ==
  LinkInv /\ (Encode \/ WriteFrame \/ WriteLost \/ WriterReady \/ WatchCommands
              \/ RunScript \/ Start) => LinkInv'
<1> SUFFICES ASSUME LinkInv,
                    Encode \/ WriteFrame \/ WriteLost \/ WriterReady \/ WatchCommands
                      \/ RunScript \/ Start
             PROVE  LinkInv'
  OBVIOUS
<1> USE DEF LinkInv
<1>1. CASE Encode
  BY <1>1, PictureKept DEF Encode, SocketTypes, sock, Frame, Encoded
<1>2. CASE WriteFrame
  <2>1. Head(out) \in Frame /\ out' \in Seq(Frame)
    BY <1>2 DEF WriteFrame, SocketTypes
  <2>2. conn' \in Connection
    BY <1>2, <2>1, FrameAppended DEF WriteFrame, SocketTypes
  <2>3. dial' \in Seq(Connection)
    <3>1. dial \in Seq(Connection)
      BY DEF SocketTypes
    <3>2. dial' = dial
          \/ dial' = [dial EXCEPT ![Len(dial)].frames = Append(@, Head(out))]
      BY <1>2 DEF WriteFrame
    <3>3. \A i \in 1 .. Len(dial) :
            [dial[i] EXCEPT !.frames = Append(@, Head(out))] \in Connection
      BY <2>1, <3>1, FrameAppended
    <3>4. QED
      BY <3>1, <3>2, <3>3
  <2>4. QED
    BY <1>2, <2>1, <2>2, <2>3, PictureKept DEF WriteFrame, SocketTypes
<1>3. CASE WriteLost
  <2>1. Tail(out) \in Seq(Frame)
    BY <1>3 DEF WriteLost, SocketTypes
  <2>2. out' \in Seq(Frame)
    BY <1>3, <2>1, AfterLossTyped DEF WriteLost
  <2>3. QED
    BY <1>3, <2>2, PictureKept DEF WriteLost, SocketTypes, sock
<1>4. CASE WriterReady
  BY <1>4, FreshTyped, PictureKept DEF WriterReady, SocketTypes, encoder
<1>5. CASE WatchCommands
  <2>1. conn' \in Connection
    BY <1>5 DEF WatchCommands, SocketTypes, Connection
  <2>2. QED
    BY <1>5, <2>1, PictureKept DEF WatchCommands, SocketTypes
<1>6. CASE RunScript
  BY <1>6, EndTyped, PictureKept DEF RunScript
<1>7. CASE Start
  BY <1>7, PictureKept DEF Start, SocketTypes, sock
<1>8. QED
  BY <1>1, <1>2, <1>3, <1>4, <1>5, <1>6, <1>7

\* Faults lose frames; they bring none.
LEMMA FaultKeeps ==
  LinkInv /\ (SourceClosed \/ Crash \/ Hang \/ Cut \/ GpuFallback) => LinkInv'
<1> SUFFICES ASSUME LinkInv, SourceClosed \/ Crash \/ Hang \/ Cut \/ GpuFallback
             PROVE  LinkInv'
  OBVIOUS
<1> USE DEF LinkInv
<1>1. CASE SourceClosed
  BY <1>1, EndTyped, PictureKept DEF SourceClosed
<1>2. CASE Crash
  BY <1>2, EndTyped, PictureKept DEF Crash
<1>3. CASE Hang
  BY <1>3, PictureKept DEF Hang, SocketTypes, sock, encoder
<1>4. CASE Cut
  <2>1. conn' \in Connection
    BY <1>4, CutOff, NoFrames DEF Cut, SocketTypes
  <2>2. out' \in Seq(Frame)
    BY <1>4, AfterLossTyped DEF Cut, SocketTypes
  <2>3. QED
    BY <1>4, <2>1, <2>2, PictureKept DEF Cut, SocketTypes
<1>5. CASE GpuFallback
  BY <1>5, PictureKept DEF GpuFallback, SocketTypes, sock
<1>6. QED
  BY <1>1, <1>2, <1>3, <1>4, <1>5

LEMMA StepLink == LinkInv /\ [Next]_vars => LinkInv'
<1>1. LinkInv /\ UNCHANGED vars => LinkInv'
  BY PictureKept DEF LinkInv, SocketTypes, vars, sock, encoder
<1>2. QED
  BY <1>1, CaptureKeeps, HostKeeps, CapturerKeeps, FaultKeeps DEF Next

\* The frame served again while the capturer is away has the size the host
\* scales it by, on either transport (KeptFrameFits in CaptureLink).
THEOREM KeptFrameAlwaysFits == Spec => []KeptFrameFits
<1>1. LinkInv => KeptFrameFits
  BY DEF LinkInv
<1>2. QED
  BY <1>1, InitLink, StepLink, PTL DEF Spec

-----------------------------------------------------------------------------
(* A capturer that works                                                   *)

Ages ==
  /\ healthyAge \in Nat /\ drained \in Nat /\ quiet \in Nat
  /\ respawnAge \in Nat \cup {None}

\* A connected capturer's socket is the bridge's, and open; one that dials has
\* the newest place in the backlog.  No process, no connection.
Ends ==
  /\ writer = "accepted" => stream /\ conn.open
  /\ writer = "dialled" => dial # <<>> /\ dial[Len(dial)].open
  /\ phase \in {"up", "hung"} \/ writer = "off"

\* The silence that joins may hide, one wait for a frame each.
Missed == drained * (QuietMax + 1)

\* How long a working capturer can seem dead: while nothing waits to be read, as
\* long as it was quiet; while a frame waits, until the poll that comes next.
Patience ==
  IF conn.frames = <<>> THEN quiet + Missed
  ELSE QuietMax + Missed + (IF polled THEN 0 ELSE 1)

Connected == Working /\ writer = "accepted"

AliveInv ==
  /\ SocketTypes /\ Ages /\ Ends
  /\ quiet <= QuietMax
  /\ Connected => healthyAge <= Patience

LEMMA MissedTyped == ASSUME Ages PROVE Missed \in Nat
BY BoundsAssumption DEF Ages, Missed

LEMMA OneMoreMissed ==
  ASSUME Ages, drained' = drained + 1 PROVE Missed' = Missed + QuietMax + 1
<1>1. drained \in Nat /\ QuietMax \in Nat
  BY BoundsAssumption DEF Ages
<1>2. (drained + 1) * (QuietMax + 1) = drained * (QuietMax + 1) + QuietMax + 1
  BY <1>1
<1>3. QED
  BY <1>2 DEF Missed

LEMMA LastOfTail ==
  ASSUME NEW S, NEW s \in Seq(S), s # <<>>, Len(s) # 1
  PROVE  Tail(s) # <<>> /\ Tail(s)[Len(Tail(s))] = s[Len(s)]
<1>1. Len(s) \in Nat /\ Len(s) > 1
  <2>1. Len(s) \in 1 .. Len(s)
    OBVIOUS
  <2>2. Len(s) \in Nat /\ Len(s) >= 1
    BY <2>1
  <2>3. QED
    BY <2>2
<1>2. Len(Tail(s)) = Len(s) - 1 /\ Len(s) - 1 \in 1 .. Len(s) - 1
  BY <1>1
<1>3. Tail(s)[Len(s) - 1] = s[Len(s)]
  BY <1>1, <1>2
<1>4. Tail(s) # <<>>
  <2>1. Len(Tail(s)) # 0 /\ Len(<<>>) = 0
    BY <1>1, <1>2
  <2>2. QED
    BY <2>1
<1>5. QED
  BY <1>2, <1>3, <1>4

\* A session that starts, or a frame, is life enough.
LEMMA HealthyNow ==
  ASSUME Ages', healthyAge' = 0 PROVE healthyAge' <= Patience'
<1>1. Missed' \in Nat
  BY BoundsAssumption DEF Ages, Missed
<1>2. QuietMax \in Nat /\ quiet' \in Nat /\ QuietMax + Missed' \in Nat
  BY <1>1, BoundsAssumption DEF Ages
<1>3. QuietMax + Missed' + 0 \in Nat /\ QuietMax + Missed' + 1 \in Nat
  BY <1>2
<1>4. Patience' \in {quiet' + Missed', QuietMax + Missed' + 0, QuietMax + Missed' + 1}
  BY DEF Patience
<1>5. quiet' + Missed' \in Nat
  <2>1. \A a, b \in Nat : a + b \in Nat
    OBVIOUS
  <2>2. QED
    BY <1>1, <1>2, <2>1, Zenon
<1>6. Patience' \in Nat
  BY <1>3, <1>4, <1>5, Zenon
<1>7. QED
  BY <1>6

LEMMA InitAlive == Init => AliveInv
<1> SUFFICES ASSUME Init PROVE AliveInv
  OBVIOUS
<1>1. SocketTypes
  BY InitLink DEF LinkInv
<1>2. Ages /\ Ends /\ quiet <= QuietMax
  BY BoundsAssumption DEF Init, Ages, Ends
<1>3. ~Connected
  BY DEF Init, Connected
<1>4. QED
  BY <1>1, <1>2, <1>3 DEF AliveInv

\* What does not touch the connection, nor any clock, changes no verdict.
LEMMA VerdictKept ==
  ASSUME AliveInv, SocketTypes',
         UNCHANGED <<stream, conn, dial, writer, phase, healthyAge, drained, respawnAge,
                     quiet, polled>>
  PROVE  AliveInv'
BY DEF AliveInv, Ages, Ends, Connected, Working, Patience, Missed

\* A bridge that has lost its stream takes the next connection, or none.
LEMMA ReconnectAlive ==
  ASSUME AliveInv, TryReconnect, writer # "accepted",
         UNCHANGED <<transport, phase, quiet>>
  PROVE  /\ Ends' /\ healthyAge' \in Nat /\ drained' \in Nat
         /\ writer' = "accepted" => healthyAge' = 0
<1> USE DEF AliveInv, SocketTypes, Ages
<1>1. CASE CanReconnect /\ TcpAccept
  <2>1. healthyAge' = 0 /\ drained' = 0 /\ stream' = TRUE
    BY <1>1 DEF TryReconnect
  <2>2. dial \in Seq(Connection) /\ dial # <<>> /\ Len(dial) \in Nat \ {0}
    BY <1>1 DEF TcpAccept
  <2>3. CASE writer = "dialled" /\ Len(dial) = 1
    <3>1. conn' = [Head(dial) EXCEPT !.cmd = target] /\ writer' = "accepted"
      BY <1>1, <2>3 DEF TcpAccept
    <3>2. Head(dial) = dial[Len(dial)] /\ Head(dial) \in Connection
      BY <2>2, <2>3
    <3>3. conn'.open
      BY <2>3, <3>1, <3>2 DEF Connection, Ends
    <3>4. QED
      BY <2>1, <3>1, <3>3, <2>3 DEF Ends
  <2>4. CASE ~(writer = "dialled" /\ Len(dial) = 1)
    <3>1. writer' = writer /\ dial' = Tail(dial)
      BY <1>1, <2>4 DEF TcpAccept
    <3>2. ASSUME writer = "dialled" PROVE dial' # <<>> /\ dial'[Len(dial')].open
      <4>1. Len(dial) # 1
        BY <2>4, <3>2
      <4>2. Tail(dial) # <<>> /\ Tail(dial)[Len(Tail(dial))] = dial[Len(dial)]
        BY <2>2, <4>1, LastOfTail
      <4>3. QED
        BY <3>1, <3>2, <4>2 DEF Ends
    <3>3. QED
      BY <2>1, <3>1, <3>2 DEF Ends
  <2>5. QED
    BY <2>3, <2>4
<1>2. CASE CanReconnect /\ HyperVConnect
  <2>1. healthyAge' = 0 /\ drained' = 0 /\ stream' = TRUE
    BY <1>2 DEF TryReconnect
  <2>2. conn'.open /\ writer = "listening" /\ writer' = "accepted"
    BY <1>2 DEF HyperVConnect, Fresh
  <2>3. QED
    BY <2>1, <2>2 DEF Ends
<1>3. CASE ~CanReconnect
  BY <1>3 DEF TryReconnect, Ends
<1>4. QED
  BY <1>1, <1>2, <1>3 DEF TryReconnect

LEMMA RelaunchAges ==
  ASSUME Ages, NEW floor, SpawnRespawn(floor) \/ UNCHANGED respawnAge
  PROVE  respawnAge' \in Nat \cup {None}
BY DEF Ages, SpawnRespawn

\* A poll: whatever it reads is life, and only with nothing to read does it judge.
LEMMA CaptureAlive == AliveInv /\ LinkInv' /\ Capture => AliveInv'
<1> SUFFICES ASSUME AliveInv, LinkInv', Capture PROVE AliveInv'
  OBVIOUS
<1>0. UNCHANGED <<transport, phase, quiet>> /\ polled' = TRUE /\ SocketTypes'
  BY DEF Capture, LinkInv
<1>a. Ages /\ Ends /\ quiet <= QuietMax
  BY DEF AliveInv
<1>1. CASE CaptureAway
  <2>1. writer # "accepted"
    BY <1>1, <1>a DEF CaptureAway, Ends
  <2>2. TryReconnect
    BY <1>1 DEF CaptureAway
  <2>3. /\ Ends' /\ healthyAge' \in Nat /\ drained' \in Nat
        /\ writer' = "accepted" => healthyAge' = 0
    BY <1>0, <2>1, <2>2, ReconnectAlive
  <2>4. respawnAge' \in Nat \cup {None}
    BY <1>1, <1>a, RelaunchAges DEF CaptureAway, MaybeRespawn
  <2>5. Ages'
    BY <1>0, <1>a, <2>3, <2>4 DEF Ages
  <2>6. QED
    BY <1>0, <1>a, <2>3, <2>5, HealthyNow DEF AliveInv, Connected
<1>2. CASE CaptureEncoded \/ CaptureRaw
  <2>1. /\ healthyAge' = 0 /\ drained' = 0
        /\ UNCHANGED <<stream, dial, writer, respawnAge>>
    BY <1>2 DEF CaptureEncoded, CaptureRaw
  <2>2. conn'.open = conn.open
    BY <1>2 DEF CaptureEncoded, CaptureRaw, AliveInv, SocketTypes, Connection
  <2>3. Ages' /\ Ends'
    BY <1>0, <1>a, <2>1, <2>2 DEF Ages, Ends
  <2>4. QED
    BY <1>0, <1>a, <2>1, <2>3, HealthyNow DEF AliveInv
<1>3. CASE CaptureNothing
  <2>1. UNCHANGED <<dial, healthyAge, drained>> /\ conn.frames = <<>>
    BY <1>3 DEF CaptureNothing
  <2>2. CASE healthyAge >= Stale
    <3>1. /\ writer' = IF writer = "accepted" THEN "lost" ELSE writer
          /\ ForceRespawnHung
      BY <1>3, <2>2 DEF CaptureNothing
    <3>2. respawnAge' \in Nat \cup {None}
      BY <1>a, <3>1, RelaunchAges DEF ForceRespawnHung
    <3>3. writer' # "accepted" /\ Ends'
      BY <1>0, <1>a, <2>1, <3>1 DEF Ends
    <3>4. QED
      BY <1>0, <1>a, <2>1, <3>2, <3>3 DEF AliveInv, Connected, Ages
  <2>3. CASE ~(healthyAge >= Stale)
    <3>1. UNCHANGED <<stream, conn, writer, respawnAge>>
      BY <1>3, <2>3 DEF CaptureNothing
    <3>2. Patience' = Patience
      BY <1>0, <2>1, <3>1 DEF Patience, Missed
    <3>3. QED
      BY <1>0, <2>1, <3>1, <3>2 DEF AliveInv, Connected, Working, Ages, Ends
  <2>4. QED
    BY <2>2, <2>3
<1>4. CASE CaptureLost
  <2>1. writer # "accepted" /\ TryReconnect /\ UNCHANGED respawnAge
    BY <1>4, <1>a DEF CaptureLost, Ends
  <2>2. /\ Ends' /\ healthyAge' \in Nat /\ drained' \in Nat
        /\ writer' = "accepted" => healthyAge' = 0
    BY <1>0, <2>1, ReconnectAlive
  <2>3. Ages'
    BY <1>0, <1>a, <2>1, <2>2 DEF Ages
  <2>4. QED
    BY <1>0, <1>a, <2>2, <2>3, HealthyNow DEF AliveInv, Connected
<1>5. QED
  BY <1>1, <1>2, <1>3, <1>4 DEF Capture

\* A join may empty the socket: one more wait for a frame that nobody counted.
LEMMA ResyncAlive == AliveInv /\ SocketTypes' /\ Resync => AliveInv'
<1> SUFFICES ASSUME AliveInv, SocketTypes', Resync PROVE AliveInv'
  OBVIOUS
<1>0. UNCHANGED <<stream, dial, writer, phase, healthyAge, respawnAge, quiet, polled>>
  BY DEF Resync
<1>a. /\ Ages /\ Ends /\ quiet <= QuietMax /\ conn \in Connection
      /\ Missed \in Nat /\ QuietMax \in Nat
  BY MissedTyped, BoundsAssumption DEF AliveInv, SocketTypes
<1>1. drained' \in Nat
  BY <1>a DEF Resync, Ages
<1>2. conn'.open = conn.open /\ (stream => conn'.frames = <<>>)
  BY <1>a DEF Resync, Reassert, RequestIdr, Connection
<1>3. Ages' /\ Ends'
  BY <1>0, <1>a, <1>1, <1>2 DEF Ages, Ends
<1>4. ASSUME Connected' PROVE healthyAge' <= Patience'
  <2>1. Connected /\ stream
    BY <1>0, <1>a, <1>4 DEF Connected, Working, Ends
  <2>2. healthyAge <= Patience /\ conn'.frames = <<>>
    BY <1>2, <2>1 DEF AliveInv
  <2>3. CASE conn.frames = <<>>
    <3>1. Missed' = Missed
      BY <2>3 DEF Resync, Missed
    <3>2. QED
      BY <1>0, <2>2, <2>3, <3>1 DEF Patience
  <2>4. CASE conn.frames # <<>>
    <3>1. Missed' = Missed + QuietMax + 1
      BY <1>a, <2>1, <2>4, OneMoreMissed DEF Resync
    <3>2. healthyAge <= QuietMax + Missed + 1
      BY <1>a, <2>2, <2>4 DEF Patience, Ages
    <3>3. Patience' = quiet + Missed'
      BY <1>0, <2>2 DEF Patience
    <3>4. QED
      BY <1>0, <1>a, <3>1, <3>2, <3>3 DEF Ages
  <2>5. QED
    BY <2>3, <2>4
<1>5. QED
  BY <1>0, <1>a, <1>3, <1>4 DEF AliveInv

\* Commands, either way, move no frame and no clock.
LEMMA CommandAlive ==
  AliveInv /\ SocketTypes' /\ (SetTarget \/ AskKeyframe \/ WatchCommands) => AliveInv'
<1> SUFFICES ASSUME AliveInv, SocketTypes', SetTarget \/ AskKeyframe \/ WatchCommands
             PROVE  AliveInv'
  OBVIOUS
<1>1. UNCHANGED <<stream, dial, writer, phase, healthyAge, drained, respawnAge, quiet, polled>>
  BY DEF SetTarget, AskKeyframe, WatchCommands, clocks
<1>2. conn'.open = conn.open /\ conn'.frames = conn.frames
  <2>1. conn \in Connection
    BY DEF AliveInv, SocketTypes
  <2>2. CASE SetTarget
    BY <2>1, <2>2 DEF SetTarget, Connection
  <2>3. CASE AskKeyframe
    BY <2>1, <2>3 DEF AskKeyframe, RequestIdr, Connection
  <2>4. CASE WatchCommands
    BY <2>1, <2>4 DEF WatchCommands, Connection
  <2>5. QED
    BY <2>2, <2>3, <2>4
<1>3. Patience' = Patience
  BY <1>1, <1>2 DEF Patience, Missed
<1>4. QED
  BY <1>1, <1>2, <1>3 DEF AliveInv, Ages, Ends, Connected, Working

\* A frame written ends the silence, and is there to be read.
LEMMA WriteAlive == AliveInv /\ SocketTypes' /\ WriteFrame => AliveInv'
<1> SUFFICES ASSUME AliveInv, SocketTypes', WriteFrame PROVE AliveInv'
  OBVIOUS
<1>0. /\ UNCHANGED <<stream, writer, phase, healthyAge, drained, respawnAge, polled>>
      /\ quiet' = 0
  BY DEF WriteFrame, clocks
<1>a. /\ Ages /\ Ends /\ quiet <= QuietMax /\ conn \in Connection /\ dial \in Seq(Connection)
      /\ Missed \in Nat /\ QuietMax \in Nat
  BY MissedTyped, BoundsAssumption DEF AliveInv, SocketTypes
<1>1. Ages'
  BY <1>0, <1>a DEF Ages
<1>2. CASE writer = "accepted"
  <2>1. conn' = [conn EXCEPT !.frames = Append(@, Head(out))] /\ dial' = dial
    BY <1>2 DEF WriteFrame
  <2>2. conn'.open = conn.open /\ conn'.frames # <<>>
    <3>1. conn.frames \in Seq(Frame)
      BY <1>a DEF Connection
    <3>2. Append(conn.frames, Head(out)) # <<>>
      BY <3>1
    <3>3. conn'.frames = Append(conn.frames, Head(out)) /\ conn'.open = conn.open
      BY <1>a, <2>1 DEF Connection
    <3>4. QED
      BY <3>2, <3>3
  <2>3. Ends'
    BY <1>0, <1>a, <1>2, <2>1, <2>2 DEF Ends
  <2>4. ASSUME Connected PROVE healthyAge' <= Patience'
    <3>1. healthyAge <= Patience
      BY <2>4 DEF AliveInv
    <3>2. Patience' = QuietMax + Missed + (IF polled THEN 0 ELSE 1)
      BY <1>0, <2>2 DEF Patience, Missed
    <3>3. Patience <= QuietMax + Missed + (IF polled THEN 0 ELSE 1)
      BY <1>a DEF Patience, Ages
    <3>4. Patience \in Nat
      BY <1>a DEF Patience, Ages
    <3>5. QED
      BY <1>0, <1>a, <3>1, <3>2, <3>3, <3>4 DEF Ages
  <2>5. QED
    BY <1>0, <1>a, <1>1, <2>3, <2>4 DEF AliveInv, Connected, Working
<1>3. CASE writer # "accepted"
  <2>1. writer = "dialled" /\ dial' = [dial EXCEPT ![Len(dial)].frames = Append(@, Head(out))]
    BY <1>3 DEF WriteFrame
  <2>2. dial # <<>> /\ dial[Len(dial)].open /\ Len(dial) \in 1 .. Len(dial)
    BY <1>a, <2>1 DEF Ends
  <2>3. Len(dial') = Len(dial) /\ dial' # <<>>
    BY <1>a, <2>1, <2>2
  <2>4. dial'[Len(dial)].open = dial[Len(dial)].open
    <3> DEFINE c == dial[Len(dial)]
               d == [c EXCEPT !.frames = Append(@, Head(out))]
    <3>1. c \in Connection
      BY <1>a, <2>2
    <3>2. d.open = c.open
      BY <3>1 DEF Connection
    <3>3. dial' = [dial EXCEPT ![Len(dial)] = d]
      BY <2>1
    <3> HIDE DEF d
    <3>4. dial'[Len(dial)] = d
      BY <1>a, <2>2, <3>3
    <3>5. QED
      BY <3>2, <3>4
  <2>5. Ends'
    BY <1>0, <1>a, <2>1, <2>2, <2>3, <2>4 DEF Ends
  <2>6. QED
    BY <1>0, <1>a, <1>1, <1>3, <2>5 DEF AliveInv, Connected
<1>4. QED
  BY <1>2, <1>3

\* A writer that is not accepted has a session yet to come.
LEMMA WriterAlive == AliveInv /\ SocketTypes' /\ WriterReady => AliveInv'
<1> SUFFICES ASSUME AliveInv, SocketTypes', WriterReady PROVE AliveInv'
  OBVIOUS
<1>0. /\ UNCHANGED <<stream, conn, phase, healthyAge, drained, respawnAge, polled>>
      /\ quiet' = 0 /\ writer' # "accepted" /\ Alive
  BY DEF WriterReady, clocks
<1>1. writer' = "dialled" => dial' # <<>> /\ dial'[Len(dial')].open
  <2>1. CASE transport = "tcp"
    <3>1. dial' = Append(dial, Fresh) /\ dial \in Seq(Connection)
      BY <2>1 DEF WriterReady, AliveInv, SocketTypes
    <3>2. Len(dial') = Len(dial) + 1 /\ dial'[Len(dial) + 1] = Fresh
      BY <3>1
    <3>3. dial' # <<>> /\ dial'[Len(dial')].open
      BY <3>1, <3>2 DEF Fresh
    <3>4. QED
      BY <3>3
  <2>2. CASE transport # "tcp"
    BY <2>2 DEF WriterReady
  <2>3. QED
    BY <2>1, <2>2
<1>2. Ends' /\ Ages'
  BY <1>0, <1>1 DEF Ends, Ages, Alive, AliveInv
<1>3. QED
  BY <1>0, <1>2, BoundsAssumption DEF AliveInv, Connected

\* Whoever is gone is not connected.
LEMMA GoneAlive ==
  ASSUME AliveInv, SocketTypes', writer' \in {"off", "lost"}, quiet' \in {0, quiet},
         UNCHANGED <<healthyAge, drained, respawnAge>>,
         phase' \in {"up", "hung"} \/ writer' = "off"
  PROVE  AliveInv'
<1>1. Ages' /\ quiet' <= QuietMax
  BY BoundsAssumption DEF AliveInv, Ages
<1>2. Ends' /\ ~Connected'
  BY DEF Ends, Connected
<1>3. QED
  BY <1>1, <1>2 DEF AliveInv

\* The capturer's own steps, and the faults of its side.
LEMMA CapturerAlive ==
  AliveInv /\ SocketTypes'
    /\ (Encode \/ WriteLost \/ RunScript \/ Start \/ SourceClosed \/ Crash \/ Hang \/ Cut
        \/ GpuFallback)
  => AliveInv'
<1> SUFFICES ASSUME AliveInv, SocketTypes',
                    Encode \/ WriteLost \/ RunScript \/ Start \/ SourceClosed \/ Crash
                      \/ Hang \/ Cut \/ GpuFallback
             PROVE  AliveInv'
  OBVIOUS
<1>1. CASE Encode \/ WriteLost \/ GpuFallback
  BY <1>1, VerdictKept DEF Encode, WriteLost, GpuFallback, sock, clocks
<1>2. CASE RunScript \/ SourceClosed \/ Crash
  <2>1. writer' = "off" /\ quiet' = 0 /\ UNCHANGED <<healthyAge, drained, respawnAge>>
    BY <1>2 DEF RunScript, SourceClosed, Crash, EndProcess, clocks
  <2>2. QED
    BY <2>1, GoneAlive
<1>3. CASE Start
  <2>1. writer = "off" /\ writer' = writer
    BY <1>3 DEF Start, sock, AliveInv, Ends
  <2>2. UNCHANGED <<quiet, healthyAge, drained, respawnAge>>
    BY <1>3 DEF Start, clocks
  <2>3. QED
    BY <2>1, <2>2, GoneAlive
<1>4. CASE Hang
  <2>1. /\ phase' = "hung" /\ quiet' = 0
        /\ UNCHANGED <<stream, conn, dial, writer, healthyAge, drained, respawnAge, polled>>
    BY <1>4 DEF Hang, sock, clocks
  <2>2. Ages' /\ Ends' /\ quiet' <= QuietMax
    BY <2>1, BoundsAssumption DEF AliveInv, Ages, Ends
  <2>3. ~Connected'
    BY <2>1 DEF Connected, Working
  <2>4. QED
    BY <2>2, <2>3 DEF AliveInv
<1>5. CASE Cut
  <2>1. writer' = "lost" /\ phase \in {"up", "hung"} /\ phase' = phase
    BY <1>5 DEF Cut, AliveInv, Ends
  <2>2. UNCHANGED <<quiet, healthyAge, drained, respawnAge>>
    BY <1>5 DEF Cut, clocks
  <2>3. QED
    BY <2>1, <2>2, GoneAlive
<1>6. QED
  BY <1>1, <1>2, <1>3, <1>4, <1>5

LEMMA UptoIsOneMore ==
  ASSUME NEW age \in Nat, NEW cap \in Nat \ {0}
  PROVE  Upto(age, cap) \in Nat \ {0} /\ Upto(age, cap) <= age + 1
BY DEF Upto

\* Time passes for a capturer that is quiet, or for a frame that waits for the poll.
LEMMA TickAlive == AliveInv /\ SocketTypes' /\ Tick => AliveInv'
<1> SUFFICES ASSUME AliveInv, SocketTypes', Tick PROVE AliveInv'
  OBVIOUS
<1>0. /\ UNCHANGED <<stream, conn, dial, writer, phase, drained>>
      /\ polled /\ ~polled'
      /\ healthyAge' = Upto(healthyAge, Stale)
      /\ quiet' = (IF Busy THEN quiet + 1 ELSE quiet) /\ (Busy => quiet < QuietMax)
      /\ respawnAge' = IF respawnAge = None THEN None ELSE Upto(respawnAge, Retry)
  BY DEF Tick, sock
<1>a. /\ Ages /\ Ends /\ quiet <= QuietMax
      /\ Missed \in Nat /\ QuietMax \in Nat /\ {Stale, Retry} \subseteq Nat \ {0}
  BY MissedTyped, BoundsAssumption DEF AliveInv
<1>1. healthyAge' \in Nat /\ healthyAge' <= healthyAge + 1
  BY <1>0, <1>a, UptoIsOneMore DEF Ages
<1>2. respawnAge' \in Nat \cup {None}
  <2>1. CASE respawnAge = None
    BY <1>0, <2>1
  <2>2. CASE respawnAge # None
    BY <1>0, <1>a, <2>2, UptoIsOneMore DEF Ages
  <2>3. QED
    BY <2>1, <2>2
<1>3. Ages' /\ Ends' /\ quiet' <= QuietMax
  BY <1>0, <1>1, <1>2, <1>a DEF Ages, Ends
<1>4. ASSUME Connected' PROVE healthyAge' <= Patience'
  <2>1. Connected /\ Busy
    BY <1>0, <1>4 DEF Connected, Working, Busy
  <2>2. healthyAge <= Patience /\ healthyAge \in Nat
    BY <2>1, <1>a DEF AliveInv, Ages
  <2>3. CASE conn.frames = <<>>
    <3>1. Patience = quiet + Missed /\ Patience' = quiet + 1 + Missed
      BY <1>0, <2>1, <2>3 DEF Patience, Missed
    <3>2. QED
      BY <1>1, <1>a, <2>2, <3>1 DEF Ages
  <2>4. CASE conn.frames # <<>>
    <3>1. Patience = QuietMax + Missed + 0 /\ Patience' = QuietMax + Missed + 1
      BY <1>0, <2>4 DEF Patience, Missed
    <3>2. QED
      BY <1>1, <1>a, <2>2, <3>1
  <2>5. QED
    BY <2>3, <2>4
<1>5. QED
  BY <1>3, <1>4 DEF AliveInv

LEMMA StepAlive == AliveInv /\ LinkInv /\ [Next]_vars => AliveInv'
<1> SUFFICES ASSUME AliveInv, LinkInv, [Next]_vars PROVE AliveInv'
  OBVIOUS
<1>1. LinkInv' /\ SocketTypes'
  BY StepLink DEF LinkInv
<1>2. CASE UNCHANGED vars
  BY <1>1, <1>2, VerdictKept DEF vars, sock, clocks
<1>3. CASE Next
  BY <1>1, <1>3, CaptureAlive, ResyncAlive, CommandAlive, WriteAlive, WriterAlive,
     CapturerAlive, TickAlive DEF Next
<1>4. QED
  BY <1>2, <1>3

\* Only a poll that finds the bridge without a stream, or its capturer silent for
\* too long, relaunches.
LEMMA WhoRelaunches ==
  ASSUME AliveInv, [Next]_vars, respawnAge # 0, respawnAge' = 0, Connected
  PROVE  conn.frames = <<>> /\ healthyAge >= Stale
<1>0. stream /\ conn.open /\ respawnAge' # respawnAge /\ Ages
  BY DEF AliveInv, Ends, Connected
<1>1. ~Tick
  <2> SUFFICES ASSUME Tick PROVE FALSE
    OBVIOUS
  <2>1. respawnAge' = IF respawnAge = None THEN None ELSE Upto(respawnAge, Retry)
    BY DEF Tick
  <2>2. CASE respawnAge = None
    BY <1>0, <2>1, <2>2
  <2>3. CASE respawnAge # None
    <3>1. respawnAge \in Nat /\ Retry \in Nat \ {0}
      BY <1>0, <2>3, BoundsAssumption DEF Ages
    <3>2. QED
      BY <2>1, <2>3, <3>1, UptoIsOneMore
  <2>4. QED
    BY <2>2, <2>3
<1>2. Capture
  BY <1>0, <1>1 DEF Next, vars, clocks, SetTarget, AskKeyframe, Resync, Encode, WriteFrame,
     WriteLost, WriterReady, WatchCommands, RunScript, Start, SourceClosed, Crash, Hang, Cut,
     GpuFallback
<1>3. CaptureNothing
  BY <1>0, <1>2 DEF Capture, CaptureAway, CaptureEncoded, CaptureRaw, CaptureLost
<1>4. QED
  BY <1>0, <1>3 DEF CaptureNothing

\* A capturer that works and is connected is relaunched only after joins emptied its
\* socket so often that, at the pace its frames came, the bridge saw nothing for
\* FRAME_STALE_AFTER (WorkingIsLeftAlone in CaptureLink): with fewer joins, never.
THEOREM WorkersAreLeftAlone == Spec => WorkingIsLeftAlone
<1>1. Init => AliveInv /\ LinkInv
  BY InitAlive, InitLink
<1>2. AliveInv /\ LinkInv /\ [Next]_vars => (AliveInv /\ LinkInv)'
  BY StepAlive, StepLink
<1>3. AliveInv /\ [Next]_vars
        => [respawnAge # 0 /\ respawnAge' = 0 /\ Working /\ writer = "accepted"
              => Stale < (drained + 1) * (QuietMax + 1)]_vars
  <2> SUFFICES ASSUME AliveInv, [Next]_vars, respawnAge # 0, respawnAge' = 0, Connected
               PROVE  Stale < (drained + 1) * (QuietMax + 1)
    BY DEF Connected
  <2>1. conn.frames = <<>> /\ healthyAge >= Stale
    BY WhoRelaunches
  <2>2. healthyAge <= quiet + Missed /\ Ages /\ quiet <= QuietMax
    BY <2>1 DEF AliveInv, Patience
  <2>3. /\ Missed \in Nat /\ QuietMax \in Nat /\ drained \in Nat /\ Stale \in Nat
        /\ healthyAge \in Nat /\ quiet \in Nat
    BY <2>2, MissedTyped, BoundsAssumption DEF Ages
  <2>4. (drained + 1) * (QuietMax + 1) = Missed + QuietMax + 1
    BY <2>3 DEF Missed
  <2>5. QED
    BY <2>1, <2>2, <2>3, <2>4
<1>4. QED
  BY <1>1, <1>2, <1>3, PTL DEF Spec, WorkingIsLeftAlone
=============================================================================
