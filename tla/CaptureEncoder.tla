--------------------------- MODULE CaptureEncoder ---------------------------
(***************************************************************************)
(* The threads of the Windows capturer                                     *)
(* (crates/capture-bridge/src/bin/win_capture.rs, encode_target.rs,        *)
(* mf_encoder.rs): the command reader that stores the host's target in     *)
(* four atomics, the capture callback that sends each changed picture      *)
(* through a queue of one, and the encoder thread that builds, feeds and   *)
(* rebuilds an asynchronous hardware encoder.  Each atomic is stored and   *)
(* loaded on its own.  The socket writer only takes from the output queue  *)
(* here; CaptureLink models it.                                            *)
(***************************************************************************)
EXTENDS Naturals, Sequences

CONSTANTS
  Widths, Heights, \* of the box a picture is fitted to
  Fps, Kbps,       \* frame rates and bitrates a target may command
  CliTarget,       \* the target the process was started with
  OutDepth,        \* slots between the encoder and the socket writer
  Scenarios,       \* bound: machines, what the host commands, and how much goes wrong
  RequestIdr, None

Rates == Fps \X Kbps
Target == [width : Widths, height : Heights, fps : Fps, kbps : Kbps]

\* What differs from one machine's encoder to another's.
Machine ==
  [accepts : SUBSET Rates,  \* the rates a build succeeds with
   canConvert : BOOLEAN,    \* the GPU colour conversion works
   takesDevice : BOOLEAN,   \* it takes the D3D11 device: textures go straight in
   runtimeRate : BOOLEAN,   \* it takes a new bitrate while running
   forces : BOOLEAN,        \* it always makes a keyframe when told to
   spacing : Nat,           \* pictures between keyframes where the build bounds them
                            \* (Baseline), 0 where not (Main)
   requests : Nat \ {0}]    \* NeedInput events it keeps outstanding

\* One of them, the commands of the host in their order, and how often a running
\* encoder fails or a frame is shed.
Scenario == [machine : Machine, orders : Seq(Target \cup {RequestIdr}), faults : Nat]

ASSUME ConstantsAssumption ==
  /\ OutDepth \in Nat \ {0} /\ CliTarget \in Target /\ Scenarios \subseteq Scenario
  /\ RequestIdr \notin Target /\ None \notin Widths \cup Fps \cup Rates \cup Target

VARIABLES
  machine,     \* external: the encoder of this machine, fixed for the run
  \* the statics
  tWidth, tHeight, tFps, tKbps, idr, fallback, zeroCopyOk,
  \* the command reader: the target being stored, how far it got, and what is
  \* commanded next
  command, stored, orders,
  \* the capture callback
  loadedWidth, \* the width of the box it has loaded
  held,        \* the surface it is about to send: its size, and whether it is a
               \* "texture" or "pixels"
  convertFailed,
  \* the encoder thread
  pc,          \* "build", "building", "top", "parked", "feed", "plan", "dead"
  loadedFps,   \* the frame rate it has loaded, before the bitrate
  rawQueue, seed, current, encSize, zeroCopy, lastGood, rejected,
  latest, previous, replay,
  credits,     \* NeedInput events posted and not yet taken
  inside,      \* surfaces submitted, not yet output
  forceKey,    \* the encoder was told to make its next picture a keyframe
  sinceKey,    \* pictures since its last keyframe, where it counts them
  out,
  faults,      \* still to come
  owed         \* history: a keyframe was asked for and none queued since

targets == <<tWidth, tHeight, tFps, tKbps>>
reader  == <<command, stored, orders>>
capture == <<loadedWidth, held, convertFailed>>
loaded  == <<loadedFps, seed>>
settings == <<current, encSize, zeroCopy, lastGood, rejected, zeroCopyOk>>
supply  == <<latest, previous, replay>>
hardware == <<credits, inside, forceKey, sinceKey>>
vars == <<machine, targets, idr, fallback, reader, capture, pc, rawQueue, loaded, settings,
          supply, hardware, out, faults, owed>>

Init ==
  /\ \E s \in Scenarios : machine = s.machine /\ orders = s.orders /\ faults = s.faults
  /\ tWidth = CliTarget.width /\ tHeight = CliTarget.height
  /\ tFps = CliTarget.fps /\ tKbps = CliTarget.kbps
  /\ idr = FALSE /\ fallback = FALSE /\ zeroCopyOk = TRUE
  /\ command = None /\ stored = 0
  /\ loadedWidth = None /\ held = None /\ convertFailed = FALSE
  /\ pc = "build" /\ rawQueue = <<>> /\ loadedFps = None /\ seed = None
  /\ current = None /\ encSize = None /\ zeroCopy = FALSE
  /\ lastGood = None /\ rejected = None
  /\ latest = None /\ previous = None /\ replay = None
  /\ credits = 0 /\ inside = <<>> /\ forceKey = FALSE /\ sinceKey = 0
  /\ out = <<>> /\ owed = FALSE

----------------------------------------------------------------------------
(* The command reader thread *)

WatchCommands ==
  /\ command = None /\ orders # <<>>
  /\ orders' = Tail(orders)
  /\ IF Head(orders) = RequestIdr
       THEN idr' = TRUE /\ owed' = TRUE /\ UNCHANGED <<command, stored>>
       ELSE command' = Head(orders) /\ stored' = 0 /\ UNCHANGED <<idr, owed>>
  /\ UNCHANGED <<machine, targets, fallback, capture, pc, rawQueue, loaded, settings, supply,
                 hardware, out, faults>>

\* apply_target: one atomic store after another, the keyframe request last.
ApplyTarget ==
  /\ command # None
  /\ tWidth'  = IF stored = 0 THEN command.width ELSE tWidth
  /\ tHeight' = IF stored = 1 THEN command.height ELSE tHeight
  /\ tFps'    = IF stored = 2 THEN command.fps ELSE tFps
  /\ tKbps'   = IF stored = 3 THEN command.kbps ELSE tKbps
  /\ IF stored = 4
       THEN command' = None /\ stored' = 0 /\ idr' = TRUE /\ owed' = TRUE
       ELSE stored' = stored + 1 /\ UNCHANGED <<command, idr, owed>>
  /\ UNCHANGED <<machine, fallback, orders, capture, pc, rawQueue, loaded, settings, supply,
                 hardware, out, faults>>

----------------------------------------------------------------------------
(* The capture callback *)

\* The screen changed, and the width of the box is loaded.
ScreenChanges ==
  /\ loadedWidth = None /\ held = None
  /\ loadedWidth' = tWidth
  /\ UNCHANGED <<machine, targets, idr, fallback, reader, held, convertFailed, pc, rawQueue,
                 loaded, settings, supply, hardware, out, faults, owed>>

\* Mutant: the callback converts on the GPU whatever the encoder takes.
OnFrameArrivedAlwaysTexture ==
  /\ loadedWidth # None /\ loadedWidth' = None
  /\ convertFailed' = (convertFailed \/ ~machine.canConvert)
  /\ held' = [size |-> <<loadedWidth, tHeight>>,
              kind |-> IF machine.canConvert THEN "texture" ELSE "pixels"]
  /\ UNCHANGED <<machine, targets, idr, fallback, reader, pc, rawQueue, loaded, settings,
                 supply, hardware, out, faults, owed>>

\* Then its height.  The path is chosen on flags read now; the surface is sent
\* later, when the encoder thread may have changed them.
OnFrameArrived ==
  /\ loadedWidth # None /\ loadedWidth' = None
  /\ LET tries == ~convertFailed /\ zeroCopyOk
     IN /\ convertFailed' = (convertFailed \/ (tries /\ ~machine.canConvert))
        /\ held' = [size |-> <<loadedWidth, tHeight>>,
                    kind |-> IF tries /\ machine.canConvert THEN "texture" ELSE "pixels"]
  /\ UNCHANGED <<machine, targets, idr, fallback, reader, pc, rawQueue, loaded, settings,
                 supply, hardware, out, faults, owed>>

\* A full queue, or one whose encoder thread has ended, drops the new surface.
SendToEncoder ==
  rawQueue' = IF pc # "dead" /\ rawQueue = <<>> THEN <<held>> ELSE rawQueue

SendFrame ==
  /\ held # None
  /\ IF held.kind = "texture" \/ ~fallback
       THEN SendToEncoder /\ UNCHANGED out
       ELSE /\ out' = IF Len(out) < OutDepth
                        THEN Append(out, [key |-> TRUE, raw |-> TRUE])
                        ELSE out
            /\ UNCHANGED rawQueue
  /\ held' = None
  /\ UNCHANGED <<machine, targets, idr, fallback, reader, loadedWidth, convertFailed, pc,
                 loaded, settings, supply, hardware, faults, owed>>

----------------------------------------------------------------------------
(* The encoder thread *)

\* Mutant: a target at the frame rate of a refused one is not tried either.
PlanTargetChangeFpsRefused(cur, wanted, rej) ==
  IF wanted = cur \/ (rej # None /\ rej[1] = wanted[1]) THEN "keep"
  ELSE IF wanted[1] = cur[1] THEN "apply" ELSE "rebuild"

\* encode_target.rs
PlanTargetChange(cur, wanted, rej) ==
  IF wanted = cur \/ rej = wanted THEN "keep"
  ELSE IF wanted[1] = cur[1] THEN "apply" ELSE "rebuild"

FallbackAfterFailedBuild(attempted, good) == IF good = attempted THEN None ELSE good

\* The frame rate loaded before, and the bitrate as it is now.
Wanted == <<loadedFps, tKbps>>

\* Mutant: the fallback flag is not set.
GiveUpQuietly ==
  /\ pc' = "dead" /\ rawQueue' = <<>> /\ loadedFps' = None /\ seed' = None
  /\ latest' = None /\ previous' = None /\ replay' = None
  /\ credits' = 0 /\ inside' = <<>> /\ forceKey' = FALSE /\ sinceKey' = 0
  /\ current' = None /\ encSize' = None /\ zeroCopy' = FALSE
  /\ UNCHANGED fallback

GiveUp ==
  /\ fallback' = TRUE /\ pc' = "dead" /\ rawQueue' = <<>> /\ loadedFps' = None /\ seed' = None
  /\ latest' = None /\ previous' = None /\ replay' = None
  /\ credits' = 0 /\ inside' = <<>> /\ forceKey' = FALSE /\ sinceKey' = 0
  /\ current' = None /\ encSize' = None /\ zeroCopy' = FALSE

\* A device-backed encoder takes textures as they are (new_with_device,
\* is_zero_copy, submit_texture).
TakesTextures(s) == s.kind = "texture" /\ machine.takesDevice

\* set_bitrate: the running encoder may refuse a new bitrate.
RefusesRate(plan) == plan = "apply" /\ ~machine.runtimeRate

\* request_keyframe: without an ICodecAPI, or when SetValue is refused, nothing
\* is forced.
RequestKeyframe == forceKey' \in IF machine.forces THEN {TRUE} ELSE {forceKey, TRUE}

\* Only the Baseline branch of the build bounds the pictures between keyframes.
BoundsGop == machine.spacing > 0
KeyDue == forceKey \/ (BoundsGop /\ sinceKey + 1 >= machine.spacing)

\* The thread receives its first surface, or has the one that made it rebuild,
\* and loads the frame rate.
StartBuild ==
  /\ pc = "build" /\ (seed # None \/ rawQueue # <<>>)
  /\ seed' = IF seed # None THEN seed ELSE Head(rawQueue)
  /\ rawQueue' = IF seed # None THEN rawQueue ELSE <<>>
  /\ loadedFps' = tFps /\ pc' = "building"
  /\ UNCHANGED <<machine, targets, idr, fallback, reader, capture, settings, supply, hardware,
                 out, faults, owed>>

\* An encoder built at rate r for surface s: it starts with a keyframe, and
\* nothing of the encoder before it is replayed.
Built(s, r) ==
  /\ current' = r /\ encSize' = s.size /\ lastGood' = r
  /\ zeroCopy' = TakesTextures(s)
  /\ zeroCopyOk' = (zeroCopyOk /\ zeroCopy')
  /\ latest' = s /\ previous' = None /\ replay' = None
  /\ credits' = machine.requests /\ inside' = <<>> /\ forceKey' = TRUE /\ sinceKey' = 0
  /\ loadedFps' = None /\ seed' = None /\ pc' = "top"

Build ==
  /\ pc = "building"
  /\ LET second == FallbackAfterFailedBuild(Wanted, lastGood)
     IN IF Wanted \in machine.accepts \/ (second # None /\ second \in machine.accepts)
          THEN /\ Built(seed, IF Wanted \in machine.accepts THEN Wanted ELSE second)
               /\ rejected' = IF Wanted \in machine.accepts THEN rejected ELSE Wanted
               /\ UNCHANGED <<rawQueue, fallback>>
          ELSE /\ GiveUp
               /\ rejected' = IF second = None THEN rejected ELSE Wanted
               /\ UNCHANGED <<lastGood, zeroCopyOk>>
  /\ UNCHANGED <<machine, targets, idr, reader, capture, out, faults, owed>>

\* Top of the loop: a keyframe request is taken, then the thread parks on the
\* encoder's event queue.
TakeIdr ==
  /\ pc = "top" /\ pc' = "parked"
  /\ IF idr THEN RequestKeyframe ELSE UNCHANGED forceKey
  /\ idr' = FALSE
  /\ UNCHANGED <<machine, targets, fallback, reader, capture, rawQueue, loaded, settings,
                 supply, credits, inside, sinceKey, out, faults, owed>>

NeedInput ==
  /\ pc = "parked" /\ credits > 0
  /\ credits' = credits - 1 /\ pc' = "feed"
  /\ UNCHANGED <<machine, targets, idr, fallback, reader, capture, rawQueue, loaded, settings,
                 supply, inside, forceKey, sinceKey, out, faults, owed>>

\* The surface of the beat: the newest captured, else a replay.
Newest == IF rawQueue # <<>> THEN Head(rawQueue) ELSE latest
Supply == IF Newest # None THEN Newest ELSE IF replay # None THEN replay ELSE previous

\* It is taken; one of another size needs another encoder, for the others the
\* frame rate is loaded.
Feed ==
  /\ pc = "feed" /\ Supply # None
  /\ seed' = Supply /\ rawQueue' = <<>> /\ latest' = None
  /\ IF Supply.size # encSize
       THEN pc' = "build" /\ UNCHANGED loadedFps
       ELSE pc' = "plan" /\ loadedFps' = tFps
  /\ UNCHANGED <<machine, targets, idr, fallback, reader, capture, settings, previous, replay,
                 hardware, out, faults, owed>>

\* What submitting surface s leaves for replay: a copy of its texture (a replayed
\* one is that copy), or the pixels.  A texture at a system-memory encoder is
\* dropped unsubmitted.  An encoder may make any picture a keyframe.
Dropped(s) == s.kind = "texture" /\ ~zeroCopy
Submit(s) ==
  IF Dropped(s)
    THEN UNCHANGED <<inside, forceKey, sinceKey, previous, replay>>
    ELSE /\ \E key \in BOOLEAN :
              /\ KeyDue => key
              /\ inside' = Append(inside, [key |-> key, raw |-> FALSE])
              /\ sinceKey' = IF key \/ ~BoundsGop THEN 0 ELSE sinceKey + 1
         /\ forceKey' = FALSE
         /\ replay' = IF s.kind = "texture" THEN s ELSE replay
         /\ previous' = IF s.kind = "pixels" THEN s ELSE previous

Plan == PlanTargetChange(current, Wanted, rejected)
Rebuilds == Plan = "rebuild" \/ RefusesRate(Plan)

\* The bitrate is loaded, and the surface submitted or kept for a new encoder.
FollowTarget ==
  /\ pc = "plan" /\ loadedFps' = None
  /\ IF Rebuilds
       THEN /\ pc' = "build"
            /\ UNCHANGED <<seed, inside, forceKey, sinceKey, previous, replay, current, lastGood>>
       ELSE /\ Submit(seed)
            /\ current' = IF Plan = "apply" THEN Wanted ELSE current
            /\ lastGood' = IF Plan = "apply" THEN Wanted ELSE lastGood
            /\ pc' = "top" /\ seed' = None
  /\ UNCHANGED <<machine, targets, idr, fallback, reader, capture, rawQueue, encSize, zeroCopy,
                 rejected, zeroCopyOk, latest, credits, out, faults, owed>>

\* Mutant: a frame shed is not followed by a keyframe.
HaveOutputSilent ==
  /\ pc = "parked" /\ inside # <<>>
  /\ inside' = Tail(inside) /\ credits' = credits + 1
  /\ IF Len(out) < OutDepth
       THEN /\ out' = Append(out, Head(inside))
            /\ owed' = (owed /\ ~Head(inside).key)
            /\ UNCHANGED faults
       ELSE /\ faults > 0 /\ faults' = faults - 1
            /\ owed' = TRUE /\ UNCHANGED out
  /\ latest' = IF rawQueue # <<>> THEN Head(rawQueue) ELSE None
  /\ rawQueue' = <<>>
  /\ pc' = "top"
  /\ UNCHANGED <<machine, targets, idr, fallback, reader, capture, loaded, settings, previous,
                 replay, forceKey, sinceKey>>

\* One output: queued for the writer, or shed with a keyframe asked for.  When
\* nothing more is to go wrong, the writer keeps up.  What waits in the queue replaces the
\* picture kept, and so does nothing.
HaveOutput ==
  /\ pc = "parked" /\ inside # <<>>
  /\ inside' = Tail(inside) /\ credits' = credits + 1
  /\ IF Len(out) < OutDepth
       THEN /\ out' = Append(out, Head(inside))
            /\ owed' = (owed /\ ~Head(inside).key)
            /\ UNCHANGED <<forceKey, faults>>
       ELSE /\ faults > 0 /\ faults' = faults - 1
            /\ RequestKeyframe /\ owed' = TRUE /\ UNCHANGED out
  /\ latest' = IF rawQueue # <<>> THEN Head(rawQueue) ELSE None
  /\ rawQueue' = <<>>
  /\ pc' = "top"
  /\ UNCHANGED <<machine, targets, idr, fallback, reader, capture, loaded, settings, previous,
                 replay, sinceKey>>

\* The event queue or a submission fails.
EncoderFails ==
  /\ pc = "parked" \/ (pc = "plan" /\ ~Rebuilds /\ ~Dropped(seed))
  /\ faults > 0 /\ faults' = faults - 1
  /\ GiveUp
  /\ UNCHANGED <<machine, targets, idr, reader, capture, lastGood, rejected, zeroCopyOk, out,
                 owed>>

----------------------------------------------------------------------------
\* The socket writer takes a frame.
WriterTakes ==
  /\ out # <<>> /\ out' = Tail(out)
  /\ UNCHANGED <<machine, targets, idr, fallback, reader, capture, pc, rawQueue, loaded,
                 settings, supply, hardware, faults, owed>>

Thread == StartBuild \/ Build \/ TakeIdr \/ NeedInput \/ Feed \/ FollowTarget \/ HaveOutput

Next ==
  \/ WatchCommands \/ ApplyTarget \/ ScreenChanges \/ OnFrameArrived \/ SendFrame
  \/ Thread \/ EncoderFails \/ WriterTakes

\* The threads run; nothing makes the screen change or the host command.
Fairness ==
  /\ WF_vars(ApplyTarget) /\ WF_vars(OnFrameArrived \/ SendFrame) /\ WF_vars(WriterTakes)
  /\ WF_vars(StartBuild \/ Build \/ Feed \/ FollowTarget \/ TakeIdr)
  /\ WF_vars(NeedInput) /\ WF_vars(HaveOutput)

Spec == Init /\ [][Next]_vars /\ Fairness

\* A screen that keeps changing.
MovingSpec == Spec /\ WF_vars(ScreenChanges)

----------------------------------------------------------------------------
\* The textures dropped by an encoder that turned out not to take them never use
\* up the beats it waits for: it keeps something to do
\* (win_capture.rs: "drop it and let the capture thread notice the flag").
NotStarved == pc \in {"top", "parked"} => credits + Len(inside) > 0

\* However the stores of the host's targets interleave with the loads of frames
\* and rebuilds, the encoder ends up at what was commanded last
\* (plan_target_change, fallback_after_failed_build): at its rate, unless a build refused
\* that rate; and at its size, provided that captured pictures go on reaching the
\* beats, since a beat that replays one is of the old size (on_frame_arrived,
\* "capture resized").
Commanded == <<tFps, tKbps>>
FollowsRate == <>[](pc = "dead" \/ current = Commanded \/ rejected = Commanded)
FollowsSize ==
  []<>(pc = "feed" /\ Newest # None) => <>[](pc = "dead" \/ encSize = <<tWidth, tHeight>>)
FollowsTarget == FollowsRate /\ FollowsSize

\* A keyframe the host asked for, or one that a shed frame makes necessary, is
\* queued in the end, unless the encoder fails: it is forced, or comes with the
\* schedule.  Not so where nothing is forced and nothing scheduled.
IdrAnswered ==
  ((machine.forces \/ BoundsGop) /\ owed) ~> (~owed \/ pc = "dead")

\* A dead encoder is followed by raw pixels, unless the callback still converts
\* on the GPU and sends its textures to the thread that has ended
\* (win_capture.rs: "switching the capture thread back to shipping raw pixels").
RawSent == \E i \in 1 .. Len(out) : out[i].raw
FallsBackUnlessTexture == (pc = "dead" /\ ~(zeroCopyOk /\ machine.canConvert)) ~> RawSent
=============================================================================
