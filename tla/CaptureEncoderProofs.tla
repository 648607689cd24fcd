------------------------ MODULE CaptureEncoderProofs ------------------------
(***************************************************************************)
(* The Windows encoder.  How many input requests it must keep outstanding  *)
(* so that the textures it turned out not to take do not use them all up:  *)
(* three.  And what its samples become: the units of a sample arrive as    *)
(* they were, whatever their format and length (NalStream's Unchanged and  *)
(* JoinsAtKeyframe), with the recursion of avcc_to_annex_b shown to have a *)
(* result first, by induction on the length of a sample.                   *)
(***************************************************************************)
EXTENDS CaptureEncoder, NalStream, SequenceTheorems, FiniteSetTheorems,
        WellFoundedInduction, TLAPS

-----------------------------------------------------------------------------

IsTexture(s) == s # None /\ s.kind = "texture"

\* Textures that can still reach the encoder: in the callback's hands, as the
\* beat's next surface, however many wait for it, and in the thread's hands.
HeldTexture == IF IsTexture(held) THEN 1 ELSE 0
NextTexture ==
  IF (rawQueue # <<>> /\ IsTexture(Head(rawQueue))) \/ IsTexture(latest) THEN 1 ELSE 0
TakenTexture == IF pc = "plan" /\ seed.kind = "texture" THEN 1 ELSE 0
OnTheWay == HeldTexture + NextTexture + TakenTexture

\* Requests waiting, being answered, or due once what is inside comes out.
Beats == credits + Len(inside) + (IF pc \in {"feed", "plan"} THEN 1 ELSE 0)

Encoding == pc \in {"top", "parked", "feed", "plan"}
Picture == [key : BOOLEAN, raw : BOOLEAN]

\* The requests this machine's encoder keeps outstanding.
Requests == machine.requests

AllBeats == Beats >= Requests
ButTwo == Beats + 2 >= Requests + OnTheWay
NoneKept == ~IsTexture(replay) /\ ~IsTexture(previous)
BeatTypes ==
  /\ credits \in Nat /\ inside \in Seq(Picture) /\ forceKey \in BOOLEAN
  /\ zeroCopy \in BOOLEAN /\ Requests \in Nat

\* An encoder that takes textures loses no beat; one that does not loses at most
\* the two it can be sent before the callback sees the flag.
BeatInv ==
  /\ BeatTypes
  /\ Encoding /\ zeroCopy => AllBeats
  /\ Encoding /\ ~zeroCopy => ~zeroCopyOk /\ NoneKept /\ ButTwo

\* Nothing is promised of an encoder that is not there.
LEMMA NoEncoder ==
  ASSUME BeatInv, machine' = machine,
         credits' = 0, inside' = <<>>, forceKey' = FALSE, zeroCopy' = FALSE, pc' = "dead"
  PROVE  BeatInv'
<1>1. 0 \in Nat /\ <<>> \in Seq(Picture)
  OBVIOUS
<1>2. ~Encoding'
  BY DEF Encoding
<1>3. Requests' \in Nat
  BY DEF Requests, BeatInv, BeatTypes
<1>4. QED
  BY <1>1, <1>2, <1>3, Zenon DEF BeatInv, BeatTypes

\* There is no encoder at first.
LEMMA BeatInit == Init => BeatInv
<1> SUFFICES ASSUME Init PROVE BeatInv
  OBVIOUS
<1>1. 0 \in Nat /\ <<>> \in Seq(Picture)
  OBVIOUS
<1>2. ~Encoding
  BY DEF Init, Encoding
<1>3. credits = 0 /\ inside = <<>> /\ forceKey = FALSE /\ zeroCopy = FALSE
  BY DEF Init
<1>4. Requests \in Nat
  BY ConstantsAssumption DEF Init, Requests, Scenario, Machine
<1>5. QED
  BY <1>1, <1>2, <1>3, <1>4, Zenon DEF BeatInv, BeatTypes

\* A step that leaves the encoder, its supply and the callback's surface alone.
LEMMA BeatKept ==
  ASSUME BeatInv,
         UNCHANGED <<machine, held, pc, rawQueue, seed, zeroCopy, zeroCopyOk, supply, hardware>>
  PROVE  BeatInv'
BY DEF BeatInv, BeatTypes, Encoding, AllBeats, ButTwo, NoneKept, Beats, OnTheWay, HeldTexture,
       NextTexture, TakenTexture, IsTexture, Requests, supply, hardware

\* The numbers the beats are counted in.
LEMMA Numbers ==
  /\ HeldTexture \in 0..1 /\ NextTexture \in 0..1 /\ TakenTexture \in 0..1 /\ OnTheWay \in Nat
  /\ BeatTypes => Beats \in Nat /\ Len(inside) \in Nat /\ Requests \in Nat
BY DEF HeldTexture, NextTexture, TakenTexture, OnTheWay, Beats, BeatTypes

\* The same after a step.
LEMMA NumbersAfter ==
  HeldTexture' \in 0..1 /\ NextTexture' \in 0..1 /\ TakenTexture' \in 0..1 /\ OnTheWay' \in Nat
BY DEF HeldTexture, NextTexture, TakenTexture, OnTheWay

\* All requests and the slack of two cover two textures.
LEMMA AtMostTwo ==
  ASSUME NEW c \in Nat, NEW w \in Nat, w <= 2 PROVE c >= c /\ c + 2 >= c + w
OBVIOUS

\* Sums of what is on the way: the thread's hands are empty, what was held or next
\* moves on, or goes to the thread's hands.
LEMMA Sums ==
  ASSUME NEW h \in 0..1, NEW n \in 0..1, NEW t \in 0..1,
         NEW i \in 0..1, NEW o \in 0..1, NEW u \in 0..1
  PROVE  /\ h + n + 0 <= 2
         /\ u <= t /\ i <= h /\ o <= n => i + o + u <= h + n + t
         /\ i = 0 /\ u <= t /\ o <= h + n => i + o + u <= h + n + t
         /\ i <= h /\ o = 0 /\ u <= n => i + o + u <= h + n + t
OBVIOUS

\* The sums of this state and the next.
LEMMA SumsOnTheWay ==
  /\ TakenTexture' = 0 => OnTheWay' <= 2
  /\ TakenTexture' <= TakenTexture /\ HeldTexture' <= HeldTexture /\ NextTexture' <= NextTexture
       => OnTheWay' <= OnTheWay
  /\ HeldTexture' = 0 /\ TakenTexture' <= TakenTexture /\ NextTexture' <= HeldTexture + NextTexture
       => OnTheWay' <= OnTheWay
  /\ HeldTexture' <= HeldTexture /\ NextTexture' = 0 /\ TakenTexture' <= NextTexture
       => OnTheWay' <= OnTheWay
<1> DEFINE h == HeldTexture  n == NextTexture  t == TakenTexture
           i == HeldTexture'  o == NextTexture'  u == TakenTexture'
<1>1. h \in 0..1 /\ n \in 0..1 /\ t \in 0..1 /\ i \in 0..1 /\ o \in 0..1 /\ u \in 0..1
  BY Numbers, NumbersAfter
<1>2. OnTheWay = h + n + t /\ OnTheWay' = i + o + u
  BY DEF OnTheWay
<1> HIDE DEF h, n, t, i, o, u
<1>3. /\ u = 0 => i + o + u <= 2
      /\ u <= t /\ i <= h /\ o <= n => i + o + u <= h + n + t
      /\ i = 0 /\ u <= t /\ o <= h + n => i + o + u <= h + n + t
      /\ i <= h /\ o = 0 /\ u <= n => i + o + u <= h + n + t
  BY <1>1, Sums
<1>4. QED
  BY <1>2, <1>3 DEF h, n, t, i, o, u

\* All requests outstanding are enough while the thread has no surface in hand.
LEMMA FullBeats ==
  ASSUME Requests \in Nat, Requests' = Requests, Beats' = Requests, pc' = "top"
  PROVE  AllBeats' /\ ButTwo'
<1>1. TakenTexture' = 0
  BY DEF TakenTexture
<1>2. OnTheWay' <= 2 /\ OnTheWay' \in Nat
  BY <1>1, Numbers, NumbersAfter, SumsOnTheWay
<1>3. Requests >= Requests /\ Requests + 2 >= Requests + OnTheWay'
  BY <1>2, AtMostTwo
<1>4. QED
  BY <1>3 DEF AllBeats, ButTwo

\* A running encoder whose device stays as it is: it is enough that its beats do,
\* and that no texture appears.
LEMMA StillEncoding ==
  ASSUME BeatInv, BeatTypes', Encoding, UNCHANGED <<machine, zeroCopy, zeroCopyOk>>,
         Beats' = Beats,
         ~zeroCopy /\ ~zeroCopyOk /\ NoneKept => NoneKept' /\ OnTheWay' <= OnTheWay
  PROVE  BeatInv'
<1>1. AllBeats => AllBeats'
  BY DEF AllBeats, Requests
<1>2. ButTwo /\ OnTheWay' <= OnTheWay => ButTwo'
  <2>1. BeatTypes
    BY Zenon DEF BeatInv
  <2>2. Requests' = Requests
    BY DEF Requests
  <2>3. QED
    BY <2>1, <2>2, Numbers, NumbersAfter DEF ButTwo
<1>3. QED
  BY <1>1, <1>2, Zenon DEF BeatInv

\* A step after which no encoder runs.
LEMMA NotEncoding ==
  ASSUME BeatInv, ~Encoding', UNCHANGED <<machine, credits, inside, forceKey, zeroCopy>>
  PROVE  BeatInv'
<1>1. BeatTypes'
  BY DEF BeatInv, BeatTypes, Requests
<1>2. QED
  BY <1>1, Zenon DEF BeatInv

\* The callback takes the GPU path only while the flag is up.
LEMMA ArrivedKeepsBeats == BeatInv /\ OnFrameArrived => BeatInv'
<1> SUFFICES ASSUME BeatInv, OnFrameArrived PROVE BeatInv'
  OBVIOUS
<1>1. /\ UNCHANGED <<pc, rawQueue, seed, zeroCopy, zeroCopyOk, latest, previous, replay>>
      /\ UNCHANGED <<machine, credits, inside, forceKey>>
  BY DEF OnFrameArrived, settings, supply, hardware, loaded
<1>2. ~zeroCopyOk => ~IsTexture(held')
  BY DEF OnFrameArrived, IsTexture
<1>3. ~zeroCopyOk => HeldTexture' = 0
  BY <1>2 DEF HeldTexture, IsTexture
<1>4. NextTexture' = NextTexture /\ TakenTexture' = TakenTexture
  BY <1>1 DEF NextTexture, TakenTexture, IsTexture
<1>5. ~zeroCopyOk => OnTheWay' <= OnTheWay
  BY <1>3, <1>4, Numbers DEF OnTheWay
<1>6. Beats' = Beats /\ Encoding' = Encoding /\ BeatTypes' /\ NoneKept' = NoneKept
  BY <1>1 DEF Beats, Encoding, NoneKept, IsTexture, BeatInv, BeatTypes, Requests
<1>7. CASE Encoding
  BY <1>1, <1>5, <1>6, <1>7, StillEncoding
<1>8. CASE ~Encoding
  BY <1>1, <1>6, <1>8, NotEncoding
<1>9. QED
  BY <1>7, <1>8

\* A texture that is sent moves from the callback's hands to the queue.
LEMMA SendKeepsBeats == BeatInv /\ SendFrame => BeatInv'
<1> SUFFICES ASSUME BeatInv, SendFrame PROVE BeatInv'
  OBVIOUS
<1>1. /\ UNCHANGED <<pc, seed, zeroCopy, zeroCopyOk, latest, previous, replay>>
      /\ UNCHANGED <<machine, credits, inside, forceKey>>
      /\ held # None /\ held' = None
  BY DEF SendFrame, settings, supply, hardware, loaded
<1>2. rawQueue' = rawQueue \/ (rawQueue = <<>> /\ rawQueue' = <<held>>)
  BY DEF SendFrame, SendToEncoder
<1>3. HeldTexture' = 0 /\ TakenTexture' = TakenTexture
  BY <1>1 DEF HeldTexture, TakenTexture, IsTexture
<1>4. NextTexture' <= HeldTexture + NextTexture
  <2>1. CASE rawQueue' = rawQueue
    BY <1>1, <2>1 DEF HeldTexture, NextTexture, IsTexture
  <2>2. CASE rawQueue = <<>> /\ rawQueue' = <<held>>
    <3>1. Head(rawQueue') = held
      BY <2>2
    <3>2. QED
      BY <1>1, <2>2, <3>1 DEF HeldTexture, NextTexture, IsTexture
  <2>3. QED
    BY <1>2, <2>1, <2>2
<1>5. OnTheWay' <= OnTheWay
  BY <1>3, <1>4, Numbers, SumsOnTheWay
<1>6. Beats' = Beats /\ Encoding' = Encoding /\ BeatTypes' /\ NoneKept' = NoneKept
  BY <1>1 DEF Beats, Encoding, NoneKept, IsTexture, BeatInv, BeatTypes, Requests
<1>7. CASE Encoding
  BY <1>1, <1>5, <1>6, <1>7, StillEncoding
<1>8. CASE ~Encoding
  BY <1>1, <1>6, <1>8, NotEncoding
<1>9. QED
  BY <1>7, <1>8

\* The thread has no encoder while it takes the surface to build one for.
LEMMA StartKeepsBeats == BeatInv /\ StartBuild => BeatInv'
<1> SUFFICES ASSUME BeatInv, StartBuild PROVE BeatInv'
  OBVIOUS
<1>1. pc' = "building" /\ UNCHANGED <<machine, credits, inside, forceKey, zeroCopy>>
  BY DEF StartBuild, settings, hardware
<1>2. QED
  BY <1>1, NotEncoding DEF Encoding

\* A new encoder has all its requests, and at most two textures are on the way.
LEMMA BuildKeepsBeats == BeatInv /\ Build => BeatInv'
<1> SUFFICES ASSUME BeatInv, Build PROVE BeatInv'
  OBVIOUS
<1>0. machine' = machine
  BY DEF Build
<1>1. CASE GiveUp
  BY <1>0, <1>1, NoEncoder DEF GiveUp
<1>2. ASSUME NEW s, NEW r, Built(s, r) PROVE BeatInv'
  <2>1. /\ credits' = Requests /\ inside' = <<>> /\ forceKey' = TRUE /\ pc' = "top"
        /\ zeroCopy' = TakesTextures(s) /\ zeroCopyOk' = (zeroCopyOk /\ zeroCopy')
        /\ previous' = None /\ replay' = None
    BY <1>2 DEF Built, Requests
  <2>2. /\ Beats' = Requests /\ Requests \in Nat /\ Requests' = Requests
        /\ inside' \in Seq(Picture)
    BY <1>0, <2>1 DEF Beats, Requests, BeatInv, BeatTypes
  <2>3. NoneKept'
    BY <2>1 DEF NoneKept, IsTexture
  <2>4. BeatTypes'
    <3>1. zeroCopy' \in BOOLEAN
      BY <2>1, Zenon DEF TakesTextures
    <3>2. QED
      BY <2>1, <2>2, <3>1, Zenon DEF BeatTypes
  <2>5. AllBeats' /\ ButTwo'
    BY <2>1, <2>2, FullBeats
  <2>6. ~zeroCopy' => ~zeroCopyOk'
    BY <2>1
  <2>7. QED
    BY <2>3, <2>4, <2>5, <2>6, Zenon DEF BeatInv
<1>3. QED
  BY <1>1, <1>2 DEF Build

\* The surface of a beat is taken: one that is a texture comes from the queue when
\* none is kept for replay.
LEMMA FeedKeepsBeats == BeatInv /\ Feed => BeatInv'
<1> SUFFICES ASSUME BeatInv, Feed PROVE BeatInv'
  OBVIOUS
<1>1. /\ pc = "feed" /\ Supply # None /\ seed' = Supply /\ rawQueue' = <<>> /\ latest' = None
      /\ UNCHANGED <<machine, held, zeroCopy, zeroCopyOk, previous, replay>>
      /\ UNCHANGED <<credits, inside, forceKey>>
      /\ pc' \in {"build", "plan"}
  BY DEF Feed, capture, settings, hardware
<1>2. CASE pc' = "build"
  BY <1>1, <1>2, NotEncoding DEF Encoding
<1>3. CASE pc' = "plan"
  <2>1. Encoding /\ Beats' = Beats /\ BeatTypes' /\ NoneKept' = NoneKept
    BY <1>1, <1>3 DEF Encoding, Beats, BeatInv, BeatTypes, NoneKept, IsTexture, Requests
  <2>2. HeldTexture' = HeldTexture /\ NextTexture' = 0 /\ TakenTexture = 0
    BY <1>1 DEF HeldTexture, NextTexture, TakenTexture, IsTexture
  <2>3. NoneKept /\ Supply.kind = "texture" => NextTexture = 1
    BY <1>1 DEF Supply, Newest, NoneKept, NextTexture, IsTexture
  <2>4. NoneKept => TakenTexture' <= NextTexture
    BY <1>1, <2>3, Numbers, NumbersAfter DEF TakenTexture
  <2>5. NoneKept => OnTheWay' <= OnTheWay
    BY <2>2, <2>4, Numbers, SumsOnTheWay
  <2>6. QED
    BY <1>1, <2>1, <2>5, StillEncoding
<1>4. QED
  BY <1>1, <1>2, <1>3

\* What is submitted takes its beat along, inside the encoder.
LEMMA SubmittedKeepsBeats ==
  ASSUME BeatInv, FollowTarget, Submit(seed), pc' = "top", ~Dropped(seed)
  PROVE  BeatInv'
<1>1. /\ pc = "plan"
      /\ UNCHANGED <<machine, held, rawQueue, latest, zeroCopy, zeroCopyOk, credits>>
  BY DEF FollowTarget, capture
<1>2. PICK key \in BOOLEAN : inside' = Append(inside, [key |-> key, raw |-> FALSE])
  BY DEF Submit
<1>3. /\ forceKey' = FALSE
      /\ replay' = IF seed.kind = "texture" THEN seed ELSE replay
      /\ previous' = IF seed.kind = "pixels" THEN seed ELSE previous
  BY DEF Submit
<1>4. [key |-> key, raw |-> FALSE] \in Picture
  BY DEF Picture
<1>5. inside' \in Seq(Picture) /\ Len(inside') = Len(inside) + 1
  BY <1>2, <1>4 DEF BeatInv, BeatTypes
<1>6. BeatTypes'
  BY <1>1, <1>3, <1>5 DEF BeatInv, BeatTypes, Requests
<1>7. Beats' = Beats
  BY <1>1, <1>5, Numbers DEF Beats, BeatInv, BeatTypes
<1>8. HeldTexture' = HeldTexture /\ NextTexture' = NextTexture /\ TakenTexture' = 0
  BY <1>1 DEF HeldTexture, NextTexture, TakenTexture, IsTexture
<1>9. OnTheWay' <= OnTheWay
  BY <1>8, Numbers DEF OnTheWay
<1>10. ~zeroCopy /\ NoneKept => NoneKept'
  BY <1>3 DEF NoneKept, IsTexture, Dropped
<1>11. Encoding
  BY <1>1 DEF Encoding
<1>12. QED
  BY <1>1, <1>6, <1>7, <1>9, <1>10, <1>11, StillEncoding

\* A texture that is dropped was on the way, in the thread's hands, and its beat
\* was counted.
LEMMA DroppedKeepsBeats ==
  ASSUME BeatInv, FollowTarget, Submit(seed), pc' = "top", Dropped(seed)
  PROVE  BeatInv'
<1>1. /\ pc = "plan"
      /\ UNCHANGED <<machine, held, rawQueue, latest, zeroCopy, zeroCopyOk, credits>>
      /\ seed.kind = "texture" /\ ~zeroCopy
  BY DEF FollowTarget, capture, Dropped
<1>2. UNCHANGED <<inside, forceKey, previous, replay>>
  BY DEF Submit
<1>3. Encoding
  BY <1>1 DEF Encoding
<1>4. NoneKept /\ ButTwo /\ ~zeroCopyOk /\ BeatTypes
  BY <1>1, <1>3, Zenon DEF BeatInv
<1>5. /\ HeldTexture' = HeldTexture /\ NextTexture' = NextTexture
      /\ TakenTexture = 1 /\ TakenTexture' = 0
  BY <1>1 DEF HeldTexture, NextTexture, TakenTexture, IsTexture
<1>6. Beats' = Beats - 1
  BY <1>1, <1>2, <1>4, Numbers DEF Beats, BeatTypes
<1>7. OnTheWay' = OnTheWay - 1
  BY <1>5, Numbers DEF OnTheWay
<1>8. ButTwo'
  <2>1. Requests' = Requests
    BY <1>1 DEF Requests
  <2>2. QED
    BY <1>4, <1>6, <1>7, <2>1, Numbers DEF ButTwo
<1>9. NoneKept' /\ BeatTypes'
  BY <1>1, <1>2, <1>4 DEF NoneKept, IsTexture, BeatTypes, Requests
<1>10. ~zeroCopy' /\ ~zeroCopyOk'
  BY <1>1, <1>4
<1>11. QED
  BY <1>8, <1>9, <1>10, Zenon DEF BeatInv

\* The surface taken is submitted, dropped, or kept for another encoder.
LEMMA FollowKeepsBeats == BeatInv /\ FollowTarget => BeatInv'
<1> SUFFICES ASSUME BeatInv, FollowTarget PROVE BeatInv'
  OBVIOUS
<1>1. CASE Rebuilds
  <2>1. UNCHANGED <<machine, credits, inside, forceKey, zeroCopy>> /\ pc' = "build"
    BY <1>1 DEF FollowTarget
  <2>2. QED
    BY <2>1, NotEncoding DEF Encoding
<1>2. CASE ~Rebuilds
  <2>1. Submit(seed) /\ pc' = "top"
    BY <1>2, Zenon DEF FollowTarget
  <2>2. QED
    BY <2>1, SubmittedKeepsBeats, DroppedKeepsBeats
<1>3. QED
  BY <1>1, <1>2

\* The encoder's own events move beats; none is made or lost.
LEMMA EncoderKeepsBeats == BeatInv /\ (TakeIdr \/ NeedInput \/ HaveOutput) => BeatInv'
<1> SUFFICES ASSUME BeatInv, TakeIdr \/ NeedInput \/ HaveOutput PROVE BeatInv'
  OBVIOUS
<1>1. BeatTypes /\ Len(inside) \in Nat
  BY Numbers DEF BeatInv
<1>2. UNCHANGED <<machine, held, zeroCopy, zeroCopyOk, previous, replay>> /\ Requests' = Requests
  BY DEF Requests, TakeIdr, NeedInput, HaveOutput, capture, settings, supply
<1>3. Encoding /\ NoneKept' = NoneKept
  BY <1>2 DEF TakeIdr, NeedInput, HaveOutput, Encoding, NoneKept, IsTexture
<1>4. NextTexture' <= NextTexture /\ HeldTexture' = HeldTexture
  BY <1>2 DEF TakeIdr, NeedInput, HaveOutput, supply, NextTexture, HeldTexture, IsTexture
<1>5. TakenTexture' = 0
  BY DEF TakeIdr, NeedInput, HaveOutput, TakenTexture
<1>6. OnTheWay' <= OnTheWay
  BY <1>4, <1>5, Numbers, SumsOnTheWay
<1>7. RequestKeyframe => forceKey' \in BOOLEAN
  BY <1>1, Zenon DEF RequestKeyframe, BeatTypes
<1>8. Beats' = Beats /\ BeatTypes'
  <2>1. CASE TakeIdr
    <3>1. /\ UNCHANGED <<credits, inside, zeroCopy>>
          /\ pc' \notin {"feed", "plan"} /\ pc \notin {"feed", "plan"}
      BY <2>1 DEF TakeIdr, settings
    <3>2. RequestKeyframe \/ forceKey' = forceKey
      BY <2>1, Zenon DEF TakeIdr
    <3>3. forceKey' \in BOOLEAN
      BY <1>1, <1>7, <3>2, Zenon DEF BeatTypes
    <3>4. QED
      BY <1>1, <1>2, <3>1, <3>3, Zenon DEF Beats, BeatTypes
  <2>2. CASE NeedInput
    <3>1. /\ UNCHANGED <<inside, forceKey, zeroCopy>> /\ credits' = credits - 1 /\ credits > 0
          /\ pc = "parked" /\ pc' = "feed"
      BY <2>2 DEF NeedInput, settings
    <3>2. QED
      BY <1>1, <1>2, <3>1 DEF Beats, BeatTypes
  <2>3. CASE HaveOutput
    <3>1. /\ inside' = Tail(inside) /\ inside # <<>> /\ credits' = credits + 1
          /\ pc = "parked" /\ pc' = "top" /\ zeroCopy' = zeroCopy
      BY <2>3 DEF HaveOutput, settings
    <3>2. inside' \in Seq(Picture) /\ Len(inside') = Len(inside) - 1
      BY <1>1, <3>1 DEF BeatTypes
    <3>3. Beats' = Beats
      BY <1>1, <3>1, <3>2 DEF Beats, BeatTypes
    <3>4. RequestKeyframe \/ forceKey' = forceKey
      BY <2>3, Zenon DEF HaveOutput
    <3>5. forceKey' \in BOOLEAN
      BY <1>1, <1>7, <3>4, Zenon DEF BeatTypes
    <3>6. credits' \in Nat
      BY <1>1, <3>1 DEF BeatTypes
    <3>7. BeatTypes'
      BY <1>1, <1>2, <3>1, <3>2, <3>5, <3>6, Zenon DEF BeatTypes
    <3>8. QED
      BY <3>3, <3>7
  <2>4. QED
    BY <2>1, <2>2, <2>3
<1>9. QED
  BY <1>2, <1>3, <1>6, <1>8, StillEncoding

\* Every step, action by action.
LEMMA BeatStep == BeatInv /\ [Next]_vars => BeatInv'
<1> SUFFICES ASSUME BeatInv, [Next]_vars PROVE BeatInv'
  OBVIOUS
<1> DEFINE Kept ==
      UNCHANGED <<machine, held, pc, rawQueue, seed, zeroCopy, zeroCopyOk, supply, hardware>>
<1>1. WatchCommands \/ ApplyTarget \/ ScreenChanges \/ WriterTakes \/ UNCHANGED vars => Kept
  BY DEF WatchCommands, ApplyTarget, ScreenChanges, WriterTakes, vars, capture, settings, loaded
<1>2. EncoderFails => BeatInv'
  BY NoEncoder DEF EncoderFails, GiveUp
<1>3. QED
  BY <1>1, <1>2, BeatKept, ArrivedKeepsBeats, SendKeepsBeats, StartKeepsBeats, BuildKeepsBeats,
     FeedKeepsBeats, FollowKeepsBeats, EncoderKeepsBeats DEF Next, Thread

\* An encoder that keeps three requests outstanding is never starved by the textures
\* that a refused device leaves behind, for any sizes, rates, faults and commands
\* (NotStarved in CaptureEncoder).
THEOREM ThreeBeatsAreEnough == Spec => [](machine.requests > 2 => NotStarved)
<1>1. BeatInv => (machine.requests > 2 => NotStarved)
  <2>1. SUFFICES ASSUME BeatInv, Requests > 2, pc \in {"top", "parked"}
        PROVE  credits + Len(inside) > 0
    BY DEF NotStarved, Requests
  <2>2. Beats = credits + Len(inside) /\ Len(inside) \in Nat /\ credits \in Nat /\ Requests \in Nat
    BY <2>1, Numbers DEF Beats, BeatInv, BeatTypes
  <2>3. OnTheWay \in Nat
    BY Numbers
  <2>4. QED
    BY <2>1, <2>2, <2>3 DEF BeatInv, BeatTypes, Encoding, AllBeats, ButTwo
<1>2. QED
  BY <1>1, BeatInit, BeatStep, PTL DEF Spec

\* Concatenation, kept folded where three or more pieces meet.
Cat(a, b) == a \o b

\* Pieces joined in either order are the same bytes.
LEMMA CatAssociative ==
  ASSUME NEW S, NEW a \in Seq(S), NEW b \in Seq(S), NEW c \in Seq(S)
  PROVE  Cat(Cat(a, b), c) = Cat(a, Cat(b, c))
BY ConcatAssociative DEF Cat

\* Two pieces joined are a sequence, and nothing adds nothing.
LEMMA CatProperties ==
  ASSUME NEW S, NEW a \in Seq(S), NEW b \in Seq(S)
  PROVE  Cat(a, b) \in Seq(S) /\ Cat(a, <<>>) = a
BY ConcatProperties, ConcatEmptySeq DEF Cat

-----------------------------------------------------------------------------
(* Bytes *)

IsCode(c) == c = Code3 \/ c = Code4

\* Nothing in it looks like a part of a start code.
Clean(u) == u \in Seq(Nat \ {0}) /\ u # <<>>

\* A start code is two or three zeros and a one.
LEMMA CodeShape ==
  ASSUME NEW c, IsCode(c)
  PROVE  /\ c \in Seq(Nat) /\ Len(c) \in {3, 4} /\ Len(c) \in Nat /\ Len(c) >= 3
         /\ c[1] = 0 /\ c[Len(c)] = 1 /\ c[Len(c) - 1] = 0 /\ c[Len(c) - 2] = 0
<1>1. CASE c = Code3
  BY <1>1 DEF Code3
<1>2. CASE c = Code4
  BY <1>2 DEF Code4
<1> QED
  BY <1>1, <1>2 DEF IsCode

\* A unit has a length, and no zero.
LEMMA CleanShape ==
  ASSUME NEW u, Clean(u)
  PROVE  /\ u \in Seq(Nat) /\ Len(u) \in Nat /\ Len(u) > 0
         /\ \A i \in 1..Len(u) : u[i] \in Nat /\ u[i] # 0
<1>1. u \in Seq(Nat)
  BY SeqMonotonic DEF Clean
<1> QED
  BY <1>1, EmptySeq, ElementOfSeq, LenProperties DEF Clean

\* The bytes of two pieces, one after the other.
LEMMA JoinedBytes ==
  ASSUME NEW a \in Seq(Nat), NEW b \in Seq(Nat)
  PROVE  /\ a \o b \in Seq(Nat)
         /\ Len(a) \in Nat /\ Len(b) \in Nat /\ Len(a \o b) = Len(a) + Len(b)
         /\ \A i \in Int : 1 <= i /\ i <= Len(a) => (a \o b)[i] = a[i]
         /\ \A i, j \in Int : 1 <= j /\ j <= Len(b) /\ i = Len(a) + j => (a \o b)[i] = b[j]
<1>1. /\ a \o b \in Seq(Nat)
      /\ Len(a \o b) = Len(a) + Len(b)
      /\ \A i \in 1..(Len(a) + Len(b)) : (a \o b)[i] = IF i <= Len(a) THEN a[i] ELSE b[i - Len(a)]
  BY ConcatProperties
<1>2. Len(a) \in Nat /\ Len(b) \in Nat
  BY LenProperties
<1>3. ASSUME NEW i \in Int, 1 <= i, i <= Len(a)
      PROVE  (a \o b)[i] = a[i]
  BY <1>1, <1>2, <1>3
<1>4. ASSUME NEW i \in Int, NEW j \in Int, 1 <= j, j <= Len(b), i = Len(a) + j
      PROVE  (a \o b)[i] = b[j]
  <2>1. i \in 1..(Len(a) + Len(b)) /\ ~(i <= Len(a)) /\ i - Len(a) = j
    BY <1>2, <1>4
  <2> QED
    BY <1>1, <2>1
<1> QED
  BY <1>1, <1>2, <1>3, <1>4

\* The bytes of a code, a unit and what follows them.
Bytes(d, c, u, r) ==
  /\ d \in Seq(Nat)
  /\ Len(d) = Len(c) + Len(u) + Len(r)
  /\ Len(c) \in Nat /\ Len(u) \in Nat /\ Len(r) \in Nat
  /\ \A i \in Int : 1 <= i /\ i <= Len(c) => d[i] = c[i]
  /\ \A i, j \in Int : 1 <= j /\ j <= Len(u) /\ i = Len(c) + j => d[i] = u[j]
  /\ \A i, j \in Int : 1 <= j /\ j <= Len(r) /\ i = Len(c) + Len(u) + j => d[i] = r[j]

\* The bytes of a start code, a unit and the rest.
LEMMA CodedBytes ==
  ASSUME NEW c \in Seq(Nat), NEW u \in Seq(Nat), NEW r \in Seq(Nat)
  PROVE  Bytes((c \o u) \o r, c, u, r)
<1> DEFINE cu == c \o u
<1>1. /\ cu \in Seq(Nat)
      /\ Len(c) \in Nat /\ Len(u) \in Nat /\ Len(cu) = Len(c) + Len(u)
      /\ \A i \in Int : 1 <= i /\ i <= Len(c) => cu[i] = c[i]
      /\ \A i, j \in Int : 1 <= j /\ j <= Len(u) /\ i = Len(c) + j => cu[i] = u[j]
  BY JoinedBytes
<1>2. cu \in Seq(Nat)
  BY <1>1
<1> HIDE DEF cu
<1>3. /\ cu \o r \in Seq(Nat)
      /\ Len(r) \in Nat /\ Len(cu \o r) = Len(cu) + Len(r)
      /\ \A i \in Int : 1 <= i /\ i <= Len(cu) => (cu \o r)[i] = cu[i]
      /\ \A i, j \in Int : 1 <= j /\ j <= Len(r) /\ i = Len(cu) + j => (cu \o r)[i] = r[j]
  BY <1>2, JoinedBytes
<1>4. \A i \in Int : 1 <= i /\ i <= Len(c) => (cu \o r)[i] = c[i]
  BY <1>1, <1>3
<1>5. ASSUME NEW i \in Int, NEW j \in Int, 1 <= j, j <= Len(u), i = Len(c) + j
      PROVE  (cu \o r)[i] = u[j]
  <2>1. cu[i] = u[j]
    BY <1>1, <1>5
  <2>2. 1 <= i /\ i <= Len(cu)
    BY <1>1, <1>5
  <2> QED
    BY <1>3, <1>5, <2>1, <2>2
<1>6. ASSUME NEW i \in Int, NEW j \in Int, 1 <= j, j <= Len(r), i = Len(c) + Len(u) + j
      PROVE  (cu \o r)[i] = r[j]
  BY <1>1, <1>3, <1>6
<1>7. Len(cu \o r) = Len(c) + Len(u) + Len(r)
  BY <1>1, <1>3
<1> QED
  BY <1>1, <1>3, <1>4, <1>5, <1>6, <1>7 DEF Bytes, cu

-----------------------------------------------------------------------------
(* nal_ranges *)

\* Where a start code ends.
Coded(d, i) == d[i - 3] = 0 /\ d[i - 2] = 0 /\ d[i - 1] = 1

\* The start codes of a unit and what follows are its own and the others, moved.
LEMMA StartsOfCoded ==
  ASSUME NEW c, IsCode(c), NEW u, Clean(u), NEW r \in Seq(Nat)
  PROVE  Starts((c \o u) \o r) =
           {Len(c) + 1} \cup {i + Len(c) + Len(u) : i \in Starts(r)}
<1> DEFINE d == (c \o u) \o r
           k == Len(c)
           n == Len(u)
           m == Len(r)
<1>1. /\ c \in Seq(Nat) /\ k \in Nat /\ k \in {3, 4}
      /\ c[1] = 0 /\ c[k] = 1 /\ c[k - 1] = 0 /\ c[k - 2] = 0
  BY CodeShape
<1>2. /\ u \in Seq(Nat) /\ n \in Nat /\ n > 0
      /\ \A i \in Int : 1 <= i /\ i <= n => u[i] # 0
  BY CleanShape
<1>a. c \in Seq(Nat) /\ u \in Seq(Nat)
  BY CodeShape, CleanShape
<1>b. Bytes(d, c, u, r)
  BY <1>a, CodedBytes
<1> HIDE DEF d
<1>3. /\ m \in Nat /\ Len(d) = k + n + m
      /\ \A i \in Int : 1 <= i /\ i <= k => d[i] = c[i]
      /\ \A i, j \in Int : 1 <= j /\ j <= n /\ i = k + j => d[i] = u[j]
      /\ \A i, j \in Int : 1 <= j /\ j <= m /\ i = k + n + j => d[i] = r[j]
  BY <1>b DEF Bytes
<1> HIDE DEF k, n, m
<1>4. Starts(d) = {i \in 4..(k + n + m + 1) : Coded(d, i)}
  BY <1>3 DEF Starts, Coded
<1>5. Starts(r) = {i \in 4..(m + 1) : Coded(r, i)}
  BY DEF Starts, m, Coded
<1>6. \A i \in Int : k < i /\ i <= k + n => d[i] # 0
  <2> TAKE i \in Int
  <2> HAVE k < i /\ i <= k + n
  <2>1. i - k \in Int /\ 1 <= i - k /\ i - k <= n /\ i = k + (i - k)
    BY <1>1, <1>2
  <2> DEFINE j == i - k
  <2>2. j \in Int /\ 1 <= j /\ j <= n /\ i = k + j
    BY <2>1
  <2> HIDE DEF j
  <2> QED
    BY <1>2, <1>3, <2>2
<1>7. \A i, j \in Int : 4 <= j /\ j <= m + 1 /\ i = k + n + j => (Coded(d, i) <=> Coded(r, j))
  <2> TAKE i, j \in Int
  <2> HAVE 4 <= j /\ j <= m + 1 /\ i = k + n + j
  <2>1. d[i - 3] = r[j - 3] /\ d[i - 2] = r[j - 2] /\ d[i - 1] = r[j - 1]
    <3>1. /\ i - 3 \in Int /\ j - 3 \in Int /\ 1 <= j - 3 /\ j - 3 <= m /\ i - 3 = k + n + (j - 3)
          /\ i - 2 \in Int /\ j - 2 \in Int /\ 1 <= j - 2 /\ j - 2 <= m /\ i - 2 = k + n + (j - 2)
          /\ i - 1 \in Int /\ j - 1 \in Int /\ 1 <= j - 1 /\ j - 1 <= m /\ i - 1 = k + n + (j - 1)
      BY <1>1, <1>2, <1>3
    <3> QED
      BY <1>3, <3>1
  <2> QED
    BY <2>1 DEF Coded
<1>8. Coded(d, k + 1)
  <2>1. CASE k = 3
    BY <1>1, <1>3, <2>1 DEF Coded
  <2>2. CASE k = 4
    BY <1>1, <1>3, <2>2 DEF Coded
  <2> QED
    BY <1>1, <2>1, <2>2
<1>9. ASSUME NEW i \in Int, 4 <= i, i <= k + n + 3, Coded(d, i)
      PROVE  i = k + 1
  <2>1. CASE k = 3
    <3>1. ~(k < i - 3 /\ i - 3 <= k + n) /\ ~(k < i - 2 /\ i - 2 <= k + n)
      BY <1>1, <1>2, <1>6, <1>9 DEF Coded
    <3>2. i \in Int /\ (i = 4 \/ i = 5 \/ i = 6)
      BY <1>2, <1>9, <2>1, <3>1
    <3>3. i # 5 /\ i # 6
      BY <1>1, <1>3, <1>9, <2>1 DEF Coded
    <3> QED
      BY <1>2, <2>1, <3>2, <3>3
  <2>2. CASE k = 4
    <3>1. ~(k < i - 3 /\ i - 3 <= k + n) /\ ~(k < i - 2 /\ i - 2 <= k + n)
      BY <1>1, <1>2, <1>6, <1>9 DEF Coded
    <3>2. i \in Int /\ (i = 4 \/ i = 5 \/ i = 6 \/ i = 7)
      BY <1>2, <1>9, <2>2, <3>1
    <3>3. d[3] = 0 /\ d[4] = 1
      BY <1>1, <1>3, <2>2
    <3>4. i # 4 /\ i # 6 /\ i # 7
      BY <1>9, <3>3 DEF Coded
    <3> QED
      BY <1>2, <2>2, <3>2, <3>4
  <2> QED
    BY <1>1, <2>1, <2>2
<1>10. ASSUME NEW i
       PROVE  i \in Starts(d) <=> i = k + 1 \/ \E j \in Starts(r) : i = j + k + n
  <2>1. ASSUME i \in Starts(d), i # k + 1
        PROVE  \E j \in Starts(r) : i = j + k + n
    <3>1. i \in Int /\ 4 <= i /\ i <= k + n + m + 1 /\ Coded(d, i)
      BY <1>1, <1>2, <1>3, <1>4, <2>1
    <3>2. i > k + n + 3
      BY <1>1, <1>2, <1>9, <2>1, <3>1
    <3> DEFINE j == i - (k + n)
    <3>3. j \in Int /\ 4 <= j /\ j <= m + 1 /\ i = k + n + j /\ i = j + k + n
      BY <1>1, <1>2, <1>3, <3>1, <3>2
    <3> HIDE DEF j
    <3>4. j \in Starts(r)
      BY <1>3, <1>5, <1>7, <3>1, <3>3
    <3> QED
      BY <3>3, <3>4
  <2>2. ASSUME NEW j \in Starts(r), i = j + k + n
        PROVE  i \in Starts(d)
    <3>1. j \in Int /\ 4 <= j /\ j <= m + 1 /\ Coded(r, j)
      BY <1>3, <1>5
    <3>2. i \in Int /\ i = k + n + j /\ i \in 4..(k + n + m + 1)
      BY <1>1, <1>2, <1>3, <2>2, <3>1
    <3> QED
      BY <1>4, <1>7, <3>1, <3>2
  <2>3. k + 1 \in Starts(d)
    BY <1>1, <1>2, <1>3, <1>4, <1>8
  <2> QED
    BY <2>1, <2>2, <2>3
<1>11. Starts(d) = {k + 1} \cup {i + k + n : i \in Starts(r)}
  BY <1>10
<1> QED
  BY <1>11 DEF d, k, n

\* A nonempty set of numbers has a least.
LEMMA LeastOf ==
  ASSUME NEW S \in SUBSET Nat, S # {}
  PROVE  Min(S) \in S /\ \A x \in S : Min(S) <= x
<1> DEFINE R == OpToRel(<, Nat)
<1>1. IsWellFoundedOn(R, Nat)
  BY NatLessThanWellFounded
<1>2. \A x, y \in Nat : <<x, y>> \in R <=> x < y
  BY DEF OpToRel
<1> HIDE DEF R
<1>3. PICK x \in S : \A y \in S : ~(<<y, x>> \in R)
  BY <1>1, WFMin
<1>4. ASSUME NEW y \in S
      PROVE  x <= y
  <2>1. x \in Nat /\ y \in Nat /\ ~(x > y)
    BY <1>2, <1>3
  <2> QED
    BY <2>1
<1> QED
  BY <1>3, <1>4 DEF Min

\* The least of a set of numbers is the one no other is below.
LEMMA LeastIs ==
  ASSUME NEW S \in SUBSET Nat, NEW x \in S, \A y \in S : x <= y
  PROVE  Min(S) = x
<1>1. Min(S) \in S /\ \A y \in S : Min(S) <= y
  BY LeastOf
<1>2. Min(S) \in Nat /\ x \in Nat /\ Min(S) <= x /\ x <= Min(S)
  BY <1>1
<1> QED
  BY <1>2

\* The n-th of a set of positions given in order.
Increasing(p, m) == p \in [1..m -> Int] /\ \A i, j \in 1..m : i < j => p[i] < p[j]

\* Positions in order are as many as their indices.
LEMMA PositionsBelow ==
  ASSUME NEW m \in Nat, NEW p, Increasing(p, m)
  PROVE  IsFiniteSet({p[i] : i \in 1..m}) /\ Cardinality({p[i] : i \in 1..m}) = m
<1> DEFINE S == {p[i] : i \in 1..m}
           f == [i \in 1..m |-> p[i]]
<1>1. IsFiniteSet(1..m) /\ Cardinality(1..m) = m
  BY FS_Interval
<1>2. f \in Bijection(1..m, S)
  <2>1. f \in [1..m -> S]
    OBVIOUS
  <2>2. \A i, j \in 1..m : f[i] = f[j] => i = j
    BY DEF Increasing
  <2>3. \A t \in S : \E i \in 1..m : f[i] = t
    OBVIOUS
  <2> HIDE DEF f, S
  <2>4. f \in Injection(1..m, S)
    BY <2>1, <2>2 DEF Injection, IsInjective
  <2>5. f \in Surjection(1..m, S)
    BY <2>1, <2>3 DEF Surjection
  <2> QED
    BY <2>4, <2>5 DEF Bijection
<1>3. ExistsBijection(1..m, S)
  BY <1>2 DEF ExistsBijection
<1> QED
  BY <1>1, <1>3, FS_Bijection

\* The n-th of the positions is the one at index n.
LEMMA NthPosition ==
  ASSUME NEW m \in Nat, NEW p, Increasing(p, m), NEW n \in 1..m
  PROVE  Nth({p[i] : i \in 1..m}, n) = p[n]
<1> DEFINE S == {p[i] : i \in 1..m}
           Below(x) == Cardinality({j \in S : j < x})
<1>1. ASSUME NEW k \in 1..m
      PROVE  Below(p[k]) = k - 1
  <2>1. {j \in S : j < p[k]} = {p[i] : i \in 1..(k - 1)}
    BY DEF Increasing
  <2> DEFINE q == [i \in 1..(k - 1) |-> p[i]]
  <2>2. k - 1 \in Nat /\ Increasing(q, k - 1)
    BY DEF Increasing
  <2>3. {p[i] : i \in 1..(k - 1)} = {q[i] : i \in 1..(k - 1)}
    OBVIOUS
  <2> HIDE DEF q
  <2>4. Cardinality({q[i] : i \in 1..(k - 1)}) = k - 1
    BY <2>2, PositionsBelow
  <2> QED
    BY <2>1, <2>3, <2>4
<1>2. p[n] \in S /\ Below(p[n]) = n - 1
  BY <1>1
<1>3. ASSUME NEW x \in S, Below(x) = n - 1
      PROVE  x = p[n]
  <2>1. PICK k \in 1..m : x = p[k]
    OBVIOUS
  <2>2. k - 1 = n - 1
    BY <1>1, <1>3, <2>1
  <2> QED
    BY <2>1, <2>2
<1>4. Nth(S, n) = CHOOSE x \in S : Below(x) = n - 1
  BY DEF Nth
<1> HIDE DEF S, Below
<1>5. Nth(S, n) = p[n]
  BY <1>2, <1>3, <1>4
<1> QED
  BY <1>5 DEF S

\* What may follow a unit: nothing, or the next start code and its unit.
Follows(r) ==
  /\ r \in Seq(Nat)
  /\ r = <<>> \/ \E c, u, rest : /\ IsCode(c) /\ Clean(u) /\ rest \in Seq(Nat)
                                 /\ r = (c \o u) \o rest

\* The first start code is the one in front.
LEMMA FirstStart ==
  ASSUME NEW c, IsCode(c), NEW u, Clean(u), NEW r \in Seq(Nat)
  PROVE  /\ Starts((c \o u) \o r) \in SUBSET Nat
         /\ Len(c) + 1 \in Starts((c \o u) \o r)
         /\ \A i \in Starts((c \o u) \o r) : Len(c) + 1 <= i
<1>1. Len(c) \in Nat /\ Len(u) \in Nat
  BY CodeShape, CleanShape
<1>2. \A i \in Starts(r) : i \in Nat /\ i >= 4
  BY LenProperties DEF Starts
<1> QED
  BY <1>1, <1>2, StartsOfCoded

\* A unit ends where the next start code begins, long or short.
LEMMA EndOfFirst ==
  ASSUME NEW c, IsCode(c), NEW u, Clean(u), NEW r, Follows(r)
  PROVE  UnitEnd((c \o u) \o r, Len(c) + 1) = Len(c) + Len(u)
<1> DEFINE d == (c \o u) \o r
           k == Len(c)
           n == Len(u)
           later == {j \in Starts(d) : j > k + 1}
<1>a. c \in Seq(Nat) /\ Len(c) \in Nat /\ Len(c) >= 3
  BY CodeShape
<1>b. u \in Seq(Nat) /\ Len(u) \in Nat /\ Len(u) > 0 /\ u[Len(u)] # 0
  BY CleanShape
<1>1. /\ c \in Seq(Nat) /\ k \in Nat /\ k >= 3
      /\ u \in Seq(Nat) /\ n \in Nat /\ n > 0 /\ u[n] # 0
      /\ r \in Seq(Nat)
  BY <1>a, <1>b DEF Follows
<1>2. Bytes(d, c, u, r)
  BY <1>1, CodedBytes
<1>3. Starts(d) = {k + 1} \cup {i + k + n : i \in Starts(r)}
  BY <1>1, StartsOfCoded
<1> HIDE DEF d, k, n
<1>c. /\ Len(r) \in Nat /\ Len(d) = k + n + Len(r)
      /\ \A i, j \in Int : 1 <= j /\ j <= n /\ i = k + j => d[i] = u[j]
      /\ \A i, j \in Int : 1 <= j /\ j <= Len(r) /\ i = k + n + j => d[i] = r[j]
  BY <1>2 DEF Bytes, k, n
<1>d. k + n \in Int /\ n \in Int /\ 1 <= n /\ n <= n
  BY <1>1
<1>4. /\ Len(r) \in Nat /\ Len(d) = k + n + Len(r)
      /\ d[k + n] = u[n]
      /\ \A i, j \in Int : 1 <= j /\ j <= Len(r) /\ i = k + n + j => d[i] = r[j]
  BY <1>c, <1>d
<1>5. \A i \in Starts(r) : i \in Nat /\ i >= 4
  BY <1>4 DEF Starts
<1>6. later = {i + k + n : i \in Starts(r)}
  BY <1>1, <1>3, <1>5
<1>7. CASE r = <<>>
  <2>1. Len(r) = 0 /\ Starts(r) = {}
    BY <1>7 DEF Starts
  <2>2. later = {} /\ Len(d) = k + n
    BY <1>1, <1>4, <1>6, <2>1
  <2>3. UnitEnd(d, k + 1) = k + n
    BY <2>2 DEF UnitEnd
  <2> QED
    BY <2>3 DEF d, k, n
<1>8. CASE r # <<>>
  <2>1. PICK e, v, rest : /\ IsCode(e) /\ Clean(v) /\ rest \in Seq(Nat)
                          /\ r = (e \o v) \o rest
    BY <1>8 DEF Follows
  <2>2. /\ Starts(r) \in SUBSET Nat /\ Len(e) + 1 \in Starts(r)
        /\ \A i \in Starts(r) : Len(e) + 1 <= i
    BY <2>1, FirstStart
  <2>3. e \in Seq(Nat) /\ Len(e) \in {3, 4} /\ Len(e) \in Nat /\ Len(e) >= 3 /\ e[1] = 0 /\ v \in Seq(Nat)
    BY <2>1, CodeShape, CleanShape
  <2>4. Bytes(r, e, v, rest)
    BY <2>1, <2>3, CodedBytes
  <2>5. r[1] = 0 /\ Len(r) >= 3
    <3>1. /\ Len(r) = Len(e) + Len(v) + Len(rest) /\ Len(v) \in Nat /\ Len(rest) \in Nat
          /\ \A i \in Int : 1 <= i /\ i <= Len(e) => r[i] = e[i]
      BY <2>1, <2>4 DEF Bytes
    <3>2. r[1] = e[1]
      BY <2>3, <3>1
    <3>3. Len(r) >= 3
      BY <2>3, <3>1
    <3> QED
      BY <2>3, <3>2, <3>3
  <2> DEFINE x == Len(e) + 1 + k + n
  <2>a. x = (Len(e) + 1) + k + n
    OBVIOUS
  <2>b. x \in later
    BY <1>6, <2>2, <2>a
  <2>c. later \in SUBSET Nat
    BY <1>1, <1>5, <1>6
  <2>d. ASSUME NEW y \in later
        PROVE  x <= y
    <3>1. PICK i \in Starts(r) : y = i + k + n
      BY <1>6
    <3>2. i \in Nat /\ Len(e) + 1 <= i /\ Len(e) \in Nat
      BY <1>5, <2>2, <2>3
    <3> QED
      BY <1>1, <3>1, <3>2
  <2>6. x \in later /\ later \in SUBSET Nat /\ \A y \in later : x <= y
    BY <2>b, <2>c, <2>d
  <2>7. Min(later) = x
    BY <2>6, LeastIs
  <2>8. later # {} /\ x > 4
    BY <1>1, <2>3, <2>6
  <2>9. CASE Len(e) = 3
    <3>1. x - 4 = k + n /\ d[x - 4] # 0
      BY <1>1, <1>4, <2>9
    <3>2. UnitEnd(d, k + 1) = x - 4
      BY <2>7, <2>8, <3>1 DEF UnitEnd
    <3> QED
      BY <3>1, <3>2 DEF d, k, n
  <2>10. CASE Len(e) = 4
    <3>1. x - 4 = k + n + 1 /\ x - 5 = k + n /\ x - 4 \in Int
      BY <1>1, <2>10
    <3>2. d[x - 4] = 0
      <4>1. /\ x - 4 \in Int /\ 1 \in Int /\ 1 <= 1 /\ 1 <= Len(r) /\ x - 4 = k + n + 1
        BY <1>4, <2>5, <3>1
      <4> HIDE DEF x
      <4>2. d[x - 4] = r[1]
        BY <1>4, <4>1
      <4> QED
        BY <2>5, <4>2
    <3>3. UnitEnd(d, k + 1) = x - 5
      BY <2>7, <2>8, <3>2 DEF UnitEnd
    <3> QED
      BY <3>1, <3>3 DEF d, k, n
  <2> QED
    BY <2>3, <2>9, <2>10
<1> QED
  BY <1>7, <1>8

\* What is in front of them does not move the ends of the units.
LEMMA EndOfLater ==
  ASSUME NEW c, IsCode(c), NEW u, Clean(u), NEW r \in Seq(Nat), NEW i \in Starts(r)
  PROVE  UnitEnd((c \o u) \o r, i + Len(c) + Len(u)) = UnitEnd(r, i) + Len(c) + Len(u)
<1> DEFINE d == (c \o u) \o r
           k == Len(c)
           n == Len(u)
           moved == {j \in Starts(d) : j > i + k + n}
           later == {j \in Starts(r) : j > i}
<1>a. c \in Seq(Nat) /\ Len(c) \in Nat /\ Len(c) >= 3
  BY CodeShape
<1>b. u \in Seq(Nat) /\ Len(u) \in Nat /\ Len(u) > 0
  BY CleanShape
<1>1. /\ c \in Seq(Nat) /\ k \in Nat /\ k >= 3
      /\ u \in Seq(Nat) /\ n \in Nat /\ n > 0
  BY <1>a, <1>b
<1>2. Bytes(d, c, u, r)
  BY <1>1, CodedBytes
<1>3. Starts(d) = {k + 1} \cup {j + k + n : j \in Starts(r)}
  BY StartsOfCoded
<1> HIDE DEF d, k, n
<1>4. /\ Len(r) \in Nat /\ Len(d) = k + n + Len(r)
      /\ \A x, y \in Int : 1 <= y /\ y <= Len(r) /\ x = k + n + y => d[x] = r[y]
  BY <1>2 DEF Bytes, k, n
<1>5. \A j \in Starts(r) : j \in Nat /\ j >= 4 /\ j <= Len(r) + 1
  BY <1>4 DEF Starts
<1>6. moved = {j + k + n : j \in later}
  <2>1. ASSUME NEW x \in moved
        PROVE  \E j \in later : x = j + k + n
    <3>1. i \in Nat /\ i >= 4 /\ x > i + k + n
      BY <1>5
    <3>2. PICK j \in Starts(r) : x = j + k + n
      BY <1>1, <1>3, <3>1
    <3>3. j > i
      BY <1>1, <1>5, <3>1, <3>2
    <3> QED
      BY <3>2, <3>3
  <2>2. ASSUME NEW j \in later
        PROVE  j + k + n \in moved
    <3>1. i \in Nat /\ j \in Nat /\ j > i
      BY <1>5
    <3>2. j + k + n > i + k + n
      BY <1>1, <3>1
    <3>3. j + k + n \in Starts(d)
      BY <1>3
    <3> QED
      BY <3>2, <3>3
  <2> QED
    BY <2>1, <2>2
<1>7. CASE later = {}
  <2>1. moved = {}
    BY <1>6, <1>7
  <2>2. UnitEnd(d, i + k + n) = Len(d) /\ UnitEnd(r, i) = Len(r)
    BY <1>7, <2>1 DEF UnitEnd
  <2> QED
    BY <1>1, <1>4, <2>2 DEF d, k, n
<1>8. CASE later # {}
  <2> DEFINE y == Min(later)
             x == y + k + n
  <2>1. later \in SUBSET Nat
    BY <1>5
  <2>2. y \in later /\ \A j \in later : y <= j
    BY <1>8, <2>1, LeastOf
  <2>3. y \in Nat /\ y > 4 /\ y <= Len(r) + 1
    BY <1>5, <2>2
  <2> HIDE DEF y
  <2>a. moved \in SUBSET Nat
    BY <1>1, <1>6, <2>1
  <2>b. x \in moved
    BY <1>6, <2>2
  <2>c. ASSUME NEW j \in moved
        PROVE  x <= j
    <3>1. PICK t \in later : j = t + k + n
      BY <1>6
    <3>2. t \in Nat /\ y <= t
      BY <2>1, <2>2
    <3> QED
      BY <1>1, <2>3, <3>1, <3>2
  <2>4. moved \in SUBSET Nat /\ x \in moved /\ \A j \in moved : x <= j
    BY <2>a, <2>b, <2>c
  <2>5. Min(moved) = x /\ moved # {}
    BY <2>4, LeastIs
  <2>6. x > 4 /\ d[x - 4] = r[y - 4]
    <3>1. /\ x - 4 \in Int /\ y - 4 \in Int /\ 1 <= y - 4 /\ y - 4 <= Len(r)
          /\ x - 4 = k + n + (y - 4) /\ x > 4
      BY <1>1, <1>4, <2>3
    <3> DEFINE xx == x - 4
               yy == y - 4
    <3>2. xx \in Int /\ yy \in Int /\ 1 <= yy /\ yy <= Len(r) /\ xx = k + n + yy
      BY <3>1
    <3> HIDE DEF xx, yy
    <3>3. d[xx] = r[yy]
      BY <1>4, <3>2
    <3> QED
      BY <3>1, <3>3 DEF xx, yy
  <2> HIDE DEF x
  <2>7. UnitEnd(d, i + k + n) = IF d[x - 4] = 0 THEN x - 5 ELSE x - 4
    BY <2>5, <2>6 DEF UnitEnd
  <2>8. UnitEnd(r, i) = IF r[y - 4] = 0 THEN y - 5 ELSE y - 4
    BY <1>8, <2>3 DEF UnitEnd, y
  <2>9. UnitEnd(d, i + k + n) = UnitEnd(r, i) + k + n
    BY <1>1, <2>3, <2>6, <2>7, <2>8 DEF x
  <2> QED
    BY <2>9 DEF d, k, n
<1> QED
  BY <1>7, <1>8

\* The first unit is cut out whole.
LEMMA BytesOfFirst ==
  ASSUME NEW c, IsCode(c), NEW u, Clean(u), NEW r \in Seq(Nat)
  PROVE  SubSeq((c \o u) \o r, Len(c) + 1, Len(c) + Len(u)) = u
<1> DEFINE d == (c \o u) \o r
           k == Len(c)
           n == Len(u)
           v == SubSeq(d, k + 1, k + n)
<1>a. c \in Seq(Nat) /\ Len(c) \in Nat
  BY CodeShape
<1>b. /\ u \in Seq(Nat) /\ Len(u) \in Nat /\ Len(u) > 0
      /\ \A i \in 1..Len(u) : u[i] \in Nat
  BY CleanShape
<1>1. Bytes(d, c, u, r)
  BY <1>a, <1>b, CodedBytes
<1> HIDE DEF d
<1>2. /\ k \in Nat /\ n \in Nat /\ n > 0
      /\ \A i, j \in Int : 1 <= j /\ j <= n /\ i = k + j => d[i] = u[j]
      /\ \A i \in 1..n : u[i] \in Nat
  BY <1>a, <1>b, <1>1 DEF Bytes
<1> HIDE DEF k, n
<1>3. \A j \in 1..n : d[k + j] = u[j]
  BY <1>2
<1>4. \A i \in (k + 1)..(k + n) : d[i] \in Nat
  <2> TAKE i \in (k + 1)..(k + n)
  <2> DEFINE j == i - k
  <2>1. j \in 1..n /\ i = k + j
    BY <1>2
  <2> HIDE DEF j
  <2> QED
    BY <1>2, <1>3, <2>1
<1>5. /\ v \in Seq(Nat) /\ Len(v) = n
      /\ \A i \in 1..n : v[i] = d[k + i]
  <2>1. k + 1 \in Int /\ k + n \in Int
    BY <1>2
  <2>2. /\ v \in Seq(Nat)
        /\ Len(v) = IF k + 1 <= k + n THEN (k + n) - (k + 1) + 1 ELSE 0
        /\ \A i \in 1..((k + n) - (k + 1) + 1) : v[i] = d[(k + 1) + i - 1]
    BY <1>4, <2>1, SubSeqProperties
  <2> HIDE DEF v
  <2>3. (k + n) - (k + 1) + 1 = n /\ k + 1 <= k + n
    BY <1>2
  <2>4. \A i \in 1..n : (k + 1) + i - 1 = k + i
    BY <1>2
  <2> QED
    BY <2>2, <2>3, <2>4
<1> HIDE DEF v
<1>6. v = u
  <2>1. Len(v) = Len(u) /\ \A i \in 1..Len(v) : v[i] = u[i]
    BY <1>3, <1>5 DEF n
  <2> QED
    BY <1>b, <1>5, <2>1, SeqEqual
<1> QED
  BY <1>6 DEF v, d, k, n

\* What is cut out further on does not change when a unit is put in front.
LEMMA BytesOfLater ==
  ASSUME NEW c, IsCode(c), NEW u, Clean(u), NEW r \in Seq(Nat),
         NEW a \in Nat, NEW e \in Nat, 1 <= a, e <= Len(r)
  PROVE  SubSeq((c \o u) \o r, a + Len(c) + Len(u), e + Len(c) + Len(u)) = SubSeq(r, a, e)
<1> DEFINE d == (c \o u) \o r
           m == Len(c) + Len(u)
           v == SubSeq(d, a + m, e + m)
           w == SubSeq(r, a, e)
<1>a. c \in Seq(Nat) /\ Len(c) \in Nat
  BY CodeShape
<1>b. u \in Seq(Nat) /\ Len(u) \in Nat
  BY CleanShape
<1>1. Bytes(d, c, u, r)
  BY <1>a, <1>b, CodedBytes
<1> HIDE DEF d
<1>2. /\ m \in Nat /\ Len(r) \in Nat
      /\ \A i, j \in Int : 1 <= j /\ j <= Len(r) /\ i = m + j => d[i] = r[j]
  BY <1>a, <1>b, <1>1 DEF Bytes
<1>3. a + Len(c) + Len(u) = a + m /\ e + Len(c) + Len(u) = e + m
  BY <1>a, <1>b
<1> HIDE DEF m
<1>4. \A j \in a..e : d[m + j] = r[j] /\ r[j] \in Nat
  <2> TAKE j \in a..e
  <2>1. j \in 1..Len(r) /\ j \in Int /\ m + j \in Int /\ 1 <= j /\ j <= Len(r)
    BY <1>2
  <2>2. r[j] \in Nat
    BY <2>1, ElementOfSeq
  <2> QED
    BY <1>2, <2>1, <2>2
<1>5. \A i \in (a + m)..(e + m) : d[i] \in Nat
  <2> TAKE i \in (a + m)..(e + m)
  <2> DEFINE j == i - m
  <2>1. j \in a..e /\ i = m + j
    BY <1>2
  <2> HIDE DEF j
  <2> QED
    BY <1>4, <2>1
<1>6. a + m \in Int /\ e + m \in Int
  BY <1>2
<1>7. /\ v \in Seq(Nat)
      /\ Len(v) = IF a + m <= e + m THEN (e + m) - (a + m) + 1 ELSE 0
      /\ \A i \in 1..((e + m) - (a + m) + 1) : v[i] = d[(a + m) + i - 1]
  BY <1>5, <1>6, SubSeqProperties
<1>8. /\ w \in Seq(Nat)
      /\ Len(w) = IF a <= e THEN e - a + 1 ELSE 0
      /\ \A i \in 1..(e - a + 1) : w[i] = r[a + i - 1]
  <2>1. \A j \in a..e : r[j] \in Nat
    BY <1>4
  <2>2. a \in Int /\ e \in Int
    OBVIOUS
  <2> QED
    BY <2>1, <2>2, SubSeqProperties
<1> HIDE DEF v, w
<1>9. (e + m) - (a + m) + 1 = e - a + 1 /\ (a + m <= e + m <=> a <= e)
  BY <1>2
<1>10. Len(v) = Len(w)
  BY <1>7, <1>8, <1>9
<1>11. ASSUME NEW i \in 1..Len(v)
       PROVE  v[i] = w[i]
  <2>1. a <= e /\ i \in 1..(e - a + 1)
    BY <1>8, <1>10
  <2> DEFINE j == a + i - 1
  <2>2. j \in a..e /\ (a + m) + i - 1 = m + j
    BY <1>2, <2>1
  <2>3. v[i] = d[m + j]
    BY <1>7, <1>9, <2>1, <2>2
  <2>4. w[i] = r[j]
    BY <1>8, <2>1
  <2> HIDE DEF j
  <2> QED
    BY <1>4, <2>2, <2>3, <2>4
<1>12. v = w
  BY <1>7, <1>8, <1>10, <1>11, SeqEqual
<1> QED
  BY <1>3, <1>12 DEF v, w, d

-----------------------------------------------------------------------------
(* The units of a sample, at their positions *)

UnitsBeginAt(d, us, p) ==
  /\ Len(us) \in Nat /\ Increasing(p, Len(us))
  /\ Starts(d) = {p[i] : i \in 1..Len(us)}
  /\ \A i \in 1..Len(us) :
       /\ p[i] \in Nat /\ UnitEnd(d, p[i]) \in Nat
       /\ p[i] <= UnitEnd(d, p[i]) /\ UnitEnd(d, p[i]) <= Len(d)
       /\ SubSeq(d, p[i], UnitEnd(d, p[i])) = us[i]

\* us in front of which v is put.
InFront(u, us, all) ==
  /\ Len(all) = Len(us) + 1 /\ all[1] = u
  /\ \A i \in 1..Len(us) : all[i + 1] = us[i]

\* A unit put in front is found first, and the others behind it.
LEMMA CodedUnits ==
  ASSUME NEW c, IsCode(c), NEW u, Clean(u), NEW r, Follows(r),
         NEW us, NEW p, UnitsBeginAt(r, us, p), NEW all, InFront(u, us, all)
  PROVE  UnitsBeginAt((c \o u) \o r, all,
           [i \in 1..(Len(us) + 1) |->
              IF i = 1 THEN Len(c) + 1 ELSE p[i - 1] + Len(c) + Len(u)])
<1> DEFINE d == (c \o u) \o r
           k == Len(c)
           n == Len(u)
           m == Len(us)
           q == [i \in 1..(m + 1) |-> IF i = 1 THEN k + 1 ELSE p[i - 1] + k + n]
<1>a. c \in Seq(Nat) /\ Len(c) \in Nat /\ Len(c) >= 3
  BY CodeShape
<1>b. u \in Seq(Nat) /\ Len(u) \in Nat /\ Len(u) > 0
  BY CleanShape
<1>c. r \in Seq(Nat)
  BY DEF Follows
<1>d. Len(d) = k + n + Len(r) /\ Len(r) \in Nat
  BY <1>a, <1>b, <1>c, CodedBytes DEF Bytes
<1>1. Starts(d) = {k + 1} \cup {i + k + n : i \in Starts(r)}
  BY <1>c, StartsOfCoded
<1>2. UnitEnd(d, k + 1) = k + n /\ SubSeq(d, k + 1, k + n) = u
  BY <1>c, EndOfFirst, BytesOfFirst
<1>3. /\ m \in Nat /\ p \in [1..m -> Int]
      /\ \A i, j \in 1..m : i < j => p[i] < p[j]
      /\ Starts(r) = {p[i] : i \in 1..m}
      /\ \A i \in 1..m :
           /\ p[i] \in Nat /\ UnitEnd(r, p[i]) \in Nat
           /\ p[i] <= UnitEnd(r, p[i]) /\ UnitEnd(r, p[i]) <= Len(r)
           /\ SubSeq(r, p[i], UnitEnd(r, p[i])) = us[i]
  BY DEF UnitsBeginAt, Increasing
<1>4. \A i \in 1..m : p[i] >= 4
  <2> TAKE i \in 1..m
  <2>1. p[i] \in Starts(r)
    BY <1>3
  <2> QED
    BY <2>1, <1>d DEF Starts
<1>5. ASSUME NEW i \in 1..m
      PROVE  /\ UnitEnd(d, p[i] + k + n) = UnitEnd(r, p[i]) + k + n
             /\ SubSeq(d, p[i] + k + n, UnitEnd(r, p[i]) + k + n) = us[i]
  <2>1. p[i] \in Starts(r)
    BY <1>3
  <2> DEFINE a == p[i]
             e == UnitEnd(r, p[i])
  <2>2. /\ a \in Starts(r) /\ e = UnitEnd(r, a) /\ SubSeq(r, a, e) = us[i]
        /\ a \in Nat /\ e \in Nat /\ 1 <= a /\ e <= Len(r)
    BY <1>3, <1>4, <2>1
  <2> HIDE DEF a, e
  <2>3. UnitEnd(d, a + k + n) = UnitEnd(r, a) + k + n
    BY <1>c, <2>2, EndOfLater
  <2>a. a \in Nat /\ e \in Nat /\ 1 <= a /\ e <= Len(r)
    BY <2>2
  <2>4. SubSeq(d, a + k + n, e + k + n) = SubSeq(r, a, e)
    BY <1>c, <2>a, BytesOfLater
  <2> QED
    BY <2>2, <2>3, <2>4 DEF a, e
<1>6. k \in Nat /\ n \in Nat /\ n > 0 /\ k >= 3
  BY <1>a, <1>b
<1> HIDE DEF d, k, n, m
<1>7. /\ q[1] = k + 1
      /\ \A i \in 1..m : q[i + 1] = p[i] + k + n
      /\ \A i \in 1..(m + 1) : i # 1 => i - 1 \in 1..m /\ q[i] = p[i - 1] + k + n
  BY <1>3
<1>8. Increasing(q, m + 1)
  <2>1. q \in [1..(m + 1) -> Int]
    BY <1>3, <1>6
  <2>2. ASSUME NEW i \in 1..(m + 1), NEW j \in 1..(m + 1), i < j
        PROVE  q[i] < q[j]
    <3>1. j # 1 /\ j - 1 \in 1..m /\ q[j] = p[j - 1] + k + n
      BY <1>7, <2>2, <1>3
    <3>2. CASE i = 1
      BY <1>3, <1>4, <1>6, <1>7, <3>1, <3>2
    <3>3. CASE i # 1
      <4>1. i - 1 \in 1..m /\ q[i] = p[i - 1] + k + n
        BY <1>7, <3>3
      <4>a. i - 1 \in 1..m /\ j - 1 \in 1..m /\ i - 1 < j - 1
        BY <2>2, <3>1, <4>1
      <4>b. \A a, b \in 1..m : a < b => p[a] < p[b]
        BY <1>3
      <4>2. p[i - 1] < p[j - 1]
        BY <4>a, <4>b
      <4> QED
        BY <1>3, <1>6, <3>1, <4>1, <4>2
    <3> QED
      BY <3>2, <3>3
  <2> HIDE DEF q
  <2> QED
    BY <2>1, <2>2 DEF Increasing
<1> HIDE DEF q
<1>9. Starts(d) = {q[i] : i \in 1..(m + 1)}
  <2>1. ASSUME NEW x \in Starts(d)
        PROVE  \E i \in 1..(m + 1) : x = q[i]
    <3>1. CASE x = k + 1
      BY <1>3, <1>7, <3>1
    <3>2. CASE x # k + 1
      <4>1. PICK i \in 1..m : x = p[i] + k + n
        BY <1>1, <1>3, <3>2
      <4>2. i + 1 \in 1..(m + 1) /\ x = q[i + 1]
        BY <1>3, <1>7, <4>1
      <4> QED
        BY <4>2
    <3> QED
      BY <3>1, <3>2
  <2>2. ASSUME NEW i \in 1..(m + 1)
        PROVE  q[i] \in Starts(d)
    <3>1. CASE i = 1
      BY <1>1, <1>7, <3>1
    <3>2. CASE i # 1
      BY <1>1, <1>3, <1>7, <3>2
    <3> QED
      BY <3>1, <3>2
  <2> QED
    BY <2>1, <2>2
<1>10. ASSUME NEW i \in 1..(m + 1)
       PROVE  /\ q[i] \in Nat /\ UnitEnd(d, q[i]) \in Nat
              /\ q[i] <= UnitEnd(d, q[i]) /\ UnitEnd(d, q[i]) <= Len(d)
              /\ SubSeq(d, q[i], UnitEnd(d, q[i])) = all[i]
  <2>1. CASE i = 1
    <3>1. q[i] = k + 1 /\ all[i] = u /\ UnitEnd(d, q[i]) = k + n
      BY <1>2, <1>7, <2>1 DEF InFront
    <3>2. SubSeq(d, q[i], UnitEnd(d, q[i])) = all[i]
      BY <1>2, <3>1
    <3> QED
      BY <1>6, <1>d, <3>1, <3>2
  <2>2. CASE i # 1
    <3> DEFINE j == i - 1
    <3>1. j \in 1..m /\ q[i] = p[j] + k + n /\ i = j + 1
      BY <1>3, <1>7, <2>2
    <3> HIDE DEF j
    <3>2. all[i] = us[j]
      BY <3>1 DEF InFront, m
    <3>3. UnitEnd(d, q[i]) = UnitEnd(r, p[j]) + k + n
      BY <1>5, <3>1
    <3>4. SubSeq(d, q[i], UnitEnd(d, q[i])) = all[i]
      BY <1>5, <3>1, <3>2, <3>3
    <3> DEFINE e == UnitEnd(r, p[j])
               a == p[j]
    <3>5. a \in Nat /\ e \in Nat /\ a <= e /\ e <= Len(r) /\ UnitEnd(d, q[i]) = e + k + n /\ q[i] = a + k + n
      BY <1>3, <3>1, <3>3
    <3> HIDE DEF e, a
    <3>6. a + k + n \in Nat /\ e + k + n \in Nat /\ a + k + n <= e + k + n /\ e + k + n <= Len(d)
      BY <1>6, <1>d, <3>5
    <3> QED
      BY <3>4, <3>5, <3>6
  <2> QED
    BY <2>1, <2>2
<1>11. Len(all) = m + 1 /\ m + 1 \in Nat
  BY <1>3 DEF InFront, m
<1>12. UnitsBeginAt(d, all, q)
  BY <1>8, <1>9, <1>10, <1>11 DEF UnitsBeginAt
<1> QED
  BY <1>12 DEF d, q, k, n, m

-----------------------------------------------------------------------------
(* avcc_to_annex_b *)

Byte == 0..(Base - 1)

\* avcc_to_annex_b, with g for the units behind the first.
AvccStep(g, d) ==
    IF Len(d) < 4 THEN [ok |-> TRUE, data |-> <<>>]
    ELSE LET n == d[2] * Base * Base + d[3] * Base + d[4]
         IN  IF d[1] # 0 \/ n = 0 \/ 4 + n > Len(d) THEN [ok |-> FALSE, data |-> <<>>]
             ELSE LET rest == g[SubSeq(d, 5 + n, Len(d))]
                  IN  [ok |-> rest.ok, data |-> Code4 \o SubSeq(d, 5, 4 + n) \o rest.data]

\* What is behind the first unit of a sample is a shorter one.
LEMMA AvccRest ==
  ASSUME NEW d \in Seq(Byte), NEW n \in Nat, n # 0, ~(4 + n > Len(d))
  PROVE  /\ SubSeq(d, 5 + n, Len(d)) \in Seq(Byte)
         /\ Len(SubSeq(d, 5 + n, Len(d))) < Len(d)
<1>1. Len(d) \in Nat
  BY LenProperties
<1>2. \A i \in (5 + n)..Len(d) : d[i] \in Byte
  <2> TAKE i \in (5 + n)..Len(d)
  <2>1. i \in 1..Len(d)
    BY <1>1
  <2> QED
    BY <2>1, ElementOfSeq
<1>3. 5 + n \in Int /\ Len(d) \in Int
  BY <1>1
<1>4. /\ SubSeq(d, 5 + n, Len(d)) \in Seq(Byte)
      /\ Len(SubSeq(d, 5 + n, Len(d))) = IF 5 + n <= Len(d) THEN Len(d) - (5 + n) + 1 ELSE 0
  BY <1>2, <1>3, SubSeqProperties
<1> QED
  BY <1>1, <1>4

\* Three bytes are a length.
LEMMA AvccLength ==
  ASSUME NEW d \in Seq(Byte), ~(Len(d) < 4)
  PROVE  d[2] * Base * Base + d[3] * Base + d[4] \in Nat
<1>1. Len(d) \in Nat /\ Base \in Nat
  BY LenProperties, NalAssumption
<1>2. 2 \in 1..Len(d) /\ 3 \in 1..Len(d) /\ 4 \in 1..Len(d)
  BY <1>1
<1>3. d[2] \in Byte /\ d[3] \in Byte /\ d[4] \in Byte
  BY <1>2, ElementOfSeq
<1>4. d[2] \in Nat /\ d[3] \in Nat /\ d[4] \in Nat
  BY <1>1, <1>3 DEF Byte
<1>5. \A x, y \in Nat : x * y \in Nat
  OBVIOUS
<1>6. d[2] * Base \in Nat /\ d[3] * Base \in Nat
  BY <1>1, <1>4, <1>5
<1>7. (d[2] * Base) * Base \in Nat
  BY <1>1, <1>5, <1>6
<1> QED
  BY <1>4, <1>6, <1>7

\* A step of the rewriting only looks at shorter samples.
LEMMA AvccStepLocal ==
  ASSUME NEW d \in Seq(Byte), NEW g, NEW h,
         \A e \in Seq(Byte) : Len(e) < Len(d) => g[e] = h[e]
  PROVE  AvccStep(g, d) = AvccStep(h, d)
<1> DEFINE n == d[2] * Base * Base + d[3] * Base + d[4]
           rest == SubSeq(d, 5 + n, Len(d))
<1>1. CASE Len(d) < 4
  BY <1>1 DEF AvccStep
<1>2. CASE ~(Len(d) < 4) /\ (d[1] # 0 \/ n = 0 \/ 4 + n > Len(d))
  BY <1>2 DEF AvccStep
<1>3. CASE ~(Len(d) < 4) /\ ~(d[1] # 0 \/ n = 0 \/ 4 + n > Len(d))
  <2>1. n \in Nat
    BY <1>3, AvccLength
  <2>2. /\ AvccStep(g, d) = [ok |-> g[rest].ok, data |-> Code4 \o SubSeq(d, 5, 4 + n) \o g[rest].data]
        /\ AvccStep(h, d) = [ok |-> h[rest].ok, data |-> Code4 \o SubSeq(d, 5, 4 + n) \o h[rest].data]
    BY <1>3 DEF AvccStep
  <2>3. n # 0 /\ ~(4 + n > Len(d))
    BY <1>3
  <2> HIDE DEF n
  <2>4. rest \in Seq(Byte) /\ Len(rest) < Len(d)
    BY <2>1, <2>3, AvccRest
  <2>5. g[rest] = h[rest]
    BY <2>4
  <2> QED
    BY <2>2, <2>5
<1> QED
  BY <1>1, <1>2, <1>3

\* A solution of avcc_to_annex_b's equation for the samples up to a length.
UpTo(n) == {d \in Seq(Byte) : Len(d) <= n}
Solves(g, n) == g = [d \in UpTo(n) |-> AvccStep(g, d)]

\* Two partial results of the rewriting agree where both are defined.
LEMMA SolutionsAgree ==
  ASSUME NEW m \in Nat, NEW n \in Nat, NEW g, NEW h, Solves(g, m), Solves(h, n),
         NEW d \in Seq(Byte), Len(d) <= m, Len(d) <= n
  PROVE  g[d] = h[d]
<1> DEFINE Bad == {e \in Seq(Byte) : Len(e) <= m /\ Len(e) <= n /\ g[e] # h[e]}
           Lens == {Len(e) : e \in Bad}
<1> SUFFICES ASSUME Bad # {}
             PROVE  FALSE
  OBVIOUS
<1>1. \A e \in Seq(Byte) : Len(e) \in Nat
  BY LenProperties
<1>2. Lens \in SUBSET Nat /\ Lens # {}
  BY <1>1
<1>3. Min(Lens) \in Lens /\ \A x \in Lens : Min(Lens) <= x
  BY <1>2, LeastOf
<1>4. PICK e \in Bad : \A x \in Lens : Len(e) <= x
  BY <1>3
<1>5. \A f \in Seq(Byte) : Len(f) < Len(e) => g[f] = h[f]
  <2> TAKE f \in Seq(Byte)
  <2> HAVE Len(f) < Len(e)
  <2>1. Len(f) \in Nat /\ Len(e) \in Nat /\ Len(f) <= m /\ Len(f) <= n
    BY <1>1
  <2>2. f \notin Bad
    BY <1>4, <2>1
  <2> QED
    BY <2>1, <2>2
<1>6. AvccStep(g, e) = AvccStep(h, e)
  BY <1>5, AvccStepLocal
<1>7. e \in UpTo(m) /\ e \in UpTo(n)
  BY DEF UpTo
<1>8. g[e] = AvccStep(g, e) /\ h[e] = AvccStep(h, e)
  BY <1>7 DEF Solves
<1> QED
  BY <1>6, <1>8

\* There is a result for all samples up to any length.
LEMMA SolutionExists ==
  ASSUME NEW n \in Nat
  PROVE  \E g : Solves(g, n)
<1> DEFINE Bad == {m \in Nat : ~ \E g : Solves(g, m)}
<1> SUFFICES ASSUME Bad # {}
             PROVE  FALSE
  OBVIOUS
<1>1. Min(Bad) \in Bad /\ \A x \in Bad : Min(Bad) <= x
  BY LeastOf
<1>2. PICK m \in Bad : \A x \in Bad : m <= x
  BY <1>1
<1>3. m \in Nat /\ ~ \E g : Solves(g, m)
  OBVIOUS
<1>4. PICK p : \A e \in Seq(Byte) : Len(e) < m => p[e] = AvccStep(p, e)
  <2>1. CASE m = 0
    <3>1. \A e \in Seq(Byte) : Len(e) \in Nat
      BY LenProperties
    <3> QED
      BY <2>1, <3>1
  <2>2. CASE m # 0
    <3>1. m - 1 \in Nat /\ ~(m <= m - 1)
      BY <1>3, <2>2
    <3>2. m - 1 \notin Bad
      BY <1>2, <3>1
    <3>3. PICK p : Solves(p, m - 1)
      BY <3>1, <3>2
    <3>4. \A e \in Seq(Byte) : Len(e) < m => e \in UpTo(m - 1)
      <4> TAKE e \in Seq(Byte)
      <4>1. Len(e) \in Nat
        BY LenProperties
      <4> QED
        BY <1>3, <4>1 DEF UpTo
    <3>5. \A e \in UpTo(m - 1) : p[e] = AvccStep(p, e)
      BY <3>3 DEF Solves
    <3> QED
      BY <3>4, <3>5
  <2> QED
    BY <2>1, <2>2
<1> DEFINE h == [d \in UpTo(m) |-> AvccStep(p, d)]
<1>5. ASSUME NEW d \in UpTo(m)
      PROVE  AvccStep(p, d) = AvccStep(h, d)
  <2>1. d \in Seq(Byte) /\ Len(d) <= m
    BY DEF UpTo
  <2>2. \A e \in Seq(Byte) : Len(e) < Len(d) => p[e] = h[e]
    <3> TAKE e \in Seq(Byte)
    <3> HAVE Len(e) < Len(d)
    <3>1. Len(e) \in Nat /\ Len(d) \in Nat
      BY <2>1, LenProperties
    <3>2. Len(e) < m /\ Len(e) <= m
      BY <1>3, <2>1, <3>1
    <3>3. e \in UpTo(m)
      BY <3>2 DEF UpTo
    <3> QED
      BY <1>4, <3>2, <3>3
  <2> HIDE DEF h
  <2> QED
    BY <2>1, <2>2, AvccStepLocal
<1>6. h = [d \in UpTo(m) |-> AvccStep(h, d)]
  BY <1>5
<1> HIDE DEF h
<1>7. Solves(h, m)
  BY <1>6 DEF Solves
<1> QED
  BY <1>3, <1>7

\* avcc_to_annex_b has a result for every sequence of bytes, the one its loop computes.
LEMMA AvccUnitsIs ==
  ASSUME NEW d \in Seq(Byte)
  PROVE  AvccUnits[d] = AvccStep(AvccUnits, d)
<1> DEFINE Part(n) == CHOOSE g : Solves(g, n)
           G == [e \in Seq(Byte) |-> Part(Len(e))[e]]
<1>1. \A n \in Nat : Solves(Part(n), n)
  <2> TAKE n \in Nat
  <2>1. \E g : Solves(g, n)
    BY SolutionExists
  <2> QED
    BY <2>1, Zenon
<1> HIDE DEF Part
<1>2. ASSUME NEW e \in Seq(Byte)
      PROVE  G[e] = AvccStep(G, e)
  <2>1. Len(e) \in Nat
    BY LenProperties
  <2> DEFINE p == Part(Len(e))
  <2>2. Solves(p, Len(e))
    BY <1>1, <2>1
  <2>3. e \in UpTo(Len(e))
    BY <2>1 DEF UpTo
  <2>4. p[e] = AvccStep(p, e)
    BY <2>2, <2>3 DEF Solves
  <2>5. \A f \in Seq(Byte) : Len(f) < Len(e) => p[f] = G[f]
    <3> TAKE f \in Seq(Byte)
    <3> HAVE Len(f) < Len(e)
    <3>1. Len(f) \in Nat /\ Len(f) <= Len(e) /\ Len(f) <= Len(f)
      BY <2>1, LenProperties
    <3>2. Solves(Part(Len(f)), Len(f))
      BY <1>1, <3>1
    <3> HIDE DEF p
    <3>3. p[f] = Part(Len(f))[f]
      BY <2>1, <2>2, <3>1, <3>2, SolutionsAgree
    <3> QED
      BY <3>3
  <2>6. G[e] = p[e]
    OBVIOUS
  <2> HIDE DEF p, G
  <2>7. AvccStep(p, e) = AvccStep(G, e)
    BY <2>5, AvccStepLocal
  <2> QED
    BY <2>4, <2>6, <2>7
<1>3. G = [e \in Seq(Byte) |-> AvccStep(G, e)]
  BY <1>2
<1>4. AvccUnits = CHOOSE g : g = [e \in Seq(Byte) |-> AvccStep(g, e)]
  BY DEF AvccUnits, AvccStep, Byte
<1> HIDE DEF G
<1>5. AvccUnits = [e \in Seq(Byte) |-> AvccStep(AvccUnits, e)]
  BY <1>3, <1>4, Zenon
<1> QED
  BY <1>5

-----------------------------------------------------------------------------
(* Samples *)

\* FlattenSeq of a few pieces.
LEMMA FlattenOne ==
  ASSUME NEW a
  PROVE  FlattenSeq(<<a>>) = a
<1> DEFINE s == <<a>>
           Step(f, i) == IF i = 1 THEN s[i] ELSE f[i - 1] \o s[i]
           F == CHOOSE f : f = [i \in 1..Len(s) |-> Step(f, i)]
           g == [i \in 1..Len(s) |-> a]
<1>1. g = [i \in 1..Len(s) |-> Step(g, i)]
  OBVIOUS
<1>2. F = [i \in 1..Len(s) |-> Step(F, i)]
  BY <1>1, Zenon
<1>3. FlattenSeq(s) = F[1]
  BY DEF FlattenSeq
<1> QED
  BY <1>2, <1>3

\* Two pieces, and three, are joined in order.
LEMMA FlattenTwo ==
  ASSUME NEW a, NEW b
  PROVE  FlattenSeq(<<a, b>>) = a \o b
<1> DEFINE s == <<a, b>>
           Step(f, i) == IF i = 1 THEN s[i] ELSE f[i - 1] \o s[i]
           F == CHOOSE f : f = [i \in 1..Len(s) |-> Step(f, i)]
           g == [i \in 1..Len(s) |-> IF i = 1 THEN a ELSE a \o b]
<1>1. g = [i \in 1..Len(s) |-> Step(g, i)]
  <2>1. ASSUME NEW i \in 1..Len(s)
        PROVE  g[i] = Step(g, i)
    <3>1. i = 1 \/ i = 2
      OBVIOUS
    <3> QED
      BY <3>1
  <2> QED
    BY <2>1
<1>2. F = [i \in 1..Len(s) |-> Step(F, i)]
  BY <1>1, Zenon
<1>3. FlattenSeq(s) = F[2]
  BY DEF FlattenSeq
<1>4. Len(s) = 2 /\ s[1] = a /\ s[2] = b
  OBVIOUS
<1> HIDE DEF F, s
<1>5. F[1] = s[1] /\ F[2] = F[1] \o s[2]
  BY <1>2, <1>4
<1> QED
  BY <1>3, <1>4, <1>5 DEF s

\* Three pieces are joined in order.
LEMMA FlattenThree ==
  ASSUME NEW a, NEW b, NEW c
  PROVE  FlattenSeq(<<a, b, c>>) = Cat(Cat(a, b), c)
<1> DEFINE s == <<a, b, c>>
           Step(f, i) == IF i = 1 THEN s[i] ELSE f[i - 1] \o s[i]
           F == CHOOSE f : f = [i \in 1..Len(s) |-> Step(f, i)]
           g == [i \in 1..Len(s) |-> IF i = 1 THEN a ELSE IF i = 2 THEN a \o b ELSE (a \o b) \o c]
<1>1. g = [i \in 1..Len(s) |-> Step(g, i)]
  <2>1. ASSUME NEW i \in 1..Len(s)
        PROVE  g[i] = Step(g, i)
    <3>1. i = 1 \/ i = 2 \/ i = 3
      OBVIOUS
    <3> QED
      BY <3>1
  <2> QED
    BY <2>1
<1>2. F = [i \in 1..Len(s) |-> Step(F, i)]
  BY <1>1, Zenon
<1>3. FlattenSeq(s) = F[3]
  BY DEF FlattenSeq
<1>4. Len(s) = 3 /\ s[1] = a /\ s[2] = b /\ s[3] = c
  OBVIOUS
<1> HIDE DEF F, s
<1>5. F[1] = s[1] /\ F[2] = F[1] \o s[2]
  BY <1>2, <1>4
<1>6. F[3] = F[2] \o s[3]
  <2>1. \A i \in 1..Len(s) : i # 1 => F[i] = F[i - 1] \o s[i]
    BY <1>2
  <2>2. 3 \in 1..Len(s) /\ 3 # 1 /\ 3 - 1 = 2
    BY <1>4
  <2> QED
    BY <2>1, <2>2
<1> QED
  BY <1>3, <1>4, <1>5, <1>6 DEF s, Cat


Places(p, m) == {p[i] : i \in 1..m}
Firsts(us, m) == [i \in 1..m |-> us[i]]

\* The units of a sample are those at its start codes.
LEMMA UnitsAtPositions ==
  ASSUME NEW d, NEW us \in Seq(Seq(Nat)), NEW p, UnitsBeginAt(d, us, p),
         NEW m \in Nat, m <= Len(us)
  PROVE  UnitsAt(d, Places(p, m)) = Firsts(us, m)
<1> DEFINE S == {p[i] : i \in 1..m}
           q == [i \in 1..m |-> p[i]]
<1>1. /\ Len(us) \in Nat /\ p \in [1..Len(us) -> Int]
      /\ \A i, j \in 1..Len(us) : i < j => p[i] < p[j]
      /\ \A i \in 1..Len(us) : SubSeq(d, p[i], UnitEnd(d, p[i])) = us[i]
  BY DEF UnitsBeginAt, Increasing
<1>2. \A i \in 1..m : i \in 1..Len(us)
  BY <1>1
<1>3. Increasing(q, m)
  BY <1>1, <1>2 DEF Increasing
<1>4. S = {q[i] : i \in 1..m} /\ \A i \in 1..m : q[i] = p[i]
  OBVIOUS
<1> HIDE DEF q, S
<1>5. Cardinality(S) = m
  BY <1>3, <1>4, PositionsBelow
<1>6. \A i \in 1..m : Nth(S, i) = p[i]
  BY <1>3, <1>4, NthPosition
<1>7. \A i \in 1..m : SubSeq(d, Nth(S, i), UnitEnd(d, Nth(S, i))) = us[i]
  BY <1>1, <1>2, <1>6
<1>8. UnitsAt(d, S) = [i \in 1..m |-> us[i]]
  BY <1>5, <1>7 DEF UnitsAt
<1> QED
  BY <1>8 DEF S, Places, Firsts

\* The first byte of what is cut out is the one at its position.
LEMMA FirstByte ==
  ASSUME NEW d \in Seq(Nat), NEW a \in Nat, NEW e \in Nat, 1 <= a, a <= e, e <= Len(d)
  PROVE  SubSeq(d, a, e)[1] = d[a]
<1>1. \A i \in a..e : d[i] \in Nat
  <2> TAKE i \in a..e
  <2>1. i \in 1..Len(d)
    BY LenProperties
  <2> QED
    BY <2>1, ElementOfSeq
<1>2. \A i \in 1..(e - a + 1) : SubSeq(d, a, e)[i] = d[a + i - 1]
  BY <1>1, SubSeqProperties
<1> QED
  BY <1>2

Found(d, us, p) ==
  /\ NonEmpty(d) = Places(p, Len(us))
  /\ Units(d) = us
  /\ \A i \in 1..Len(us) : d[p[i]] = us[i][1]
  /\ Types(d) = {us[i][1] : i \in 1..Len(us)}

\* What nal_ranges finds is exactly the units, their first bytes the types.
LEMMA UnitsFound ==
  ASSUME NEW d \in Seq(Nat), NEW us \in Seq(Seq(Nat)), NEW p, UnitsBeginAt(d, us, p)
  PROVE  Found(d, us, p)
<1>1. /\ Len(us) \in Nat
      /\ Starts(d) = {p[i] : i \in 1..Len(us)}
      /\ \A i \in 1..Len(us) :
           /\ p[i] \in Nat /\ UnitEnd(d, p[i]) \in Nat
           /\ p[i] <= UnitEnd(d, p[i]) /\ UnitEnd(d, p[i]) <= Len(d)
           /\ SubSeq(d, p[i], UnitEnd(d, p[i])) = us[i]
  BY DEF UnitsBeginAt
<1>2. NonEmpty(d) = Places(p, Len(us))
  BY <1>1 DEF NonEmpty, Places
<1>3. Units(d) = us
  <2> DEFINE m == Len(us)
  <2>a. m \in Nat /\ m <= Len(us)
    BY <1>1
  <2> HIDE DEF m
  <2>1. UnitsAt(d, Places(p, m)) = Firsts(us, m)
    BY <2>a, UnitsAtPositions
  <2>2. us = Firsts(us, Len(us))
    BY LenProperties DEF Firsts
  <2> QED
    BY <1>2, <2>1, <2>2 DEF Units, m
<1>4. ASSUME NEW i \in 1..Len(us)
      PROVE  d[p[i]] = us[i][1] /\ p[i] <= Len(d)
  <2> DEFINE a == p[i]
             e == UnitEnd(d, p[i])
  <2>1. /\ a \in Nat /\ e \in Nat /\ a <= e /\ e <= Len(d) /\ SubSeq(d, a, e) = us[i]
        /\ a \in Starts(d)
    BY <1>1
  <2>2. 1 <= a
    BY <2>1 DEF Starts
  <2> HIDE DEF a, e
  <2>3. SubSeq(d, a, e)[1] = d[a]
    BY <2>1, <2>2, FirstByte
  <2>4. a <= Len(d)
    BY <2>1, LenProperties
  <2> QED
    BY <2>1, <2>3, <2>4 DEF a
<1>5. Types(d) = {us[i][1] : i \in 1..Len(us)}
  <2>1. ASSUME NEW x
        PROVE  x \in Types(d) <=> \E i \in 1..Len(us) : x = us[i][1]
    <3>1. x \in Types(d) <=> \E j \in Starts(d) : j <= Len(d) /\ x = d[j]
      BY DEF Types
    <3>2. x \in Types(d) <=> \E i \in 1..Len(us) : p[i] <= Len(d) /\ x = d[p[i]]
      BY <1>1, <3>1
    <3> QED
      BY <1>4, <3>2
  <2> QED
    BY <2>1
<1> QED
  BY <1>2, <1>3, <1>4, <1>5 DEF Found

-----------------------------------------------------------------------------
(* Units, and their samples *)

Types4 == {Slice, Idr, Sps, Pps}

\* A unit has its length and its type, and nothing in it is a zero.
LEMMA UnitShape ==
  ASSUME NEW type \in Types4, NEW l \in Nat \ {0}, NEW ver \in Nat
  PROVE  /\ Clean(Unit(type, l, ver)) /\ Unit(type, l, ver) \in Seq(Nat)
         /\ Len(Unit(type, l, ver)) = l /\ Unit(type, l, ver)[1] = type
         /\ 2 + ver < Base => Unit(type, l, ver) \in Seq(Byte)
<1> DEFINE w == [i \in 1..(l - 1) |-> IF i = 1 /\ type \in {Sps, Pps} THEN 2 + ver ELSE Filler]
<1>0. Unit(type, l, ver) = <<type>> \o w
  BY DEF Unit
<1>1. type \in Nat \ {0} /\ <<type>> \in Seq(Nat \ {0}) /\ Len(<<type>>) = 1 /\ <<type>>[1] = type
  BY DEF Types4, Slice, Idr, Sps, Pps
<1>2. \A i \in 1..(l - 1) : w[i] \in Nat \ {0}
  BY DEF Filler
<1>3. w \in Seq(Nat \ {0}) /\ Len(w) = l - 1
  BY <1>2
<1> HIDE DEF w
<1>4. /\ <<type>> \o w \in Seq(Nat \ {0})
      /\ Len(<<type>> \o w) = 1 + (l - 1)
      /\ \A i \in 1..(1 + (l - 1)) : (<<type>> \o w)[i] = IF i <= 1 THEN <<type>>[i] ELSE w[i - 1]
  BY <1>1, <1>3, ConcatProperties
<1>5. Len(<<type>> \o w) = l /\ (<<type>> \o w)[1] = type
  BY <1>1, <1>4
<1>6. Clean(<<type>> \o w)
  BY <1>4, <1>5, EmptySeq DEF Clean
<1>7. <<type>> \o w \in Seq(Nat)
  BY <1>6, CleanShape
<1>8. ASSUME 2 + ver < Base
      PROVE  <<type>> \o w \in Seq(Byte)
  <2>1. <<type>> \in Seq(Byte)
    BY <1>1, NalAssumption DEF Types4, Slice, Idr, Sps, Pps, Byte
  <2>2. w \in Seq(Byte)
    <3>1. \A i \in 1..(l - 1) : w[i] \in Byte
      BY <1>8, NalAssumption DEF Byte, Filler, w
    <3>2. w \in [1..(l - 1) -> Byte] /\ l - 1 \in Nat
      BY <3>1 DEF w
    <3> QED
      BY <3>2
  <2> QED
    BY <2>1, <2>2, ConcatProperties
<1> QED
  BY <1>0, <1>5, <1>6, <1>7, <1>8

\* Length4 writes a length in three digits, which read as it again.
LEMMA Digits ==
  ASSUME NEW n \in Nat, NEW B \in Nat, B > 1, n < B * B * B
  PROVE  /\ (n \div B) \div B \in 0..(B - 1)
         /\ (n \div B) % B \in 0..(B - 1) /\ n % B \in 0..(B - 1)
         /\ ((n \div B) \div B) * B * B + ((n \div B) % B) * B + (n % B) = n
<1> DEFINE q == n \div B
           x == q \div B
           y == q % B
           z == n % B
<1>1. q \in Nat /\ z \in 0..(B - 1) /\ n = B * q + z
  OBVIOUS
<1>2. x \in Nat /\ y \in 0..(B - 1) /\ q = B * x + y
  BY <1>1
<1> HIDE DEF q, x, y, z
<1>3. B * q = (x * B) * B + y * B
  <2>1. B * q = B * (B * x + y)
    BY <1>2
  <2>2. B * (B * x + y) = B * (B * x) + B * y
    BY <1>2
  <2>3. B * (B * x) = (x * B) * B /\ B * y = y * B
    BY <1>2
  <2> QED
    BY <2>1, <2>2, <2>3
<1>4. x < B
  <2> SUFFICES ASSUME x >= B
               PROVE  FALSE
    BY <1>2
  <2>1. x * B >= B * B
    BY <1>2
  <2>2. x * B \in Nat /\ B * B \in Nat /\ y * B \in Nat /\ y * B >= 0
    BY <1>2
  <2>3. (x * B) * B >= (B * B) * B
    BY <2>1, <2>2
  <2>4. (x * B) * B \in Nat /\ (B * B) * B \in Nat /\ z \in Nat
    BY <1>1, <2>2
  <2> QED
    BY <1>1, <1>3, <2>2, <2>3, <2>4
<1>5. (x * B) * B + y * B + z = n
  BY <1>1, <1>3
<1>6. x \in 0..(B - 1)
  BY <1>2, <1>4
<1>7. /\ x \in 0..(B - 1) /\ y \in 0..(B - 1) /\ z \in 0..(B - 1)
      /\ x * B * B + y * B + z = n
  BY <1>1, <1>2, <1>5, <1>6
<1> QED
  BY <1>7 DEF q, x, y, z

\* A sample that begins with a start code, byte by byte.
LEMMA PrefixCode ==
  ASSUME NEW t \in Seq(Nat)
  PROVE  /\ IsPrefix(Code4, t) <=> Len(t) >= 4 /\ t[1] = 0 /\ t[2] = 0 /\ t[3] = 0 /\ t[4] = 1
         /\ IsPrefix(Code3, t) <=> Len(t) >= 3 /\ t[1] = 0 /\ t[2] = 0 /\ t[3] = 1
<1>0. Len(t) \in Nat
  BY LenProperties
<1>1. ASSUME NEW k \in {3, 4}, Len(t) >= k
      PROVE  /\ SubSeq(t, 1, k) \in Seq(Nat) /\ Len(SubSeq(t, 1, k)) = k
             /\ \A i \in 1..k : SubSeq(t, 1, k)[i] = t[i]
  <2>1. \A i \in 1..k : t[i] \in Nat
    <3> TAKE i \in 1..k
    <3>1. i \in 1..Len(t)
      BY <1>0, <1>1
    <3> QED
      BY <3>1, ElementOfSeq
  <2>2. /\ SubSeq(t, 1, k) \in Seq(Nat)
        /\ Len(SubSeq(t, 1, k)) = IF 1 <= k THEN k - 1 + 1 ELSE 0
        /\ \A i \in 1..(k - 1 + 1) : SubSeq(t, 1, k)[i] = t[1 + i - 1]
    BY <2>1, SubSeqProperties
  <2> QED
    BY <2>2
<1>2. /\ Code4 \in Seq(Nat) /\ Len(Code4) = 4 /\ Code4[1] = 0 /\ Code4[2] = 0 /\ Code4[3] = 0 /\ Code4[4] = 1
      /\ Code3 \in Seq(Nat) /\ Len(Code3) = 3 /\ Code3[1] = 0 /\ Code3[2] = 0 /\ Code3[3] = 1
  BY DEF Code4, Code3
<1>3. SubSeq(Code4, 1, Len(Code4)) = Code4 /\ SubSeq(Code3, 1, Len(Code3)) = Code3
  BY <1>2, SubSeqFull
<1>4. /\ IsPrefix(Code4, t) <=> 4 <= Len(t) /\ Code4 = SubSeq(t, 1, 4)
      /\ IsPrefix(Code3, t) <=> 3 <= Len(t) /\ Code3 = SubSeq(t, 1, 3)
  BY <1>2, <1>3 DEF IsPrefix
<1>5. ASSUME Len(t) >= 4
      PROVE  Code4 = SubSeq(t, 1, 4) <=> t[1] = 0 /\ t[2] = 0 /\ t[3] = 0 /\ t[4] = 1
  <2> DEFINE s == SubSeq(t, 1, 4)
  <2>1. s \in Seq(Nat) /\ Len(s) = 4 /\ s[1] = t[1] /\ s[2] = t[2] /\ s[3] = t[3] /\ s[4] = t[4]
    BY <1>1, <1>5
  <2> HIDE DEF s
  <2>2. Code4 = s <=> \A i \in 1..4 : Code4[i] = s[i]
    BY <1>2, <2>1, SeqEqual
  <2> QED
    BY <1>2, <2>1, <2>2 DEF s
<1>6. ASSUME Len(t) >= 3
      PROVE  Code3 = SubSeq(t, 1, 3) <=> t[1] = 0 /\ t[2] = 0 /\ t[3] = 1
  <2> DEFINE s == SubSeq(t, 1, 3)
  <2>1. s \in Seq(Nat) /\ Len(s) = 3 /\ s[1] = t[1] /\ s[2] = t[2] /\ s[3] = t[3]
    BY <1>1, <1>6
  <2> HIDE DEF s
  <2>2. Code3 = s <=> \A i \in 1..3 : Code3[i] = s[i]
    BY <1>2, <2>1, SeqEqual
  <2> QED
    BY <1>2, <2>1, <2>2 DEF s
<1> QED
  BY <1>0, <1>4, <1>5, <1>6

\* One length-prefixed unit is rewritten to one with a start code.
LEMMA AvccNone == AvccUnits[<<>>] = [ok |-> TRUE, data |-> <<>>]
<1>1. <<>> \in Seq(Byte) /\ Len(<<>>) = 0
  OBVIOUS
<1>2. AvccUnits[<<>>] = AvccStep(AvccUnits, <<>>)
  BY <1>1, AvccUnitsIs
<1>3. AvccStep(AvccUnits, <<>>) = [ok |-> TRUE, data |-> <<>>]
  BY <1>1 DEF AvccStep
<1> QED
  BY <1>2, <1>3

\* A length takes four bytes, the first a zero, and reads as itself.
LEMMA LengthBytes ==
  ASSUME NEW n \in Nat, n < Base * Base * Base
  PROVE  /\ Length4(n) \in Seq(Byte) /\ Length4(n) \in Seq(Nat) /\ Len(Length4(n)) = 4
         /\ Length4(n)[1] = 0
         /\ Length4(n)[2] * Base * Base + Length4(n)[3] * Base + Length4(n)[4] = n
<1>1. Base \in Nat /\ Base > 1
  BY NalAssumption
<1> DEFINE x == (n \div Base) \div Base
           y == (n \div Base) % Base
           z == n % Base
<1>2. x \in 0..(Base - 1) /\ y \in 0..(Base - 1) /\ z \in 0..(Base - 1) /\ x * Base * Base + y * Base + z = n
  BY <1>1, Digits
<1>3. Length4(n) = <<0, x, y, z>>
  BY DEF Length4
<1> HIDE DEF x, y, z
<1>4. 0 \in Byte /\ x \in Byte /\ y \in Byte /\ z \in Byte
  BY <1>1, <1>2 DEF Byte
<1>5. \A b \in Byte : b \in Nat
  BY <1>1 DEF Byte
<1> QED
  BY <1>2, <1>3, <1>4, <1>5

\* The first unit gets a start code for its length, the rest is rewritten.
LEMMA AvccOne ==
  ASSUME NEW u \in Seq(Byte), NEW r \in Seq(Byte),
         Len(u) > 0, Len(u) < Base * Base * Base
  PROVE  /\ (Length4(Len(u)) \o u) \o r \in Seq(Byte)
         /\ AvccUnits[(Length4(Len(u)) \o u) \o r] =
              [ok |-> AvccUnits[r].ok, data |-> (Code4 \o u) \o AvccUnits[r].data]
<1> DEFINE n == Len(u)
           h == Length4(n)
           d == (h \o u) \o r
<1>1. n \in Nat /\ n > 0 /\ Len(r) \in Nat
  BY LenProperties
<1>a. n < Base * Base * Base
  OBVIOUS
<1> HIDE DEF n
<1>2. /\ h \in Seq(Byte) /\ Len(h) = 4 /\ h[1] = 0
      /\ h[2] * Base * Base + h[3] * Base + h[4] = n
  BY <1>1, <1>a, LengthBytes
<1> HIDE DEF h
<1>3. /\ h \o u \in Seq(Byte) /\ Len(h \o u) = 4 + n
      /\ \A i \in 1..(4 + n) : (h \o u)[i] = IF i <= 4 THEN h[i] ELSE u[i - 4]
  <2>1. /\ h \o u \in Seq(Byte) /\ Len(h \o u) = Len(h) + Len(u)
        /\ \A i \in 1..(Len(h) + Len(u)) : (h \o u)[i] = IF i <= Len(h) THEN h[i] ELSE u[i - Len(h)]
    BY <1>2, ConcatProperties
  <2> QED
    BY <1>2, <2>1 DEF n
<1>4. /\ d \in Seq(Byte) /\ Len(d) = 4 + n + Len(r)
      /\ \A i \in 1..(4 + n + Len(r)) : d[i] = IF i <= 4 + n THEN (h \o u)[i] ELSE r[i - (4 + n)]
  BY <1>3, ConcatProperties
<1> HIDE DEF d
<1>5. d[1] = h[1] /\ d[2] = h[2] /\ d[3] = h[3] /\ d[4] = h[4]
  <2>1. \A i \in 1..4 : i \in 1..(4 + n) /\ i \in 1..(4 + n + Len(r)) /\ i <= 4 /\ i <= 4 + n
    BY <1>1
  <2>2. ASSUME NEW i \in 1..4
        PROVE  d[i] = h[i]
    <3>1. d[i] = (h \o u)[i]
      BY <1>4, <2>1
    <3>2. (h \o u)[i] = h[i]
      BY <1>3, <2>1
    <3> QED
      BY <3>1, <3>2
  <2>3. 1 \in 1..4 /\ 2 \in 1..4 /\ 3 \in 1..4 /\ 4 \in 1..4
    OBVIOUS
  <2> QED
    BY <2>2, <2>3
<1>6. d[1] = 0 /\ d[2] * Base * Base + d[3] * Base + d[4] = n
  BY <1>2, <1>5
<1>7. ~(Len(d) < 4) /\ n # 0 /\ ~(4 + n > Len(d))
  BY <1>1, <1>4
<1>8. SubSeq(d, 5, 4 + n) = u
  <2> DEFINE v == SubSeq(d, 5, 4 + n)
  <2>1. \A j \in 1..n : d[4 + j] = u[j]
    <3> TAKE j \in 1..n
    <3>1. 4 + j \in 1..(4 + n + Len(r)) /\ 4 + j <= 4 + n /\ 4 + j \in 1..(4 + n) /\ ~(4 + j <= 4) /\ (4 + j) - 4 = j
      BY <1>1
    <3> QED
      BY <1>3, <1>4, <3>1
  <2>2. \A i \in 5..(4 + n) : d[i] \in Byte
    <3> TAKE i \in 5..(4 + n)
    <3>1. i \in 1..Len(d)
      BY <1>1, <1>4
    <3> QED
      BY <1>4, <3>1, ElementOfSeq
  <2>3. 5 \in Int /\ 4 + n \in Int
    BY <1>1
  <2>4. /\ v \in Seq(Byte) /\ Len(v) = IF 5 <= 4 + n THEN (4 + n) - 5 + 1 ELSE 0
        /\ \A i \in 1..((4 + n) - 5 + 1) : v[i] = d[5 + i - 1]
    BY <2>2, <2>3, SubSeqProperties
  <2> HIDE DEF v
  <2>5. Len(v) = n /\ \A i \in 1..n : v[i] = u[i]
    <3>1. Len(v) = n /\ (4 + n) - 5 + 1 = n
      BY <1>1, <2>4
    <3>2. ASSUME NEW i \in 1..n
          PROVE  v[i] = u[i]
      <4>1. 5 + i - 1 = 4 + i /\ i \in 1..((4 + n) - 5 + 1)
        BY <1>1
      <4>2. v[i] = d[4 + i]
        BY <2>4, <4>1
      <4> QED
        BY <2>1, <4>2
    <3> QED
      BY <3>1, <3>2
  <2>6. v = u
    BY <2>4, <2>5, SeqEqual DEF n
  <2> QED
    BY <2>6 DEF v
<1>9. SubSeq(d, 5 + n, Len(d)) = r
  <2> DEFINE v == SubSeq(d, 5 + n, Len(d))
             m == Len(r)
  <2>0. m \in Nat /\ Len(d) = 4 + n + m
    BY <1>1, <1>4
  <2>1. \A j \in 1..m : d[4 + n + j] = r[j]
    <3> TAKE j \in 1..m
    <3>1. /\ 4 + n + j \in 1..(4 + n + m) /\ ~(4 + n + j <= 4 + n)
          /\ (4 + n + j) - (4 + n) = j
      BY <1>1, <2>0
    <3> QED
      BY <1>4, <3>1
  <2>2. \A i \in (5 + n)..Len(d) : d[i] \in Byte
    <3> TAKE i \in (5 + n)..Len(d)
    <3>1. i \in 1..Len(d)
      BY <1>1, <2>0
    <3> QED
      BY <1>4, <3>1, ElementOfSeq
  <2>3. 5 + n \in Int /\ Len(d) \in Int
    BY <1>1, <2>0
  <2>4. /\ v \in Seq(Byte)
        /\ Len(v) = IF 5 + n <= Len(d) THEN Len(d) - (5 + n) + 1 ELSE 0
        /\ \A i \in 1..(Len(d) - (5 + n) + 1) : v[i] = d[(5 + n) + i - 1]
    BY <2>2, <2>3, SubSeqProperties
  <2> HIDE DEF v, m
  <2>5. Len(v) = m
    BY <1>1, <2>0, <2>4
  <2>6. ASSUME NEW i \in 1..m
        PROVE  v[i] = r[i]
    <3>1. (5 + n) + i - 1 = 4 + n + i /\ i \in 1..(Len(d) - (5 + n) + 1)
      BY <1>1, <2>0
    <3>2. v[i] = d[4 + n + i]
      BY <2>4, <3>1
    <3> QED
      BY <2>1, <3>2
  <2>7. v = r
    BY <2>4, <2>5, <2>6, SeqEqual DEF m
  <2> QED
    BY <2>7 DEF v
<1>10. AvccStep(AvccUnits, d) =
         [ok |-> AvccUnits[r].ok, data |-> (Code4 \o u) \o AvccUnits[r].data]
  BY <1>6, <1>7, <1>8, <1>9 DEF AvccStep
<1>11. AvccUnits[d] = AvccStep(AvccUnits, d)
  BY <1>4, AvccUnitsIs
<1> QED
  BY <1>4, <1>10, <1>11 DEF d, h, n

-----------------------------------------------------------------------------
(* A sample of one unit, or of two parameter sets and a unit *)

\* The bytes of one, two and three units behind start codes.
LEMMA AnnexBOne ==
  ASSUME NEW c, NEW u
  PROVE  AnnexB(<<u>>, c) = Cat(c, u)
<1> DEFINE f == [i \in DOMAIN <<u>> |-> c \o <<u>>[i]]
<1>1. f = <<Cat(c, u)>>
  BY DEF Cat
<1> HIDE DEF f
<1>2. FlattenSeq(f) = Cat(c, u)
  BY <1>1, FlattenOne
<1> QED
  BY <1>2 DEF AnnexB, f

\* Two units behind start codes.
LEMMA AnnexBTwo ==
  ASSUME NEW c, NEW s, NEW p
  PROVE  AnnexB(<<s, p>>, c) = Cat(Cat(c, s), Cat(c, p))
<1> DEFINE f == [i \in DOMAIN <<s, p>> |-> c \o <<s, p>>[i]]
<1>1. f = <<Cat(c, s), Cat(c, p)>>
  BY DEF Cat
<1>2. FlattenSeq(<<Cat(c, s), Cat(c, p)>>) = Cat(c, s) \o Cat(c, p)
  BY FlattenTwo
<1> HIDE DEF f
<1> QED
  BY <1>1, <1>2 DEF AnnexB, f, Cat

\* Three units behind start codes.
LEMMA AnnexBThree ==
  ASSUME NEW c, NEW s, NEW p, NEW u
  PROVE  AnnexB(<<s, p, u>>, c) = Cat(Cat(Cat(c, s), Cat(c, p)), Cat(c, u))
<1> DEFINE f == [i \in DOMAIN <<s, p, u>> |-> c \o <<s, p, u>>[i]]
<1>1. f = <<Cat(c, s), Cat(c, p), Cat(c, u)>>
  BY DEF Cat
<1>2. FlattenSeq(<<Cat(c, s), Cat(c, p), Cat(c, u)>>) = Cat(Cat(Cat(c, s), Cat(c, p)), Cat(c, u))
  BY FlattenThree
<1>3. AnnexB(<<s, p, u>>, c) = FlattenSeq(f)
  BY DEF AnnexB
<1> HIDE DEF f
<1> QED
  BY <1>1, <1>2, <1>3

\* The bytes of one, two and three units behind their lengths.
LEMMA AvccOneUnit ==
  ASSUME NEW u
  PROVE  Avcc(<<u>>) = Cat(Length4(Len(u)), u)
<1> DEFINE f == [i \in DOMAIN <<u>> |-> Length4(Len(<<u>>[i])) \o <<u>>[i]]
<1>1. f = <<Cat(Length4(Len(u)), u)>>
  BY DEF Cat
<1> HIDE DEF f
<1>2. FlattenSeq(f) = Cat(Length4(Len(u)), u)
  BY <1>1, FlattenOne
<1> QED
  BY <1>2 DEF Avcc, f

\* Two units behind their lengths.
LEMMA AvccTwoUnits ==
  ASSUME NEW s, NEW p
  PROVE  Avcc(<<s, p>>) = Cat(Cat(Length4(Len(s)), s), Cat(Length4(Len(p)), p))
<1> DEFINE f == [i \in DOMAIN <<s, p>> |-> Length4(Len(<<s, p>>[i])) \o <<s, p>>[i]]
           x == Cat(Length4(Len(s)), s)
           y == Cat(Length4(Len(p)), p)
<1>1. f = <<x, y>>
  BY DEF Cat
<1>2. Avcc(<<s, p>>) = FlattenSeq(f)
  BY DEF Avcc
<1> HIDE DEF f, x, y
<1>3. FlattenSeq(<<x, y>>) = x \o y
  BY FlattenTwo
<1>4. Avcc(<<s, p>>) = Cat(x, y)
  BY <1>1, <1>2, <1>3 DEF Cat
<1> QED
  BY <1>4 DEF x, y

\* Three units behind their lengths.
LEMMA AvccThreeUnits ==
  ASSUME NEW s, NEW p, NEW u
  PROVE  Avcc(<<s, p, u>>) =
           Cat(Cat(Cat(Length4(Len(s)), s), Cat(Length4(Len(p)), p)), Cat(Length4(Len(u)), u))
<1> DEFINE f == [i \in DOMAIN <<s, p, u>> |-> Length4(Len(<<s, p, u>>[i])) \o <<s, p, u>>[i]]
           x == Cat(Length4(Len(s)), s)
           y == Cat(Length4(Len(p)), p)
           z == Cat(Length4(Len(u)), u)
<1>1. f = <<x, y, z>>
  BY DEF Cat
<1>2. Avcc(<<s, p, u>>) = FlattenSeq(f)
  BY DEF Avcc
<1> HIDE DEF f, x, y, z
<1>3. FlattenSeq(<<x, y, z>>) = Cat(Cat(x, y), z)
  BY FlattenThree
<1>4. Avcc(<<s, p, u>>) = Cat(Cat(x, y), z)
  BY <1>1, <1>2, <1>3
<1> QED
  BY <1>4 DEF x, y, z

\* Three pieces, each behind its own front.
LEMMA ThreePieces ==
  ASSUME NEW S, NEW a \in Seq(S), NEW s \in Seq(S), NEW b \in Seq(S), NEW p \in Seq(S),
         NEW c \in Seq(S), NEW u \in Seq(S)
  PROVE  Cat(Cat(Cat(a, s), Cat(b, p)), Cat(c, u))
           = Cat(Cat(a, s), Cat(Cat(b, p), Cat(Cat(c, u), <<>>)))
<1> DEFINE x == Cat(a, s)
           y == Cat(b, p)
           z == Cat(c, u)
<1>1. x \in Seq(S) /\ y \in Seq(S) /\ z \in Seq(S)
  BY CatProperties
<1> HIDE DEF x, y, z
<1>2. Cat(z, <<>>) = z
  BY <1>1, CatProperties
<1>3. Cat(Cat(x, y), z) = Cat(x, Cat(y, z))
  BY <1>1, CatAssociative
<1>4. Cat(Cat(x, y), z) = Cat(x, Cat(y, Cat(z, <<>>)))
  BY <1>2, <1>3
<1> QED
  BY <1>4 DEF x, y, z

\* No unit begins in an empty sample.
LEMMA NothingBegins ==
  ASSUME NEW p, p = [i \in 1..0 |-> 0]
  PROVE  UnitsBeginAt(<<>>, <<>>, p) /\ Follows(<<>>)
<1>1. Starts(<<>>) = {}
  BY DEF Starts
<1>2. Len(<<>>) = 0 /\ <<>> \in Seq(Nat)
  OBVIOUS
<1>3. Increasing(p, 0)
  BY DEF Increasing
<1> QED
  BY <1>1, <1>2, <1>3 DEF UnitsBeginAt, Follows

\* Another unit in front: it is found where its code ends, the others further on.
LEMMA UnitInFront ==
  ASSUME NEW c, IsCode(c), NEW u, Clean(u), NEW r, Follows(r),
         NEW us, NEW p, UnitsBeginAt(r, us, p), NEW all, InFront(u, us, all)
  PROVE  /\ Follows(Cat(Cat(c, u), r))
         /\ \E q : UnitsBeginAt(Cat(Cat(c, u), r), all, q)
<1>1. \E q : UnitsBeginAt(Cat(Cat(c, u), r), all, q)
  BY CodedUnits DEF Cat
<1>2. c \in Seq(Nat) /\ u \in Seq(Nat) /\ r \in Seq(Nat)
  BY CodeShape, CleanShape DEF Follows
<1>3. Cat(Cat(c, u), r) \in Seq(Nat)
  <2>1. Cat(c, u) \in Seq(Nat)
    BY <1>2, CatProperties
  <2> QED
    BY <1>2, <2>1, CatProperties
<1>4. Cat(Cat(c, u), r) = (c \o u) \o r
  BY DEF Cat
<1>5. Follows(Cat(Cat(c, u), r))
  BY <1>2, <1>3, <1>4 DEF Follows
<1> QED
  BY <1>1, <1>5

\* A unit behind a start code is found.
LEMMA OneUnit ==
  ASSUME NEW c, IsCode(c), NEW u, Clean(u)
  PROVE  /\ Cat(c, u) \in Seq(Nat)
         /\ \E q : UnitsBeginAt(Cat(c, u), <<u>>, q)
         /\ Follows(Cat(c, u))
<1> DEFINE none == [i \in 1..0 |-> 0]
<1>1. UnitsBeginAt(<<>>, <<>>, none) /\ Follows(<<>>)
  BY NothingBegins
<1>2. InFront(u, <<>>, <<u>>)
  BY DEF InFront
<1> HIDE DEF none
<1>3. Follows(Cat(Cat(c, u), <<>>)) /\ \E q : UnitsBeginAt(Cat(Cat(c, u), <<>>), <<u>>, q)
  BY <1>1, <1>2, UnitInFront
<1>4. c \in Seq(Nat) /\ u \in Seq(Nat)
  BY CodeShape, CleanShape
<1>5. Cat(c, u) \in Seq(Nat)
  BY <1>4, CatProperties
<1>6. Cat(Cat(c, u), <<>>) = Cat(c, u)
  BY <1>5, CatProperties
<1> QED
  BY <1>3, <1>5, <1>6

Three(a, s, b, p, c, u) == Cat(Cat(Cat(a, s), Cat(b, p)), Cat(c, u))

\* So are three.
LEMMA ThreeUnits ==
  ASSUME NEW a, IsCode(a), NEW s, Clean(s), NEW b, IsCode(b), NEW p, Clean(p),
         NEW c, IsCode(c), NEW u, Clean(u)
  PROVE  /\ Three(a, s, b, p, c, u) \in Seq(Nat)
         /\ \E q : UnitsBeginAt(Three(a, s, b, p, c, u), <<s, p, u>>, q)
<1> DEFINE r == Cat(c, u)
           t == Cat(Cat(b, p), r)
           d == Cat(Cat(a, s), t)
<1>0. /\ a \in Seq(Nat) /\ b \in Seq(Nat) /\ c \in Seq(Nat)
      /\ s \in Seq(Nat) /\ p \in Seq(Nat) /\ u \in Seq(Nat)
  BY CodeShape, CleanShape
<1>1. Follows(r) /\ \E q : UnitsBeginAt(r, <<u>>, q)
  BY OneUnit
<1>a. r \in Seq(Nat) /\ Cat(r, <<>>) = r
  BY <1>0, CatProperties
<1> HIDE DEF r
<1>2. InFront(p, <<u>>, <<p, u>>) /\ InFront(s, <<p, u>>, <<s, p, u>>)
  BY DEF InFront
<1>3. Follows(t) /\ \E q : UnitsBeginAt(t, <<p, u>>, q)
  BY <1>1, <1>2, UnitInFront
<1> HIDE DEF t
<1>4. Follows(d) /\ \E q : UnitsBeginAt(d, <<s, p, u>>, q)
  BY <1>2, <1>3, UnitInFront
<1>5. Three(a, s, b, p, c, u) = d
  BY <1>0, <1>a, ThreePieces DEF Three, t, r
<1> QED
  BY <1>4, <1>5 DEF Follows

\* A single unit that is no parameter set.
LEMMA OneFound ==
  ASSUME NEW c, IsCode(c), NEW u, Clean(u)
  PROVE  /\ Units(Cat(c, u)) = <<u>> /\ Types(Cat(c, u)) = {u[1]}
         /\ u[1] \notin {Sps, Pps} => ParameterSets(Cat(c, u)) = <<>>
<1> DEFINE d == Cat(c, u)
           us == <<u>>
<1>1. d \in Seq(Nat) /\ \E q : UnitsBeginAt(d, us, q)
  BY OneUnit
<1>2. us \in Seq(Seq(Nat)) /\ Len(us) = 1 /\ us[1] = u
  BY CleanShape
<1> HIDE DEF d, us
<1>3. PICK q : UnitsBeginAt(d, us, q)
  BY <1>1
<1>f. Found(d, us, q)
  BY <1>1, <1>2, <1>3, UnitsFound
<1>4. /\ NonEmpty(d) = Places(q, Len(us)) /\ Units(d) = us
      /\ \A i \in 1..Len(us) : d[q[i]] = us[i][1]
      /\ Types(d) = {us[i][1] : i \in 1..Len(us)}
  BY <1>f DEF Found
<1>5. Types(d) = {u[1]} /\ d[q[1]] = u[1] /\ NonEmpty(d) = {q[1]}
  BY <1>2, <1>4 DEF Places
<1>6. ASSUME u[1] \notin {Sps, Pps}
      PROVE  ParameterSets(d) = <<>>
  <2>1. {i \in NonEmpty(d) : d[i] \in {Sps, Pps}} = {}
    BY <1>5, <1>6
  <2>2. {d[i] : i \in {}} # {Sps, Pps}
    OBVIOUS
  <2> QED
    BY <2>1, <2>2 DEF ParameterSets
<1> QED
  BY <1>4, <1>5, <1>6 DEF d, us

\* Both parameter sets and another unit.
LEMMA ThreeFound ==
  ASSUME NEW a, IsCode(a), NEW s, Clean(s), NEW b, IsCode(b), NEW p, Clean(p),
         NEW c, IsCode(c), NEW u, Clean(u),
         s[1] = Sps, p[1] = Pps, u[1] \notin {Sps, Pps}
  PROVE  /\ Units(Three(a, s, b, p, c, u)) = <<s, p, u>>
         /\ Types(Three(a, s, b, p, c, u)) = {Sps, Pps, u[1]}
         /\ ParameterSets(Three(a, s, b, p, c, u)) = AnnexB(<<s, p>>, Code4)
<1> DEFINE d == Three(a, s, b, p, c, u)
           us == <<s, p, u>>
<1>1. d \in Seq(Nat) /\ \E q : UnitsBeginAt(d, us, q)
  BY ThreeUnits
<1>2. us \in Seq(Seq(Nat)) /\ Len(us) = 3 /\ us[1] = s /\ us[2] = p /\ us[3] = u
  BY CleanShape
<1> HIDE DEF d, us
<1>3. PICK q : UnitsBeginAt(d, us, q)
  BY <1>1
<1>f. Found(d, us, q)
  BY <1>1, <1>2, <1>3, UnitsFound
<1>4. /\ NonEmpty(d) = Places(q, Len(us)) /\ Units(d) = us
      /\ \A i \in 1..Len(us) : d[q[i]] = us[i][1]
      /\ Types(d) = {us[i][1] : i \in 1..Len(us)}
  BY <1>f DEF Found
<1>5. /\ NonEmpty(d) = {q[1], q[2], q[3]}
      /\ d[q[1]] = Sps /\ d[q[2]] = Pps /\ d[q[3]] = u[1]
      /\ Types(d) = {Sps, Pps, u[1]}
  BY <1>2, <1>4 DEF Places
<1>6. {i \in NonEmpty(d) : d[i] \in {Sps, Pps}} = {q[1], q[2]}
  BY <1>5
<1>7. Places(q, 2) = {q[1], q[2]} /\ Firsts(us, 2) = <<s, p>>
  BY <1>2 DEF Places, Firsts
<1>8. UnitsAt(d, Places(q, 2)) = Firsts(us, 2)
  <2>1. 2 \in Nat /\ 2 <= Len(us)
    BY <1>2
  <2> QED
    BY <1>2, <1>3, <2>1, UnitsAtPositions
<1>9. {d[i] : i \in {q[1], q[2]}} = {Sps, Pps}
  BY <1>5
<1>10. ParameterSets(d) = AnnexB(<<s, p>>, Code4)
  BY <1>6, <1>7, <1>8, <1>9 DEF ParameterSets
<1> QED
  BY <1>4, <1>5, <1>10 DEF d, us

-----------------------------------------------------------------------------
(* What the rewriting makes of a sample *)

BytesAreNumbers == Seq(Byte) \subseteq Seq(Nat)

\* Bytes are numbers.
LEMMA NumbersOfBytes == BytesAreNumbers
<1>1. \A b \in Byte : b \in Nat
  BY NalAssumption DEF Byte
<1>2. Byte \subseteq Nat
  BY <1>1
<1> QED
  BY <1>2, SeqMonotonic DEF BytesAreNumbers

\* The first bytes of what stands behind them.
LEMMA FrontBytes ==
  ASSUME NEW h \in Seq(Nat), NEW r \in Seq(Nat), Len(h) \in {3, 4}
  PROVE  /\ Cat(h, r) \in Seq(Nat) /\ Len(Cat(h, r)) >= Len(h) /\ Len(Cat(h, r)) \in Nat
         /\ Cat(h, r)[1] = h[1] /\ Cat(h, r)[2] = h[2] /\ Cat(h, r)[3] = h[3]
         /\ Len(h) = 4 => Cat(h, r)[4] = h[4]
<1> DEFINE d == h \o r
<1>1. /\ d \in Seq(Nat) /\ Len(h) \in Nat /\ Len(r) \in Nat /\ Len(d) = Len(h) + Len(r)
      /\ \A i \in Int : 1 <= i /\ i <= Len(h) => d[i] = h[i]
  BY JoinedBytes
<1> HIDE DEF d
<1>2. d[1] = h[1] /\ d[2] = h[2] /\ d[3] = h[3] /\ (Len(h) = 4 => d[4] = h[4])
  BY <1>1
<1>3. Len(d) \in Nat /\ Len(d) >= Len(h)
  BY <1>1
<1> QED
  BY <1>1, <1>2, <1>3 DEF d, Cat

\* What begins with a start code is told to be Annex-B.
LEMMA CodeInFront ==
  ASSUME NEW c, IsCode(c), NEW r \in Seq(Nat)
  PROVE  StartsWithCode(Cat(c, r))
<1>1. c \in Seq(Nat) /\ Len(c) \in {3, 4}
  BY CodeShape
<1> DEFINE d == Cat(c, r)
<1>2. /\ d \in Seq(Nat) /\ Len(d) >= Len(c) /\ Len(d) \in Nat
      /\ d[1] = c[1] /\ d[2] = c[2] /\ d[3] = c[3] /\ (Len(c) = 4 => d[4] = c[4])
  BY <1>1, FrontBytes
<1> HIDE DEF d
<1>3. CASE c = Code4
  <2>1. Len(c) = 4 /\ c[1] = 0 /\ c[2] = 0 /\ c[3] = 0 /\ c[4] = 1
    BY <1>3 DEF Code4
  <2> QED
    BY <1>2, <2>1, PrefixCode DEF StartsWithCode, d
<1>4. CASE c = Code3
  <2>1. Len(c) = 3 /\ c[1] = 0 /\ c[2] = 0 /\ c[3] = 1
    BY <1>4 DEF Code3
  <2> QED
    BY <1>2, <2>1, PrefixCode DEF StartsWithCode, d
<1> QED
  BY <1>3, <1>4 DEF IsCode

\* A short length is one byte behind three zeros.
LEMMA ShortLength ==
  ASSUME NEW n \in Nat, n < Base
  PROVE  Length4(n) = <<0, 0, 0, n>>
<1>1. Base \in Nat /\ Base > 1
  BY NalAssumption
<1>2. n \div Base = 0 /\ n % Base = n /\ 0 \div Base = 0 /\ 0 % Base = 0
  BY <1>1
<1> QED
  BY <1>2 DEF Length4

\* A length is taken for a start code only when it is 1, or its third byte is.
LEMMA LengthInFront ==
  ASSUME NEW n \in Nat, n < Base * Base * Base, n # 1, n \notin Base..(2 * Base - 1),
         NEW r \in Seq(Nat)
  PROVE  ~ StartsWithCode(Cat(Length4(n), r))
<1> DEFINE h == Length4(n)
           d == Cat(h, r)
<1>0. Base \in Nat /\ Base > 10
  BY NalAssumption
<1>1. h \in Seq(Nat) /\ Len(h) = 4
  BY LengthBytes
<1>2. /\ d \in Seq(Nat) /\ d[1] = h[1] /\ d[2] = h[2] /\ d[3] = h[3] /\ d[4] = h[4]
  BY <1>1, FrontBytes
<1>3. CASE n < Base
  <2>1. h = <<0, 0, 0, n>>
    BY <1>3, ShortLength
  <2>2. h[3] = 0 /\ h[4] # 1
    BY <2>1
  <2> QED
    BY <1>2, <2>2, PrefixCode DEF StartsWithCode
<1>4. CASE ~(n < Base)
  <2> DEFINE q == n \div Base
  <2>1. q \in Nat /\ n = Base * q + (n % Base) /\ n % Base \in 0..(Base - 1)
    BY <1>0
  <2>2. n >= 2 * Base
    BY <1>0, <1>4
  <2> HIDE DEF q
  <2>3. q >= 2
    BY <1>0, <2>1, <2>2
  <2>4. q \div Base \in Nat /\ q = Base * (q \div Base) + (q % Base)
    BY <1>0, <2>1
  <2>5. ~(q \div Base = 0 /\ q % Base \in {0, 1})
    <3>1. SUFFICES ASSUME q \div Base = 0, q % Base \in {0, 1}
                   PROVE  FALSE
      OBVIOUS
    <3>2. Base * 0 = 0
      BY <1>0
    <3>3. q = q % Base
      BY <1>0, <2>1, <2>4, <3>1, <3>2
    <3> QED
      BY <2>3, <3>1, <3>3
  <2>6. h[2] = q \div Base /\ h[3] = q % Base
    BY DEF Length4, q
  <2> QED
    BY <1>2, <2>5, <2>6, PrefixCode DEF StartsWithCode
<1> QED
  BY <1>3, <1>4

\* What avcc_to_annex_b does with the first unit.
LEMMA AvccFront ==
  ASSUME NEW u \in Seq(Byte), NEW r \in Seq(Byte), Len(u) > 0, Len(u) < Base * Base * Base
  PROVE  /\ Cat(Cat(Length4(Len(u)), u), r) \in Seq(Byte)
         /\ AvccUnits[Cat(Cat(Length4(Len(u)), u), r)] =
              [ok |-> AvccUnits[r].ok, data |-> Cat(Cat(Code4, u), AvccUnits[r].data)]
BY AvccOne DEF Cat

\* A start code is bytes.
LEMMA CodeOfBytes == Code4 \in Seq(Byte) /\ Code3 \in Seq(Byte)
<1>1. 0 \in Byte /\ 1 \in Byte
  BY NalAssumption DEF Byte
<1> QED
  BY <1>1 DEF Code4, Code3

\* A single unit is rewritten to itself behind a start code.
LEMMA AvccSingle ==
  ASSUME NEW u \in Seq(Byte), Len(u) > 0, Len(u) < Base * Base * Base
  PROVE  /\ Cat(Length4(Len(u)), u) \in Seq(Byte)
         /\ AvccUnits[Cat(Length4(Len(u)), u)] = [ok |-> TRUE, data |-> Cat(Code4, u)]
<1>1. Length4(Len(u)) \in Seq(Byte)
  BY LengthBytes, LenProperties
<1> DEFINE a == Cat(Length4(Len(u)), u)
           b == Cat(Code4, u)
<1>2. a \in Seq(Byte) /\ Cat(a, <<>>) = a
  BY <1>1, CatProperties
<1>3. b \in Seq(Byte) /\ Cat(b, <<>>) = b
  BY CodeOfBytes, CatProperties
<1>4. <<>> \in Seq(Byte)
  OBVIOUS
<1>5. AvccUnits[Cat(a, <<>>)] = [ok |-> AvccUnits[<<>>].ok, data |-> Cat(b, AvccUnits[<<>>].data)]
  BY <1>4, AvccFront
<1> HIDE DEF a, b
<1>6. AvccUnits[<<>>].ok = TRUE /\ AvccUnits[<<>>].data = <<>>
  BY AvccNone
<1>7. AvccUnits[a] = [ok |-> TRUE, data |-> b]
  BY <1>2, <1>3, <1>5, <1>6
<1> QED
  BY <1>2, <1>7 DEF a, b

Lengthy(u) == u \in Seq(Byte) /\ Len(u) > 0 /\ Len(u) < Base * Base * Base

\* Another unit in front of a rewritten sample.
LEMMA AvccBehind ==
  ASSUME NEW u, Lengthy(u), NEW r \in Seq(Byte), NEW v, AvccUnits[r] = [ok |-> TRUE, data |-> v]
  PROVE  /\ Cat(Cat(Length4(Len(u)), u), r) \in Seq(Byte)
         /\ AvccUnits[Cat(Cat(Length4(Len(u)), u), r)] =
              [ok |-> TRUE, data |-> Cat(Cat(Code4, u), v)]
<1> DEFINE d == Cat(Cat(Length4(Len(u)), u), r)
<1>1. u \in Seq(Byte) /\ Len(u) > 0 /\ Len(u) < Base * Base * Base
  BY DEF Lengthy
<1>2. /\ d \in Seq(Byte)
      /\ AvccUnits[d] = [ok |-> AvccUnits[r].ok, data |-> Cat(Cat(Code4, u), AvccUnits[r].data)]
  BY <1>1, AvccFront
<1> HIDE DEF d
<1>3. AvccUnits[r].ok = TRUE /\ AvccUnits[r].data = v
  OBVIOUS
<1>4. d \in Seq(Byte) /\ AvccUnits[d] = [ok |-> TRUE, data |-> Cat(Cat(Code4, u), v)]
  BY <1>2, <1>3
<1> QED
  BY <1>4 DEF d

\* Three units are rewritten to themselves behind start codes.
LEMMA AvccTriple ==
  ASSUME NEW s, Lengthy(s), NEW p, Lengthy(p), NEW u, Lengthy(u)
  PROVE  AvccUnits[Avcc(<<s, p, u>>)] =
           [ok |-> TRUE, data |-> Three(Code4, s, Code4, p, Code4, u)]
<1> DEFINE a == Length4(Len(s))
           b == Length4(Len(p))
           c == Length4(Len(u))
           z == Cat(Cat(c, u), <<>>)
           y == Cat(Cat(b, p), z)
           x == Cat(Cat(a, s), y)
           w == Cat(Cat(Code4, u), <<>>)
           v == Cat(Cat(Code4, p), w)
           t == Cat(Cat(Code4, s), v)
<1>0. s \in Seq(Byte) /\ p \in Seq(Byte) /\ u \in Seq(Byte) /\ Code4 \in Seq(Byte)
  BY CodeOfBytes DEF Lengthy
<1>1. a \in Seq(Byte) /\ b \in Seq(Byte) /\ c \in Seq(Byte)
  BY LengthBytes, LenProperties DEF Lengthy
<1>2. Avcc(<<s, p, u>>) = Cat(Cat(Cat(a, s), Cat(b, p)), Cat(c, u))
  BY AvccThreeUnits
<1>3. Cat(Cat(Cat(a, s), Cat(b, p)), Cat(c, u)) = x
  BY <1>0, <1>1, ThreePieces
<1>4. <<>> \in Seq(Byte) /\ AvccUnits[<<>>] = [ok |-> TRUE, data |-> <<>>]
  BY AvccNone
<1>5. z \in Seq(Byte) /\ AvccUnits[z] = [ok |-> TRUE, data |-> w]
  BY <1>4, AvccBehind
<1> HIDE DEF z, w
<1>6. y \in Seq(Byte) /\ AvccUnits[y] = [ok |-> TRUE, data |-> v]
  BY <1>5, AvccBehind
<1> HIDE DEF y, v
<1>7. x \in Seq(Byte) /\ AvccUnits[x] = [ok |-> TRUE, data |-> t]
  BY <1>6, AvccBehind
<1>8. Three(Code4, s, Code4, p, Code4, u) = t
  BY <1>0, ThreePieces DEF Three, t, v, w
<1> QED
  BY <1>2, <1>3, <1>7, <1>8

\* The first bytes of three pieces are those of the first.
LEMMA ThreeFront ==
  ASSUME NEW a \in Seq(Nat), NEW s \in Seq(Nat), NEW y \in Seq(Nat), NEW z \in Seq(Nat)
  PROVE  /\ Cat(Cat(s, y), z) \in Seq(Nat)
         /\ Cat(Cat(Cat(a, s), y), z) = Cat(a, Cat(Cat(s, y), z))
<1>1. Cat(s, y) \in Seq(Nat) /\ Cat(a, s) \in Seq(Nat)
  BY CatProperties
<1>2. Cat(Cat(s, y), z) \in Seq(Nat)
  BY <1>1, CatProperties
<1>3. Cat(Cat(a, s), y) = Cat(a, Cat(s, y))
  BY CatAssociative
<1>4. Cat(Cat(a, Cat(s, y)), z) = Cat(a, Cat(Cat(s, y), z))
  BY <1>1, CatAssociative
<1> QED
  BY <1>2, <1>3, <1>4

\* Three bytes hold more than ten lengths.
LEMMA NumberOfLengths == Base * Base * Base \in Nat /\ Base * Base * Base > 10
<1>1. Base \in Nat /\ Base > 10
  BY NalAssumption
<1>2. \A x, y \in Nat : x * y \in Nat /\ (x > 10 /\ y > 10 => x * y > 10)
  <2>1. ASSUME NEW x \in Nat, NEW y \in Nat
        PROVE  x * y \in Nat
    OBVIOUS
  <2>2. ASSUME NEW x \in Nat, NEW y \in Nat, x > 10, y > 10
        PROVE  x * y > 10
    <3>1. x * y >= x * 1
      BY <2>2
    <3> QED
      BY <2>2, <3>1
  <2> QED
    BY <2>1, <2>2
<1>3. Base * Base \in Nat /\ Base * Base > 10
  BY <1>1, <1>2
<1> QED
  BY <1>1, <1>2, <1>3

\* A slice as the encoder emits it.
Media(u) == /\ Clean(u) /\ Lengthy(u)
            /\ u[1] \in {Slice, Idr} /\ Len(u) \in Lengths

\* The slices a sample is made of.
LEMMA SliceShape ==
  ASSUME NEW type \in {Slice, Idr}, NEW l \in Lengths
  PROVE  Media(Unit(type, l, 0)) /\ Unit(type, l, 0)[1] = type
<1>1. l \in 1..(Base * Base * Base - 1) /\ Base \in Nat /\ Base > 10
  BY NalAssumption
<1>2. l \in Nat \ {0} /\ l < Base * Base * Base /\ 2 + 0 < Base
  BY <1>1, NumberOfLengths
<1>3. type \in Types4
  BY DEF Types4
<1>4. 0 \in Nat
  OBVIOUS
<1> DEFINE u == Unit(type, l, 0)
<1>5. Clean(u) /\ Len(u) = l /\ u[1] = type /\ u \in Seq(Byte)
  BY <1>2, <1>3, <1>4, UnitShape
<1> HIDE DEF u
<1>6. Lengthy(u)
  BY <1>2, <1>5 DEF Lengthy
<1>7. Media(u) /\ u[1] = type
  BY <1>5, <1>6 DEF Media
<1> QED
  BY <1>7 DEF u

Set(type, u) == Clean(u) /\ Lengthy(u) /\ u[1] = type /\ Len(u) \in {2, 3}

\* The parameter sets of each version.
LEMMA SetShape ==
  ASSUME NEW ver \in 0..MaxChanges
  PROVE  /\ Set(Sps, Unit(Sps, 3, ver)) /\ Len(Unit(Sps, 3, ver)) = 3
         /\ Set(Pps, Unit(Pps, 2, ver))
<1>1. ver \in Nat /\ 2 + ver < Base /\ Base \in Nat
  BY NalAssumption
<1>2. ASSUME NEW type \in {Sps, Pps}, NEW l \in {2, 3}
      PROVE  Set(type, Unit(type, l, ver)) /\ Len(Unit(type, l, ver)) = l
  <2>1. type \in Types4 /\ l \in Nat \ {0} /\ l < Base * Base * Base
    BY NumberOfLengths DEF Types4
  <2> DEFINE u == Unit(type, l, ver)
  <2>2. Clean(u) /\ Len(u) = l /\ u[1] = type /\ u \in Seq(Byte)
    BY <1>1, <2>1, UnitShape
  <2> HIDE DEF u
  <2>3. Lengthy(u)
    BY <2>1, <2>2 DEF Lengthy
  <2>4. Set(type, u) /\ Len(u) = l
    BY <2>2, <2>3 DEF Set
  <2> QED
    BY <2>4 DEF u
<1> QED
  BY <1>2

Raw(f, units) ==
  IF f = "avcc" THEN Avcc(units) ELSE AnnexB(units, IF f = "long" THEN Code4 ELSE Code3)

\* What is rewritten is units behind start codes, whatever the sample was.
Readable(r, d) == r = [ok |-> TRUE, data |-> d]

\* A length whose bytes are 0, 0, 1 and another.
LooksCoded(f, u) == f = "avcc" /\ Len(u) \in Base..(2 * Base - 1)

\* A slice alone, in any format and of any length, is sent behind a start code.
LEMMA RewrittenOne ==
  ASSUME NEW f \in Formats, NEW u, Media(u), ~ LooksCoded(f, u)
  PROVE  \E c : IsCode(c) /\ Readable(Rewritten(Raw(f, <<u>>)), Cat(c, u))
<1>0. u \in Seq(Byte) /\ Len(u) > 0 /\ Len(u) < Base * Base * Base /\ Len(u) \in Nat
  BY LenProperties DEF Media, Lengthy
<1>1. u \in Seq(Nat)
  BY <1>0, NumbersOfBytes DEF BytesAreNumbers
<1>2. ASSUME NEW c, IsCode(c), Raw(f, <<u>>) = Cat(c, u)
      PROVE  \E e : IsCode(e) /\ Readable(Rewritten(Raw(f, <<u>>)), Cat(e, u))
  <2>1. StartsWithCode(Cat(c, u))
    BY <1>1, <1>2, CodeInFront
  <2>2. Readable(Rewritten(Raw(f, <<u>>)), Cat(c, u))
    BY <1>2, <2>1 DEF Rewritten, Readable
  <2> QED
    BY <1>2, <2>2
<1>3. CASE f # "avcc"
  <2> DEFINE c == IF f = "long" THEN Code4 ELSE Code3
  <2>1. IsCode(c)
    BY DEF IsCode
  <2> HIDE DEF c
  <2>2. AnnexB(<<u>>, c) = Cat(c, u)
    BY AnnexBOne
  <2>3. Raw(f, <<u>>) = Cat(c, u)
    BY <1>3, <2>2 DEF Raw, c
  <2> QED
    BY <1>2, <2>1, <2>3
<1>4. CASE f = "avcc" /\ Len(u) = 1
  <2>1. Base > 1
    BY NalAssumption
  <2>2. Length4(1) = <<0, 0, 0, 1>>
    BY <2>1, ShortLength
  <2>3. Raw(f, <<u>>) = Cat(Code4, u)
    BY <1>4, <2>2, AvccOneUnit DEF Raw, Code4
  <2> QED
    BY <1>2, <2>3 DEF IsCode
<1>5. CASE f = "avcc" /\ Len(u) # 1
  <2> DEFINE d == Cat(Length4(Len(u)), u)
  <2>1. Len(u) \notin Base..(2 * Base - 1)
    BY <1>5 DEF LooksCoded
  <2>2. ~ StartsWithCode(d)
    BY <1>0, <1>1, <1>5, <2>1, LengthInFront
  <2>3. AvccUnits[d] = [ok |-> TRUE, data |-> Cat(Code4, u)]
    BY <1>0, AvccSingle
  <2>4. Raw(f, <<u>>) = d
    BY <1>5, AvccOneUnit DEF Raw
  <2> HIDE DEF d
  <2>5. Readable(Rewritten(Raw(f, <<u>>)), Cat(Code4, u))
    BY <2>2, <2>3, <2>4 DEF Rewritten, Readable
  <2> QED
    BY <2>5 DEF IsCode
<1> QED
  BY <1>3, <1>4, <1>5

\* Such a sample is sent as it is, and no parameter sets are found in it.
LEMMA MistakenOne ==
  ASSUME NEW f, NEW u, Media(u), LooksCoded(f, u)
  PROVE  \E d : Readable(Rewritten(Raw(f, <<u>>)), d) /\ ParameterSets(d) = <<>>
<1> DEFINE n == Len(u)
           h == Length4(n)
           d == h \o u
<1>0. Base \in Nat /\ Base > 10
  BY NalAssumption
<1>1. u \in Seq(Byte) /\ Clean(u)
  BY DEF Media, Lengthy
<1>2. u \in Seq(Nat) /\ n \in Nat /\ n > 0 /\ n < Base * Base * Base /\ \A i \in 1..n : u[i] # 0
  BY <1>1, CleanShape DEF Media, Lengthy
<1>3. n \in Base..(2 * Base - 1)
  BY DEF LooksCoded
<1>b. n = Len(u)
  OBVIOUS
<1> HIDE DEF n
<1>4. h \in Seq(Nat) /\ Len(h) = 4 /\ h[1] = 0 /\ h[2] = 0 /\ h[3] = 1
  <2>1. h \in Seq(Nat) /\ Len(h) = 4 /\ h[1] = 0
    BY <1>2, LengthBytes
  <2>2. n \div Base = 1
    <3> DEFINE q == n \div Base
    <3>1. q \in Nat /\ n = Base * q + (n % Base) /\ n % Base \in 0..(Base - 1)
      BY <1>0, <1>2
    <3> HIDE DEF q
    <3>2. q < 2
      BY <1>0, <1>3, <3>1
    <3>3. q # 0
      <4>1. Base * 0 = 0
        BY <1>0
      <4> QED
        BY <1>0, <1>3, <3>1, <4>1
    <3> QED
      BY <3>1, <3>2, <3>3 DEF q
  <2>3. 1 \div Base = 0 /\ 1 % Base = 1
    BY <1>0
  <2> QED
    BY <2>1, <2>2, <2>3 DEF Length4
<1> HIDE DEF h
<1>5. /\ d \in Seq(Nat) /\ Len(d) = 4 + n
      /\ \A i \in Int : 1 <= i /\ i <= 4 => d[i] = h[i]
      /\ \A i, j \in Int : 1 <= j /\ j <= n /\ i = 4 + j => d[i] = u[j]
  <2>1. /\ d \in Seq(Nat) /\ Len(d) = Len(h) + Len(u)
        /\ \A i \in Int : 1 <= i /\ i <= Len(h) => d[i] = h[i]
        /\ \A i, j \in Int : 1 <= j /\ j <= Len(u) /\ i = Len(h) + j => d[i] = u[j]
    BY <1>2, <1>4, JoinedBytes
  <2> HIDE DEF d
  <2> QED
    BY <1>4, <1>b, <2>1
<1> HIDE DEF d
<1>6. d[1] = 0 /\ d[2] = 0 /\ d[3] = 1
  BY <1>4, <1>5
<1>7. StartsWithCode(d)
  <2>1. Len(d) >= 3
    BY <1>2, <1>5
  <2>2. IsPrefix(Code3, d)
    BY <1>5, <1>6, <2>1, PrefixCode
  <2> QED
    BY <2>2 DEF StartsWithCode
<1>8. \A i \in Starts(d) : i = 4
  <2>1. ASSUME NEW i \in Starts(d), i # 4
        PROVE  FALSE
    <3>1. i \in Int /\ i >= 5 /\ i <= 4 + n + 1 /\ d[i - 3] = 0 /\ d[i - 2] = 0 /\ d[i - 1] = 1
      BY <1>2, <1>5, <2>1 DEF Starts
    <3>2. i # 5 /\ i # 6
      BY <1>6, <3>1
    <3>3. i - 2 = 4 + (i - 6) /\ i - 6 \in 1..n /\ i - 2 \in Int
      BY <1>2, <3>1, <3>2
    <3>4. d[i - 2] = u[i - 6]
      BY <1>5, <3>3
    <3> QED
      BY <1>2, <3>1, <3>3, <3>4
  <2> QED
    BY <2>1
<1>9. ParameterSets(d) = <<>>
  <2>1. \A i, j \in NonEmpty(d) : d[i] = d[j]
    BY <1>8 DEF NonEmpty
  <2>2. Sps # Pps
    BY DEF Sps, Pps
  <2> DEFINE sets == {i \in NonEmpty(d) : d[i] \in {Sps, Pps}}
  <2>3. {d[i] : i \in sets} # {Sps, Pps}
    BY <2>1, <2>2
  <2> QED
    BY <2>3 DEF ParameterSets
<1>10. Raw(f, <<u>>) = d
  BY AvccOneUnit DEF LooksCoded, Raw, Cat, d, h, n
<1>11. Readable(Rewritten(Raw(f, <<u>>)), d)
  BY <1>7, <1>10 DEF Rewritten, Readable
<1> QED
  BY <1>9, <1>11

\* Three units behind their lengths, piece by piece.
LEMMA AvccAsThree ==
  ASSUME NEW s, NEW p, NEW u
  PROVE  Avcc(<<s, p, u>>) = Three(Length4(Len(s)), s, Length4(Len(p)), p, Length4(Len(u)), u)
<1>1. Avcc(<<s, p, u>>) =
        Cat(Cat(Cat(Length4(Len(s)), s), Cat(Length4(Len(p)), p)), Cat(Length4(Len(u)), u))
  BY AvccThreeUnits
<1> DEFINE a == Length4(Len(s))
           b == Length4(Len(p))
           c == Length4(Len(u))
<1>2. Avcc(<<s, p, u>>) = Cat(Cat(Cat(a, s), Cat(b, p)), Cat(c, u))
  BY <1>1
<1> HIDE DEF a, b, c
<1>3. Avcc(<<s, p, u>>) = Three(a, s, b, p, c, u)
  BY <1>2, Zenon DEF Three
<1> QED
  BY <1>3 DEF a, b, c

\* A keyframe with its parameter sets, in any format, is sent behind start codes.
LEMMA RewrittenThree ==
  ASSUME NEW f \in Formats, NEW s, Set(Sps, s), Len(s) = 3, NEW p, Set(Pps, p), NEW u, Media(u)
  PROVE  \E c : IsCode(c) /\ Readable(Rewritten(Raw(f, <<s, p, u>>)), Three(c, s, c, p, c, u))
<1>1. Lengthy(s) /\ Lengthy(p) /\ Lengthy(u)
  BY DEF Set, Media
<1>2. s \in Seq(Nat) /\ p \in Seq(Nat) /\ u \in Seq(Nat)
  BY <1>1, NumbersOfBytes DEF BytesAreNumbers, Lengthy
<1>3. ASSUME NEW a \in Seq(Nat), NEW b \in Seq(Nat), NEW c \in Seq(Nat)
      PROVE  \E r \in Seq(Nat) : Three(a, s, b, p, c, u) = Cat(a, r)
  <2> DEFINE y == Cat(b, p)
             z == Cat(c, u)
  <2>1. y \in Seq(Nat) /\ z \in Seq(Nat)
    BY <1>2, CatProperties
  <2> HIDE DEF y, z
  <2>2. Cat(Cat(s, y), z) \in Seq(Nat) /\ Cat(Cat(Cat(a, s), y), z) = Cat(a, Cat(Cat(s, y), z))
    BY <1>2, <2>1, ThreeFront
  <2>3. Three(a, s, b, p, c, u) = Cat(a, Cat(Cat(s, y), z))
    BY <2>2 DEF Three, y, z
  <2> QED
    BY <2>2, <2>3
<1>4. CASE f # "avcc"
  <2> DEFINE c == IF f = "long" THEN Code4 ELSE Code3
             d == Three(c, s, c, p, c, u)
  <2>1. IsCode(c)
    BY DEF IsCode
  <2> HIDE DEF c
  <2>2. c \in Seq(Nat)
    BY <2>1, CodeShape
  <2>3. PICK r \in Seq(Nat) : d = Cat(c, r)
    BY <1>3, <2>2
  <2>4. AnnexB(<<s, p, u>>, c) = d
    BY AnnexBThree DEF Three
  <2> HIDE DEF d
  <2>5. StartsWithCode(d)
    BY <2>1, <2>3, CodeInFront
  <2>6. Raw(f, <<s, p, u>>) = d
    BY <1>4, <2>4 DEF Raw, c
  <2>7. Readable(Rewritten(Raw(f, <<s, p, u>>)), d)
    BY <2>5, <2>6 DEF Rewritten, Readable
  <2> QED
    BY <2>1, <2>7 DEF d
<1>5. CASE f = "avcc"
  <2> DEFINE a == Length4(Len(s))
             b == Length4(Len(p))
             c == Length4(Len(u))
             d == Three(a, s, b, p, c, u)
  <2>1. a \in Seq(Nat) /\ b \in Seq(Nat) /\ c \in Seq(Nat)
    BY <1>1, LengthBytes, LenProperties DEF Lengthy
  <2>2. Avcc(<<s, p, u>>) = d
    BY AvccAsThree
  <2>3. AvccUnits[Avcc(<<s, p, u>>)] = [ok |-> TRUE, data |-> Three(Code4, s, Code4, p, Code4, u)]
    BY <1>1, AvccTriple
  <2>4. PICK r \in Seq(Nat) : d = Cat(a, r)
    BY <1>3, <2>1
  <2> HIDE DEF b, c, d
  <2>5. 3 \in Nat /\ 3 < Base * Base * Base /\ 3 # 1 /\ 3 \notin Base..(2 * Base - 1)
    BY NumberOfLengths, NalAssumption
  <2>6. a = Length4(3)
    OBVIOUS
  <2> HIDE DEF a
  <2>7. ~ StartsWithCode(Cat(Length4(3), r))
    BY <2>5, LengthInFront
  <2>8. ~ StartsWithCode(d)
    BY <2>4, <2>6, <2>7
  <2>9. Raw(f, <<s, p, u>>) = d
    BY <1>5, <2>2 DEF Raw
  <2>10. Readable(Rewritten(Raw(f, <<s, p, u>>)), Three(Code4, s, Code4, p, Code4, u))
    BY <2>2, <2>3, <2>8, <2>9 DEF Rewritten, Readable
  <2> QED
    BY <2>10 DEF IsCode
<1> QED
  BY <1>4, <1>5

\* The header is the parameter sets the stream uses, or nothing.
HeaderOf(ver) == AnnexB(SetsOf(ver), Code4)

\* The media type's blob is taken when it is Annex-B, and is never empty then.
LEMMA HeaderShape ==
  ASSUME NEW ver \in 0..MaxChanges
  PROVE  /\ HeaderOf(ver) = Cat(Cat(Code4, Unit(Sps, 3, ver)), Cat(Code4, Unit(Pps, 2, ver)))
         /\ HeaderOf(ver) # <<>>
         /\ ReadHeader(BlobOf("sets", ver)) = HeaderOf(ver)
         /\ ReadHeader(BlobOf("avcc", ver)) = <<>>
<1> DEFINE s == Unit(Sps, 3, ver)
           p == Unit(Pps, 2, ver)
<1>1. Set(Sps, s) /\ Set(Pps, p) /\ Len(s) = 3
  BY SetShape
<1>2. SetsOf(ver) = <<s, p>>
  BY DEF SetsOf
<1> HIDE DEF s, p
<1>3. s \in Seq(Byte) /\ p \in Seq(Byte) /\ s \in Seq(Nat) /\ p \in Seq(Nat)
  BY <1>1, NumbersOfBytes DEF Set, Lengthy, BytesAreNumbers
<1>4. ASSUME NEW a \in Seq(Nat), NEW b \in Seq(Nat)
      PROVE  /\ Cat(s, Cat(b, p)) \in Seq(Nat)
             /\ Cat(Cat(a, s), Cat(b, p)) = Cat(a, Cat(s, Cat(b, p)))
  <2> DEFINE y == Cat(b, p)
  <2>1. y \in Seq(Nat)
    BY <1>3, CatProperties
  <2> HIDE DEF y
  <2>2. Cat(s, y) \in Seq(Nat) /\ Cat(Cat(a, s), y) = Cat(a, Cat(s, y))
    BY <1>3, <2>1, CatProperties, CatAssociative
  <2> QED
    BY <2>2 DEF y
<1>5. IsCode(Code4) /\ Code4 \in Seq(Nat) /\ Len(Code4) = 4
  BY DEF IsCode, Code4
<1> DEFINE r == Cat(s, Cat(Code4, p))
<1>6. AnnexB(<<s, p>>, Code4) = Cat(Code4, r) /\ r \in Seq(Nat)
  BY <1>4, <1>5, AnnexBTwo
<1>7. StartsWithCode(Cat(Code4, r))
  BY <1>5, <1>6, CodeInFront
<1>8. Cat(Code4, r) # <<>>
  <2>1. Len(Cat(Code4, r)) >= Len(Code4)
    BY <1>5, <1>6, FrontBytes
  <2>2. Len(<<>>) = 0
    OBVIOUS
  <2> HIDE DEF r
  <2> QED
    BY <1>5, <2>1, <2>2
<1> DEFINE a == Length4(Len(s))
           b == Length4(Len(p))
           t == Cat(s, Cat(b, p))
<1>9. a \in Seq(Nat) /\ b \in Seq(Nat)
  BY <1>1, LengthBytes, LenProperties DEF Set, Lengthy
<1>10. Avcc(<<s, p>>) = Cat(a, t) /\ t \in Seq(Nat)
  BY <1>4, <1>9, AvccTwoUnits
<1>11. 3 \in Nat /\ 3 < Base * Base * Base /\ 3 # 1 /\ 3 \notin Base..(2 * Base - 1)
  BY NumberOfLengths, NalAssumption
<1>12. a = Length4(3)
  BY <1>1
<1> HIDE DEF a, t
<1>13. ~ StartsWithCode(Cat(a, t))
  BY <1>10, <1>11, <1>12, LengthInFront
<1>14. AnnexB(<<s, p>>, Code4) = Cat(Cat(Code4, s), Cat(Code4, p))
  BY AnnexBTwo
<1> HIDE DEF r
<1>15. BlobOf("sets", ver) = Cat(Code4, r) /\ BlobOf("avcc", ver) = Cat(a, t)
  BY <1>2, <1>6, <1>10 DEF BlobOf
<1>16. HeaderOf(ver) = Cat(Code4, r)
  BY <1>2, <1>6 DEF HeaderOf
<1>17. ReadHeader(BlobOf("sets", ver)) = HeaderOf(ver) /\ ReadHeader(BlobOf("avcc", ver)) = <<>>
  BY <1>7, <1>13, <1>15, <1>16 DEF ReadHeader
<1>18. HeaderOf(ver) = Cat(Cat(Code4, s), Cat(Code4, p))
  BY <1>2, <1>14 DEF HeaderOf
<1> QED
  BY <1>8, <1>16, <1>17, <1>18 DEF s, p

\* The header read is the parameter sets of the version or nothing.
LEMMA HeaderRead ==
  ASSUME NEW ver \in 0..MaxChanges, NEW b
  PROVE  /\ ReadHeader(BlobOf(b, ver)) \in {<<>>, HeaderOf(ver)}
         /\ b = "sets" => ReadHeader(BlobOf(b, ver)) = HeaderOf(ver)
<1>1. CASE b = "sets"
  BY <1>1, HeaderShape
<1>2. CASE b = "avcc"
  BY <1>2, HeaderShape
<1>3. CASE b # "sets" /\ b # "avcc"
  BY <1>3 DEF BlobOf, ReadHeader
<1> QED
  BY <1>1, <1>2, <1>3

-----------------------------------------------------------------------------
(* What is sent, and what a viewer finds in it *)

\* Two and one are three.
LEMMA JoinThree ==
  ASSUME NEW s, NEW p, NEW u
  PROVE  <<s, p>> \o <<u>> = <<s, p, u>>
<1> DEFINE S == {s, p, u}
           a == <<s, p>>
           b == <<u>>
           w == <<s, p, u>>
<1>1. /\ a \in Seq(S) /\ Len(a) = 2 /\ a[1] = s /\ a[2] = p
      /\ b \in Seq(S) /\ Len(b) = 1 /\ b[1] = u
      /\ w \in Seq(S) /\ Len(w) = 3 /\ w[1] = s /\ w[2] = p /\ w[3] = u
  OBVIOUS
<1> HIDE DEF S, a, b, w
<1> DEFINE v == a \o b
<1>2. /\ v \in Seq(S) /\ Len(v) = Len(a) + Len(b)
      /\ \A i \in 1..(Len(a) + Len(b)) : v[i] = IF i <= Len(a) THEN a[i] ELSE b[i - Len(a)]
  BY <1>1, ConcatProperties
<1> HIDE DEF v
<1>3. Len(v) = 3 /\ v[1] = s /\ v[2] = p /\ v[3] = u
  BY <1>1, <1>2
<1>4. \A i \in 1..Len(v) : v[i] = w[i]
  BY <1>1, <1>3
<1>5. v = w
  BY <1>1, <1>2, <1>3, <1>4, SeqEqual
<1> QED
  BY <1>5 DEF v, w, a, b

\* The beginnings of short sequences.
LEMMA Beginnings ==
  ASSUME NEW a, NEW b, NEW c
  PROVE  /\ SubSeq(<<a>>, 1, 1) = <<a>> /\ SubSeq(<<a, b, c>>, 1, 1) = <<a>>
         /\ SubSeq(<<a, b>>, 1, 2) = <<a, b>> /\ SubSeq(<<a, b, c>>, 1, 2) = <<a, b>>
<1> DEFINE S == {a, b, c}
           t == <<a, b, c>>
<1>1. /\ <<a>> \in Seq(S) /\ Len(<<a>>) = 1
      /\ <<a, b>> \in Seq(S) /\ Len(<<a, b>>) = 2
      /\ t[1] = a /\ t[2] = b
  OBVIOUS
<1>2. SubSeq(<<a>>, 1, 1) = <<a>> /\ SubSeq(<<a, b>>, 1, 2) = <<a, b>>
  BY <1>1, SubSeqFull
<1> HIDE DEF S, t
<1>3. ASSUME NEW n \in {1, 2}
      PROVE  /\ SubSeq(t, 1, n) \in Seq(S) /\ Len(SubSeq(t, 1, n)) = n
             /\ \A i \in 1..n : SubSeq(t, 1, n)[i] = t[i]
  <2>1. \A i \in 1..n : t[i] \in S
    BY <1>1 DEF S
  <2>2. /\ SubSeq(t, 1, n) \in Seq(S)
        /\ Len(SubSeq(t, 1, n)) = IF 1 <= n THEN n - 1 + 1 ELSE 0
        /\ \A i \in 1..(n - 1 + 1) : SubSeq(t, 1, n)[i] = t[1 + i - 1]
    BY <2>1, SubSeqProperties
  <2> QED
    BY <2>2
<1>4. SubSeq(t, 1, 1) = <<a>>
  <2>1. SubSeq(t, 1, 1) \in Seq(S) /\ Len(SubSeq(t, 1, 1)) = 1 /\ SubSeq(t, 1, 1)[1] = a
    BY <1>1, <1>3
  <2> DEFINE v == SubSeq(t, 1, 1)
             w == <<a>>
  <2>2. w[1] = a
    OBVIOUS
  <2> HIDE DEF v, w
  <2>3. \A i \in 1..Len(v) : v[i] = w[i]
    BY <2>1, <2>2 DEF v
  <2> QED
    BY <1>1, <2>1, <2>3, SeqEqual DEF v, w
<1>5. SubSeq(t, 1, 2) = <<a, b>>
  <2>1. /\ SubSeq(t, 1, 2) \in Seq(S) /\ Len(SubSeq(t, 1, 2)) = 2
        /\ SubSeq(t, 1, 2)[1] = a /\ SubSeq(t, 1, 2)[2] = b
    BY <1>1, <1>3
  <2> DEFINE v == SubSeq(t, 1, 2)
             w == <<a, b>>
  <2>2. w[1] = a /\ w[2] = b
    OBVIOUS
  <2> HIDE DEF v, w
  <2>3. \A i \in 1..Len(v) : v[i] = w[i]
    BY <2>1, <2>2 DEF v
  <2> QED
    BY <1>1, <2>1, <2>3, SeqEqual DEF v, w
<1> QED
  BY <1>2, <1>4, <1>5 DEF t

\* A unit ends a sample of three, and the sets begin it.
LEMMA SuffixOfThree ==
  ASSUME NEW s, NEW p, NEW u
  PROVE  /\ IsSuffix(<<u>>, <<u>>) /\ IsSuffix(<<u>>, <<s, p, u>>)
         /\ IsSuffix(<<s, p, u>>, <<s, p, u>>)
         /\ IsPrefix(<<s, p>>, <<s, p, u>>)
<1>1. Reverse(<<u>>) = <<u>>
  BY DEF Reverse
<1>2. Reverse(<<s, p, u>>) = <<u, p, s>>
  BY DEF Reverse
<1>3. Len(<<u>>) = 1 /\ Len(<<u, p, s>>) = 3 /\ Len(<<s, p>>) = 2 /\ Len(<<s, p, u>>) = 3
  OBVIOUS
<1>4. SubSeq(<<u>>, 1, 1) = <<u>> /\ SubSeq(<<u, p, s>>, 1, 1) = <<u>>
  BY Beginnings
<1>5. SubSeq(<<s, p>>, 1, 2) = <<s, p>> /\ SubSeq(<<s, p, u>>, 1, 2) = <<s, p>>
  BY Beginnings
<1>6. IsPrefix(<<u>>, <<u>>) /\ IsPrefix(<<u>>, <<u, p, s>>) /\ IsPrefix(<<u, p, s>>, <<u, p, s>>)
  BY <1>3, <1>4 DEF IsPrefix
<1>7. IsPrefix(<<s, p>>, <<s, p, u>>)
  BY <1>3, <1>5 DEF IsPrefix
<1> QED
  BY <1>1, <1>2, <1>6, <1>7 DEF IsSuffix

\* The units the encoder meant and those that were found.
Behind(units, got) ==
  /\ IsSuffix(units, got)
  /\ \A i \in 1..(Len(got) - Len(units)) : got[i][1] \in {Sps, Pps}

\* A unit alone is behind nothing.
LEMMA BehindNothing ==
  ASSUME NEW u
  PROVE  Behind(<<u>>, <<u>>)
<1> DEFINE g == <<u>>
<1>1. IsSuffix(g, g)
  BY SuffixOfThree
<1>2. Len(g) = 1
  OBVIOUS
<1> HIDE DEF g
<1>3. Behind(g, g)
  BY <1>1, <1>2 DEF Behind
<1> QED
  BY <1>3 DEF g

\* A unit behind the parameter sets.
LEMMA BehindSets ==
  ASSUME NEW s, NEW p, NEW u, s[1] = Sps, p[1] = Pps
  PROVE  Behind(<<u>>, <<s, p, u>>) /\ Behind(<<s, p, u>>, <<s, p, u>>)
<1> DEFINE g == <<s, p, u>>
<1>1. Len(g) = 3 /\ Len(<<u>>) = 1 /\ g[1] = s /\ g[2] = p
  OBVIOUS
<1>2. IsSuffix(<<u>>, g) /\ IsSuffix(g, g)
  BY SuffixOfThree
<1> HIDE DEF g
<1>3. \A i \in 1..2 : g[i][1] \in {Sps, Pps}
  <2>1. \A i \in 1..2 : i = 1 \/ i = 2
    OBVIOUS
  <2> QED
    BY <1>1, <2>1
<1>4. Behind(<<u>>, g)
  BY <1>1, <1>2, <1>3 DEF Behind
<1>5. Behind(g, g)
  BY <1>1, <1>2 DEF Behind
<1> QED
  BY <1>4, <1>5 DEF g

Joins(units, sent) ==
  /\ StartsAStream(sent) /\ IsKeyframe(sent)
  /\ IsPrefix(units, Units(sent))

\* A slice alone is sent as it is, or behind the header.
LEMMA SentOne ==
  ASSUME NEW ver \in 0..MaxChanges, NEW c, IsCode(c), NEW u, Media(u)
  PROVE  /\ Behind(<<u>>, Units(Cat(c, u)))
         /\ Behind(<<u>>, Units(Cat(HeaderOf(ver), Cat(c, u))))
         /\ u[1] = Idr => Joins(SetsOf(ver), Cat(HeaderOf(ver), Cat(c, u)))
         /\ ParameterSets(Cat(c, u)) = <<>> /\ ~ ContainsSps(Cat(c, u))
<1> DEFINE s == Unit(Sps, 3, ver)
           p == Unit(Pps, 2, ver)
           d == Cat(c, u)
           e == Cat(HeaderOf(ver), Cat(c, u))
<1>1. Set(Sps, s) /\ Set(Pps, p) /\ SetsOf(ver) = <<s, p>>
  BY SetShape DEF SetsOf
<1>2. HeaderOf(ver) = Cat(Cat(Code4, s), Cat(Code4, p))
  BY HeaderShape
<1> HIDE DEF s, p
<1>3. Clean(s) /\ Clean(p) /\ s[1] = Sps /\ p[1] = Pps /\ Clean(u) /\ u[1] \in {Slice, Idr}
  BY <1>1 DEF Set, Media
<1>4. u[1] \notin {Sps, Pps}
  BY <1>3 DEF Slice, Idr, Sps, Pps
<1>5. Units(d) = <<u>> /\ Types(d) = {u[1]} /\ ParameterSets(d) = <<>>
  BY <1>3, <1>4, OneFound
<1>6. e = Three(Code4, s, Code4, p, c, u)
  BY <1>2 DEF Three
<1>a. IsCode(Code4)
  BY DEF IsCode
<1>7. Units(e) = <<s, p, u>> /\ Types(e) = {Sps, Pps, u[1]}
  <2> DEFINE t == Three(Code4, s, Code4, p, c, u)
  <2>0. Clean(s) /\ Clean(p) /\ s[1] = Sps /\ p[1] = Pps /\ Clean(u)
    BY <1>3
  <2>1. /\ Units(t) = <<s, p, u>> /\ Types(t) = {Sps, Pps, u[1]}
        /\ ParameterSets(t) = AnnexB(<<s, p>>, Code4)
    BY <1>4, <1>a, <2>0, ThreeFound
  <2> HIDE DEF e, t
  <2> QED
    BY <1>6, <2>1 DEF t
<1> HIDE DEF d, e
<1>8. Behind(<<u>>, Units(d)) /\ Behind(<<u>>, Units(e))
  BY <1>3, <1>5, <1>7, BehindNothing, BehindSets
<1>9. u[1] = Idr => Joins(SetsOf(ver), e)
  BY <1>1, <1>7, SuffixOfThree DEF Joins, StartsAStream, IsKeyframe, ContainsSps
<1>10. ~ ContainsSps(d)
  BY <1>4, <1>5 DEF ContainsSps
<1> QED
  BY <1>5, <1>8, <1>9, <1>10 DEF d, e

\* A keyframe that carries the sets is sent as it is.
LEMMA SentThree ==
  ASSUME NEW ver \in 0..MaxChanges, NEW c, IsCode(c), NEW u, Media(u), u[1] = Idr,
         NEW units, units = SetsOf(ver) \o <<u>>,
         NEW d, d = Three(c, Unit(Sps, 3, ver), c, Unit(Pps, 2, ver), c, u)
  PROVE  /\ Behind(units, Units(d)) /\ Joins(SetsOf(ver), d)
         /\ ParameterSets(d) = HeaderOf(ver) /\ ContainsSps(d)
<1> DEFINE s == Unit(Sps, 3, ver)
           p == Unit(Pps, 2, ver)
<1>1. Set(Sps, s) /\ Set(Pps, p) /\ SetsOf(ver) = <<s, p>>
  BY SetShape DEF SetsOf
<1>2. d = Three(c, s, c, p, c, u)
  OBVIOUS
<1> HIDE DEF s, p
<1>3. Clean(s) /\ Clean(p) /\ s[1] = Sps /\ p[1] = Pps /\ Clean(u)
  BY <1>1 DEF Set, Media
<1>4. u[1] \notin {Sps, Pps}
  BY DEF Idr, Sps, Pps
<1>5. /\ Units(d) = <<s, p, u>> /\ Types(d) = {Sps, Pps, u[1]}
      /\ ParameterSets(d) = AnnexB(<<s, p>>, Code4)
  BY <1>2, <1>3, <1>4, ThreeFound
<1>6. units = <<s, p, u>>
  BY <1>1, JoinThree
<1>7. Behind(units, Units(d))
  BY <1>3, <1>5, <1>6, BehindSets
<1>8. Joins(SetsOf(ver), d)
  BY <1>1, <1>5, SuffixOfThree DEF Joins, StartsAStream, IsKeyframe, ContainsSps
<1>9. ParameterSets(d) = HeaderOf(ver) /\ ContainsSps(d)
  BY <1>1, <1>5 DEF HeaderOf, ContainsSps
<1> QED
  BY <1>7, <1>8, <1>9

-----------------------------------------------------------------------------
(* The encoder object *)

\* The header is the parameter sets in use or nothing.
HeaderInUse == version \in 0..MaxChanges /\ header \in {<<>>, HeaderOf(version)}

\* Whoever has shown the sets has left them in the header, but for a stream that
\* hides its own after those of another were learned.
HeaderKept == (known \/ learned) /\ ~outdated => header = HeaderOf(version)

\* What the reading of a sample leaves behind.
ReadOne(f, u, key) ==
  LET r == Rewritten(Raw(f, <<u>>))
  IN  /\ r.ok
      /\ Learn(r.data) = header
      /\ ParameterSets(r.data) = <<>>
      /\ ~ LooksCoded(f, u) =>
           /\ Behind(<<u>>, Units(Completed(r.data, key)))
           /\ key /\ u[1] = Idr /\ header = HeaderOf(version)
                 => Joins(SetsOf(version), Completed(r.data, key))

\* Reading a slice whose length looks like a start code never fails.
LEMMA MistakenIsRead ==
  ASSUME NEW f, NEW u, Media(u), LooksCoded(f, u), NEW key
  PROVE  ReadOne(f, u, key)
<1> DEFINE r == Rewritten(Raw(f, <<u>>))
<1>1. PICK d : Readable(r, d) /\ ParameterSets(d) = <<>>
  BY MistakenOne
<1> HIDE DEF r
<1>2. r.ok = TRUE /\ r.data = d
  BY <1>1 DEF Readable
<1>3. Learn(d) = header
  BY <1>1 DEF Learn
<1>4. r.ok /\ Learn(r.data) = header /\ ParameterSets(r.data) = <<>>
  BY <1>1, <1>2, <1>3
<1> QED
  BY <1>4 DEF ReadOne, r

\* Reading a slice alone never fails, teaches nothing, and completes a keyframe.
LEMMA OneIsRead ==
  ASSUME HeaderInUse, NEW f \in Formats, NEW u, Media(u), ~ LooksCoded(f, u), NEW key \in BOOLEAN
  PROVE  ReadOne(f, u, key)
<1>1. PICK c : IsCode(c) /\ Readable(Rewritten(Raw(f, <<u>>)), Cat(c, u))
  BY RewrittenOne
<1> DEFINE r == Rewritten(Raw(f, <<u>>))
           d == Cat(c, u)
<1>2. r.ok = TRUE /\ r.data = d
  BY <1>1 DEF Readable
<1>3. version \in 0..MaxChanges /\ header \in {<<>>, HeaderOf(version)}
  BY DEF HeaderInUse
<1>4. /\ Behind(<<u>>, Units(d))
      /\ Behind(<<u>>, Units(Cat(HeaderOf(version), d)))
      /\ u[1] = Idr => Joins(SetsOf(version), Cat(HeaderOf(version), d))
      /\ ParameterSets(d) = <<>> /\ ~ ContainsSps(d)
  BY <1>1, <1>3, SentOne
<1>5. HeaderOf(version) # <<>>
  BY <1>3, HeaderShape
<1> HIDE DEF r, d
<1>6. Learn(d) = header
  BY <1>4 DEF Learn
<1>7. Completed(d, key) = IF key /\ header # <<>> THEN Cat(header, d) ELSE d
  BY <1>4, <1>6 DEF Completed, Cat
<1>8. Behind(<<u>>, Units(Completed(d, key)))
  BY <1>3, <1>4, <1>7
<1>9. ASSUME key, u[1] = Idr, header = HeaderOf(version)
      PROVE  Joins(SetsOf(version), Completed(d, key))
  BY <1>4, <1>5, <1>7, <1>9
<1>10. /\ r.ok
       /\ Learn(r.data) = header
       /\ Behind(<<u>>, Units(Completed(r.data, key)))
       /\ ParameterSets(r.data) = <<>>
       /\ key /\ u[1] = Idr /\ header = HeaderOf(version)
             => Joins(SetsOf(version), Completed(r.data, key))
  BY <1>2, <1>4, <1>6, <1>8, <1>9
<1> QED
  BY <1>10 DEF ReadOne, r

ReadThree(f, units, key) ==
  LET r == Rewritten(Raw(f, units))
  IN  /\ r.ok
      /\ Behind(units, Units(Completed(r.data, key)))
      /\ Learn(r.data) = IF learned THEN header ELSE HeaderOf(version)
      /\ ParameterSets(r.data) = HeaderOf(version)
      /\ Joins(SetsOf(version), Completed(r.data, key))

\* Reading a keyframe with its sets never fails and teaches them.
LEMMA ThreeIsRead ==
  ASSUME HeaderInUse, NEW f \in Formats, NEW u, Media(u), u[1] = Idr, NEW key \in BOOLEAN,
         NEW units, units = SetsOf(version) \o <<u>>
  PROVE  ReadThree(f, units, key)
<1> DEFINE s == Unit(Sps, 3, version)
           p == Unit(Pps, 2, version)
           r == Rewritten(Raw(f, units))
<1>1. version \in 0..MaxChanges
  BY DEF HeaderInUse
<1>2. Set(Sps, s) /\ Set(Pps, p) /\ Len(s) = 3
  BY <1>1, SetShape
<1>3. units = <<s, p, u>>
  BY JoinThree DEF SetsOf
<1> HIDE DEF s, p
<1>4. PICK c : IsCode(c) /\ Readable(Rewritten(Raw(f, <<s, p, u>>)), Three(c, s, c, p, c, u))
  BY <1>2, RewrittenThree
<1> DEFINE d == Three(c, s, c, p, c, u)
<1>a. Rewritten(Raw(f, units)) = [ok |-> TRUE, data |-> d]
  BY <1>3, <1>4, Zenon DEF Readable
<1>5. r.ok = TRUE /\ r.data = d
  BY <1>a
<1>6. /\ Behind(units, Units(d)) /\ Joins(SetsOf(version), d)
      /\ ParameterSets(d) = HeaderOf(version) /\ ContainsSps(d)
  BY <1>1, <1>4, SentThree DEF s, p
<1>7. HeaderOf(version) # <<>>
  BY <1>1, HeaderShape
<1> HIDE DEF d, r
<1>8. Learn(d) = IF learned THEN header ELSE HeaderOf(version)
  BY <1>6, <1>7 DEF Learn
<1>9. Completed(d, key) = d
  BY <1>6 DEF Completed
<1>10. /\ r.ok
       /\ Behind(units, Units(Completed(r.data, key)))
       /\ Learn(r.data) = IF learned THEN header ELSE HeaderOf(version)
       /\ ParameterSets(r.data) = HeaderOf(version)
       /\ Joins(SetsOf(version), Completed(r.data, key))
  BY <1>5, <1>6, <1>8, <1>9
<1> QED
  BY <1>10 DEF ReadThree, r

\* A sample is a slice alone, or a keyframe behind the parameter sets.
Alone(units, key) == \E u : Media(u) /\ (key => u[1] = Idr) /\ units = <<u>>
WithSets(units, key) ==
  key /\ \E u : Media(u) /\ u[1] = Idr /\ units = SetsOf(version) \o <<u>>

\* Every sample is one of the two.
LEMMA SampleShape ==
  ASSUME NEW key \in BOOLEAN, NEW units \in Samples(key)
  PROVE  Alone(units, key) \/ WithSets(units, key)
<1>1. CASE units \in {<<Unit(IF key THEN Idr ELSE Slice, l, 0)>> : l \in Lengths}
  <2> DEFINE type == IF key THEN Idr ELSE Slice
  <2>1. PICK l \in Lengths : units = <<Unit(type, l, 0)>>
    BY <1>1
  <2>2. type \in {Slice, Idr} /\ (key => type = Idr)
    OBVIOUS
  <2> HIDE DEF type
  <2>3. Media(Unit(type, l, 0)) /\ Unit(type, l, 0)[1] = type
    BY <2>2, SliceShape
  <2> QED
    BY <2>1, <2>2, <2>3 DEF Alone
<1>2. CASE key /\ units \in {SetsOf(version) \o <<Unit(Idr, l, 0)>> : l \in Lengths}
  <2>1. PICK l \in Lengths : units = SetsOf(version) \o <<Unit(Idr, l, 0)>>
    BY <1>2
  <2>2. Media(Unit(Idr, l, 0)) /\ Unit(Idr, l, 0)[1] = Idr
    BY SliceShape
  <2> QED
    BY <1>2, <2>1, <2>2, Zenon DEF WithSets
<1> QED
  BY <1>1, <1>2 DEF Samples

ReadAs(f, units, key, r) ==
  /\ last' = [units |-> units, format |-> f, key |-> key,
              sent |-> Completed(r.data, key), ok |-> TRUE]
  /\ header' = Learn(r.data)
  /\ learned' = (learned \/ ParameterSets(r.data) # <<>>)
  /\ known' = (known \/ Len(units) = 3)
  /\ version' = version /\ outdated' = outdated

\* A slice that was read alone.
AloneRead == \E key, f, u :
  /\ Media(u) /\ (key => u[1] = Idr) /\ ReadOne(f, u, key)
  /\ ReadAs(f, <<u>>, key, Rewritten(Raw(f, <<u>>)))

\* A keyframe that was read behind the parameter sets.
SetsRead == \E f, u, units :
  /\ Media(u) /\ u[1] = Idr /\ units = SetsOf(version) \o <<u>> /\ ReadThree(f, units, TRUE)
  /\ ReadAs(f, units, TRUE, Rewritten(Raw(f, units)))

\* And each is read.
LEMMA SampleRead ==
  ASSUME HeaderInUse, ReadSample
  PROVE  AloneRead \/ SetsRead
<1>1. PICK key \in BOOLEAN, f \in Formats : \E units \in Samples(key) :
        LET r == Rewritten(Raw(f, units))
        IN  IF ~r.ok
            THEN /\ last' = [units |-> units, format |-> f, key |-> key,
                             sent |-> <<>>, ok |-> FALSE]
                 /\ UNCHANGED <<header, learned, known>>
            ELSE /\ last' = [units |-> units, format |-> f, key |-> key,
                             sent |-> Completed(r.data, key), ok |-> TRUE]
                 /\ header' = Learn(r.data)
                 /\ learned' = (learned \/ ParameterSets(r.data) # <<>>)
                 /\ known' = (known \/ Len(units) = 3)
  BY DEF ReadSample, Raw
<1>2. PICK units \in Samples(key) :
        LET r == Rewritten(Raw(f, units))
        IN  IF ~r.ok
            THEN /\ last' = [units |-> units, format |-> f, key |-> key,
                             sent |-> <<>>, ok |-> FALSE]
                 /\ UNCHANGED <<header, learned, known>>
            ELSE /\ last' = [units |-> units, format |-> f, key |-> key,
                             sent |-> Completed(r.data, key), ok |-> TRUE]
                 /\ header' = Learn(r.data)
                 /\ learned' = (learned \/ ParameterSets(r.data) # <<>>)
                 /\ known' = (known \/ Len(units) = 3)
  BY <1>1
<1>v. version' = version /\ outdated' = outdated
  BY DEF ReadSample
<1>3. Alone(units, key) \/ WithSets(units, key)
  BY SampleShape
<1>4. ASSUME Rewritten(Raw(f, units)).ok
      PROVE  ReadAs(f, units, key, Rewritten(Raw(f, units)))
  BY <1>2, <1>4, <1>v DEF ReadAs
<1>5. CASE Alone(units, key)
  <2>1. PICK u : Media(u) /\ (key => u[1] = Idr) /\ units = <<u>>
    BY <1>5 DEF Alone
  <2>2. ReadOne(f, u, key)
    BY <2>1, OneIsRead, MistakenIsRead
  <2>3. Rewritten(Raw(f, units)).ok
    BY <2>1, <2>2, Zenon DEF ReadOne
  <2>4. ReadAs(f, <<u>>, key, Rewritten(Raw(f, <<u>>)))
    BY <1>4, <2>1, <2>3, Zenon
  <2> QED
    BY <2>1, <2>2, <2>4, Zenon DEF AloneRead
<1>6. CASE WithSets(units, key)
  <2>1. PICK u : Media(u) /\ u[1] = Idr /\ units = SetsOf(version) \o <<u>>
    BY <1>6 DEF WithSets
  <2>2. key = TRUE
    BY <1>6 DEF WithSets
  <2>3. ReadThree(f, units, TRUE)
    BY <2>1, ThreeIsRead
  <2>4. Rewritten(Raw(f, units)).ok
    BY <2>3, Zenon DEF ReadThree
  <2>5. ReadAs(f, units, TRUE, Rewritten(Raw(f, units)))
    BY <1>4, <2>2, <2>4
  <2> QED
    BY <2>1, <2>3, <2>5, Zenon DEF SetsRead
<1> QED
  BY <1>3, <1>5, <1>6

-----------------------------------------------------------------------------

\* The first header is that of the first version.
LEMMA HeaderInUseInit ==
  ASSUME NalInit
  PROVE  HeaderInUse
<1>1. 0 \in 0..MaxChanges
  BY NalAssumption
<1>2. PICK b \in Blobs : header = ReadHeader(BlobOf(b, 0))
  BY DEF NalInit
<1>3. ReadHeader(BlobOf(b, 0)) \in {<<>>, HeaderOf(0)}
  BY <1>1, HeaderRead
<1>4. version = 0
  BY DEF NalInit
<1> QED
  BY <1>1, <1>2, <1>3, <1>4 DEF HeaderInUse

\* A new stream's header is read with its version.
LEMMA HeaderRenegotiated ==
  ASSUME HeaderInUse, Renegotiate
  PROVE  /\ HeaderInUse'
         /\ (known' \/ learned') /\ ~outdated' => header' = HeaderOf(version')
         /\ last' = NoSample
<1>1. version \in 0..MaxChanges /\ version < MaxChanges /\ version' = version + 1
  BY DEF HeaderInUse, Renegotiate
<1>2. version + 1 \in 0..MaxChanges
  BY <1>1, NalAssumption
<1>3. PICK b \in NewBlobs : /\ header' = ReadHeader(BlobOf(b, version + 1))
                           /\ known' = (b = "sets") /\ outdated' = (learned /\ b # "sets")
  BY DEF Renegotiate
<1>a. learned' = learned
  BY DEF Renegotiate
<1> DEFINE ver == version + 1
<1>4. /\ ReadHeader(BlobOf(b, ver)) \in {<<>>, HeaderOf(ver)}
      /\ b = "sets" => ReadHeader(BlobOf(b, ver)) = HeaderOf(ver)
  BY <1>2, HeaderRead
<1>5. header' \in {<<>>, HeaderOf(ver)} /\ version' = ver /\ ver \in 0..MaxChanges
  BY <1>1, <1>2, <1>3, <1>4
<1>6. (known' \/ learned') /\ ~outdated' => header' = HeaderOf(ver)
  BY <1>3, <1>4, <1>a
<1> HIDE DEF ver
<1>7. HeaderInUse'
  BY <1>5 DEF HeaderInUse, HeaderOf, SetsOf
<1>8. header' \in {<<>>, HeaderOf(version')}
  BY <1>5
<1> QED
  BY <1>5, <1>6, <1>7 DEF Renegotiate

\* The header never holds the sets of another version.
LEMMA HeaderInUseStep ==
  ASSUME HeaderInUse, [NalNext]_nalVars
  PROVE  HeaderInUse'
<1>1. CASE AloneRead
  <2>1. header' = header /\ version' = version
    BY <1>1 DEF AloneRead, ReadAs, ReadOne
  <2> QED
    BY <2>1 DEF HeaderInUse, HeaderOf, SetsOf
<1>2. CASE SetsRead
  <2>1. header' \in {header, HeaderOf(version)} /\ version' = version
    BY <1>2 DEF SetsRead, ReadAs, ReadThree
  <2> QED
    BY <2>1 DEF HeaderInUse, HeaderOf, SetsOf
<1>3. CASE Renegotiate
  BY <1>3, HeaderRenegotiated
<1>4. CASE UNCHANGED nalVars
  BY <1>4 DEF nalVars, HeaderInUse, HeaderOf, SetsOf
<1>5. CASE ReadSample
  BY <1>1, <1>2, <1>5, SampleRead
<1> QED
  BY <1>3, <1>4, <1>5 DEF NalNext, Done

UnchangedInv == HeaderInUse /\ Unchanged

\* No sample, nothing lost.
LEMMA UnchangedInit ==
  ASSUME NalInit
  PROVE  UnchangedInv
<1>1. last = NoSample
  BY DEF NalInit
<1> QED
  BY <1>1, HeaderInUseInit DEF UnchangedInv, Unchanged, NoSample

\* A sample that is not mistaken does not look like a start code.
LEMMA MistakenLooks ==
  ASSUME NEW f, NEW u, last'.units = <<u>>, last'.format = f, ~Mistaken'
  PROVE  ~ LooksCoded(f, u)
<1>1. last'.units[1] = u
  <2> DEFINE us == <<u>>
  <2>1. us[1] = u
    OBVIOUS
  <2> HIDE DEF us
  <2>2. last'.units = us
    BY DEF us
  <2> QED
    BY <2>1, <2>2
<1> QED
  BY <1>1 DEF LooksCoded, Mistaken

\* Each sample read keeps its units.
LEMMA UnchangedStep ==
  ASSUME UnchangedInv, [NalNext]_nalVars
  PROVE  Unchanged'
<1>0. HeaderInUse /\ Unchanged
  BY DEF UnchangedInv
<1>a. ASSUME last'.ok, ~Mistaken' => Behind(last'.units, Units(last'.sent))
      PROVE  Unchanged'
  BY <1>a DEF Unchanged, Got, Behind
<1>1. CASE AloneRead
  <2>1. PICK key, f, u :
          ReadOne(f, u, key) /\ ReadAs(f, <<u>>, key, Rewritten(Raw(f, <<u>>)))
    BY <1>1 DEF AloneRead
  <2> DEFINE r == Rewritten(Raw(f, <<u>>))
  <2>2. /\ last'.ok /\ last'.units = <<u>> /\ last'.format = f
        /\ last'.sent = Completed(r.data, key)
    BY <2>1 DEF ReadAs
  <2>3. ~ LooksCoded(f, u) => Behind(<<u>>, Units(Completed(r.data, key)))
    BY <2>1 DEF ReadOne
  <2> HIDE DEF r
  <2>a. ~Mistaken' => ~ LooksCoded(f, u)
    BY <2>2, MistakenLooks
  <2>4. ~Mistaken' => Behind(last'.units, Units(last'.sent))
    BY <2>2, <2>3, <2>a
  <2> QED
    BY <1>a, <2>2, <2>4
<1>2. CASE SetsRead
  <2>1. PICK f, u, units :
          ReadThree(f, units, TRUE) /\ ReadAs(f, units, TRUE, Rewritten(Raw(f, units)))
    BY <1>2 DEF SetsRead
  <2> DEFINE r == Rewritten(Raw(f, units))
  <2>2. last'.ok /\ last'.units = units /\ last'.sent = Completed(r.data, TRUE)
    BY <2>1 DEF ReadAs
  <2>3. Behind(units, Units(Completed(r.data, TRUE)))
    BY <2>1 DEF ReadThree
  <2> HIDE DEF r
  <2>4. Behind(last'.units, Units(last'.sent))
    BY <2>2, <2>3
  <2> QED
    BY <1>a, <2>2, <2>4
<1>3. CASE Renegotiate
  <2>1. last'.units = <<>>
    BY <1>0, <1>3, HeaderRenegotiated DEF NoSample
  <2> QED
    BY <2>1 DEF Unchanged
<1>4. CASE UNCHANGED nalVars
  BY <1>0, <1>4 DEF nalVars, Unchanged, Got, Mistaken
<1>5. CASE ReadSample
  BY <1>0, <1>1, <1>2, <1>5, SampleRead
<1> QED
  BY <1>3, <1>4, <1>5 DEF NalNext, Done

\* Whatever the encoder's format, its parameter sets and the lengths of its
\* units, each sample's units arrive in order and unchanged, behind nothing but
\* parameter sets, unless its first length looks like a start code (read_sample,
\* avcc_to_annex_b, nal_ranges).
THEOREM UnitsArriveUnchanged == NalSpec => []Unchanged
<1>1. NalInit => UnchangedInv
  BY UnchangedInit
<1>2. UnchangedInv /\ [NalNext]_nalVars => UnchangedInv'
  BY UnchangedStep, HeaderInUseStep DEF UnchangedInv
<1>3. UnchangedInv => Unchanged
  BY DEF UnchangedInv
<1> QED
  BY <1>1, <1>2, <1>3, PTL DEF NalSpec

JoinsInv == HeaderInUse /\ HeaderKept /\ JoinsAtKeyframe

\* What the first media type shows is in the header.
LEMMA JoinsInit ==
  ASSUME NalInit
  PROVE  JoinsInv
<1>1. last = NoSample
  BY DEF NalInit
<1>2. JoinsAtKeyframe
  BY <1>1 DEF JoinsAtKeyframe, NoSample
<1>3. PICK b \in Blobs : header = ReadHeader(BlobOf(b, 0)) /\ known = (b = "sets")
  BY DEF NalInit
<1>4. 0 \in 0..MaxChanges
  BY NalAssumption
<1>5. b = "sets" => ReadHeader(BlobOf(b, 0)) = HeaderOf(0)
  BY <1>4, HeaderRead
<1>6. version = 0 /\ learned = FALSE
  BY DEF NalInit
<1>7. HeaderKept
  BY <1>3, <1>5, <1>6 DEF HeaderKept
<1> QED
  BY <1>2, <1>7, HeaderInUseInit DEF JoinsInv

\* Each keyframe read carries the sets in use once they are known.
LEMMA JoinsStep ==
  ASSUME JoinsInv, [NalNext]_nalVars
  PROVE  HeaderKept' /\ JoinsAtKeyframe'
<1>0. HeaderInUse /\ HeaderKept /\ JoinsAtKeyframe
  BY DEF JoinsInv
<1>a. ASSUME version' = version,
             last'.key /\ ~Mistaken' => Joins(SetsOf(version), last'.sent)
      PROVE  JoinsAtKeyframe'
  BY <1>a DEF JoinsAtKeyframe, Joins, Got, SetsOf
<1>b. ASSUME NEW v, version' = v, header' = HeaderOf(v)
      PROVE  HeaderKept'
  BY <1>b DEF HeaderKept, HeaderOf, SetsOf
<1>1. CASE AloneRead
  <2>1. PICK key, f, u :
          /\ key => u[1] = Idr
          /\ ReadOne(f, u, key) /\ ReadAs(f, <<u>>, key, Rewritten(Raw(f, <<u>>)))
    BY <1>1 DEF AloneRead
  <2> DEFINE r == Rewritten(Raw(f, <<u>>))
  <2>2. /\ last'.key = key /\ last'.sent = Completed(r.data, key) /\ version' = version
        /\ last'.units = <<u>> /\ last'.format = f /\ outdated' = outdated
        /\ header' = Learn(r.data) /\ learned' = (learned \/ ParameterSets(r.data) # <<>>)
    BY <2>1 DEF ReadAs
  <2>a. ~Mistaken' => ~ LooksCoded(f, u)
    BY <2>2, MistakenLooks
  <2>3. known' = (known \/ Len(<<u>>) = 3)
    BY <2>1 DEF ReadAs
  <2>4. /\ Learn(r.data) = header /\ ParameterSets(r.data) = <<>>
        /\ ~ LooksCoded(f, u) /\ key /\ u[1] = Idr /\ header = HeaderOf(version)
             => Joins(SetsOf(version), Completed(r.data, key))
    BY <2>1, Zenon DEF ReadOne
  <2>5. known' = (known \/ FALSE)
    BY <2>3
  <2> HIDE DEF r
  <2>6. (known' => known) /\ (learned' => learned) /\ header' = header
    BY <2>2, <2>4, <2>5
  <2>7. CASE (known \/ learned) /\ ~outdated
    <3>1. header = HeaderOf(version)
      BY <1>0, <2>7 DEF HeaderKept
    <3>2. last'.key /\ ~Mistaken' => Joins(SetsOf(version), last'.sent)
      BY <2>1, <2>2, <2>4, <2>a, <3>1
    <3>3. header' = HeaderOf(version)
      BY <2>6, <3>1
    <3> QED
      BY <1>a, <1>b, <2>2, <3>2, <3>3
  <2>8. CASE ~(known \/ learned) \/ outdated
    BY <2>2, <2>6, <2>8 DEF HeaderKept, JoinsAtKeyframe
  <2> QED
    BY <2>7, <2>8
<1>2. CASE SetsRead
  <2>1. PICK f, u, units :
          ReadThree(f, units, TRUE) /\ ReadAs(f, units, TRUE, Rewritten(Raw(f, units)))
    BY <1>2 DEF SetsRead
  <2> DEFINE r == Rewritten(Raw(f, units))
  <2>2. /\ last'.sent = Completed(r.data, TRUE) /\ version' = version
        /\ header' = Learn(r.data) /\ outdated' = outdated
    BY <2>1 DEF ReadAs
  <2>3. /\ Learn(r.data) = IF learned THEN header ELSE HeaderOf(version)
        /\ Joins(SetsOf(version), Completed(r.data, TRUE))
    BY <2>1 DEF ReadThree
  <2> HIDE DEF r
  <2>4. JoinsAtKeyframe'
    BY <1>a, <2>2, <2>3
  <2>5. CASE outdated
    BY <2>2, <2>4, <2>5 DEF HeaderKept
  <2>6. CASE ~outdated
    <3>1. Learn(r.data) = HeaderOf(version)
      BY <1>0, <2>3, <2>6 DEF HeaderKept
    <3> QED
      BY <1>b, <2>2, <2>4, <3>1
  <2> QED
    BY <2>5, <2>6
<1>3. CASE Renegotiate
  <2>1. /\ (known' \/ learned') /\ ~outdated' => header' = HeaderOf(version')
        /\ last'.key = FALSE
    BY <1>0, <1>3, HeaderRenegotiated DEF NoSample
  <2>2. HeaderKept'
    BY <2>1 DEF HeaderKept, HeaderOf, SetsOf
  <2> QED
    BY <2>1, <2>2 DEF JoinsAtKeyframe
<1>4. CASE UNCHANGED nalVars
  BY <1>0, <1>4 DEF nalVars, HeaderKept, HeaderOf, SetsOf, JoinsAtKeyframe, Got, Mistaken
<1>5. CASE ReadSample
  BY <1>0, <1>1, <1>2, <1>5, SampleRead
<1> QED
  BY <1>3, <1>4, <1>5 DEF NalNext, Done

\* Once the parameter sets in use have been seen, every keyframe carries them
\* and no others, for any number of samples and stream changes: only a stream that
\* hides its sets after those of another were learned is out of it (read_sample,
\* read_sequence_header, renegotiate_output).
THEOREM KeyframesStartAStream == NalSpec => []JoinsAtKeyframe
<1>1. NalInit => JoinsInv
  BY JoinsInit
<1>2. JoinsInv /\ [NalNext]_nalVars => JoinsInv'
  BY JoinsStep, HeaderInUseStep DEF JoinsInv
<1>3. JoinsInv => JoinsAtKeyframe
  BY DEF JoinsInv
<1> QED
  BY <1>1, <1>2, <1>3, PTL DEF NalSpec

-----------------------------------------------------------------------------
(* Samples of any number of units *)

Link(s, g, i) == IF i = 1 THEN s[i] ELSE Cat(g[i - 1], s[i])
Chains(s, g, m) == g = [i \in 1..m |-> Link(s, g, i)]

\* Any number of pieces can be joined one after the other.
LEMMA ChainExists ==
  ASSUME NEW s, NEW n \in Nat
  PROVE  \E g : Chains(s, g, n)
<1> DEFINE Bad == {m \in Nat : ~ \E g : Chains(s, g, m)}
<1> SUFFICES ASSUME Bad # {}
             PROVE  FALSE
  OBVIOUS
<1>1. Min(Bad) \in Bad /\ \A x \in Bad : Min(Bad) <= x
  BY LeastOf
<1>2. PICK m \in Bad : \A x \in Bad : m <= x
  BY <1>1
<1>3. m \in Nat /\ ~ \E g : Chains(s, g, m)
  OBVIOUS
<1>4. CASE m = 0
  <2> DEFINE g == [i \in 1..0 |-> 0]
  <2>1. g = [i \in 1..0 |-> Link(s, g, i)]
    OBVIOUS
  <2> HIDE DEF g
  <2>2. Chains(s, g, 0)
    BY <2>1 DEF Chains
  <2> QED
    BY <1>3, <1>4, <2>2
<1>5. CASE m # 0
  <2>1. m - 1 \in Nat /\ ~(m <= m - 1)
    BY <1>3, <1>5
  <2>2. m - 1 \notin Bad
    BY <1>2, <2>1
  <2>3. PICK p : Chains(s, p, m - 1)
    BY <2>1, <2>2
  <2> DEFINE h == [i \in 1..m |-> Link(s, p, i)]
  <2>4. ASSUME NEW i \in 1..m
        PROVE  Link(s, p, i) = Link(s, h, i)
    <3>1. CASE i = 1
      BY <3>1 DEF Link
    <3>2. CASE i # 1
      <4>1. i - 1 \in 1..(m - 1) /\ i - 1 \in 1..m
        BY <1>3, <3>2
      <4>2. p[i - 1] = Link(s, p, i - 1)
        BY <2>3, <4>1 DEF Chains
      <4>3. h[i - 1] = Link(s, p, i - 1)
        BY <4>1
      <4> HIDE DEF h
      <4> QED
        BY <3>2, <4>2, <4>3 DEF Link
    <3> QED
      BY <3>1, <3>2
  <2>5. h = [i \in 1..m |-> Link(s, h, i)]
    BY <2>4
  <2> HIDE DEF h
  <2>6. Chains(s, h, m)
    BY <2>5 DEF Chains
  <2> QED
    BY <1>3, <2>6
<1> QED
  BY <1>4, <1>5

\* The library's flattening is the end of that chain.
LEMMA FlattenIs ==
  ASSUME NEW s, Len(s) \in Nat, Len(s) # 0
  PROVE  \E g : Chains(s, g, Len(s)) /\ FlattenSeq(s) = g[Len(s)]
<1> DEFINE Step(f, i) == IF i = 1 THEN s[i] ELSE f[i - 1] \o s[i]
           F == CHOOSE f : f = [i \in 1..Len(s) |-> Step(f, i)]
<1>1. PICK g : Chains(s, g, Len(s))
  BY ChainExists
<1>2. g = [i \in 1..Len(s) |-> Step(g, i)]
  BY <1>1 DEF Chains, Link, Cat
<1>3. F = [i \in 1..Len(s) |-> Step(F, i)]
  BY <1>2, Zenon
<1>4. FlattenSeq(s) = F[Len(s)]
  BY DEF FlattenSeq
<1> HIDE DEF F
<1>5. Chains(s, F, Len(s))
  BY <1>3, Zenon DEF Chains, Link, Cat
<1> QED
  BY <1>4, <1>5

\* Pieces of the same kind make a whole of that kind.
LEMMA ChainOf ==
  ASSUME NEW S, NEW s \in Seq(Seq(S)), NEW g, Chains(s, g, Len(s)), NEW k \in 1..Len(s)
  PROVE  g[k] \in Seq(S)
<1> DEFINE Bad == {i \in 1..Len(s) : g[i] \notin Seq(S)}
<1> SUFFICES ASSUME Bad # {}
             PROVE  FALSE
  OBVIOUS
<1>0. Len(s) \in Nat /\ \A i \in 1..Len(s) : s[i] \in Seq(S)
  BY LenProperties, ElementOfSeq
<1>1. Bad \in SUBSET Nat
  BY <1>0
<1>2. PICK i \in Bad : \A j \in Bad : i <= j
  <2>1. Min(Bad) \in Bad /\ \A x \in Bad : Min(Bad) <= x
    BY <1>1, LeastOf
  <2> QED
    BY <2>1
<1>3. i \in 1..Len(s) /\ g[i] \notin Seq(S) /\ g[i] = Link(s, g, i)
  BY DEF Chains
<1>4. CASE i = 1
  BY <1>0, <1>3, <1>4 DEF Link
<1>5. CASE i # 1
  <2>1. i - 1 \in 1..Len(s) /\ ~(i <= i - 1)
    BY <1>0, <1>3, <1>5
  <2>2. g[i - 1] \in Seq(S)
    BY <1>2, <2>1
  <2>3. Cat(g[i - 1], s[i]) \in Seq(S)
    BY <1>0, <1>3, <2>2, CatProperties
  <2> QED
    BY <1>3, <1>5, <2>3 DEF Link
<1> QED
  BY <1>4, <1>5

\* A piece in front of all is in front of each part of the whole.
LEMMA ChainBehind ==
  ASSUME NEW S, NEW x \in Seq(S), NEW t \in Seq(Seq(S)), NEW s \in Seq(Seq(S)), InFront(x, t, s),
         NEW h, Chains(t, h, Len(t)), NEW g, Chains(s, g, Len(s)), NEW k \in 1..Len(t)
  PROVE  g[k + 1] = Cat(x, h[k])
<1> DEFINE Bad == {i \in 1..Len(t) : g[i + 1] # Cat(x, h[i])}
<1> SUFFICES ASSUME Bad # {}
             PROVE  FALSE
  OBVIOUS
<1>0. /\ Len(t) \in Nat /\ Len(s) = Len(t) + 1 /\ s[1] = x
      /\ \A i \in 1..Len(t) : s[i + 1] = t[i] /\ t[i] \in Seq(S)
  BY LenProperties, ElementOfSeq DEF InFront
<1>1. Bad \in SUBSET Nat
  BY <1>0
<1>2. PICK i \in Bad : \A j \in Bad : i <= j
  <2>1. Min(Bad) \in Bad /\ \A y \in Bad : Min(Bad) <= y
    BY <1>1, LeastOf
  <2> QED
    BY <2>1
<1>3. i \in 1..Len(t) /\ g[i + 1] # Cat(x, h[i])
  OBVIOUS
<1>4. i + 1 \in 1..Len(s) /\ 1 \in 1..Len(s) /\ i + 1 # 1 /\ (i + 1) - 1 = i
  BY <1>0, <1>3
<1>5. g[i + 1] = Cat(g[i], t[i])
  <2>1. g[i + 1] = Link(s, g, i + 1)
    BY <1>4 DEF Chains
  <2> QED
    BY <1>0, <1>3, <1>4, <2>1 DEF Link
<1>6. h[i] = Link(t, h, i)
  BY <1>3 DEF Chains
<1>7. CASE i = 1
  <2>1. g[1] = Link(s, g, 1)
    BY <1>4 DEF Chains
  <2>2. g[1] = x /\ h[i] = t[i]
    BY <1>0, <1>6, <1>7, <2>1 DEF Link
  <2> QED
    BY <1>3, <1>5, <1>7, <2>2
<1>8. CASE i # 1
  <2>1. i - 1 \in 1..Len(t) /\ ~(i <= i - 1) /\ (i - 1) + 1 = i
    BY <1>0, <1>3, <1>8
  <2>2. g[i] = Cat(x, h[i - 1])
    BY <1>2, <2>1
  <2>3. h[i - 1] \in Seq(S) /\ t[i] \in Seq(S)
    BY <1>0, <1>3, <2>1, ChainOf
  <2>4. h[i] = Cat(h[i - 1], t[i])
    BY <1>6, <1>8 DEF Link
  <2>5. Cat(Cat(x, h[i - 1]), t[i]) = Cat(x, Cat(h[i - 1], t[i]))
    BY <2>3, CatAssociative
  <2> QED
    BY <1>3, <1>5, <2>2, <2>4, <2>5
<1> QED
  BY <1>7, <1>8

\* A piece in front of all is in front of the whole.
LEMMA FlattenFront ==
  ASSUME NEW S, NEW x \in Seq(S), NEW t \in Seq(Seq(S)), NEW s \in Seq(Seq(S)), InFront(x, t, s)
  PROVE  FlattenSeq(t) \in Seq(S) /\ FlattenSeq(s) = Cat(x, FlattenSeq(t))
<1>0. Len(t) \in Nat /\ Len(s) = Len(t) + 1 /\ s[1] = x
  BY LenProperties DEF InFront
<1>a. Len(s) \in Nat /\ Len(s) # 0
  BY <1>0
<1>1. PICK g : Chains(s, g, Len(s)) /\ FlattenSeq(s) = g[Len(s)]
  BY <1>a, FlattenIs, Zenon
<1>2. CASE Len(t) = 0
  <2>1. t = <<>>
    BY <1>2, EmptySeq
  <2>2. FlattenSeq(t) = t
    BY <1>2 DEF FlattenSeq
  <2>3. Len(s) = 1 /\ 1 \in 1..Len(s)
    BY <1>0, <1>2
  <2>4. g[1] = Link(s, g, 1)
    BY <1>1, <2>3 DEF Chains
  <2>5. FlattenSeq(s) = x
    BY <1>0, <1>1, <2>3, <2>4 DEF Link
  <2>6. Cat(x, <<>>) = x
    BY CatProperties
  <2>7. FlattenSeq(t) = <<>> /\ <<>> \in Seq(S)
    BY <2>1, <2>2
  <2>8. Cat(x, FlattenSeq(t)) = Cat(x, <<>>)
    BY <2>7
  <2> QED
    BY <2>5, <2>6, <2>7, <2>8
<1>3. CASE Len(t) # 0
  <2>1. PICK h : Chains(t, h, Len(t)) /\ FlattenSeq(t) = h[Len(t)]
    BY <1>0, <1>3, FlattenIs
  <2>2. Len(t) \in 1..Len(t)
    BY <1>0, <1>3
  <2>3. h[Len(t)] \in Seq(S)
    BY <2>1, <2>2, ChainOf
  <2>4. g[Len(t) + 1] = Cat(x, h[Len(t)])
    BY <1>1, <2>1, <2>2, ChainBehind
  <2> QED
    BY <1>0, <1>1, <2>1, <2>3, <2>4
<1> QED
  BY <1>2, <1>3

\* All units but the first.
Others(us) == [i \in 1..(Len(us) - 1) |-> us[i + 1]]

\* The first unit is in front of the others.
LEMMA FirstInFront ==
  ASSUME NEW S, NEW us \in Seq(S), Len(us) # 0
  PROVE  /\ Others(us) \in Seq(S) /\ Len(Others(us)) = Len(us) - 1 /\ us[1] \in S
         /\ InFront(us[1], Others(us), us)
<1>1. Len(us) \in Nat /\ Len(us) - 1 \in Nat /\ (Len(us) - 1) + 1 = Len(us)
  BY LenProperties
<1>2. \A i \in 1..Len(us) : us[i] \in S
  BY ElementOfSeq
<1>3. us[1] \in S /\ \A i \in 1..(Len(us) - 1) : us[i + 1] \in S
  BY <1>1, <1>2
<1>4. Others(us) \in Seq(S) /\ Len(Others(us)) = Len(us) - 1
  BY <1>1, <1>3 DEF Others
<1>5. \A i \in 1..Len(Others(us)) : us[i + 1] = Others(us)[i]
  BY <1>4 DEF Others
<1>6. Len(us) = Len(Others(us)) + 1
  BY <1>1, <1>4
<1> QED
  BY <1>3, <1>4, <1>5, <1>6 DEF InFront

\* A start code in front of each unit: the first one's and then the others'.
LEMMA AnnexBFront ==
  ASSUME NEW S, NEW c \in Seq(S), NEW u \in Seq(S), NEW us \in Seq(Seq(S)),
         NEW all \in Seq(Seq(S)), InFront(u, us, all)
  PROVE  AnnexB(us, c) \in Seq(S) /\ AnnexB(all, c) = Cat(Cat(c, u), AnnexB(us, c))
<1> DEFINE t == [i \in DOMAIN us |-> Cat(c, us[i])]
           s == [i \in DOMAIN all |-> Cat(c, all[i])]
           x == Cat(c, u)
<1>1. /\ Len(us) \in Nat /\ DOMAIN us = 1..Len(us)
      /\ Len(all) = Len(us) + 1 /\ DOMAIN all = 1..Len(all) /\ all[1] = u
      /\ \A i \in 1..Len(us) : all[i + 1] = us[i]
  BY LenProperties DEF InFront
<1>2. /\ \A i \in DOMAIN us : Cat(c, us[i]) \in Seq(S)
      /\ \A i \in DOMAIN all : Cat(c, all[i]) \in Seq(S)
  BY <1>1, ElementOfSeq, CatProperties
<1>3. x \in Seq(S)
  BY CatProperties
<1>4. t \in Seq(Seq(S)) /\ Len(t) = Len(us)
  BY <1>1, <1>2
<1>5. s \in Seq(Seq(S)) /\ Len(s) = Len(all)
  BY <1>1, <1>2
<1>6. 1 \in DOMAIN all /\ \A i \in 1..Len(us) : i \in DOMAIN us /\ i + 1 \in DOMAIN all
  BY <1>1
<1>7. s[1] = x /\ \A i \in 1..Len(us) : s[i + 1] = t[i]
  BY <1>1, <1>6
<1>8. AnnexB(us, c) = FlattenSeq(t) /\ AnnexB(all, c) = FlattenSeq(s)
  BY DEF AnnexB, Cat
<1> HIDE DEF t, s, x
<1>9. InFront(x, t, s)
  BY <1>1, <1>4, <1>5, <1>7 DEF InFront
<1>10. FlattenSeq(t) \in Seq(S) /\ FlattenSeq(s) = Cat(x, FlattenSeq(t))
  BY <1>3, <1>4, <1>5, <1>9, FlattenFront
<1> QED
  BY <1>8, <1>10 DEF x

\* A length in front of each unit, the same.
LEMMA LengthFront ==
  ASSUME NEW S, NEW us \in Seq(Seq(S)), NEW all \in Seq(Seq(S)), NEW u \in Seq(S),
         InFront(u, us, all), \A i \in DOMAIN all : Length4(Len(all[i])) \in Seq(S)
  PROVE  Avcc(us) \in Seq(S) /\ Avcc(all) = Cat(Cat(Length4(Len(u)), u), Avcc(us))
<1> DEFINE t == [i \in DOMAIN us |-> Cat(Length4(Len(us[i])), us[i])]
           s == [i \in DOMAIN all |-> Cat(Length4(Len(all[i])), all[i])]
           x == Cat(Length4(Len(u)), u)
<1>1. /\ Len(us) \in Nat /\ DOMAIN us = 1..Len(us)
      /\ Len(all) = Len(us) + 1 /\ DOMAIN all = 1..Len(all) /\ all[1] = u
      /\ \A i \in 1..Len(us) : all[i + 1] = us[i]
  BY LenProperties DEF InFront
<1>2. 1 \in DOMAIN all /\ \A i \in 1..Len(us) : i \in DOMAIN us /\ i + 1 \in DOMAIN all
  BY <1>1
<1>3. \A i \in DOMAIN all : Cat(Length4(Len(all[i])), all[i]) \in Seq(S)
  BY <1>1, ElementOfSeq, CatProperties
<1>4. \A i \in DOMAIN us : Cat(Length4(Len(us[i])), us[i]) \in Seq(S)
  BY <1>1, <1>2, <1>3
<1>5. x \in Seq(S)
  BY <1>1, <1>2, <1>3
<1>6. t \in Seq(Seq(S)) /\ Len(t) = Len(us)
  BY <1>1, <1>4
<1>7. s \in Seq(Seq(S)) /\ Len(s) = Len(all)
  BY <1>1, <1>3
<1>8. s[1] = x /\ \A i \in 1..Len(us) : s[i + 1] = t[i]
  BY <1>1, <1>2
<1>9. Avcc(us) = FlattenSeq(t) /\ Avcc(all) = FlattenSeq(s)
  BY DEF Avcc, Cat
<1> HIDE DEF t, s, x
<1>10. InFront(x, t, s)
  BY <1>1, <1>6, <1>7, <1>8 DEF InFront
<1>11. FlattenSeq(t) \in Seq(S) /\ FlattenSeq(s) = Cat(x, FlattenSeq(t))
  BY <1>5, <1>6, <1>7, <1>10, FlattenFront
<1> QED
  BY <1>9, <1>11 DEF x

\* No units, no bytes.
LEMMA NoUnits ==
  ASSUME NEW c
  PROVE  AnnexB(<<>>, c) = <<>> /\ Avcc(<<>>) = <<>>
<1> DEFINE f == [i \in DOMAIN <<>> |-> c \o <<>>[i]]
           g == [i \in DOMAIN <<>> |-> Length4(Len(<<>>[i])) \o <<>>[i]]
<1>1. f = <<>> /\ g = <<>>
  OBVIOUS
<1>2. AnnexB(<<>>, c) = FlattenSeq(f) /\ Avcc(<<>>) = FlattenSeq(g)
  BY DEF AnnexB, Avcc
<1>3. FlattenSeq(<<>>) = <<>>
  BY DEF FlattenSeq
<1> QED
  BY <1>1, <1>2, <1>3

-----------------------------------------------------------------------------
(* Every unit is found, and every length becomes a code *)

CleanUnits(us) == us \in Seq(Seq(Nat)) /\ \A i \in DOMAIN us : Clean(us[i])
AllFound(us, c) == Follows(AnnexB(us, c)) /\ \E q : UnitsBeginAt(AnnexB(us, c), us, q)

\* However many units there are behind start codes, each begins at its place.
LEMMA AnyUnits ==
  ASSUME NEW c, IsCode(c), NEW us, CleanUnits(us)
  PROVE  AllFound(us, c)
<1> DEFINE Bad == {n \in Nat : \E s : CleanUnits(s) /\ Len(s) = n /\ ~AllFound(s, c)}
<1>1. SUFFICES Bad = {}
  <2>1. Len(us) \in Nat
    BY LenProperties DEF CleanUnits
  <2> QED
    BY <1>1, <2>1
<1>2. SUFFICES ASSUME Bad # {}
               PROVE  FALSE
  OBVIOUS
<1>3. PICK n \in Bad : \A x \in Bad : n <= x
  <2>1. Min(Bad) \in Bad /\ \A x \in Bad : Min(Bad) <= x
    BY <1>2, LeastOf
  <2> QED
    BY <2>1
<1>4. PICK s : CleanUnits(s) /\ Len(s) = n /\ ~AllFound(s, c)
  OBVIOUS
<1>5. s \in Seq(Seq(Nat)) /\ DOMAIN s = 1..n /\ n \in Nat
  BY <1>4, LenProperties DEF CleanUnits
<1>6. CASE n = 0
  <2> DEFINE p == [i \in 1..0 |-> 0]
  <2>1. UnitsBeginAt(<<>>, <<>>, p) /\ Follows(<<>>)
    BY NothingBegins
  <2> HIDE DEF p
  <2>2. s = <<>>
    BY <1>4, <1>5, <1>6, EmptySeq
  <2>3. AnnexB(s, c) = <<>>
    BY <2>2, NoUnits
  <2> QED
    BY <1>4, <2>1, <2>2, <2>3 DEF AllFound
<1>7. CASE n # 0
  <2> DEFINE t == Others(s)
             u == s[1]
  <2>1. t \in Seq(Seq(Nat)) /\ Len(t) = n - 1 /\ u \in Seq(Nat) /\ InFront(u, t, s)
    BY <1>4, <1>5, <1>7, FirstInFront
  <2>2. DOMAIN t = 1..(n - 1) /\ \A i \in 1..(n - 1) : t[i] = s[i + 1]
    BY <1>4 DEF Others
  <2> HIDE DEF t, u
  <2>a. \A i \in DOMAIN s : Clean(s[i])
    BY <1>4 DEF CleanUnits
  <2>b. 1 \in DOMAIN s /\ \A i \in 1..(n - 1) : i + 1 \in DOMAIN s
    BY <1>5, <1>7
  <2>3. Clean(u)
    BY <2>a, <2>b DEF u
  <2>4. \A i \in 1..(n - 1) : Clean(t[i])
    BY <2>2, <2>a, <2>b
  <2>5. CleanUnits(t)
    BY <2>1, <2>2, <2>4 DEF CleanUnits
  <2>6. n - 1 \in Nat /\ ~(n <= n - 1)
    BY <1>5, <1>7
  <2>7. n - 1 \notin Bad
    BY <1>3, <2>6
  <2>8. AllFound(t, c)
    BY <2>1, <2>5, <2>6, <2>7
  <2>9. c \in Seq(Nat)
    BY CodeShape
  <2>10. AnnexB(s, c) = Cat(Cat(c, u), AnnexB(t, c))
    BY <1>5, <2>1, <2>9, AnnexBFront
  <2>11. PICK q : UnitsBeginAt(AnnexB(t, c), t, q)
    BY <2>8 DEF AllFound
  <2>12. Follows(AnnexB(t, c))
    BY <2>8 DEF AllFound
  <2>13. /\ Follows(Cat(Cat(c, u), AnnexB(t, c)))
         /\ \E r : UnitsBeginAt(Cat(Cat(c, u), AnnexB(t, c)), s, r)
    BY <2>1, <2>3, <2>11, <2>12, UnitInFront
  <2>14. AllFound(s, c)
    BY <2>10, <2>13 DEF AllFound
  <2> QED
    BY <1>4, <2>14
<1> QED
  BY <1>6, <1>7

\* nal_ranges finds exactly the units a sample was put together from, however
\* many, behind long or short codes, with a type for each: their payload has no
\* zeros, as emulation prevention leaves none that look like a code.
THEOREM EveryUnitIsFound ==
  ASSUME NEW c, IsCode(c), NEW us, CleanUnits(us)
  PROVE  Units(AnnexB(us, c)) = us /\ Types(AnnexB(us, c)) = {us[i][1] : i \in 1..Len(us)}
<1> DEFINE d == AnnexB(us, c)
<1>1. Follows(d) /\ \E q : UnitsBeginAt(d, us, q)
  BY AnyUnits DEF AllFound
<1>2. d \in Seq(Nat) /\ us \in Seq(Seq(Nat))
  BY <1>1 DEF Follows, CleanUnits
<1> HIDE DEF d
<1>3. PICK q : UnitsBeginAt(d, us, q)
  BY <1>1
<1>4. Found(d, us, q)
  BY <1>2, <1>3, UnitsFound
<1> QED
  BY <1>4 DEF Found, d

LengthyUnits(us) == us \in Seq(Seq(Byte)) /\ \A i \in DOMAIN us : Lengthy(us[i])
Recoded(us) == /\ Avcc(us) \in Seq(Byte)
               /\ AvccUnits[Avcc(us)] = [ok |-> TRUE, data |-> AnnexB(us, Code4)]

\* avcc_to_annex_b succeeds on every sample of units whose lengths fit three
\* bytes, however many, and puts a start code in place of each length.
THEOREM EveryLengthBecomesACode ==
  ASSUME NEW us, LengthyUnits(us)
  PROVE  Recoded(us)
<1> DEFINE Bad == {n \in Nat : \E s : LengthyUnits(s) /\ Len(s) = n /\ ~Recoded(s)}
<1>1. SUFFICES Bad = {}
  <2>1. Len(us) \in Nat
    BY LenProperties DEF LengthyUnits
  <2> QED
    BY <1>1, <2>1
<1>2. SUFFICES ASSUME Bad # {}
               PROVE  FALSE
  OBVIOUS
<1>3. PICK n \in Bad : \A x \in Bad : n <= x
  <2>1. Min(Bad) \in Bad /\ \A x \in Bad : Min(Bad) <= x
    BY <1>2, LeastOf
  <2> QED
    BY <2>1
<1>4. PICK s : LengthyUnits(s) /\ Len(s) = n /\ ~Recoded(s)
  OBVIOUS
<1>5. s \in Seq(Seq(Byte)) /\ DOMAIN s = 1..n /\ n \in Nat
  BY <1>4, LenProperties DEF LengthyUnits
<1>6. CASE n = 0
  <2>1. s = <<>>
    BY <1>4, <1>5, <1>6, EmptySeq
  <2>2. AnnexB(s, Code4) = <<>> /\ Avcc(s) = <<>>
    BY <2>1, NoUnits
  <2>3. <<>> \in Seq(Byte) /\ AvccUnits[<<>>] = [ok |-> TRUE, data |-> <<>>]
    BY AvccNone
  <2> QED
    BY <1>4, <2>2, <2>3 DEF Recoded
<1>7. CASE n # 0
  <2> DEFINE t == Others(s)
             u == s[1]
  <2>1. t \in Seq(Seq(Byte)) /\ Len(t) = n - 1 /\ u \in Seq(Byte) /\ InFront(u, t, s)
    BY <1>4, <1>5, <1>7, FirstInFront
  <2>2. DOMAIN t = 1..(n - 1) /\ \A i \in 1..(n - 1) : t[i] = s[i + 1]
    BY <1>4 DEF Others
  <2> HIDE DEF t, u
  <2>a. \A i \in DOMAIN s : Lengthy(s[i])
    BY <1>4 DEF LengthyUnits
  <2>b. 1 \in DOMAIN s /\ \A i \in 1..(n - 1) : i + 1 \in DOMAIN s
    BY <1>5, <1>7
  <2>3. Lengthy(u)
    BY <2>a, <2>b DEF u
  <2>4. \A i \in 1..(n - 1) : Lengthy(t[i])
    BY <2>2, <2>a, <2>b
  <2>5. LengthyUnits(t)
    BY <2>1, <2>2, <2>4 DEF LengthyUnits
  <2>6. n - 1 \in Nat /\ ~(n <= n - 1)
    BY <1>5, <1>7
  <2>7. n - 1 \notin Bad
    BY <1>3, <2>6
  <2>8. Recoded(t)
    BY <2>1, <2>5, <2>6, <2>7
  <2>9. \A i \in DOMAIN s : Length4(Len(s[i])) \in Seq(Byte)
    <3>1. ASSUME NEW i \in DOMAIN s
          PROVE  Length4(Len(s[i])) \in Seq(Byte)
      <4>1. s[i] \in Seq(Byte) /\ Len(s[i]) < Base * Base * Base
        BY <1>4 DEF LengthyUnits, Lengthy
      <4>2. Len(s[i]) \in Nat
        BY <4>1, LenProperties
      <4> QED
        BY <4>1, <4>2, LengthBytes
    <3> QED
      BY <3>1
  <2>10. Avcc(s) = Cat(Cat(Length4(Len(u)), u), Avcc(t))
    BY <1>5, <2>1, <2>9, LengthFront
  <2>11. AnnexB(s, Code4) = Cat(Cat(Code4, u), AnnexB(t, Code4))
    BY <1>5, <2>1, CodeOfBytes, AnnexBFront
  <2>12. /\ Avcc(t) \in Seq(Byte)
         /\ AvccUnits[Avcc(t)] = [ok |-> TRUE, data |-> AnnexB(t, Code4)]
    BY <2>8 DEF Recoded
  <2>13. /\ Cat(Cat(Length4(Len(u)), u), Avcc(t)) \in Seq(Byte)
         /\ AvccUnits[Cat(Cat(Length4(Len(u)), u), Avcc(t))] =
              [ok |-> TRUE, data |-> Cat(Cat(Code4, u), AnnexB(t, Code4))]
    BY <2>3, <2>12, AvccBehind
  <2>14. Recoded(s)
    BY <2>10, <2>11, <2>13 DEF Recoded
  <2> QED
    BY <1>4, <2>14
<1> QED
  BY <1>6, <1>7

\* So what the rewriting of such a sample leads a reader to find (nal_ranges on
\* what avcc_to_annex_b returns) are the units that were put in.
THEOREM RewritingKeepsUnits ==
  ASSUME NEW us, CleanUnits(us), LengthyUnits(us)
  PROVE  /\ AvccUnits[Avcc(us)].ok
         /\ Units(AvccUnits[Avcc(us)].data) = us
<1>1. Recoded(us)
  BY EveryLengthBecomesACode
<1>2. AvccUnits[Avcc(us)].ok = TRUE /\ AvccUnits[Avcc(us)].data = AnnexB(us, Code4)
  BY <1>1 DEF Recoded
<1>3. Units(AnnexB(us, Code4)) = us
  BY EveryUnitIsFound DEF IsCode
<1> QED
  BY <1>2, <1>3
=============================================================================
