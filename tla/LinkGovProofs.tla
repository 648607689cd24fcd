--------------------------- MODULE LinkGovProofs ---------------------------
(***************************************************************************)
(* Theorems about LinkGov, for any preset, any windows and any reports.    *)
(***************************************************************************)
EXTENDS LinkGov, TLAPS

-----------------------------------------------------------------------------
(***************************************************************************)
(* The ladders.                                                            *)
(***************************************************************************)

\* A step of frame rate never raises it.
LEMMA SlowerType ==
  ASSUME NEW f \in Nat
  PROVE  Slower(f) \in Nat /\ Slower(f) <= f
<1>1. (BaseFps * 5) \div 9 \in Nat /\ f \div 7 \in Nat
  BY LinkGovAssumption
<1>2. FloorFps \in Nat
  BY <1>1, LinkGovAssumption DEF FloorFps, AtLeast, AtMost
<1> DEFINE step == AtLeast(f \div 7, 6)
<1>3. step \in Nat
  BY <1>1 DEF AtLeast
<1>4. Slower(f) = AtMost(f, AtLeast(IF step < f THEN f - step ELSE 0, FloorFps))
  BY DEF Slower
<1> HIDE DEF step
<1>5. (IF step < f THEN f - step ELSE 0) \in Nat
  BY <1>3
<1>6. AtLeast(IF step < f THEN f - step ELSE 0, FloorFps) \in Nat
  BY <1>2, <1>5 DEF AtLeast
<1>7. QED
  BY <1>4, <1>6 DEF AtMost

\* The five frame rates fall from the preset's.
LEMMA FpsFalls ==
  /\ FpsAt \in [1..5 -> Nat]
  /\ FpsAt[1] = BaseFps
  /\ \A i \in 1..4 : FpsAt[i + 1] = Slower(FpsAt[i]) /\ FpsAt[i + 1] <= FpsAt[i]
<1> DEFINE a == Slower(BaseFps)
           b == Slower(a)
           c == Slower(b)
           d == Slower(c)
<1>1. BaseFps \in Nat
  BY LinkGovAssumption
<1>2. a \in Nat /\ a <= BaseFps
  BY <1>1, SlowerType
<1>3. b \in Nat /\ b <= a
  BY <1>2, SlowerType
<1>4. c \in Nat /\ c <= b
  BY <1>3, SlowerType
<1>5. d \in Nat /\ d <= c
  BY <1>4, SlowerType
<1>6. FpsAt = <<BaseFps, a, b, c, d>>
  BY DEF FpsAt
<1> HIDE DEF a, b, c, d
<1>7. FpsAt \in [1..5 -> Nat]
  BY <1>1, <1>2, <1>3, <1>4, <1>5, <1>6
<1>8. /\ FpsAt[1] = BaseFps /\ FpsAt[2] = a /\ FpsAt[3] = b
      /\ FpsAt[4] = c /\ FpsAt[5] = d
  BY <1>6
<1>9. /\ FpsAt[2] = Slower(FpsAt[1]) /\ FpsAt[3] = Slower(FpsAt[2])
      /\ FpsAt[4] = Slower(FpsAt[3]) /\ FpsAt[5] = Slower(FpsAt[4])
  BY <1>8 DEF a, b, c, d
<1>10. ASSUME NEW i \in 1..4
       PROVE  FpsAt[i + 1] = Slower(FpsAt[i]) /\ FpsAt[i + 1] <= FpsAt[i]
  <2>1. i = 1 \/ i = 2 \/ i = 3 \/ i = 4
    OBVIOUS
  <2>2. FpsAt[i + 1] = Slower(FpsAt[i])
    BY <2>1, <1>9
  <2>3. FpsAt[i] \in Nat
    BY <1>7
  <2>4. QED
    BY <2>2, <2>3, SlowerType
<1>11. QED
  BY <1>7, <1>8, <1>10

\* The frame rate steps that gain something come first.
LEMMA StepsContiguous ==
  ASSUME NEW i \in FpsSteps, i # 1
  PROVE  i - 1 \in FpsSteps
<1>1. i \in 2..4 /\ i - 1 \in 1..4 /\ (i - 1) + 1 = i
  BY DEF FpsSteps
<1>2. FpsAt[i] <= FpsAt[i - 1] /\ FpsAt[i] = Slower(FpsAt[i - 1])
  BY <1>1, FpsFalls
<1>3. FpsAt[i + 1] = Slower(FpsAt[i]) /\ FpsAt[i + 1] < FpsAt[i]
  BY <1>1, FpsFalls DEF FpsSteps
<1>4. FpsAt[i] # FpsAt[i - 1]
  BY <1>1, <1>2, <1>3, FpsFalls
<1>5. FpsAt[i] \in Nat /\ FpsAt[i - 1] \in Nat
  BY <1>1, FpsFalls
<1>6. QED
  BY <1>1, <1>2, <1>4, <1>5 DEF FpsSteps

\* Positions are numbers from 0 without a gap.
LEMMA PositionsType ==
  ASSUME NEW c \in BOOLEAN, NEW i \in Positions(c)
  PROVE  i \in 0..7 /\ (i # 0 => i - 1 \in Positions(c))
<1>1. CASE c
  <2>1. CASE i \in 0..3
    BY <1>1, <2>1 DEF Positions
  <2>2. CASE i \notin 0..3
    <3>1. PICK n \in FpsSteps : i = 3 + n
      BY <1>1, <2>2 DEF Positions
    <3>2. n \in 1..4
      BY DEF FpsSteps
    <3>3. CASE n = 1
      BY <1>1, <3>1, <3>3 DEF Positions
    <3>4. CASE n # 1
      <4>1. n - 1 \in FpsSteps /\ i - 1 = 3 + (n - 1)
        BY <3>1, <3>2, <3>4, StepsContiguous
      <4>2. QED
        BY <1>1, <3>1, <3>2, <4>1 DEF Positions
    <3>5. QED
      BY <3>3, <3>4
  <2>3. QED
    BY <2>1, <2>2
<1>2. CASE ~c
  <2>1. CASE i = 0
    BY <2>1
  <2>2. CASE i # 0
    <3>1. i \in FpsSteps /\ i \in 1..4
      BY <1>2, <2>2 DEF Positions, FpsSteps
    <3>2. CASE i = 1
      BY <1>2, <3>1, <3>2 DEF Positions
    <3>3. CASE i # 1
      BY <1>2, <3>1, <3>3, StepsContiguous DEF Positions
    <3>4. QED
      BY <3>2, <3>3
  <2>3. QED
    BY <2>1, <2>2
<1>3. QED
  BY <1>1, <1>2

\* The four bitrates fall from the preset's.
LEMMA KbpsFalls ==
  /\ \A i \in 0..3 : KbpsAt(i) \in Nat
  /\ KbpsAt(0) = BaseKbps
  /\ \A i \in 0..2 : KbpsAt(i + 1) <= KbpsAt(i)
<1>1. BaseKbps \in Nat
  BY LinkGovAssumption
<1>2. /\ KbpsAt(0) = (BaseKbps * 100) \div 100
      /\ KbpsAt(1) = (BaseKbps * 80) \div 100
      /\ KbpsAt(2) = (BaseKbps * 60) \div 100
      /\ KbpsAt(3) = (BaseKbps * 40) \div 100
  BY DEF KbpsAt, KbpsPct
<1>3. /\ KbpsAt(0) \in Nat /\ KbpsAt(1) \in Nat /\ KbpsAt(2) \in Nat
      /\ KbpsAt(3) \in Nat
  BY <1>1, <1>2
<1>4. KbpsAt(0) = BaseKbps
  BY <1>1, <1>2
<1>5. KbpsAt(1) <= KbpsAt(0) /\ KbpsAt(2) <= KbpsAt(1) /\ KbpsAt(3) <= KbpsAt(2)
  BY <1>1, <1>2
<1>6. \A i \in 0..3 : i = 0 \/ i = 1 \/ i = 2 \/ i = 3
  OBVIOUS
<1> HIDE DEF KbpsAt
<1>7. \A i \in 0..3 : KbpsAt(i) \in Nat
  BY <1>3, <1>6
<1>8. \A i \in 0..2 : KbpsAt(i + 1) <= KbpsAt(i)
  <2>1. SUFFICES ASSUME NEW i \in 0..2
                 PROVE  KbpsAt(i + 1) <= KbpsAt(i)
    OBVIOUS
  <2>2. i = 0 \/ i = 1 \/ i = 2
    OBVIOUS
  <2>3. QED
    BY <2>2, <1>5
<1>9. QED
  BY <1>4, <1>7, <1>8

Within(t, u) == t.fps <= u.fps /\ t.kbps <= u.kbps
Target == [fps : Nat, kbps : Nat]

\* Every rung is a frame rate and a bitrate.
LEMMA RungType ==
  ASSUME NEW c \in BOOLEAN, NEW i \in Positions(c)
  PROVE  Rung(c, i) \in Target
<1>1. i \in 0..7
  BY PositionsType
<1>2. CASE c
  <2>1. CASE i <= 3
    BY <1>1, <1>2, <2>1, KbpsFalls, LinkGovAssumption DEF Rung, Target
  <2>2. CASE ~(i <= 3)
    <3>1. i - 2 \in 1..5
      BY <1>1, <2>2
    <3>2. FpsAt[i - 2] \in Nat /\ KbpsAt(3) \in Nat
      BY <3>1, FpsFalls, KbpsFalls
    <3>3. QED
      BY <1>2, <2>2, <3>2 DEF Rung, Target
  <2>3. QED
    BY <2>1, <2>2
<1>3. CASE ~c
  <2>1. i + 1 \in 1..5
    BY <1>1, <1>3 DEF Positions, FpsSteps
  <2>2. FpsAt[i + 1] \in Nat /\ BaseKbps \in Nat
    BY <2>1, FpsFalls, LinkGovAssumption
  <2>3. QED
    BY <1>3, <2>2 DEF Rung, Target
<1>4. QED
  BY <1>2, <1>3

\* The rung below is within the rung above.
LEMMA RungsFall ==
  ASSUME NEW c \in BOOLEAN, NEW i \in Positions(c), i + 1 \in Positions(c)
  PROVE  Within(Rung(c, i + 1), Rung(c, i))
<1>1. i \in 0..6
  BY PositionsType
<1>2. CASE c
  <2>1. CASE i <= 2
    <3>1. /\ Rung(c, i + 1) = [fps |-> BaseFps, kbps |-> KbpsAt(i + 1)]
          /\ Rung(c, i) = [fps |-> BaseFps, kbps |-> KbpsAt(i)]
      BY <1>1, <1>2, <2>1 DEF Rung
    <3>2. KbpsAt(i + 1) <= KbpsAt(i)
      BY <1>1, <2>1, KbpsFalls
    <3>3. QED
      BY <3>1, <3>2, LinkGovAssumption DEF Within
  <2>2. CASE i = 3
    <3>1. /\ Rung(c, i + 1) = [fps |-> FpsAt[2], kbps |-> KbpsAt(3)]
          /\ Rung(c, i) = [fps |-> FpsAt[1], kbps |-> KbpsAt(3)]
      BY <1>2, <2>2, FpsFalls DEF Rung
    <3>2. FpsAt[1 + 1] <= FpsAt[1] /\ KbpsAt(3) \in Nat
      BY FpsFalls, KbpsFalls
    <3>3. QED
      BY <3>1, <3>2 DEF Within
  <2>3. CASE i > 3
    <3>1. i - 2 \in 1..4 /\ (i + 1) - 2 = (i - 2) + 1
      BY <1>1, <2>3
    <3>2. /\ Rung(c, i + 1) = [fps |-> FpsAt[(i - 2) + 1], kbps |-> KbpsAt(3)]
          /\ Rung(c, i) = [fps |-> FpsAt[i - 2], kbps |-> KbpsAt(3)]
      BY <1>1, <1>2, <2>3, <3>1 DEF Rung
    <3>3. FpsAt[(i - 2) + 1] <= FpsAt[i - 2] /\ KbpsAt(3) \in Nat
      BY <3>1, FpsFalls, KbpsFalls
    <3>4. QED
      BY <3>2, <3>3 DEF Within
  <2>4. QED
    BY <1>1, <2>1, <2>2, <2>3
<1>3. CASE ~c
  <2>1. i + 1 \in 1..4
    BY <1>1, <1>3 DEF Positions, FpsSteps
  <2>2. /\ Rung(c, i + 1) = [fps |-> FpsAt[(i + 1) + 1], kbps |-> BaseKbps]
        /\ Rung(c, i) = [fps |-> FpsAt[i + 1], kbps |-> BaseKbps]
    BY <1>3 DEF Rung
  <2>3. FpsAt[(i + 1) + 1] <= FpsAt[i + 1]
    BY <2>1, FpsFalls
  <2>4. QED
    BY <2>2, <2>3, LinkGovAssumption DEF Within
<1>4. QED
  BY <1>2, <1>3

\* Where a target stands, once it is on the ladder in force.
LEMMA IndexOfType ==
  ASSUME NEW c \in BOOLEAN, NEW t, NEW i \in IndexOf(c, t)
  PROVE  i \in Positions(c) /\ Rung(c, i) = t /\ i \in Nat
BY PositionsType DEF IndexOf

\* A step down stays on the ladder, or leaves a target that is not on it
\* alone; it never raises the target.
LEMMA StepDownFalls ==
  ASSUME NEW c \in BOOLEAN, NEW t \in Target
  PROVE  /\ StepDown(c, t) \in Ladder(c) \cup {t}
         /\ Within(StepDown(c, t), t)
<1>1. CASE IndexOf(c, t) = {}
  BY <1>1 DEF StepDown, Within, Target
<1>2. CASE IndexOf(c, t) # {}
  <2> DEFINE i == CHOOSE i \in IndexOf(c, t) : TRUE
  <2>1. i \in IndexOf(c, t)
    BY <1>2
  <2>2. StepDown(c, t) =
          Rung(c, IF i + 1 \in Positions(c) THEN i + 1 ELSE i)
    BY <1>2 DEF StepDown
  <2> HIDE DEF i
  <2>3. i \in Positions(c) /\ Rung(c, i) = t
    BY <2>1, IndexOfType
  <2>4. CASE i + 1 \in Positions(c)
    BY <2>2, <2>3, <2>4, RungsFall DEF Ladder
  <2>5. CASE i + 1 \notin Positions(c)
    BY <2>2, <2>3, <2>5 DEF Within, Target
  <2>6. QED
    BY <2>4, <2>5
<1>3. QED
  BY <1>1, <1>2

\* A step up stays on the ladder, or leaves a target that is not on it alone;
\* it never lowers the target.
LEMMA StepUpRises ==
  ASSUME NEW c \in BOOLEAN, NEW t \in Target
  PROVE  /\ StepUp(c, t) \in Ladder(c) \cup {t}
         /\ Within(t, StepUp(c, t))
<1>1. CASE IndexOf(c, t) \subseteq {0}
  BY <1>1 DEF StepUp, Within, Target
<1>2. CASE ~(IndexOf(c, t) \subseteq {0})
  <2> DEFINE i == CHOOSE i \in IndexOf(c, t) : TRUE
  <2>1. i \in IndexOf(c, t)
    BY <1>2
  <2>2. StepUp(c, t) = Rung(c, i - 1)
    BY <1>2 DEF StepUp
  <2>3. i # 0
    <3>1. PICK j \in IndexOf(c, t) : j # 0
      BY <1>2
    <3>2. i \in Positions(c) /\ j \in Positions(c) /\ Rung(c, i) = t
          /\ Rung(c, j) = t
      BY <2>1, <3>1, IndexOfType
    <3>3. ~(i < j)
      BY <3>1, <3>2 DEF IndexOf
    <3>4. i \in 0..7 /\ j \in 0..7
      BY <3>2, PositionsType
    <3> HIDE DEF i
    <3>5. QED
      BY <3>1, <3>3, <3>4
  <2> HIDE DEF i
  <2>4. i \in Positions(c) /\ Rung(c, i) = t /\ i \in Nat
    BY <2>1, IndexOfType
  <2>5. i - 1 \in Positions(c) /\ (i - 1) + 1 = i
    BY <2>3, <2>4, PositionsType
  <2>6. Within(Rung(c, (i - 1) + 1), Rung(c, i - 1))
    BY <2>4, <2>5, RungsFall
  <2>7. QED
    BY <2>2, <2>4, <2>5, <2>6 DEF Ladder
<1>3. QED
  BY <1>1, <1>2

-----------------------------------------------------------------------------
(***************************************************************************)
(* The governor.  That the bitrate is held does not follow from itself: a  *)
(* window steps along the ladder in force, so what has to be kept is that  *)
(* the target is on the first ladder while nothing was seen.  That the     *)
(* counters mean what they say (one clean, or bad, window just gone by) is *)
(* what the hysteresis rests on.                                           *)
(***************************************************************************)
GovInv ==
  /\ TypeOK
  /\ ~seen => current \in Ladder(FALSE)
  /\ clean = 1 => last = "clean"
  /\ bad = 1 => last \in {"bad", "severe"}

\* The target commanded is a frame rate and a bitrate.
LEMMA CurrentIsTarget == TypeOK => current \in Target /\ seen \in BOOLEAN
BY RungType DEF TypeOK, Ladder

\* The first ladder has one bitrate.
LEMMA FirstLadderHolds == \A t \in Ladder(FALSE) : t.kbps = BaseKbps
<1>1. SUFFICES ASSUME NEW t \in Ladder(FALSE) PROVE t.kbps = BaseKbps
  OBVIOUS
<1>2. PICK i \in Positions(FALSE) : t = Rung(FALSE, i)
  BY DEF Ladder
<1>3. QED
  BY <1>2 DEF Rung

\* A window is judged one of three ways.
LEMMA VerdictType ==
  ASSUME NEW p PROVE Verdict(p) \in {"clean", "bad", "severe"}
BY DEF Verdict

\* What a bad window does.
LEMMA BadWindowStep ==
  ASSUME GovInv, NEW v \in {"bad", "severe"}, seen' \in BOOLEAN,
         BadWindow(v)
  PROVE  /\ current' \in Ladder(seen') \cup {current}
         /\ Within(current', current)
         /\ current' # current => v = "severe" \/ last \in {"bad", "severe"}
         /\ clean' = 0 /\ bad' \in 0..1
<1>1. current \in Target
  BY CurrentIsTarget DEF GovInv
<1>2. bad \in 0..1
  BY DEF GovInv, TypeOK, DownAfterWindows
<1>3. CASE bad + 1 >= Need(v)
  <2>1. current' = StepDown(seen', current) /\ bad' = 0 /\ clean' = 0
    BY <1>3 DEF BadWindow
  <2>2. v = "severe" \/ bad = 1
    BY <1>2, <1>3 DEF Need, DownAfterWindows
  <2>3. QED
    BY <1>1, <2>1, <2>2, StepDownFalls DEF GovInv
<1>4. CASE ~(bad + 1 >= Need(v))
  <2>1. current' = current /\ bad' = bad + 1 /\ clean' = 0
    BY <1>4 DEF BadWindow
  <2>2. bad = 0
    BY <1>2, <1>4 DEF Need, DownAfterWindows, SevereDownAfterWindows
  <2>3. Within(current', current)
    BY <1>1, <2>1 DEF Within, Target
  <2>4. QED
    BY <2>1, <2>2, <2>3
<1>5. QED
  BY <1>3, <1>4

\* What a clean window does.
LEMMA CleanWindowStep ==
  ASSUME GovInv, seen' \in BOOLEAN, CleanWindow
  PROVE  /\ current' \in Ladder(seen') \cup {current}
         /\ Within(current, current')
         /\ current' # current => last = "clean"
         /\ clean' \in 0..1 /\ bad' = 0
<1>1. current \in Target
  BY CurrentIsTarget DEF GovInv
<1>2. clean \in 0..1
  BY DEF GovInv, TypeOK, UpAfterCleanWindows
<1>3. CASE clean + 1 >= UpAfterCleanWindows
  <2>1. current' = StepUp(seen', current) /\ bad' = 0 /\ clean' = 0
    BY <1>3 DEF CleanWindow
  <2>2. clean = 1
    BY <1>2, <1>3 DEF UpAfterCleanWindows
  <2>3. QED
    BY <1>1, <2>1, <2>2, StepUpRises DEF GovInv
<1>4. CASE ~(clean + 1 >= UpAfterCleanWindows)
  <2>1. current' = current /\ clean' = clean + 1 /\ bad' = 0
    BY <1>4 DEF CleanWindow
  <2>2. clean = 0
    BY <1>2, <1>4 DEF UpAfterCleanWindows
  <2>3. Within(current, current')
    BY <1>1, <2>1 DEF Within, Target
  <2>4. QED
    BY <2>1, <2>2, <2>3
<1>5. QED
  BY <1>3, <1>4

\* A governor starts at the baseline, the first rung.
LEMMA InitGov == Init => GovInv
<1> SUFFICES ASSUME Init PROVE GovInv
  OBVIOUS
<1>1. 0 \in Positions(FALSE) /\ Rung(FALSE, 0) = Baseline
  BY FpsFalls DEF Positions, Rung, Baseline
<1>2. current \in Ladder(FALSE)
  BY <1>1 DEF Init, Ladder
<1>3. /\ clean \in 0..(UpAfterCleanWindows - 1)
      /\ bad \in 0..(DownAfterWindows - 1)
      /\ dropped \in Nat /\ reports \in 0..MaxReports
      /\ clean # 1 /\ bad # 1
  BY LinkGovAssumption DEF Init, UpAfterCleanWindows, DownAfterWindows
<1>4. seen \in BOOLEAN /\ loss \in BOOLEAN /\ last \in Verdicts
  BY DEF Init, Verdicts
<1>5. QED
  BY <1>2, <1>3, <1>4 DEF GovInv, TypeOK

\* Reports and windows keep the invariant.
LEMMA StepGov == GovInv /\ [Next]_vars => GovInv'
<1> SUFFICES ASSUME GovInv, [Next]_vars PROVE GovInv'
  OBVIOUS
<1> USE DEF UpAfterCleanWindows, DownAfterWindows, Verdicts
<1>1. ASSUME NEW lossy \in BOOLEAN, NEW delta \in DropDeltas,
             NEW high \in BOOLEAN, ClientLinkStats(lossy, delta, high)
      PROVE  GovInv'
  <2>1. dropped' \in Nat
    BY <1>1, LinkGovAssumption
       DEF GovInv, TypeOK, ClientLinkStats, SlowReportFrames
  <2>2. reports' \in 0..MaxReports
    BY <1>1, LinkGovAssumption DEF GovInv, TypeOK, ClientLinkStats
  <2>3. /\ loss' \in BOOLEAN /\ seen' \in BOOLEAN /\ (~seen' => ~seen)
    BY <1>1 DEF GovInv, TypeOK, ClientLinkStats
  <2>4. current' = current /\ clean' = clean /\ bad' = bad /\ last' = last
    BY <1>1 DEF ClientLinkStats
  <2>5. Ladder(FALSE)' = Ladder(FALSE) /\ Ladder(TRUE)' = Ladder(TRUE)
    OBVIOUS
  <2>6. QED
    BY <2>1, <2>2, <2>3, <2>4 DEF GovInv, TypeOK
<1>2. ASSUME NEW frames \in WindowFrames, NEW shed \in WindowSheds,
             CloseWindow(frames, shed)
      PROVE  GovInv'
  <2> DEFINE v == Verdict(DropPct(dropped + shed, frames + dropped + shed))
  <2>1. v \in {"clean", "bad", "severe"}
    BY VerdictType
  <2>2. /\ loss' = FALSE /\ seen' = (seen \/ v = "severe")
        /\ IF v = "clean" THEN CleanWindow ELSE BadWindow(v)
        /\ last' = v /\ dropped' = 0 /\ reports' = 0
    BY <1>2 DEF CloseWindow, OnWindow
  <2> HIDE DEF v
  <2>3. seen' \in BOOLEAN /\ (~seen' => ~seen)
    BY <2>2 DEF GovInv, TypeOK
  <2>4. /\ current' \in Ladder(seen') \cup {current}
        /\ clean' \in 0..1 /\ bad' \in 0..1
        /\ clean' = 1 => v = "clean"
        /\ bad' = 1 => v \in {"bad", "severe"}
    <3>1. CASE v = "clean"
      BY <2>2, <2>3, <3>1, CleanWindowStep
    <3>2. CASE v # "clean"
      BY <2>1, <2>2, <2>3, <3>2, BadWindowStep
    <3>3. QED
      BY <3>1, <3>2
  <2>5. current' \in Ladder(FALSE) \cup Ladder(TRUE)
    BY <2>3, <2>4 DEF GovInv, TypeOK
  <2>6. ~seen' => current' \in Ladder(FALSE)
    BY <2>3, <2>4 DEF GovInv
  <2>7. dropped' \in Nat /\ reports' \in 0..MaxReports
    BY <2>2, LinkGovAssumption
  <2>8. /\ clean' \in 0..(UpAfterCleanWindows - 1)
        /\ bad' \in 0..(DownAfterWindows - 1)
    BY <2>4
  <2>9. /\ loss' \in BOOLEAN /\ last' \in Verdicts
        /\ clean' = 1 => last' = "clean"
        /\ bad' = 1 => last' \in {"bad", "severe"}
    BY <2>1, <2>2, <2>4
  <2>10. QED
    BY <2>3, <2>5, <2>6, <2>7, <2>8, <2>9 DEF GovInv, TypeOK
<1>3. CASE UNCHANGED vars
  BY <1>3 DEF vars, gov, GovInv, TypeOK
<1>4. QED
  BY <1>1, <1>2, <1>3 DEF Next, Report, Window

\* The governor's state is always well formed (TypeOK in LinkGov), and its
\* counters and the ladder it is on mean what GovInv says.
THEOREM GovernorTyped == Spec => []GovInv
<1>1. QED
  BY InitGov, StepGov, PTL DEF Spec

\* For any preset and any history of windows and reports: the bitrate is the
\* preset's until congestion was seen (BitrateHeld in LinkGov).
THEOREM HoldsBitrate == Spec => []BitrateHeld
<1>1. GovInv => BitrateHeld
  BY FirstLadderHolds DEF GovInv, BitrateHeld
<1>2. QED
  BY <1>1, GovernorTyped, PTL

\* A step of the governor changes the target one way only.
LEMMA StepDirection ==
  ASSUME GovInv, [Next]_vars
  PROVE  /\ Falls => last' = "severe" \/ {last, last'} \subseteq {"bad", "severe"}
         /\ Rises => last = "clean" /\ last' = "clean"
<1>1. current \in Target
  BY CurrentIsTarget DEF GovInv
<1>2. CASE current' = current
  BY <1>1, <1>2 DEF Falls, Rises, Target
<1>3. ASSUME NEW frames \in WindowFrames, NEW shed \in WindowSheds,
             CloseWindow(frames, shed), current' # current
      PROVE  /\ Falls => last' = "severe"
                           \/ {last, last'} \subseteq {"bad", "severe"}
             /\ Rises => last = "clean" /\ last' = "clean"
  <2> DEFINE v == Verdict(DropPct(dropped + shed, frames + dropped + shed))
  <2>1. v \in {"clean", "bad", "severe"}
    BY VerdictType
  <2>2. /\ seen' = (seen \/ v = "severe") /\ last' = v
        /\ IF v = "clean" THEN CleanWindow ELSE BadWindow(v)
    BY <1>3 DEF CloseWindow, OnWindow
  <2> HIDE DEF v
  <2>3. seen' \in BOOLEAN
    BY <2>2 DEF GovInv, TypeOK
  <2>4. current' \in Target
    <3>1. GovInv'
      BY StepGov
    <3>2. current' \in Ladder(FALSE) \cup Ladder(TRUE)
      BY <3>1 DEF GovInv, TypeOK
    <3>3. QED
      BY <3>2, RungType DEF Ladder
  <2>5. CASE v = "clean"
    <3>1. Within(current, current') /\ last = "clean"
      BY <1>3, <2>2, <2>3, <2>5, CleanWindowStep
    <3>2. ~Falls
      BY <1>1, <2>4, <3>1 DEF Falls, Within, Target
    <3>3. QED
      BY <2>2, <2>5, <3>1, <3>2
  <2>6. CASE v # "clean"
    <3>1. /\ Within(current', current)
          /\ v = "severe" \/ last \in {"bad", "severe"}
      BY <1>3, <2>1, <2>2, <2>3, <2>6, BadWindowStep
    <3>2. ~Rises
      BY <1>1, <2>4, <3>1 DEF Rises, Within, Target
    <3>3. QED
      BY <2>1, <2>2, <2>6, <3>1, <3>2
  <2>7. QED
    BY <2>5, <2>6
<1>4. current' = current \/ (\E frames \in WindowFrames, shed \in WindowSheds :
                                CloseWindow(frames, shed))
  BY DEF Next, Report, Window, ClientLinkStats, vars, gov
<1>5. QED
  BY <1>2, <1>3, <1>4

\* The target falls only after a severe window or two bad ones in a row
\* (FallsOnlyWhenBad in LinkGov).
THEOREM FallsAreEarned == Spec => FallsOnlyWhenBad
<1>1. GovInv /\ [Next]_vars =>
        [Falls => last' = "severe" \/ {last, last'} \subseteq {"bad", "severe"}]_vars
  BY StepDirection
<1>2. QED
  BY <1>1, GovernorTyped, PTL DEF Spec, FallsOnlyWhenBad

\* The target rises only after two clean windows in a row (RisesOnlyWhenClean
\* in LinkGov).
THEOREM RisesAreEarned == Spec => RisesOnlyWhenClean
<1>1. GovInv /\ [Next]_vars => [Rises => last = "clean" /\ last' = "clean"]_vars
  BY StepDirection
<1>2. QED
  BY <1>1, GovernorTyped, PTL DEF Spec, RisesOnlyWhenClean
=============================================================================
