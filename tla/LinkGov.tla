------------------------------ MODULE LinkGov ------------------------------
(***************************************************************************)
(* The link governor (crates/host/src/link_gov.rs) with the two places of  *)
(* the host's main loop that feed it: the ClientLinkStats handler and the  *)
(* five-second rate window of the pre-encoded path, which commands what    *)
(* the governor decides to the Windows encoder.                            *)
(*                                                                         *)
(* A target is a frame rate and a bitrate; its width and height are the    *)
(* baseline's on every rung.                                               *)
(***************************************************************************)
EXTENDS Naturals

CONSTANTS
  BaseFps, BaseKbps, \* the preset, where the ladder starts
  WindowFrames,      \* frames a window may deliver to some player
  WindowSheds,       \* frames a window may deliver to nobody
  DropDeltas,        \* frames_dropped_delta of a report
  MaxReports         \* bound: reports read during one window

ASSUME LinkGovAssumption ==
  /\ BaseFps \in Nat \ {0} /\ BaseKbps \in Nat
  /\ WindowFrames \subseteq Nat \ {0}
  /\ WindowSheds \subseteq Nat /\ DropDeltas \subseteq Nat
  /\ MaxReports \in Nat

VARIABLES
  current,      \* the target commanded
  clean, bad,   \* clean_windows and bad_windows
  seen,         \* client_congestion_seen: bitrate cuts are unlocked
  loss,         \* client_loss_window
  dropped,      \* dropped_frames of the main loop, less WindowSheds
  reports,      \* reports read in this window
  last          \* history: the verdict on the last window

gov  == <<current, clean, bad, seen, loss>>
vars == <<gov, dropped, reports, last>>

DownTriggerPct == 8
SevereShedPct == 12
DownAfterWindows == 2
SevereDownAfterWindows == 1
UpAfterCleanWindows == 2
SlowReportFrames == 8   \* frames a high round trip counts for

(***************************************************************************)
(* The ladders, as sets of the positions they have and a target for each.  *)
(***************************************************************************)
AtLeast(a, b) == IF a >= b THEN a ELSE b
AtMost(a, b) == IF a <= b THEN a ELSE b

FloorFps == AtMost(AtLeast((BaseFps * 5) \div 9, 45), BaseFps)

\* One step of frame rate; a step that gains nothing ends the ladder.
Slower(fps) ==
  LET step == AtLeast(fps \div 7, 6)
  IN  AtMost(fps, AtLeast(IF step < fps THEN fps - step ELSE 0, FloorFps))

FpsAt ==
  LET a == Slower(BaseFps)
      b == Slower(a)
      c == Slower(b)
  IN  <<BaseFps, a, b, c, Slower(c)>>

FpsSteps == {i \in 1..4 : FpsAt[i + 1] < FpsAt[i]}

KbpsPct == <<100, 80, 60, 40>>
KbpsAt(i) == (BaseKbps * KbpsPct[i + 1]) \div 100

Baseline == [fps |-> BaseFps, kbps |-> BaseKbps]

\* rungs_from_inner: with congestion seen, three bitrate cuts at full frame
\* rate come before the frame rate steps.
Positions(congested) ==
  IF congested THEN 0..3 \cup {3 + i : i \in FpsSteps}
  ELSE {0} \cup FpsSteps

Rung(congested, i) ==
  IF congested
  THEN IF i <= 3 THEN [fps |-> BaseFps, kbps |-> KbpsAt(i)]
       ELSE [fps |-> FpsAt[i - 2], kbps |-> KbpsAt(3)]
  ELSE [fps |-> FpsAt[i + 1], kbps |-> BaseKbps]

Ladder(congested) == {Rung(congested, i) : i \in Positions(congested)}

\* index_of: the first position of t; empty when the ladder has no such rung.
IndexOf(congested, t) ==
  {i \in Positions(congested) :
     /\ Rung(congested, i) = t
     /\ \A j \in Positions(congested) : j < i => Rung(congested, j) # t}

(***************************************************************************)
(* Steps: the next target, on the ladder in force.                         *)
(***************************************************************************)
\* Mutants of StepDown: the congested ladder whatever was seen; the lowest
\* rung is left out.
StepDownUnlocked(congested, t) ==
  IF IndexOf(TRUE, t) = {} THEN t
  ELSE LET i == CHOOSE i \in IndexOf(TRUE, t) : TRUE
       IN  Rung(TRUE, IF i + 1 \in Positions(TRUE) THEN i + 1 ELSE i)
StepDownShort(congested, t) ==
  IF IndexOf(congested, t) = {} THEN t
  ELSE LET i == CHOOSE i \in IndexOf(congested, t) : TRUE
       IN  Rung(congested, IF i + 2 \in Positions(congested) THEN i + 1 ELSE i)

StepDown(congested, t) ==
  IF IndexOf(congested, t) = {} THEN t
  ELSE LET i == CHOOSE i \in IndexOf(congested, t) : TRUE
       IN  Rung(congested,
                IF i + 1 \in Positions(congested) THEN i + 1 ELSE i)

\* Mutant: the climb ends one rung under the baseline.
StepUpShort(congested, t) ==
  IF IndexOf(congested, t) \subseteq {0, 1} THEN t
  ELSE Rung(congested, (CHOOSE i \in IndexOf(congested, t) : TRUE) - 1)

StepUp(congested, t) ==
  IF IndexOf(congested, t) \subseteq {0} THEN t
  ELSE Rung(congested, (CHOOSE i \in IndexOf(congested, t) : TRUE) - 1)

Init ==
  /\ current = Baseline
  /\ clean = 0 /\ bad = 0 /\ seen = FALSE /\ loss = FALSE
  /\ dropped = 0 /\ reports = 0 /\ last = "none"

(***************************************************************************)
(* ClientLinkStats.  lossy is what client_report_is_congested says of the  *)
(* loss and the freezes reported; high is a round trip of 250 ms or more.  *)
(***************************************************************************)
ClientLinkStats(lossy, delta, high) ==
  /\ reports < MaxReports
  /\ reports' = reports + 1
  /\ loss' = (loss \/ lossy)
  /\ seen' = (seen \/ lossy \/ delta > 0 \/ high)
  /\ dropped' = dropped + delta + (IF high THEN SlowReportFrames ELSE 0)
  /\ UNCHANGED <<current, clean, bad, last>>

(***************************************************************************)
(* on_window, at the end of a rate window.                                 *)
(***************************************************************************)
DropPct(shed, sent) == IF sent > 0 THEN (shed * 100) \div sent ELSE 0

Verdict(pct) ==
  CASE pct >= SevereShedPct -> "severe"
    [] pct < SevereShedPct /\ (pct > DownTriggerPct \/ loss) -> "bad"
    [] OTHER -> "clean"

Need(verdict) ==
  IF verdict = "severe" THEN SevereDownAfterWindows ELSE DownAfterWindows

\* Mutants of BadWindow: the run of clean windows is not broken; one bad
\* window is enough.
BadWindowKeepsClean(verdict) ==
  /\ UNCHANGED clean
  /\ IF bad + 1 >= Need(verdict)
     THEN bad' = 0 /\ current' = StepDown(seen', current)
     ELSE bad' = bad + 1 /\ UNCHANGED current
BadWindowEager(verdict) ==
  /\ clean' = 0
  /\ bad' = 0 /\ current' = StepDown(seen', current)

BadWindow(verdict) ==
  /\ clean' = 0
  /\ IF bad + 1 >= Need(verdict)
     THEN bad' = 0 /\ current' = StepDown(seen', current)
     ELSE bad' = bad + 1 /\ UNCHANGED current

CleanWindow ==
  /\ bad' = 0
  /\ IF clean + 1 >= UpAfterCleanWindows
     THEN clean' = 0 /\ current' = StepUp(seen', current)
     ELSE clean' = clean + 1 /\ UNCHANGED current

OnWindow(shed, sent) ==
  LET verdict == Verdict(DropPct(shed, sent)) IN
  /\ loss' = FALSE
  /\ seen' = (seen \/ verdict = "severe")
  /\ IF verdict = "clean" THEN CleanWindow ELSE BadWindow(verdict)
  /\ last' = verdict

\* The window closes on a frame that some player received.
CloseWindow(frames, shed) ==
  /\ OnWindow(dropped + shed, frames + dropped + shed)
  /\ dropped' = 0 /\ reports' = 0

Report ==
  \E lossy \in BOOLEAN, delta \in DropDeltas, high \in BOOLEAN :
    ClientLinkStats(lossy, delta, high)
Window == \E frames \in WindowFrames, shed \in WindowSheds :
            CloseWindow(frames, shed)

Next == Report \/ Window

Spec == Init /\ [][Next]_vars

\* While frames are delivered, the cadence tick keeps closing windows.
FairSpec == Spec /\ WF_vars(Window)

-----------------------------------------------------------------------------
(***************************************************************************)
(* Properties.                                                             *)
(***************************************************************************)
Verdicts == {"none", "clean", "bad", "severe"}

\* Whatever is reported, and in whatever order the ladders change, the target
\* commanded is one of the rungs, and no counter passes its threshold.
TypeOK ==
  /\ current \in Ladder(FALSE) \cup Ladder(TRUE)
  /\ clean \in 0..(UpAfterCleanWindows - 1)
  /\ bad \in 0..(DownAfterWindows - 1)
  /\ seen \in BOOLEAN /\ loss \in BOOLEAN
  /\ dropped \in Nat /\ reports \in 0..MaxReports
  /\ last \in Verdicts

\* The bitrate stays the preset's until a client reported congestion or a
\* window shed severely, however long mild shed lasts (rungs_from's "hold
\* bitrate, step fps").
BitrateHeld == ~seen => current.kbps = BaseKbps

\* Hysteresis.  The target falls only after a severe window or two bad ones in
\* a row, and rises only after two clean ones, also when reports, severe and
\* mild windows alternate (DOWN_AFTER_WINDOWS, UP_AFTER_CLEAN_WINDOWS).
Falls == current'.fps < current.fps \/ current'.kbps < current.kbps
Rises == current'.fps > current.fps \/ current'.kbps > current.kbps

FallsOnlyWhenBad ==
  [][Falls => last' = "severe" \/ {last, last'} \subseteq {"bad", "severe"}]_vars

RisesOnlyWhenClean == [][Rises => last = "clean" /\ last' = "clean"]_vars

\* The target commanded is not on the ladder in force: index_of finds nothing.
Wedged == current \notin Ladder(seen)

\* While the target is on the ladder in force, a link that stays clean brings
\* it back to the baseline, and one that stays bad drives it to the lowest
\* rung: no pattern of resets of the two counters stalls the governor.
RecoversUnlessWedged ==
  []~Wedged /\ <>[](last = "clean") => <>[](current = Baseline)
DrainsUnlessWedged ==
  []~Wedged /\ <>[](last \in {"bad", "severe"}) =>
    <>[](\A t \in Ladder(seen) : current.fps <= t.fps /\ current.kbps <= t.kbps)

\* link_gov.rs:396 "clean windows should walk it back up to the baseline".
\* Does not hold: a target reached on the first ladder's frame rate rungs is
\* not on the second, and the governor keeps commanding it for good.
Recovers == <>[](last = "clean") => <>[](current = Baseline)

=============================================================================
