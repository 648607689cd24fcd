------------------------------ MODULE VideoPath ------------------------------
(***************************************************************************)
(* The way of a picture from the host's cadence tick to the viewers, and   *)
(* the way back of the viewers' requests for a keyframe.                   *)
(*                                                                         *)
(* Every tick of the main loop collects the keyframe requests of the       *)
(* peers, takes a frame (already encoded on Windows, or raw and encoded    *)
(* here), pushes it to every peer and decides whether the next one is a    *)
(* keyframe. A peer always writes RTP; while its viewer warms up it also   *)
(* writes keyframes to the video data channel (CLVD), where the browser's  *)
(* WebCodecs view decodes one, paints, and reports "webcodecs" through the *)
(* signaling server, which ends the CLVD video. Requests arrive as RTCP,   *)
(* as messages on the data channel, or from the push itself, and meet in   *)
(* one flag and one coalescing clock per peer.                             *)
(*                                                                         *)
(* Time is discrete: Elapse is one coalescing window (750 ms), and it      *)
(* waits until the loop has pushed a frame since the last one.             *)
(***************************************************************************)
EXTENDS Naturals, FiniteSets, Sequences

CONSTANTS Viewers,      \* the players' slots
          Kinds,        \* what a viewer may be: "chrome", "safari", "native"
          Coalesce,     \* KEYFRAME_COALESCE_MS in units of time
          Dual,         \* KEYFRAME_COALESCE_DUAL_MS
          Interval,     \* IDR_INTERVAL
          Burst,        \* keyframes of a join's burst
          Sources,      \* subset of {"gpu", "raw"} the capturer may start with
          Hazards,      \* what may go wrong: subset of
                        \* {"lost", "cut", "jam", "rebuild"}
          MaxFaults     \* bound: how often, in all

ASSUME TimesAssumption ==
    /\ Coalesce \in Nat \ {0} /\ Dual \in Nat /\ Interval \in Nat \ {0}
    /\ Coalesce <= Dual /\ Burst \in Nat \ {0}

ASSUME KindAssumption == Kinds \subseteq {"chrome", "safari", "native"}

VARIABLES loop,   \* the main loop's locals: force_idr, idr_burst, last_idr
          peer,   \* WebRtcHost, one per viewer; its path is "unknown", "webcodecs",
                  \* "rtp" or "warmup"
          mail,   \* present_path messages between a viewer and the host
          view,   \* the viewer: its decoder and what it has reported
          faults  \* how often something went wrong so far

pathVars == <<loop, peer, mail, view, faults>>

Min2(a, b) == IF a <= b THEN a ELSE b

-----------------------------------------------------------------------------
(* The peer (webrtc_peer.rs) *)

\* Whether RTP, and whether CLVD, is written for a present path.
RtpOn(path) == TRUE
ClvdOn(path) == path \in {"unknown", "warmup"}
HybridDual(v) == RtpOn(peer[v].path) /\ ClvdOn(peer[v].path)

\* A built peer has its coalescing clock at zero: any request is accepted.
NewPeer == [path |-> "unknown", wanted |-> FALSE, gap |-> Dual,
            dc |-> FALSE, jam |-> FALSE]

\* A request for a keyframe, dropped when one was accepted within the window.
Ask(p, window) == IF p.gap < window THEN p
                  ELSE [p EXCEPT !.wanted = TRUE, !.gap = 0]

\* A message on the video data channel: the long window while RTP is live.
DcMessage(p) == Ask(p, IF RtpOn(p.path) THEN Dual ELSE Coalesce)

\* The keyframe that fits the channel is written to it while warming up.
SendsClvdDeltas(p, key) == p.dc /\ ClvdOn(p.path) /\ ~key /\ ~p.jam   \* mutant
SendsClvd(p, key) == p.dc /\ ClvdOn(p.path) /\ key /\ ~p.jam

\* A report changes the path; RTP is never switched, so no keyframe is asked.
SetPresentPath(p, path) ==
    [p EXCEPT !.path = path,
              !.wanted = @ \/ RtpOn(p.path) # RtpOn(path)]

-----------------------------------------------------------------------------
(* The viewer (player.ts, App.tsx, webCodecsCanvas.ts, webrtc_player.rs) *)

NewView(kind) == [kind |-> kind, pic |-> "off", since |-> 0, due |-> FALSE, dc |-> FALSE,
            wc |-> "off", photon |-> FALSE, sent |-> "none"]

\* notifyPresentPath: a page sends what it paints from when that differs from
\* what it sent last, also when the host's peer is a new one by now.
Notify(v, w, path) ==
    /\ view' = [view EXCEPT ![v] = [w EXCEPT !.sent = path]]
    /\ mail' = IF w.sent = path THEN mail ELSE [mail EXCEPT ![v] = Append(@, path)]

Fault(f) == f \in Hazards /\ faults < MaxFaults /\ faults' = faults + 1

PathInit ==
    /\ \E s \in Sources :
          loop = [force |-> FALSE, burst |-> 0, age |-> 0, asked |-> TRUE,
                  ticked |-> FALSE, raw |-> s = "raw"]
    /\ peer = [v \in Viewers |-> NewPeer]
    /\ mail = [v \in Viewers |-> <<>>]
    /\ \E kind \in [Viewers -> Kinds] : view = [v \in Viewers |-> NewView(kind[v])]
    /\ faults = 0

\* The media connects: the answer forces a keyframe, the viewer gets its track.
\* A browser without WebCodecs says at once that it paints RTP; the native
\* client asks for a keyframe.
Connect(v) ==
    /\ view[v].pic = "off"
    /\ loop' = [loop EXCEPT !.force = TRUE]
    /\ LET w == [view[v] EXCEPT !.pic = "broken", !.since = 0,
                                !.due = view[v].kind # "chrome"]
       IN  IF view[v].kind = "safari" THEN Notify(v, w, "rtp")
           ELSE view' = [view EXCEPT ![v] = w] /\ UNCHANGED mail
    /\ UNCHANGED <<peer, faults>>

\* The host's end of the data channel opens: one soft request while hybrid.
HostOpensDc(v) ==
    /\ view[v].pic # "off" /\ ~peer[v].dc
    /\ peer' = [peer EXCEPT ![v] =
          [IF HybridDual(v) THEN Ask(@, Dual) ELSE @ EXCEPT !.dc = TRUE]]
    /\ UNCHANGED <<loop, mail, view, faults>>

\* The viewer's end opens: WebCodecs announces warm-up and asks for a keyframe
\* (the channel is unreliable); a browser without it says "rtp" again.
ViewOpensDc(v) ==
    /\ peer[v].dc /\ ~view[v].dc /\ view[v].kind # "native"
    /\ Notify(v, [view[v] EXCEPT !.dc = TRUE],
              IF view[v].kind = "chrome" THEN "warmup" ELSE "rtp")
    /\ \/ view[v].kind = "chrome" /\ peer' = [peer EXCEPT ![v] = DcMessage(@)]
       \/ UNCHANGED peer
    /\ UNCHANGED <<loop, faults>>

\* The server hands the host the viewer's oldest report, stamped with its slot.
PathArrives(v) ==
    /\ mail[v] # <<>>
    /\ peer' = [peer EXCEPT ![v] = SetPresentPath(@, Head(mail[v]))]
    /\ mail' = [mail EXCEPT ![v] = Tail(@)]
    /\ UNCHANGED <<loop, view, faults>>

\* The RTCP reader: a picture-loss report is ignored while the peer is hybrid.
\* A browser repeats it until the picture is back, the native client does not.
Rtcp(v) ==
    /\ view[v].due
    /\ peer' = [peer EXCEPT ![v] = IF HybridDual(v) THEN @ ELSE Ask(@, Coalesce)]
    /\ view' = [view EXCEPT ![v].due = view[v].kind # "native"]
    /\ UNCHANGED <<loop, mail, faults>>

\* App promotes a view that painted, once.
Promote(v, w) == Notify(v, [w EXCEPT !.photon = TRUE], "webcodecs")

\* The view presents the keyframe it decoded.
Paint(v) ==
    /\ view[v].wc = "decoding"
    /\ Promote(v, [view[v] EXCEPT !.wc = "painted"])
    /\ UNCHANGED <<loop, peer, faults>>

\* The page's statistics tell of loss, a freeze or a picture that stands still: it
\* asks over the channel, if that is open, and tells the host, whose loop forces a
\* keyframe unless one was made within the interval. Either may get lost.
Statistics(v) ==
    /\ view[v].pic = "broken" /\ view[v].kind # "native"
    /\ \/ view[v].dc /\ peer' = [peer EXCEPT ![v] = DcMessage(@)]
       \/ UNCHANGED peer
    /\ \/ loop.age >= Interval /\ loop' = [loop EXCEPT !.force = TRUE]
       \/ UNCHANGED loop
    /\ UNCHANGED <<mail, view, faults>>

\* Its decoder fails: it waits for another keyframe and asks for one.
DecoderFails(v) ==
    /\ view[v].wc = "decoding"
    /\ Fault("cut")
    /\ view' = [view EXCEPT ![v].wc = "waiting"]
    /\ peer' = [peer EXCEPT ![v] = DcMessage(@)]
    /\ UNCHANGED <<loop, mail>>

-----------------------------------------------------------------------------
(* The cadence tick (main.rs) *)

Wanting == {v \in Viewers : peer[v].wanted}
Forced == loop.force \/ Wanting # {}

\* The tick took the requests, and the capturer had no frame.
NoFrame ==
    /\ Wanting # {}
    /\ loop' = [loop EXCEPT !.force = Forced]
    /\ peer' = [v \in Viewers |-> [peer[v] EXCEPT !.wanted = FALSE]]
    /\ UNCHANGED <<mail, view, faults>>

\* How a peer is left by a push, when its CLVD keyframe is whole, cut short
\* (one coalesced request), or late (the 48 ms are over, nothing is asked).
Pushed(v, key, clvd) ==
    LET p == [peer[v] EXCEPT !.wanted = FALSE]
    IN  IF SendsClvd(p, key) /\ clvd = "cut" THEN Ask(p, Dual) ELSE p

\* How a viewer is left by it, when RTP loses the frame or not. The native
\* client drops what it cannot decode in time, and reports the first one.
Shown(v, key, lost, clvd) ==
    LET w == view[v]
        r == IF w.pic = "off" THEN w
             ELSE IF lost THEN [w EXCEPT !.pic = "broken", !.since = 0,
                                         !.due = w.pic = "good" \/ w.due]
             ELSE IF key THEN [w EXCEPT !.pic = "good", !.since = 0, !.due = FALSE]
             ELSE w
    IN  IF SendsClvd(peer[v], key) /\ clvd = "whole" /\ key /\ w.dc /\ w.kind = "chrome"
             /\ ~w.photon /\ w.wc \in {"off", "waiting"}
        THEN [r EXCEPT !.wc = "decoding"] ELSE r

\* One frame to every peer. RTP loses it for the viewers in lost; bad is what
\* happens to the CLVD copy of those in cut.
Push(key) ==
    \E lost, cut \in SUBSET Viewers, bad \in {"cut", "late"} :
       /\ lost \subseteq {v \in Viewers : view[v].pic # "off"}
       /\ cut \subseteq {v \in Viewers : SendsClvd(peer[v], key)}
       /\ cut = {} => bad = "cut"
       /\ lost # {} => "lost" \in Hazards
       /\ cut # {} => "cut" \in Hazards
       /\ faults' = faults + Cardinality(lost) + Cardinality(cut)
       /\ faults' <= MaxFaults
       /\ peer' = [v \in Viewers |-> Pushed(v, key, IF v \in cut THEN bad ELSE "whole")]
       /\ view' = [v \in Viewers |->
                     Shown(v, key, v \in lost, IF v \in cut THEN bad ELSE "whole")]
    /\ UNCHANGED mail

\* Mutant: the periodic keyframe is forgotten.
TickEncodedNoInterval ==
    LET key == loop.asked
    IN  /\ ~loop.raw
        /\ Push(key)
        /\ loop' = [loop EXCEPT !.force = FALSE, !.burst = 0,
                                !.asked = Forced \/ loop.burst > 0,
                                !.age = IF key THEN 0 ELSE loop.age, !.ticked = TRUE]

\* Encoded on Windows: the keyframe asked for is the frame that comes, and the
\* next one is asked for after the push.
TickEncoded ==
    LET key == loop.asked
        age == IF key THEN 0 ELSE loop.age
        due == age >= Interval
    IN  /\ ~loop.raw
        /\ Push(key)
        /\ loop' = [loop EXCEPT !.force = FALSE, !.burst = 0,
                                !.asked = Forced \/ loop.burst > 0 \/ due,
                                !.age = IF due /\ ~Forced /\ loop.burst = 0 THEN 0 ELSE age,
                                !.ticked = TRUE]

BurstLeft(n) == IF n > 0 THEN n - 1 ELSE 0

\* Encoded here: a join's request becomes a burst of keyframes, a hybrid
\* viewer's a single one. The first frame of an encoder is one by itself.
TickRaw ==
    LET hybrid == \E v \in Wanting : HybridDual(v)
        burst == IF Forced THEN (IF hybrid THEN 1 ELSE Burst) ELSE loop.burst
        key == burst > 0 \/ loop.age >= Interval
    IN  /\ loop.raw
        /\ Push(key \/ loop.asked)
        /\ loop' = [loop EXCEPT !.force = FALSE, !.asked = FALSE,
                                !.burst = BurstLeft(burst),
                                !.age = IF key THEN 0 ELSE @, !.ticked = TRUE]

-----------------------------------------------------------------------------
(* What happens around it *)

\* The Windows process falls back to raw pixels: the host's encoder starts,
\* and what was asked of the other one is forgotten.
FallBack == /\ ~loop.raw
            /\ loop' = [loop EXCEPT !.raw = TRUE, !.asked = TRUE]
            /\ UNCHANGED <<peer, mail, view, faults>>

\* A data channel backs up past what a keyframe tolerates, and drains.
Jam(v) == /\ peer[v].dc /\ ~peer[v].jam /\ Fault("jam")
          /\ peer' = [peer EXCEPT ![v].jam = TRUE]
          /\ UNCHANGED <<loop, mail, view>>
Drain(v) == /\ peer[v].jam
            /\ peer' = [peer EXCEPT ![v].jam = FALSE]
            /\ UNCHANGED <<loop, mail, view, faults>>

\* The host builds the peer again and the viewer follows the new offer. The
\* page resets its view only when the player passed through a waiting state.
Rebuild(v) ==
    /\ view[v].pic # "off" /\ Fault("rebuild")
    /\ peer' = [peer EXCEPT ![v] = NewPeer]
    /\ LET w == [NewView(view[v].kind) EXCEPT !.sent = view[v].sent]
           kept == [w EXCEPT !.wc = view[v].wc, !.photon = view[v].photon]
       IN  view' \in {[view EXCEPT ![v] = w], [view EXCEPT ![v] = kept]}
    /\ UNCHANGED <<loop, mail>>

\* A unit of time; ages stop at the largest value anything compares them with.
Elapse ==
    /\ loop.ticked
    /\ loop' = [loop EXCEPT !.age = Min2(@ + 1, Interval), !.ticked = FALSE]
    /\ peer' = [v \in Viewers |-> [peer[v] EXCEPT !.gap = Min2(@ + 1, Dual)]]
    /\ view' = [v \in Viewers |->
          [view[v] EXCEPT !.since = IF view[v].pic = "broken"
                                    THEN Min2(@ + 1, Interval + 2) ELSE 0]]
    /\ UNCHANGED <<mail, faults>>

PathNext ==
    \/ NoFrame \/ TickEncoded \/ TickRaw \/ FallBack \/ Elapse
    \/ \E v \in Viewers :
          \/ Connect(v) \/ HostOpensDc(v) \/ ViewOpensDc(v) \/ PathArrives(v)
          \/ Rtcp(v) \/ Statistics(v) \/ Paint(v) \/ DecoderFails(v)
          \/ Jam(v) \/ Drain(v) \/ Rebuild(v)

PathSpec == PathInit /\ [][PathNext]_pathVars

\* The loop ticks and time passes; connections come up, channels drain, the
\* decoder gives a picture, reports get through.
Fairness ==
    /\ WF_pathVars(TickEncoded \/ TickRaw) /\ WF_pathVars(Elapse)
    /\ \A v \in Viewers :
          /\ WF_pathVars(Connect(v)) /\ WF_pathVars(HostOpensDc(v)) /\ WF_pathVars(ViewOpensDc(v))
          /\ WF_pathVars(PathArrives(v)) /\ WF_pathVars(Paint(v)) /\ WF_pathVars(Drain(v))
FairSpec == PathSpec /\ Fairness

-----------------------------------------------------------------------------
(* Properties *)

\* A picture that RTP broke is whole again within one keyframe interval and the
\* time the answer takes, whoever the viewer is and whatever happens to its
\* requests (all of them may be ignored): the periodic keyframe is asked for
\* whether or not frames are forced, and a forced one never postpones it.
HealsInTime == \A v \in Viewers : view[v].since <= Interval + 1

\* A page that warms up its WebCodecs view gets the keyframe it needs, paints
\* and promotes, though keyframes are cut and the channel jams: nothing but the
\* periodic keyframe is sure to come, and it must go to the channel too.
WarmsUp == \A v \in Viewers :
    (view[v].kind = "chrome" /\ view[v].dc) ~> (view[v].photon \/ ~view[v].dc)
=============================================================================
