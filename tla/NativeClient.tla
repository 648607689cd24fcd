---------------------------- MODULE NativeClient ----------------------------
(***************************************************************************)
(* The native client (crates/client): the main thread with its window      *)
(* (main.rs, view.rs), the network thread's loop (main.rs async_main), the *)
(* task that reads the video track, and the decode thread                  *)
(* (webrtc_player.rs). A window that fails is replaced by a second loop on *)
(* the main thread, and a new join link by a new process.                  *)
(*                                                                         *)
(* A unit of the stream is parameter sets, a keyframe or a frame that      *)
(* refers to the one before; a picture is whether there is a newer one; a  *)
(* key is any of those that are pad buttons.                               *)
(***************************************************************************)
EXTENDS Integers, Sequences

CONSTANTS MaxBacklog,   \* MAX_NAL_BACKLOG
          MaxStarts     \* bound: processes, one after the other

ASSUME ClientAssumption == MaxBacklog \in Nat \ {0} /\ MaxStarts \in Nat \ {0}

VARIABLES main,     \* where the main thread stands
          window,   \* "none", "waiting" for a picture, "playing"
          result,   \* ViewResult of the window, or "failed"
          net,      \* the loops: of the network thread and of the main thread
          stop,     \* the shutdown channel holds a message, or lost its sender
          wire,     \* the websocket of the loop is open
          starts,   \* processes so far
          focus, held, kp, was, last,   \* keyboard: see below
          track, prev, given, orphan,   \* the stream and the task that reads it
          gate, shedding, reader,
          queue, backlog, decoder, decoded, ready

mainVars == <<main, window, result, stop, starts>>
keyVars == <<focus, held, kp, was, last>>
readVars == <<track, prev, given, orphan, gate, shedding, reader>>
videoVars == <<readVars, queue, backlog, decoder, decoded>>
vars == <<mainVars, net, wire, keyVars, videoVars, ready>>

Loops == {"thread", "main"}
Units == {"sets", "idr", "delta"}
Running(l) == net[l] # "off"

\* The keyboard: whether the window has the focus, the key is held, KeyboardPad
\* holds it, the last tick found it held, and the last frame sent said so.
KeysFresh == focus = TRUE /\ held = FALSE /\ kp = FALSE /\ was = FALSE /\ last = FALSE

VideoFresh ==
    /\ track' = FALSE /\ prev' = "delta" /\ given' = FALSE /\ orphan' = FALSE
    /\ gate' = FALSE /\ shedding' = FALSE /\ reader' = "idle"
    /\ queue' = <<>> /\ backlog' = 0 /\ decoder' = <<>> /\ decoded' = FALSE

Init ==
    /\ main = "view" /\ window = "waiting" /\ result = "none" /\ stop = FALSE /\ starts = 1
    /\ \E joins \in BOOLEAN :
          net = [l \in Loops |-> IF joins /\ l = "thread" THEN "ask" ELSE "off"]
    /\ wire = TRUE /\ KeysFresh
    /\ track = FALSE /\ prev = "delta" /\ given = FALSE /\ orphan = FALSE
    /\ gate = FALSE /\ shedding = FALSE /\ reader = "idle"
    /\ queue = <<>> /\ backlog = 0 /\ decoder = <<>> /\ decoded = FALSE /\ ready = FALSE

-----------------------------------------------------------------------------
(* The main thread *)

\* view::run: the window is closed, or, while there is no picture, a join link is
\* submitted or the window or its GPU cannot be had.
ViewResults == {"closed"} \cup (IF window = "waiting" THEN {"rejoin", "failed"} ELSE {})

\* The shutdown channel is told, or dropped.
WindowEnds ==
    /\ main = "view" /\ result' \in ViewResults
    /\ main' = "join" /\ window' = "none" /\ stop' = TRUE
    /\ UNCHANGED <<net, wire, starts, keyVars, videoVars, ready>>

\* Mutant: the failed window's network thread is not waited for.
JoinedUnlessFailed == net["thread"] = "off" \/ result = "failed"

\* The network thread has been joined.
Joined == net["thread"] = "off"

\* run_headless on this thread; without credentials the process ends.
FallBack ==
    /\ main = "join" /\ Joined /\ result = "failed"
    /\ \/ main' = "headless" /\ net' = [net EXCEPT !["main"] = "ask"] /\ wire' = TRUE
       \/ main' = "done" /\ UNCHANGED <<net, wire>>
    /\ UNCHANGED <<window, result, stop, starts, keyVars, videoVars, ready>>

\* exec, or a child that is waited for: a new process with the new link.
Reexec ==
    /\ main = "join" /\ Joined /\ result = "rejoin" /\ starts < MaxStarts
    /\ starts' = starts + 1
    /\ main' = "view" /\ window' = "waiting" /\ result' = "none" /\ stop' = FALSE
    /\ net' = [net EXCEPT !["thread"] = "ask"] /\ wire' = TRUE
    /\ focus' = TRUE /\ held' = held /\ kp' = FALSE /\ was' = FALSE /\ last' = FALSE
    /\ VideoFresh /\ ready' = FALSE

Exit ==
    /\ main = "join" /\ Joined /\ (result = "closed" \/ (result = "rejoin" /\ starts = MaxStarts))
    /\ main' = "done"
    /\ UNCHANGED <<window, result, net, stop, wire, starts, keyVars, videoVars, ready>>

HeadlessEnds ==
    /\ main = "headless" /\ net["main"] = "off" /\ main' = "done"
    /\ UNCHANGED <<window, result, net, stop, wire, starts, keyVars, videoVars, ready>>

\* ingest_latest_frame: the newest of the pictures, the others are skipped.
Present ==
    /\ main = "view" /\ ready
    /\ ready' = FALSE /\ window' = "playing"
    /\ UNCHANGED <<main, result, net, stop, wire, starts, keyVars, videoVars>>

\* A key is a letter of the join link while there is no picture. A release may
\* go to another window.
KeyEvent ==
    /\ main = "view"
    /\ held' = ~held
    /\ kp' = IF focus /\ window = "playing" THEN held' ELSE kp
    /\ UNCHANGED <<mainVars, net, wire, focus, was, last, videoVars, ready>>

\* Mutant: keys stay held when the focus goes.
ReleasedKept == kp
Released == FALSE

Focused(f) ==
    /\ main = "view" /\ focus' = f
    /\ kp' = IF f THEN kp ELSE Released
    /\ UNCHANGED <<mainVars, net, wire, held, was, last, videoVars, ready>>

-----------------------------------------------------------------------------
(* A loop: async_main *)

\* The loop ends: its runtime goes with the peer, the reader and the decoder.
LoopEnds(l) ==
    /\ net' = [net EXCEPT ![l] = "off"]
    /\ VideoFresh
    /\ UNCHANGED <<mainVars, wire, keyVars, ready>>

\* register_player: the server answers, refuses, or is gone.
Registered(l) ==
    /\ net[l] = "ask"
    /\ \/ net' = [net EXCEPT ![l] = "loop"] /\ wire
          /\ UNCHANGED <<mainVars, wire, keyVars, videoVars, ready>>
       \/ LoopEnds(l)

\* Mutant: the window is asked only before the loop.
StopSeenOnce(l) == FALSE
\* At the top of every turn, in the thread of a window.
StopSeen(l) == l = "thread" /\ stop

Stop(l) == net[l] = "loop" /\ StopSeen(l) /\ LoopEnds(l)

\* An offer: the track comes, or an error ends the loop; so does the end of the
\* websocket.
Offer(l) ==
    /\ net[l] = "loop" /\ wire
    /\ \/ ~track /\ track' = TRUE
          /\ UNCHANGED <<mainVars, net, wire, keyVars, prev, given, orphan, gate, shedding, reader,
                         queue, backlog, decoder, decoded, ready>>
       \/ LoopEnds(l)
WireEnds(l) == net[l] = "loop" /\ ~wire /\ LoopEnds(l)
Break == /\ wire /\ wire' = FALSE
         /\ UNCHANGED <<mainVars, net, keyVars, videoVars, ready>>

\* Pictures go on to the window, or nowhere.
Forward(l) ==
    /\ net[l] = "loop" /\ decoded /\ decoded' = FALSE
    /\ ready' = (ready \/ (l = "thread" /\ main = "view"))
    /\ UNCHANGED <<mainVars, net, wire, keyVars, readVars, queue, backlog, decoder>>

\* A tick without a controller: a frame while a key is held, and one more. The
\* headless loop has no keyboard.
Speaks == kp \/ was
Tick(l) ==
    /\ net[l] = "loop" /\ l = "thread" /\ Speaks
    /\ was' = kp /\ last' = kp
    /\ UNCHANGED <<mainVars, net, wire, focus, held, kp, videoVars, ready>>

-----------------------------------------------------------------------------
(* The task that reads the track, and the decode thread *)

Follows(u) == u = "idr" <=> prev = "sets"

Drop(u) == given' = FALSE /\ UNCHANGED <<queue, backlog, orphan, reader>>

\* Mutant: what is behind what was shed goes to the decoder.
GateAfterShedOpen == gate
GateAfterShed == FALSE

\* A unit arrives: none before parameter sets, none while too many wait; the
\* first that is shed asks for a keyframe.
Arrive(u) ==
    /\ track /\ reader = "idle" /\ Follows(u)
    /\ prev' = u
    /\ IF ~gate /\ u # "sets"
       THEN Drop(u) /\ UNCHANGED <<gate, shedding>>
       ELSE IF backlog > MaxBacklog
       THEN Drop(u) /\ gate' = (u # "sets" /\ GateAfterShed) /\ shedding' = TRUE
       ELSE /\ gate' = TRUE /\ shedding' = FALSE
            /\ reader' = u /\ given' = TRUE
            /\ orphan' = (u # "sets" /\ ~given)
            /\ backlog' = backlog + 1 /\ UNCHANGED queue
    /\ UNCHANGED <<mainVars, net, wire, keyVars, track, decoder, decoded, ready>>

\* The unit counted above is handed over.
HandOver ==
    /\ reader # "idle" /\ reader' = "idle"
    /\ queue' = Append(queue, reader)
    /\ UNCHANGED <<mainVars, net, wire, keyVars, track, prev, given, orphan, gate, shedding,
                   backlog, decoder, decoded, ready>>

Take ==
    /\ decoder = <<>> /\ queue # <<>>
    /\ decoder' = <<"taken", Head(queue)>> /\ queue' = Tail(queue)
    /\ UNCHANGED <<mainVars, net, wire, keyVars, readVars, backlog, decoded, ready>>

\* Mutant: a picture counts, not a unit.
CountedPictures(u) == IF u = "sets" THEN backlog ELSE backlog - 1
Counted(u) == backlog - 1

Discount(u) ==
    /\ decoder = <<"taken", u>> /\ decoder' = <<"counted", u>>
    /\ backlog' = Counted(u)
    /\ UNCHANGED <<mainVars, net, wire, keyVars, readVars, queue, decoded, ready>>

\* A keyframe or a frame gives a picture.
Decode(u) ==
    /\ decoder = <<"counted", u>> /\ decoder' = <<>>
    /\ decoded' = (decoded \/ u # "sets")
    /\ UNCHANGED <<mainVars, net, wire, keyVars, readVars, queue, backlog, ready>>

-----------------------------------------------------------------------------

Next ==
    \/ WindowEnds \/ FallBack \/ Reexec \/ Exit \/ HeadlessEnds \/ Present \/ KeyEvent \/ Break
    \/ HandOver \/ Take
    \/ \E f \in BOOLEAN : Focused(f)
    \/ \E u \in Units : Arrive(u) \/ Discount(u) \/ Decode(u)
    \/ \E l \in Loops : Registered(l) \/ Stop(l) \/ Offer(l) \/ WireEnds(l) \/ Forward(l) \/ Tick(l)

\* Threads run; the server answers a registration or its connection ends.
Fairness ==
    /\ WF_vars(FallBack) /\ WF_vars(Reexec) /\ WF_vars(Exit) /\ WF_vars(HeadlessEnds)
    /\ \A l \in Loops : WF_vars(Registered(l)) /\ WF_vars(Stop(l)) /\ WF_vars(WireEnds(l)) /\ WF_vars(Tick(l))

Spec == Init /\ [][Next]_vars /\ Fairness

-----------------------------------------------------------------------------
(* Properties *)

\* At no time do two loops of this client hold the controller and a seat: the
\* network thread is over before the main thread takes its place or the process
\* is replaced, "so there is no window of two clients" (main.rs rejoin_via_reexec).
OneClient == ~(Running("thread") /\ Running("main")) /\ (main = "done" => ~Running("thread"))

\* What the client itself sheds never reaches the decoder in pieces: a unit that
\* refers to another is handed on only behind it (webrtc_player.rs, on_track).
NeverOrphans == ~orphan

\* The counter two threads share is never less than what waits, and what waits
\* never more than the limit and one: the delay is bounded (MAX_NAL_BACKLOG).
DelayBounded ==
    /\ Len(queue) <= backlog /\ backlog <= Len(queue) + 2
    /\ Len(queue) <= MaxBacklog + 1

\* The last frame sent for a keyboard nobody touches, or that lost the focus, is
\* a neutral one: "plus one extra frame on the falling edge" (main.rs:605-611).
LastWord == <>[]((~held \/ ~focus) /\ net["thread"] = "loop") => <>[](~last)

\* A window that was closed, failed or gave a new link ends its network thread,
\* wherever that stands.
CloseEnds == main = "join" ~> main # "join"
=============================================================================
