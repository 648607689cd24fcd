------------------------------- MODULE Pads -------------------------------
(***************************************************************************)
(* One button of one player, from the player's source to the controller of *)
(* the seat: the native client's tick (client main.rs) or the browser's    *)
(* poll (web player.ts), the unordered and unreliable pad channel, the     *)
(* host's handler and reconnecting client (webrtc_peer.rs, virtual_pad.rs, *)
(* vhid_client.rs), and the companion's sessions and seat registry         *)
(* (ds-vhid session.rs), which may crash and be started again.             *)
(*                                                                         *)
(* A frame is whether the button is down. What a report says beyond that   *)
(* is the subject of PadReports. A connection outlives the host's use of   *)
(* it: the companion reads what was written before the host closed it.     *)
(***************************************************************************)
EXTENDS Integers, Sequences, FiniteSets

CONSTANTS Sources,     \* subset of {"pad", "keys", "web"}: what players hold
          Conns,       \* connections to the companion at a time; a controller made
                       \* for one has its number
          Preallocated, \* a controller made in advance
          MaxAir,      \* bound: frames on the pad channel
          MaxQueue,    \* bound: frames in a connection's buffers
          MaxFaults    \* bound: deaths of the companion, refusals of the controller's
                       \* driver, buffers full before a thread that reads, times
                       \* the host builds the player's peer again

ASSUME PadsAssumption ==
    /\ Sources \subseteq {"pad", "keys", "web"}
    /\ IsFiniteSet(Conns) /\ Conns \subseteq Nat \ {0} /\ Cardinality(Conns) > 1
    /\ Preallocated \in Nat \ (Conns \cup {0})
    /\ MaxAir \in Nat \ {0} /\ MaxQueue \in Nat \ {0}
    /\ MaxFaults \in Nat

VARIABLES source,    \* what this player holds
          down,      \* the button
          mark,      \* keyboard_was_active; the browser's lastPadHold
          burst,     \* the browser's resends that are due
          air,       \* frames on the channel: how many of each
          sock,      \* the host's connection, or 0: the pad injects nothing
          cool,      \* a reconnect was tried less than 250 ms ago
          conns,     \* the connections
          up,        \* the companion runs
          seat,      \* SlotRegistry: the seat's controller, or 0
          shown,     \* the button of that controller, as the game sees it
          left       \* faults that may still happen

vars == <<source, down, mark, burst, air, sock, cool, conns, up, seat, shown, left>>
player == <<source, down, mark, burst>>
companion == <<up, seat, shown>>

Controllers == Conns \cup {Preallocated}

\* The seat's controller when the companion starts: made in advance, or none yet.
AtStart == {0, Preallocated}

\* A connection: "hello" is sent, the controller is being made, reports are
\* read; nobody reads ("deaf"), the companion is gone, a write has noticed.
Alive == {"hello", "make", "serve", "deaf"}
Free == [state |-> "free", open |-> FALSE, inst |-> 0, queue |-> <<>>]
Fresh(queue) == [state |-> "hello", open |-> TRUE, inst |-> 0, queue |-> queue]
FreeConn == {c \in Conns : conns[c].state = "free"}

\* The host lets go of a connection: what it wrote is still read.
Closed(c) == IF conns[c].state \in {"hello", "make", "serve"} THEN [conns[c] EXCEPT !.open = FALSE]
             ELSE Free

-----------------------------------------------------------------------------
(* The player *)

Toggle == /\ down' = ~down
          /\ UNCHANGED <<source, mark, burst, air, sock, cool, conns, up, seat, shown, left>>

Put(b) == air' = IF air[TRUE] + air[FALSE] < MaxAir THEN [air EXCEPT ![b] = @ + 1] ELSE air

\* A controller that streams its reports, as the DualSense does, sends one on
\* every tick, pressed or not.
PadTick ==
    /\ source = "pad" /\ Put(down)
    /\ UNCHANGED <<player, sock, cool, conns, companion, left>>

\* The keyboard speaks while a key is down, and once more when none is.
Speaks == down \/ mark

KeyTick ==
    /\ source = "keys" /\ Speaks
    /\ mark' = down /\ Put(down)
    /\ UNCHANGED <<source, down, burst, sock, cool, conns, companion, left>>

\* holdDigitalOneTick: the last frame's buttons are kept when the poll finds none
\* within 5 ms of it, and are then the last frame's buttons.
\* Mutant: the time of the last frame is not looked at.
HeldAlways(prompt) == down \/ mark

Held(prompt) == down \/ (prompt /\ mark)

\* A poll, prompt when it is at most 5 ms after the last frame.
Poll(prompt) ==
    /\ source = "web"
    /\ LET b == Held(prompt)
       IN  /\ Put(b) /\ mark' = b
           /\ burst' = IF b /\ ~mark THEN 2 ELSE burst
    /\ UNCHANGED <<source, down, sock, cool, conns, companion, left>>

\* A rising edge is sent again after 1 and 3 ms, as it was.
Resend ==
    /\ burst > 0 /\ burst' = burst - 1 /\ Put(TRUE)
    /\ UNCHANGED <<source, down, mark, sock, cool, conns, companion, left>>

-----------------------------------------------------------------------------
(* The channel and the host *)

Lose ==
    /\ \E b \in BOOLEAN : air[b] > 0 /\ air' = [air EXCEPT ![b] = @ - 1]
    /\ UNCHANGED <<player, sock, cool, conns, companion, left>>

\* A write to a companion that is gone succeeds once.
CanWrite(c) ==
    \/ conns[c].state = "gone"
    \/ conns[c].state \in Alive /\ Len(conns[c].queue) < MaxQueue
Report(b) == IF b THEN "down" ELSE "up"
Written(c, b) == IF conns[c].state = "gone" THEN [conns[c] EXCEPT !.state = "reset"]
                 ELSE [conns[c] EXCEPT !.queue = Append(@, Report(b))]

\* VhidClient::apply fails: on a dead socket, or with part of a frame written
\* into one that is full.
Fails(c) ==
    \/ UNCHANGED conns
    \/ /\ conns[c].state \in Alive /\ Len(conns[c].queue) = MaxQueue
       /\ conns' = [conns EXCEPT ![c].queue = Append(@, "torn")]

\* Mutant: the client is never replaced.
ReconnectNever(b) == Fails(sock) /\ UNCHANGED <<cool, sock>>

\* ReconnectingVhid: at most one attempt in 250 ms; the frame that failed is the
\* first on the new connection.
Reconnect(b) ==
    IF cool \/ ~up
    THEN Fails(sock) /\ cool' = TRUE /\ UNCHANGED sock
    ELSE \E c \in FreeConn :
            /\ conns' = [conns EXCEPT ![c] = Fresh(<<Report(b)>>), ![sock] = Closed(sock)]
            /\ sock' = c /\ cool' = TRUE

\* setup_pad_channel's on_message: in the order of arrival, whatever the sequence number.
Deliver(b) ==
    /\ air[b] > 0 /\ air' = [air EXCEPT ![b] = @ - 1]
    /\ IF sock = 0 THEN UNCHANGED <<conns, cool, sock, left>>
       ELSE IF CanWrite(sock)
       THEN conns' = [conns EXCEPT ![sock] = Written(sock, b)] /\ UNCHANGED <<cool, sock, left>>
       ELSE IF conns[sock].state \in {"deaf", "reset"} THEN Reconnect(b) /\ UNCHANGED left
       ELSE left > 0 /\ left' = left - 1 /\ Reconnect(b)
    /\ UNCHANGED <<player, companion>>

CoolDown ==
    /\ cool /\ cool' = FALSE
    /\ UNCHANGED <<player, air, sock, conns, companion, left>>

\* The host builds the player's peer again: a new pad, which injects nothing when
\* the companion cannot be reached, and a new channel. The old peer goes after it.
Rebuild ==
    /\ left > 0 /\ left' = left - 1
    /\ air' = [b \in BOOLEAN |-> 0] /\ cool' = FALSE
    /\ mark' = (mark /\ source = "keys")
    /\ LET old == IF sock = 0 THEN conns ELSE [conns EXCEPT ![sock] = Closed(sock)]
       IN  IF ~up THEN conns' = old /\ sock' = 0
           ELSE \E c \in FreeConn : conns' = [old EXCEPT ![c] = Fresh(<<>>)] /\ sock' = c
    /\ UNCHANGED <<source, down, burst, companion>>

-----------------------------------------------------------------------------
(* The companion: a thread for each connection *)

\* get_or_create: the registry is looked at, and unlocked.
Lookup(c) ==
    /\ conns[c].state = "hello"
    /\ conns' = [conns EXCEPT ![c].state = IF seat = 0 THEN "make" ELSE "serve", ![c].inst = seat]
    /\ UNCHANGED <<player, air, sock, cool, companion, left>>

\* Mutant: the controller made last is registered.
RegisteredLast(c) == c

\* The registry is looked at again: whoever was first is kept.
Registered(c) == IF seat = 0 THEN c ELSE seat

\* The driver has made a controller, or has refused.
Make(c) ==
    /\ conns[c].state = "make"
    /\ \/ /\ seat' = Registered(c) /\ shown' = (shown /\ seat' = seat)
          /\ conns' = [conns EXCEPT ![c].state = "serve", ![c].inst = Registered(c)]
          /\ UNCHANGED left
       \/ /\ left > 0 /\ left' = left - 1
          /\ conns' = [conns EXCEPT ![c] = IF @.open THEN [@ EXCEPT !.state = "gone", !.queue = <<>>]
                                           ELSE Free]
          /\ UNCHANGED <<seat, shown>>
    /\ UNCHANGED <<player, air, sock, cool, up>>

\* Nobody reads any more, but the writer's half keeps the socket open.
Deafened(c) == IF conns[c].open THEN [conns[c] EXCEPT !.state = "deaf"] ELSE Free

\* serve_duplex: a report is applied; a torn one, or one that the driver
\* refuses, ends the reading; so does the end of the stream.
Serve(c) ==
    /\ conns[c].state = "serve"
    /\ IF conns[c].queue = <<>>
       THEN ~conns[c].open /\ conns' = [conns EXCEPT ![c] = Free] /\ UNCHANGED <<shown, left>>
       ELSE IF Head(conns[c].queue) = "torn"
       THEN conns' = [conns EXCEPT ![c] = Deafened(c)] /\ UNCHANGED <<shown, left>>
       ELSE \/ /\ shown' = IF conns[c].inst = seat THEN Head(conns[c].queue) = "down" ELSE shown
               /\ conns' = [conns EXCEPT ![c].queue = Tail(@)] /\ UNCHANGED left
            \/ /\ left > 0 /\ left' = left - 1
               /\ conns' = [conns EXCEPT ![c] = Deafened(c)] /\ UNCHANGED shown
    /\ UNCHANGED <<player, air, sock, cool, up, seat>>

\* The companion dies: its controllers and its ends of the sockets go with it.
Died(c) == IF ~conns[c].open THEN Free
           ELSE IF conns[c].state \in Alive THEN [Free EXCEPT !.state = "gone", !.open = TRUE]
           ELSE conns[c]

Crash ==
    /\ up /\ left > 0 /\ left' = left - 1
    /\ up' = FALSE /\ seat' = 0 /\ shown' = FALSE
    /\ conns' = [c \in Conns |-> Died(c)]
    /\ UNCHANGED <<player, air, sock, cool>>

\* It starts, with the seats' controllers made in advance or not.
Start ==
    /\ ~up /\ up' = TRUE /\ seat' \in AtStart
    /\ UNCHANGED <<player, air, sock, cool, conns, shown, left>>

-----------------------------------------------------------------------------

Init ==
    /\ source \in Sources /\ down = FALSE /\ mark = FALSE /\ burst = 0
    /\ air = [b \in BOOLEAN |-> 0] /\ cool = FALSE
    /\ up = TRUE /\ seat \in AtStart /\ shown = FALSE
    /\ sock = (CHOOSE c \in Conns : TRUE) /\ conns = [c \in Conns |-> IF c = sock THEN Fresh(<<>>) ELSE Free]
    /\ left = MaxFaults

Next ==
    \/ Toggle \/ PadTick \/ KeyTick \/ Resend \/ Lose \/ CoolDown \/ Rebuild \/ Crash \/ Start
    \/ \E b \in BOOLEAN : Poll(b) \/ Deliver(b)
    \/ \E c \in Conns : Lookup(c) \/ Make(c) \/ Serve(c)

\* Ticks, polls and threads go on, some polls are late, the channel loses some
\* frames but not all of a kind, and a companion that died is started again.
Fairness ==
    /\ WF_vars(PadTick) /\ WF_vars(KeyTick) /\ WF_vars(Poll(FALSE)) /\ WF_vars(Resend)
    /\ \A b \in BOOLEAN : SF_vars(Deliver(b))
    /\ WF_vars(CoolDown) /\ WF_vars(Start)
    /\ \A c \in Conns : WF_vars(Lookup(c)) /\ WF_vars(Make(c)) /\ WF_vars(Serve(c))

Spec == Init /\ [][Next]_vars /\ Fairness

-----------------------------------------------------------------------------
(* Properties *)

\* Every connection is served by the one controller of the seat: a reconnect
\* during the lazy creation, the lost race of two creations and a connection of
\* an earlier peer never bring a second one (session.rs get_or_create).
OneController ==
    \A c \in Conns : conns[c].state = "serve" => conns[c].inst = seat /\ seat # 0

\* The seat's controller is never exchanged while the companion runs, so that the
\* emulator's binding stays good (session.rs SlotRegistry: "Never re-created").
SeatKept == [][seat # 0 /\ up' => seat' = seat]_vars

\* A button that stays down is in the end seen by the game, and stays so, over
\* lost and reordered frames, a dead companion, full buffers, torn reports and
\* connections nobody reads; unless the pad was built without a companion.
PressFollows == <>[](down /\ sock # 0) => <>[]shown

\* One that stays up is in the end seen to be up, with a controller and in the
\* browser, whose polls must now and then be late. The keyboard's one last frame
\* may be lost.
ReleaseFollows == (source # "keys" /\ <>[](~down /\ sock # 0)) => <>[]~shown
=============================================================================
