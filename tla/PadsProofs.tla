----------------------------- MODULE PadsProofs -----------------------------
(***************************************************************************)
(* Theorems about Pads: whatever connections come and go, a seat has one   *)
(* controller, for any number of connections, frames and faults; and about *)
(* PadReports: whatever controller is held and whatever virtual one the    *)
(* host has, the game sees what the player does. The tables of the layouts *)
(* are compared first, then each parser, the packet and each mapping is    *)
(* shown to keep what a report says, and the invariant says of every step  *)
(* that the game knows what it was told last.                              *)
(***************************************************************************)
EXTENDS Pads, PadReports, FiniteSetTheorems, TLAPS

-----------------------------------------------------------------------------

States == {"free", "hello", "make", "serve", "deaf", "gone", "reset"}
Connection == [state : States, open : BOOLEAN, inst : Controllers \cup {0},
               queue : Seq({"up", "down", "torn"})]

\* A connection that is served is served by the seat's controller; a dead
\* companion serves none and has none.
Sound(c) ==
    /\ conns[c].state = "serve" => conns[c].inst = seat /\ seat # 0
    /\ ~up => conns[c].state \notin Alive

PadsInv ==
    /\ conns \in [Conns -> Connection]
    /\ seat \in Controllers \cup {0} /\ sock \in Conns \cup {0} /\ up \in BOOLEAN
    /\ ~up => seat = 0
    /\ \A c \in Conns : Sound(c)

\* The seat's controller is kept by a step.
Keeps == seat # 0 /\ up' => seat' = seat

LEMMA FreeTyped == Free \in Connection
BY DEF Free, Connection, States

LEMMA FreshTyped == ASSUME NEW q \in Seq({"up", "down", "torn"}) PROVE Fresh(q) \in Connection
BY DEF Fresh, Connection, States

LEMMA ReportTyped == \A b : Report(b) \in {"up", "down", "torn"}
BY DEF Report

\* A connection with something more to read.
LEMMA QueuedTyped ==
  ASSUME NEW k \in Connection, NEW r \in {"up", "down", "torn"}
  PROVE  /\ [k EXCEPT !.queue = Append(@, r)] \in Connection
         /\ [k EXCEPT !.queue = Append(@, r)].state = k.state
         /\ [k EXCEPT !.queue = Append(@, r)].inst = k.inst
<1>1. Append(k.queue, r) \in Seq({"up", "down", "torn"})
  BY DEF Connection
<1>2. QED
  BY <1>1 DEF Connection

\* Letting go of a connection starts nothing on it.
LEMMA ClosedTyped ==
  ASSUME conns \in [Conns -> Connection], NEW c \in Conns
  PROVE  /\ Closed(c) \in Connection
         /\ Closed(c).state \in {conns[c].state, "free"}
         /\ Closed(c).state = "serve" => Closed(c).inst = conns[c].inst
<1>1. CASE conns[c].state \in {"hello", "make", "serve"}
  BY <1>1 DEF Closed, Connection
<1>2. CASE conns[c].state \notin {"hello", "make", "serve"}
  BY <1>2, FreeTyped DEF Closed, Free
<1>3. QED
  BY <1>1, <1>2

\* A step of one connection that leaves the seat alone.
LEMMA OneConnection ==
  ASSUME PadsInv, NEW c \in Conns, NEW k \in Connection,
         conns' = [conns EXCEPT ![c] = k], UNCHANGED <<seat, up, sock>>,
         k.state = "serve" => k.inst = seat /\ seat # 0,
         ~up => k.state \notin Alive
  PROVE  PadsInv' /\ Keeps
BY DEF PadsInv, Sound, Keeps

LEMMA InitSound == Init => PadsInv
<1> SUFFICES ASSUME Init PROVE PadsInv
  OBVIOUS
<1>1. Conns # {}
  BY PadsAssumption, FS_EmptySet
<1>2. sock \in Conns
  BY <1>1 DEF Init
<1>3. conns \in [Conns -> Connection]
  <2>1. <<>> \in Seq({"up", "down", "torn"})
    OBVIOUS
  <2>2. Fresh(<<>>) \in Connection
    BY <2>1, FreshTyped
  <2>3. QED
    BY <2>2, FreeTyped DEF Init
<1>4. \A c \in Conns : conns[c].state \in {"free", "hello"}
  BY DEF Init, Fresh, Free
<1>5. seat \in Controllers \cup {0} /\ up = TRUE
  BY DEF Init, AtStart, Controllers
<1>6. QED
  BY <1>2, <1>3, <1>4, <1>5 DEF PadsInv, Sound

\* What the host does to the connections: it closes one and may open another.
LEMMA HostOpens ==
  ASSUME PadsInv, up, NEW o \in Conns \cup {0}, NEW c \in FreeConn,
         NEW q \in Seq({"up", "down", "torn"}),
         \/ conns' = [[conns EXCEPT ![o] = Closed(o)] EXCEPT ![c] = Fresh(q)]
         \/ conns' = [conns EXCEPT ![c] = Fresh(q), ![o] = Closed(o)],
         o # 0, UNCHANGED <<seat, up>>, sock' = c
  PROVE  PadsInv' /\ Keeps
<1>1. c \in Conns /\ o \in Conns
  BY DEF FreeConn
<1>2. Closed(o) \in Connection /\ Fresh(q) \in Connection
  BY <1>1, ClosedTyped, FreshTyped DEF PadsInv
<1>3. conns' \in [Conns -> Connection]
  BY <1>1, <1>2 DEF PadsInv
<1>4. ASSUME NEW d \in Conns PROVE Sound(d)'
  <2>1. conns'[d] \in {conns[d], Fresh(q), Closed(d)}
    BY <1>1, <1>2 DEF PadsInv
  <2>2. CASE conns'[d] = conns[d]
    BY <2>2 DEF Sound, PadsInv
  <2>3. CASE conns'[d] = Fresh(q)
    BY <2>3 DEF Sound, Fresh
  <2>4. CASE conns'[d] = Closed(d)
    BY <2>4, ClosedTyped DEF Sound, PadsInv
  <2>5. QED
    BY <2>1, <2>2, <2>3, <2>4
<1>5. QED
  BY <1>1, <1>3, <1>4 DEF PadsInv, Keeps

LEMMA FailsSound ==
  ASSUME PadsInv, sock \in Conns, Fails(sock), UNCHANGED <<seat, up, sock>>
  PROVE  PadsInv' /\ Keeps
<1>1. CASE UNCHANGED conns
  BY <1>1 DEF PadsInv, Sound, Keeps
<1>2. CASE conns' = [conns EXCEPT ![sock].queue = Append(@, "torn")]
  <2> DEFINE k == [conns[sock] EXCEPT !.queue = Append(@, "torn")]
  <2>1. k \in Connection /\ k.state = conns[sock].state /\ k.inst = conns[sock].inst
    BY QueuedTyped DEF PadsInv
  <2>2. conns' = [conns EXCEPT ![sock] = k]
    BY <1>2
  <2> HIDE DEF k
  <2>3. Sound(sock)
    BY DEF PadsInv
  <2>4. QED
    BY <2>1, <2>2, <2>3, OneConnection DEF Sound
<1>3. QED
  BY <1>1, <1>2 DEF Fails

LEMMA DeliverSound == ASSUME PadsInv, NEW b \in BOOLEAN, Deliver(b) PROVE PadsInv' /\ Keeps
<1>1. UNCHANGED <<up, seat>>
  BY DEF Deliver, companion
<1>2. CASE sock = 0
  BY <1>1, <1>2 DEF Deliver, PadsInv, Sound, Keeps
<1>3. CASE sock # 0
  <2>1. sock \in Conns
    BY <1>3 DEF PadsInv
  <2>2. CASE CanWrite(sock)
    <3>1. Written(sock, b) \in Connection
      <4>1. CASE conns[sock].state = "gone"
        BY <2>1, <4>1 DEF Written, PadsInv, Connection, States
      <4>2. CASE conns[sock].state # "gone"
        BY <2>1, <4>2, ReportTyped, QueuedTyped DEF Written, PadsInv
      <4>3. QED
        BY <4>1, <4>2
    <3>2. /\ Written(sock, b).state = "serve" => conns[sock].state = "serve"
          /\ Written(sock, b).state \in Alive => conns[sock].state \in Alive
          /\ Written(sock, b).inst = conns[sock].inst
      BY <2>1 DEF Written, PadsInv, Connection, Alive
    <3>3. conns' = [conns EXCEPT ![sock] = Written(sock, b)] /\ sock' = sock
      BY <1>3, <2>2 DEF Deliver
    <3>4. Sound(sock)
      BY <2>1 DEF PadsInv
    <3>5. QED
      BY <1>1, <2>1, <3>1, <3>2, <3>3, <3>4, OneConnection DEF Sound
  <2>3. CASE ~CanWrite(sock)
    <3>1. Reconnect(b)
      BY <1>3, <2>3 DEF Deliver
    <3>2. CASE cool \/ ~up
      BY <1>1, <2>1, <3>1, <3>2, FailsSound DEF Reconnect
    <3>3. CASE ~(cool \/ ~up)
      <4>1. <<Report(b)>> \in Seq({"up", "down", "torn"})
        BY ReportTyped
      <4>2. PICK c \in FreeConn :
               /\ conns' = [conns EXCEPT ![c] = Fresh(<<Report(b)>>), ![sock] = Closed(sock)]
               /\ sock' = c
        BY <3>1, <3>3 DEF Reconnect
      <4>3. QED
        BY <1>1, <1>3, <2>1, <3>3, <4>1, <4>2, HostOpens
    <3>4. QED
      BY <3>2, <3>3
  <2>4. QED
    BY <2>2, <2>3
<1>4. QED
  BY <1>2, <1>3

LEMMA RebuildSound == PadsInv /\ Rebuild => PadsInv' /\ Keeps
<1> SUFFICES ASSUME PadsInv, Rebuild PROVE PadsInv' /\ Keeps
  OBVIOUS
<1> DEFINE old == IF sock = 0 THEN conns ELSE [conns EXCEPT ![sock] = Closed(sock)]
<1>1. UNCHANGED <<up, seat>>
  BY DEF Rebuild, companion
<1>2. CASE ~up
  <2>1. conns' = old /\ sock' = 0
    BY <1>2 DEF Rebuild
  <2>2. CASE sock = 0
    BY <1>1, <2>1, <2>2 DEF PadsInv, Sound, Keeps
  <2>3. CASE sock # 0
    <3>1. sock \in Conns /\ conns' = [conns EXCEPT ![sock] = Closed(sock)]
      BY <2>1, <2>3 DEF PadsInv
    <3>2. conns' \in [Conns -> Connection]
      BY <3>1, ClosedTyped DEF PadsInv
    <3>3. ASSUME NEW d \in Conns PROVE Sound(d)'
      BY <1>1, <3>1, <3>3, ClosedTyped DEF PadsInv, Sound, Alive
    <3>4. QED
      BY <1>1, <2>1, <3>2, <3>3 DEF PadsInv, Keeps
  <2>4. QED
    BY <2>2, <2>3
<1>3. CASE up
  <2>1. PICK c \in FreeConn : conns' = [old EXCEPT ![c] = Fresh(<<>>)] /\ sock' = c
    BY <1>3 DEF Rebuild
  <2>2. <<>> \in Seq({"up", "down", "torn"})
    OBVIOUS
  <2>3. CASE sock = 0
    <3>1. Fresh(<<>>) \in Connection /\ c \in Conns
      BY <2>1, <2>2, FreshTyped DEF FreeConn
    <3>2. conns' = [conns EXCEPT ![c] = Fresh(<<>>)]
      BY <2>1, <2>3
    <3>3. QED
      BY <1>1, <1>3, <2>1, <3>1, <3>2 DEF PadsInv, Sound, Keeps, Fresh
  <2>4. CASE sock # 0
    BY <1>1, <1>3, <2>1, <2>2, <2>4, HostOpens DEF PadsInv
  <2>5. QED
    BY <2>3, <2>4
<1>4. QED
  BY <1>2, <1>3 DEF PadsInv

-----------------------------------------------------------------------------
(* The companion *)

LEMMA LookupSound == ASSUME PadsInv, NEW c \in Conns, Lookup(c) PROVE PadsInv' /\ Keeps
<1> DEFINE k == [conns[c] EXCEPT !.state = IF seat = 0 THEN "make" ELSE "serve", !.inst = seat]
<1>1. conns' = [conns EXCEPT ![c] = k] /\ UNCHANGED <<seat, up, sock>>
  BY DEF Lookup, companion
<1>2. k \in Connection /\ k.inst = seat /\ (k.state = "serve" => seat # 0)
  BY DEF PadsInv, Connection, States
<1>3. up
  BY DEF Lookup, PadsInv, Sound, Alive
<1> HIDE DEF k
<1>4. QED
  BY <1>1, <1>2, <1>3, OneConnection

\* Two threads may have made one each: whichever was first stays.
LEMMA MakeSound == ASSUME PadsInv, NEW c \in Conns, Make(c) PROVE PadsInv' /\ Keeps
<1>1. up /\ UNCHANGED <<up, sock>>
  BY DEF Make, PadsInv, Sound, Alive
<1>2. CASE /\ seat' = Registered(c)
           /\ conns' = [conns EXCEPT ![c].state = "serve", ![c].inst = Registered(c)]
  <2>1. seat' \in Controllers /\ seat' # 0 /\ (seat # 0 => seat' = seat)
    BY <1>2, PadsAssumption DEF Registered, Controllers, PadsInv
  <2> DEFINE k == [conns[c] EXCEPT !.state = "serve", !.inst = seat']
  <2>2. conns' = [conns EXCEPT ![c] = k]
    BY <1>2
  <2>3. k \in Connection /\ k.inst = seat'
    BY <2>1 DEF PadsInv, Connection, States
  <2> HIDE DEF k
  <2>4. conns' \in [Conns -> Connection]
    BY <2>2, <2>3 DEF PadsInv
  <2>5. ASSUME NEW d \in Conns PROVE Sound(d)'
    <3>1. CASE d = c
      BY <1>1, <2>1, <2>2, <2>3, <3>1 DEF Sound, PadsInv
    <3>2. CASE d # c
      BY <1>1, <2>1, <2>2, <3>2 DEF Sound, PadsInv
    <3>3. QED
      BY <3>1, <3>2
  <2>6. QED
    BY <1>1, <2>1, <2>4, <2>5 DEF PadsInv, Keeps
<1>3. CASE /\ UNCHANGED seat
           /\ conns' = [conns EXCEPT ![c] = IF @.open THEN [@ EXCEPT !.state = "gone", !.queue = <<>>]
                                            ELSE Free]
  <2> DEFINE k == IF conns[c].open THEN [conns[c] EXCEPT !.state = "gone", !.queue = <<>>] ELSE Free
  <2>1. conns' = [conns EXCEPT ![c] = k]
    BY <1>3
  <2>2. <<>> \in Seq({"up", "down", "torn"})
    OBVIOUS
  <2>3. k \in Connection /\ k.state \in {"gone", "free"}
    BY <2>2, FreeTyped DEF PadsInv, Connection, States, Free
  <2> HIDE DEF k
  <2>4. QED
    BY <1>1, <1>3, <2>1, <2>3, OneConnection
<1>4. QED
  BY <1>2, <1>3 DEF Make

LEMMA ServeSound == ASSUME PadsInv, NEW c \in Conns, Serve(c) PROVE PadsInv' /\ Keeps
<1>1. conns[c] \in Connection /\ conns[c].state = "serve" /\ UNCHANGED <<seat, up, sock>>
  BY DEF Serve, PadsInv
<1>2. up /\ conns[c].inst = seat /\ seat # 0
  BY <1>1 DEF PadsInv, Sound, Alive
<1>3. ASSUME NEW k \in Connection, k.inst \in {seat, 0}, k.state = "serve" => k.inst = seat,
             conns' = [conns EXCEPT ![c] = k]
      PROVE  PadsInv' /\ Keeps
  BY <1>1, <1>2, <1>3, OneConnection
<1>4. CASE conns' = [conns EXCEPT ![c] = Free]
  BY <1>3, <1>4, FreeTyped DEF Free
<1>5. CASE conns' = [conns EXCEPT ![c] = Deafened(c)]
  <2>1. Deafened(c) \in Connection /\ Deafened(c).state \in {"deaf", "free"}
        /\ Deafened(c).inst \in {seat, 0}
    BY <1>1, <1>2, FreeTyped DEF Deafened, Connection, States, Free
  <2>2. QED
    BY <1>3, <1>5, <2>1
<1>6. CASE conns[c].queue # <<>> /\ conns' = [conns EXCEPT ![c].queue = Tail(@)]
  <2> DEFINE k == [conns[c] EXCEPT !.queue = Tail(@)]
  <2>1. Tail(conns[c].queue) \in Seq({"up", "down", "torn"})
    BY <1>1, <1>6 DEF Connection
  <2>2. k \in Connection /\ k.inst = seat
    BY <1>1, <1>2, <2>1 DEF Connection
  <2>3. conns' = [conns EXCEPT ![c] = k]
    BY <1>6
  <2> HIDE DEF k
  <2>4. QED
    BY <1>3, <2>2, <2>3
<1>7. QED
  BY <1>4, <1>5, <1>6 DEF Serve

LEMMA CrashSound == PadsInv /\ (Crash \/ Start) => PadsInv' /\ Keeps
<1> SUFFICES ASSUME PadsInv, Crash \/ Start PROVE PadsInv' /\ Keeps
  OBVIOUS
<1>1. CASE Crash
  <2>1. ASSUME NEW c \in Conns
        PROVE  Died(c) \in Connection /\ Died(c).state \notin Alive
    <3>1. [Free EXCEPT !.state = "gone", !.open = TRUE] \in Connection
      BY FreeTyped DEF Free, Connection, States
    <3>2. QED
      BY <3>1, FreeTyped DEF Died, PadsInv, Free, Alive
  <2>2. conns' = [c \in Conns |-> Died(c)] /\ up' = FALSE /\ seat' = 0 /\ sock' = sock
    BY <1>1 DEF Crash
  <2>3. conns' \in [Conns -> Connection] /\ \A c \in Conns : conns'[c].state \notin Alive
    BY <2>1, <2>2
  <2>4. QED
    BY <2>2, <2>3 DEF PadsInv, Sound, Keeps, Alive
<1>2. CASE Start
  <2>1. UNCHANGED <<conns, sock>> /\ ~up /\ up' = TRUE /\ seat' \in AtStart
    BY <1>2 DEF Start
  <2>2. \A c \in Conns : conns[c].state # "serve" /\ seat = 0
    BY <2>1 DEF PadsInv, Sound, Alive
  <2>3. QED
    BY <2>1, <2>2 DEF PadsInv, Sound, Keeps, AtStart, Controllers
<1>3. QED
  BY <1>1, <1>2

LEMMA StepSound == PadsInv /\ [Next]_vars => PadsInv' /\ Keeps
<1> SUFFICES ASSUME PadsInv, [Next]_vars PROVE PadsInv' /\ Keeps
  OBVIOUS
<1>1. CASE UNCHANGED <<conns, seat, up, sock>>
  BY <1>1 DEF PadsInv, Sound, Keeps
<1>2. Toggle \/ PadTick \/ KeyTick \/ Resend \/ Lose \/ CoolDown \/ (\E b \in BOOLEAN : Poll(b))
        \/ UNCHANGED vars => UNCHANGED <<conns, seat, up, sock>>
  BY DEF Toggle, PadTick, KeyTick, Resend, Lose, CoolDown, Poll, vars, companion, player
<1>3. QED
  BY <1>1, <1>2, DeliverSound, RebuildSound, LookupSound, MakeSound, ServeSound, CrashSound
     DEF Next

LEMMA AlwaysSound == Spec => []PadsInv
BY InitSound, StepSound, PTL DEF Spec

\* Whoever connects and whichever creation wins, one controller serves a seat
\* (OneController in Pads).
THEOREM OneControllerServes == Spec => []OneController
<1>1. PadsInv => OneController
  BY DEF PadsInv, Sound, OneController
<1>2. QED
  BY <1>1, AlwaysSound, PTL

\* No step of a companion that runs exchanges a seat's controller (SeatKept in
\* Pads).
THEOREM SeatIsKept == Spec => SeatKept
<1>1. PadsInv /\ [Next]_vars => [seat # 0 /\ up' => seat' = seat]_vars
  BY StepSound DEF Keeps
<1>2. QED
  BY <1>1, AlwaysSound, PTL DEF Spec, SeatKept

-----------------------------------------------------------------------------
(* A press on its way to the game *)

Buttons == DOMAIN Bit

\* What a frame says of a trigger.
Level(frame, t) == IF t = "L2" THEN frame.l2 ELSE frame.r2

\* An axis leans the way its stick is pushed, or is read as at rest.
Leans(x, v) ==
  /\ x \in Nat /\ x <= 255
  /\ v = 0 => x \in {127, 128}
  /\ v > 0 => x >= 131
  /\ v < 0 => x <= 124

\* A frame says that the buttons bs are down and how the triggers and the sticks
\* are; one without trigger axes says it with a button.
Says(frame, bs, p, s, axes) ==
  /\ frame = Frame(frame.buttons, frame.axis, frame.l2, frame.r2)
  /\ frame.buttons \subseteq Buttons /\ frame.buttons \ Triggers = bs
  /\ frame.l2 \in 0 .. 255 /\ frame.r2 \in 0 .. 255
  /\ \A t \in Triggers :
       /\ t \in frame.buttons \/ Level(frame, t) > 0 => p[1] = t
       /\ p[1] = t => Level(frame, t) > 0 \/ (~axes /\ t \in frame.buttons)
  /\ frame.axis = [a \in Axes |-> frame.axis[a]]
  /\ \A a \in Axes : Leans(frame.axis[a], Pushed(s, a))

-----------------------------------------------------------------------------
(* Tables *)

\* A parser that looks for each button where the report has it finds those down.
LEMMA FoundDown ==
  ASSUME NEW spot, NEW places, NEW bs \in SUBSET DOMAIN spot,
         \A d \in DOMAIN spot, b \in DOMAIN places : spot[d] \in places[b] <=> d = b
  PROVE  Found(places, {spot[d] : d \in bs}) = bs \cap DOMAIN places
BY DEF Found

\* The Sony parsers look where the report has the button, from any first byte.
LEMMA PsSpots ==
  ASSUME NEW first \in Nat
  PROVE  /\ DOMAIN PsWire(first) = DOMAIN PsPlaces(first)
         /\ \A d, b \in DOMAIN PsPlaces(first) : PsWire(first)[d] \in PsPlaces(first)[b] <=> d = b
<1>1. DOMAIN PsWire(first) = DOMAIN PsPlaces(first)
  BY DEF PsWire, PsPlaces, Faces, Ps9, Ps10
<1>2. \A b \in DOMAIN PsPlaces(first) : PsPlaces(first)[b] = {PsWire(first)[b]}
  BY SMTT(60) DEF PsWire, PsPlaces, Faces, Ps8, Ps9, Ps10
<1>3. \A d, b \in DOMAIN PsPlaces(first) : PsWire(first)[d] = PsWire(first)[b] => d = b
  BY SMTT(60) DEF PsWire, PsPlaces, Faces, Ps8, Ps9, Ps10
<1>4. QED
  BY <1>1, <1>2, <1>3

\* So do those of the Switch
LEMMA SwitchSpots ==
  /\ DOMAIN SwitchWire = DOMAIN SwitchPlaces
  /\ \A d, b \in DOMAIN SwitchPlaces : SwitchWire[d] \in SwitchPlaces[b] <=> d = b
BY SMTT(60) DEF SwitchWire, SwitchPlaces

\* and of the Steam controller
LEMMA SteamSpots ==
  /\ DOMAIN SteamWire = DOMAIN SteamPlaces
  /\ \A d, b \in DOMAIN SteamPlaces : SteamWire[d] \in SteamPlaces[b] <=> d = b
BY SMTT(60) DEF SteamWire, SteamPlaces

\* and the Xbox parsers, one byte further on, each with its own layout.
LEMMA XboxSpots ==
  ASSUME NEW legacy \in BOOLEAN, NEW wire, wire = IF legacy THEN LegacyWire ELSE XboxWire
  PROVE  /\ DOMAIN wire = DOMAIN XboxWire
         /\ DOMAIN XboxPlaces(legacy) = DOMAIN XboxWire \ (IF legacy THEN {"PS"} ELSE {})
         /\ \A d \in DOMAIN wire, b \in DOMAIN XboxPlaces(legacy) :
                 <<wire[d][1] - 1, wire[d][2]>> \in XboxPlaces(legacy)[b] <=> d = b
<1>1. CASE ~legacy
  <2>1. wire = XboxWire
    BY <1>1
  <2>2. DOMAIN XboxPlaces(legacy) = DOMAIN XboxWire
    BY <1>1 DEF XboxPlaces
  <2>3. \A d \in DOMAIN XboxWire : XboxPlaces(FALSE)[d] =
          CASE d \in DOMAIN XboxFront -> XboxFront[d]
            [] d = "CREATE" -> {<<13, 64>>} \cup {<<14, 4>>, <<15, 1>>}
            [] d = "OPTIONS" -> {<<13, 128>>} \cup {<<14, 8>>}
            [] d = "PS" -> {<<14, 16>>}
            [] d \in {"L3", "R3"} -> {<<14, XboxClicks(FALSE)[d]>>}
    <3>1. DOMAIN XboxWire \ {} = DOMAIN XboxWire
      OBVIOUS
    <3>2. QED
      BY <3>1 DEF XboxPlaces
  <2>4. \A d, b \in DOMAIN XboxWire :
          <<XboxWire[d][1] - 1, XboxWire[d][2]>> \in XboxPlaces(FALSE)[b] <=> d = b
    <3> DEFINE seen == XboxPlaces(FALSE)
    <3>1. /\ seen["CROSS"] = {<<13, 1>>} /\ seen["CIRCLE"] = {<<13, 2>>} /\ seen["SQUARE"] = {<<13, 4>>}
          /\ seen["TRIANGLE"] = {<<13, 8>>} /\ seen["L1"] = {<<13, 16>>} /\ seen["R1"] = {<<13, 32>>}
      BY <2>3 DEF XboxFront, XboxWire
    <3>2. /\ seen["CREATE"] = {<<13, 64>>} \cup {<<14, 4>>, <<15, 1>>}
          /\ seen["OPTIONS"] = {<<13, 128>>} \cup {<<14, 8>>} /\ seen["PS"] = {<<14, 16>>}
      BY <2>3 DEF XboxFront, XboxWire
    <3>3. seen["L3"] = {<<14, 32>>} /\ seen["R3"] = {<<14, 64>>}
      BY <2>3 DEF XboxFront, XboxWire, XboxClicks
    <3>4. QED
      <4> HIDE DEF seen
      <4>1. \A d, b \in DOMAIN XboxWire : <<XboxWire[d][1] - 1, XboxWire[d][2]>> \in seen[b] <=> d = b
        BY <3>1, <3>2, <3>3, SMTT(60) DEF XboxWire
      <4>2. QED
        BY <4>1 DEF seen
  <2>5. QED
    BY <2>1, <2>2, <2>4, <1>1
<1>2. CASE legacy
  <2>1. wire = LegacyWire /\ DOMAIN LegacyWire = DOMAIN XboxWire
    BY <1>2 DEF LegacyWire, XboxWire
  <2>2. DOMAIN XboxPlaces(legacy) = DOMAIN XboxWire \ {"PS"}
    BY <1>2 DEF XboxPlaces
  <2>3. \A d \in DOMAIN XboxWire \ {"PS"} : XboxPlaces(legacy)[d] =
          CASE d \in DOMAIN XboxFront -> XboxFront[d]
            [] d = "CREATE" -> {<<13, 64>>}
            [] d = "OPTIONS" -> {<<13, 128>>}
            [] d = "L3" -> {<<14, 1>>} [] d = "R3" -> {<<14, 2>>}
    BY <1>2, SMTT(30) DEF XboxPlaces, XboxClicks, XboxFront, XboxWire
  <2>4. \A d \in DOMAIN XboxWire, b \in DOMAIN XboxWire \ {"PS"} :
          <<LegacyWire[d][1] - 1, LegacyWire[d][2]>> \in XboxPlaces(legacy)[b] <=> d = b
    <3>1. \A d \in DOMAIN XboxWire :
            LegacyWire[d] = IF d = "L3" THEN <<15, 1>> ELSE IF d = "R3" THEN <<15, 2>> ELSE XboxWire[d]
      <4>1. "L3" \in DOMAIN XboxWire /\ "R3" \in DOMAIN XboxWire
        BY DEF XboxWire
      <4>2. LegacyWire = [[XboxWire EXCEPT !["L3"] = <<15, 1>>] EXCEPT !["R3"] = <<15, 2>>]
        BY Zenon DEF LegacyWire
      <4>3. QED
        BY <4>1, <4>2
    <3>2. QED
      BY <2>3, <3>1, SMTT(60) DEF XboxFront, XboxWire
  <2>5. QED
    BY <2>1, <2>2, <2>4, <1>2
<1>3. QED
  BY <1>1, <1>2

\* The hat shows one or two directions that do not oppose each other.
LEMMA HatPoints ==
  ASSUME NEW ds \in SUBSET Dirs
  PROVE  /\ Opposed(ds) \/ ds = {} => Hat(ds) = 0
         /\ ~Opposed(ds) /\ ds # {} => Hat(ds) \in 1 .. 8 /\ Compass[Hat(ds)] = ds
<1>1. \A i \in 1 .. 8 : ~Opposed(Compass[i]) /\ Compass[i] # {}
  BY SMTT(30) DEF Compass, Opposed
<1>2. ~Opposed(ds) /\ ds # {} => \E i \in 1 .. 8 : Compass[i] = ds
  <2> SUFFICES ASSUME ~Opposed(ds), ds # {} PROVE \E i \in 1 .. 8 : Compass[i] = ds
    OBVIOUS
  <2>1. ds \in {{"UP"}, {"UP", "RIGHT"}, {"RIGHT"}, {"RIGHT", "DOWN"}, {"DOWN"},
             {"DOWN", "LEFT"}, {"LEFT"}, {"LEFT", "UP"}}
    <3>1. CASE "UP" \in ds
      <4>1. "DOWN" \notin ds
        BY <3>1 DEF Opposed
      <4>2. ds \in {{"UP"}, {"UP", "RIGHT"}, {"LEFT", "UP"}}
        BY <3>1, <4>1 DEF Opposed, Dirs
      <4>3. QED
        BY <4>2
    <3>2. CASE "UP" \notin ds /\ "DOWN" \in ds
      <4>1. ds \in {{"DOWN"}, {"RIGHT", "DOWN"}, {"DOWN", "LEFT"}}
        BY <3>2 DEF Opposed, Dirs
      <4>2. QED
        BY <4>1
    <3>3. CASE "UP" \notin ds /\ "DOWN" \notin ds
      <4>1. ds \in {{"RIGHT"}, {"LEFT"}}
        BY <3>3 DEF Opposed, Dirs
      <4>2. QED
        BY <4>1
    <3>4. QED
      BY <3>1, <3>2, <3>3
  <2>2. /\ Compass[1] = {"UP"} /\ Compass[2] = {"UP", "RIGHT"} /\ Compass[3] = {"RIGHT"}
        /\ Compass[4] = {"RIGHT", "DOWN"} /\ Compass[5] = {"DOWN"} /\ Compass[6] = {"DOWN", "LEFT"}
        /\ Compass[7] = {"LEFT"} /\ Compass[8] = {"LEFT", "UP"}
    BY DEF Compass
  <2>3. QED
    BY <2>1, <2>2, SMTT(30)
<1>3. QED
  BY <1>1, <1>2 DEF Hat

\* Every button has a bit of its own in the packet.
LEMMA BitsDiffer == \A b, d \in DOMAIN Bit : Bit[b] = Bit[d] => b = d
BY DEF Bit

\* The fields written one behind the other are where the browser writes them.
LEMMA Offsets ==
  ASSUME NEW order, order = WriteOrder, NEW f \in Fields
  PROVE  Offset(order, f) = BrowserOffset[f]
<1> DEFINE Starts(g) == g = [i \in DOMAIN order |-> IF i = 1 THEN 0 ELSE g[i - 1] + order[i - 1][2]]
           at == [i \in 1 .. 10 |-> IF i = 1 THEN 0 ELSE IF i = 2 THEN 4 ELSE IF i = 3 THEN 5
                                    ELSE i + 5 + (IF i = 4 THEN 0 ELSE 3)]
           start == CHOOSE g : Starts(g)
<1>1. DOMAIN order = 1 .. 10
  BY DEF WriteOrder
<1>2. /\ order[1][2] = 4 /\ order[2][2] = 1 /\ order[3][2] = 4 /\ order[4][2] = 4 /\ order[5][2] = 1
      /\ order[6][2] = 1 /\ order[7][2] = 1 /\ order[8][2] = 1 /\ order[9][2] = 1
  BY DEF WriteOrder
<1>3. Starts(at)
  <2>1. \A i \in 1 .. 10 : at[i] = IF i = 1 THEN 0 ELSE at[i - 1] + order[i - 1][2]
    BY <1>2, SMTT(30)
  <2>2. QED
    BY <2>1, <1>1
<1>4. Starts(start)
  <2> HIDE DEF Starts
  <2> QED
    BY <1>3, Zenon
<1>5. /\ start[1] = 0 /\ start[2] = 4 /\ start[3] = 5 /\ start[4] = 9 /\ start[5] = 13
      /\ start[6] = 14 /\ start[7] = 15 /\ start[8] = 16 /\ start[9] = 17 /\ start[10] = 18
  <2> HIDE DEF start
  <2>1. \A i \in 1 .. 10 : start[i] = IF i = 1 THEN 0 ELSE start[i - 1] + order[i - 1][2]
    BY <1>1, <1>4
  <2>2. QED
    BY <2>1, <1>2, SMTT(30)
<1>6. Offset(order, f) = start[CHOOSE i \in DOMAIN order : order[i][1] = f]
  BY DEF Offset
<1> DEFINE here == CHOOSE i \in DOMAIN order : order[i][1] = f
<1>7. here \in 1 .. 10 /\ order[here][1] = f
  <2>1. \E i \in DOMAIN order : order[i][1] = f
    BY <1>1 DEF Fields, BrowserOffset, WriteOrder
  <2>2. QED
    BY <2>1, <1>1
<1> HIDE DEF here, start
<1>8. start[here] = BrowserOffset[f]
  BY <1>5, <1>7, SMTT(30) DEF Fields, BrowserOffset, WriteOrder
<1>9. QED
  BY <1>6, <1>8 DEF here, start

\* An axis on the Steam controller's wire, whose vertical axes point up.
Negated(v) == IF v = -32768 THEN 32767 ELSE -v

\* A stick that is pushed leans its way on every scale the parsers use.
LEMMA Scaled ==
  ASSUME NEW v \in {0} \cup Thrown
  PROVE  /\ Leans((32768 + v) \div 256, v)
         /\ Leans(AxisToU8(v), v)
         /\ Leans(Key(v), v)
         /\ Leans(((32768 + v) \div 16) \div 16, v)
         /\ (32768 + v) \div 16 \in Nat /\ (32768 + v) \div 16 < 4096
         /\ Leans((WrappingNeg(Negated(v)) + 32768) \div 256, v)
<1>1. v \in Int /\ -32768 <= v /\ v <= 32767 /\ (v = 0 \/ v <= -1024 \/ v >= 1024)
  <2>1. CASE v = 0
    BY <2>1
  <2>2. CASE v \in Thrown
    BY <2>2 DEF Thrown
  <2>3. QED
    BY <2>1, <2>2
<1>2. Leans((32768 + v) \div 256, v)
  BY <1>1, SMTT(30) DEF Leans
<1>3. Leans(AxisToU8(v), v)
  BY <1>1, SMTT(30) DEF Leans, AxisToU8
<1>4. Leans(Key(v), v)
  BY <1>1, SMTT(30) DEF Leans, Key
<1>5. Leans(((32768 + v) \div 16) \div 16, v)
  BY <1>1, SMTT(30) DEF Leans
<1>6. (32768 + v) \div 16 \in Nat /\ (32768 + v) \div 16 < 4096
  BY <1>1, SMTT(30)
<1>7. Leans((WrappingNeg(Negated(v)) + 32768) \div 256, v)
  BY <1>1, SMTT(30) DEF Leans, WrappingNeg, Negated
<1>8. QED
  BY <1>2, <1>3, <1>4, <1>5, <1>6, <1>7

\* The Switch's two axes of 12 bits come out of their three bytes as they went in,
LEMMA StickUnpacked ==
  ASSUME NEW x \in Nat, x < 4096, NEW y \in Nat, y < 4096
  PROVE  PackedStick(PackStick(x, y)) = <<x \div 16, y \div 16>>
<1>1. (x % 256) + 256 * (x \div 256) = x /\ x \div 256 \in 0 .. 15 /\ x % 256 \in 0 .. 255
  BY SMTT(30)
<1>2. (y % 16) + 16 * (y \div 16) = y /\ y % 16 \in 0 .. 15
  BY SMTT(30)
<1> DEFINE b == PackStick(x, y)
           low == b[2] % 16
           high == b[2] \div 16
<1>3. b[1] = x % 256 /\ b[2] = (x \div 256) + 16 * (y % 16) /\ b[3] = y \div 16
  BY DEF PackStick
<1>4. low = x \div 256 /\ high = y % 16
  <2> DEFINE h == x \div 256
             l == y % 16
  <2>1. h \in 0 .. 15 /\ l \in 0 .. 15 /\ b[2] = h + 16 * l
    BY <1>1, <1>2, <1>3
  <2> HIDE DEF h, l, b
  <2>2. low = h /\ high = l
    BY <2>1, SMTT(30)
  <2>3. QED
    BY <2>2 DEF h, l
<1>5. b[1] + 256 * low = x /\ high + 16 * b[3] = y
  BY <1>1, <1>2, <1>3, <1>4
<1>6. QED
  BY <1>5 DEF PackedStick

\* for both sticks.
LEMMA SwitchSticks ==
  ASSUME NEW raw, \A a \in Axes : raw.axis[a] \in Nat /\ raw.axis[a] < 4096
  PROVE  LET onLeft == PackedStick(PackStick(raw.axis.lx, raw.axis.ly))
             onRight == PackedStick(PackStick(raw.axis.rx, raw.axis.ry))
             axes == [lx |-> onLeft[1], ly |-> onLeft[2], rx |-> onRight[1], ry |-> onRight[2]]
         IN  axes = [a \in Axes |-> raw.axis[a] \div 16]
<1> DEFINE onLeft == PackedStick(PackStick(raw.axis.lx, raw.axis.ly))
           onRight == PackedStick(PackStick(raw.axis.rx, raw.axis.ry))
           axes == [lx |-> onLeft[1], ly |-> onLeft[2], rx |-> onRight[1], ry |-> onRight[2]]
<1>1. raw.axis.lx \in Nat /\ raw.axis.lx < 4096
  BY DEF Axes
<1>2. raw.axis.ly \in Nat /\ raw.axis.ly < 4096
  BY DEF Axes
<1>3. raw.axis.rx \in Nat /\ raw.axis.rx < 4096
  BY DEF Axes
<1>4. raw.axis.ry \in Nat /\ raw.axis.ry < 4096
  BY DEF Axes
<1>5. onLeft = <<raw.axis.lx \div 16, raw.axis.ly \div 16>>
  BY <1>1, <1>2, StickUnpacked
<1>6. onRight = <<raw.axis.rx \div 16, raw.axis.ry \div 16>>
  BY <1>3, <1>4, StickUnpacked
<1> HIDE DEF onLeft, onRight
<1>7. axes = [a \in Axes |-> raw.axis[a] \div 16]
  BY <1>5, <1>6 DEF Axes
<1>8. QED
  BY <1>7 DEF onLeft, onRight

-----------------------------------------------------------------------------
(* The parsers *)

\* FoundDown behind a header.
LEMMA FoundInBody ==
  ASSUME NEW raw, NEW wire, NEW bs \in SUBSET DOMAIN wire, raw.at = {wire[b] : b \in bs},
         NEW skip, NEW places,
         \A d \in DOMAIN wire, b \in DOMAIN places :
            <<wire[d][1] - skip, wire[d][2]>> \in places[b] <=> d = b
  PROVE  Found(places, Body(raw, skip)) = bs \cap DOMAIN places
<1> DEFINE spot == [d \in DOMAIN wire |-> <<wire[d][1] - skip, wire[d][2]>>]
<1>1. Body(raw, skip) = {spot[d] : d \in bs}
  <2>1. \A d \in bs : spot[d] = <<wire[d][1] - skip, wire[d][2]>>
    OBVIOUS
  <2> HIDE DEF spot
  <2>2. \A x \in Body(raw, skip) : x \in {spot[d] : d \in bs}
    BY <2>1 DEF Body
  <2>3. \A d \in bs : spot[d] \in Body(raw, skip)
    BY <2>1 DEF Body
  <2>4. QED
    BY <2>2, <2>3
<1>2. \A d \in DOMAIN spot, b \in DOMAIN places : spot[d] \in places[b] <=> d = b
  OBVIOUS
<1>3. bs \in SUBSET DOMAIN spot
  OBVIOUS
<1> HIDE DEF spot
<1>4. QED
  BY <1>1, <1>2, <1>3, FoundDown

\* What the hat says: the directions, or nothing if two of them oppose each other.
Pointed(ds) == IF Opposed(ds) THEN {} ELSE ds

\* A hat is read as what it points to.
LEMMA HatRead ==
  ASSUME NEW ds \in SUBSET Dirs
  PROVE  /\ XboxDirs(Hat(ds)) = Pointed(ds)
         /\ PsDirs(IF Hat(ds) = 0 THEN 8 ELSE Hat(ds) - 1) = Pointed(ds)
         /\ (IF Hat(ds) = 0 THEN 8 ELSE Hat(ds) - 1) \in 0 .. 8
<1> DEFINE h == Hat(ds)
<1>1. CASE Opposed(ds) \/ ds = {}
  <2>1. h = 0 /\ Pointed(ds) = {}
    BY <1>1, HatPoints DEF Pointed
  <2>2. QED
    BY <2>1 DEF XboxDirs, PsDirs
<1>2. CASE ~Opposed(ds) /\ ds # {}
  <2>1. h \in 1 .. 8 /\ Compass[h] = ds /\ Pointed(ds) = ds
    BY <1>2, HatPoints DEF Pointed
  <2> HIDE DEF h
  <2>2. h # 0 /\ h - 1 < 8 /\ h - 1 \in 0 .. 8 /\ (h - 1) + 1 = h
    BY <2>1
  <2>3. XboxDirs(h) = Pointed(ds) /\ PsDirs(h - 1) = Pointed(ds)
    BY <2>1, <2>2 DEF XboxDirs, PsDirs
  <2>4. QED
    BY <2>2, <2>3 DEF h
<1>3. QED
  BY <1>1, <1>2

Far(c) == IF c \in {"keyboard", "switch"} THEN {255} ELSE 1 .. 255
Sticks(c) == IF c = "keyboard" THEN {"lx", "ly"} ELSE Axes

\* What a player may do with a controller.
Possible(c, bs, p, s) ==
  /\ c \in Kinds \ {"unknown"} /\ bs \subseteq Has[c] /\ (c \in Rocker => ~Opposed(bs))
  /\ p = None \/ \E t \in Triggers, far \in Far(c) : p = <<t, far>>
  /\ s = None \/ \E a \in Sticks(c), v \in Thrown : s = <<a, v>>

\* The trigger that is pulled is the one with a number above zero.
LEMMA TriggerPulled ==
  ASSUME NEW c, NEW bs, NEW p, NEW s, Possible(c, bs, p, s), NEW t \in Triggers
  PROVE  /\ Pulled(p, t) \in 0 .. 255
         /\ p[1] = t <=> Pulled(p, t) > 0
         /\ p[1] = t => Pulled(p, t) = p[2]
         /\ p[1] = t /\ c \in {"keyboard", "switch"} => Pulled(p, t) = 255
BY DEF Possible, Pulled, None, Triggers, Far

LEMMA TriggersPulled ==
  ASSUME NEW c, NEW bs, NEW p, NEW s, Possible(c, bs, p, s)
  PROVE  \A t \in Triggers : Pulled(p, t) \in 0 .. 255 /\ (p[1] = t <=> Pulled(p, t) > 0)
BY TriggerPulled

\* The axis that is pushed is the one with a number other than zero.
LEMMA StickPushed ==
  ASSUME NEW c, NEW bs, NEW p, NEW s, Possible(c, bs, p, s), NEW a \in Axes
  PROVE  /\ Pushed(s, a) \in {0} \cup Thrown
         /\ s[1] = a <=> Pushed(s, a) # 0
         /\ c = "keyboard" /\ a \notin {"lx", "ly"} => Pushed(s, a) = 0
<1>1. CASE s = None
  BY <1>1 DEF Pushed, None, Axes
<1>2. ASSUME NEW d \in Sticks(c), NEW v \in Thrown, s = <<d, v>>
      PROVE  /\ Pushed(s, a) \in {0} \cup Thrown
             /\ s[1] = a <=> Pushed(s, a) # 0
             /\ c = "keyboard" /\ a \notin {"lx", "ly"} => Pushed(s, a) = 0
  <2>1. v # 0 /\ v \in Int
    BY DEF Thrown
  <2>2. s[1] = d /\ s[2] = v
    BY <1>2
  <2>3. QED
    BY <2>1, <2>2 DEF Pushed, Sticks
<1>3. QED
  BY <1>1, <1>2 DEF Possible

\* The switches that a pulled trigger closes.
Switched(c, p) == IF p[2] = 255 /\ p[1] \in DOMAIN Wire[c] THEN {p[1]} ELSE {}

\* The triggers are buttons of the packet, and no controller names them as such.
LEMMA ButtonsNamed ==
  /\ Triggers \subseteq Buttons /\ Shared \cup {"TOUCH", "MUTE"} \subseteq Buttons
  /\ (Shared \cup {"TOUCH", "MUTE"}) \cap Triggers = {} /\ Dirs \subseteq Shared
BY DEF Buttons, Bit, Shared, Digital, Faces, Dirs, Triggers

\* What a controller has pressed: buttons, and the switch of a trigger at its end.
LEMMA PressedButtons ==
  ASSUME NEW c, NEW bs, NEW p, NEW s, Possible(c, bs, p, s)
  PROVE  /\ bs \subseteq Shared \cup {"TOUCH", "MUTE"}
         /\ Pressed(c, bs, p) = bs \cup Switched(c, p)
         /\ Switched(c, p) \subseteq Triggers
         /\ \A t \in Switched(c, p) : p[1] = t
         /\ \A t \in Triggers \cap DOMAIN Wire[c] : p[1] = t /\ p[2] = 255 => t \in Switched(c, p)
<1>1. bs \subseteq Shared \cup {"TOUCH", "MUTE"}
  BY DEF Possible, Has, Shared, Digital
<1>2. p[2] = 255 /\ p[1] \in DOMAIN Wire[c] => p[1] \in Triggers
  <2>1. CASE p = None
    BY <2>1 DEF None
  <2>2. CASE \E t \in Triggers, far \in Far(c) : p = <<t, far>>
    BY <2>2
  <2>3. QED
    BY <2>1, <2>2 DEF Possible
<1>3. Pressed(c, bs, p) = bs \cup Switched(c, p)
  BY DEF Pressed, Switched
<1>4. /\ Switched(c, p) \subseteq Triggers /\ \A t \in Switched(c, p) : p[1] = t
      /\ \A t \in Triggers \cap DOMAIN Wire[c] : p[1] = t /\ p[2] = 255 => t \in Switched(c, p)
  BY <1>2 DEF Switched
<1>5. QED
  BY <1>1, <1>3, <1>4

\* A stick of eight bits leans the way it is pushed.
LEMMA AxesScaled ==
  ASSUME NEW c, NEW bs, NEW p, NEW s, Possible(c, bs, p, s), NEW a \in Axes
  PROVE  Leans((32768 + Pushed(s, a)) \div 256, Pushed(s, a))
<1> DEFINE v == Pushed(s, a)
<1>1. v \in {0} \cup Thrown
  BY StickPushed
<1> HIDE DEF v
<1>2. Leans((32768 + v) \div 256, v)
  BY <1>1, Scaled
<1>3. QED
  BY <1>2 DEF v

\* A frame with the buttons that are named, perhaps those of the triggers, and with
\* the triggers' and the sticks' numbers, says what the player does.
LEMMA SaidSo ==
  ASSUME NEW c, NEW bs, NEW p, NEW s, Possible(c, bs, p, s),
         NEW f, f = Frame(f.buttons, f.axis, f.l2, f.r2),
         NEW named \in SUBSET bs, NEW ts \in SUBSET Triggers,
         f.buttons = named \cup ts, \A t \in ts : p[1] = t,
         f.l2 = Pulled(p, "L2"), f.r2 = Pulled(p, "R2"),
         f.axis = [a \in Axes |-> f.axis[a]], \A a \in Axes : Leans(f.axis[a], Pushed(s, a))
  PROVE  Says(f, named, p, s, TRUE)
<1>1. bs \subseteq Shared \cup {"TOUCH", "MUTE"}
  BY PressedButtons
<1>2. f.buttons \subseteq Buttons /\ f.buttons \ Triggers = named
  BY <1>1, ButtonsNamed
<1>3. \A t \in Triggers : Pulled(p, t) \in 0 .. 255 /\ (p[1] = t <=> Pulled(p, t) > 0)
  BY TriggersPulled, Zenon
<1>4. /\ f.l2 \in 0 .. 255 /\ f.r2 \in 0 .. 255
      /\ \A t \in Triggers : Level(f, t) = Pulled(p, t)
  <2>1. Pulled(p, "L2") \in 0 .. 255 /\ Pulled(p, "R2") \in 0 .. 255
    BY <1>3 DEF Triggers
  <2>2. \A t \in Triggers : t = "L2" \/ t = "R2"
    BY DEF Triggers
  <2>3. QED
    BY <2>1, <2>2, Zenon DEF Level
<1>5. \A t \in Triggers :
        /\ t \in f.buttons \/ Level(f, t) > 0 => p[1] = t
        /\ p[1] = t => Level(f, t) > 0
  <2>1. \A t \in Triggers : t \in f.buttons => t \in ts
    BY <1>1, ButtonsNamed
  <2>2. TAKE t \in Triggers
  <2>3. Level(f, t) = Pulled(p, t) /\ (p[1] = t <=> Pulled(p, t) > 0) /\ (t \in f.buttons => t \in ts)
    BY <1>3, <1>4, <2>1
  <2>4. QED
    BY <2>3, Zenon
<1>6. QED
  BY <1>2, <1>4, <1>5 DEF Says

\* The DualSense by either connection, and the DualShock 4 but for its mute button.
LEMMA PsParsed ==
  ASSUME NEW c \in {"ds", "dsBt", "ds4"}, NEW bs, NEW p, NEW s, Possible(c, bs, p, s),
         NEW first \in Nat, NEW skip \in Nat, Wire[c] = PsWire(first + skip)
  PROVE  LET f == ParsePs(RawReport(c, bs, p, s), first, skip)
         IN  Says(f, bs, p, s, TRUE)
<1> DEFINE raw == RawReport(c, bs, p, s)
           f == ParsePs(raw, first, skip)
           named == Pressed(c, bs, p) \cap DOMAIN Wire[c]
           found == Found(PsPlaces(first), Body(raw, skip))
<1>1. /\ DOMAIN PsPlaces(first) = (Shared \cup {"TOUCH", "MUTE"} \cup Triggers) \ Dirs
      /\ DOMAIN Wire[c] = DOMAIN PsPlaces(first)
  BY DEF PsPlaces, PsWire, Faces, Ps9, Ps10, Shared, Digital, Triggers, Dirs
<1>2. found = named
  <2>1. raw.at = {Wire[c][b] : b \in named}
    BY DEF RawReport
  <2>2. \A d \in DOMAIN PsPlaces(first) :
           <<PsWire(first + skip)[d][1] - skip, PsWire(first + skip)[d][2]>> = PsWire(first)[d]
    BY SMTT(30) DEF PsWire, PsPlaces, Faces, Ps8, Ps9, Ps10
  <2>3. \A d \in DOMAIN Wire[c], b \in DOMAIN PsPlaces(first) :
           <<Wire[c][d][1] - skip, Wire[c][d][2]>> \in PsPlaces(first)[b] <=> d = b
    BY <2>2, <1>1, PsSpots
  <2>4. found = named \cap DOMAIN PsPlaces(first)
    <3> DEFINE wire == Wire[c]
    <3>1. named \in SUBSET DOMAIN wire /\ raw.at = {wire[b] : b \in named}
      BY <2>1
    <3>2. \A d \in DOMAIN wire, b \in DOMAIN PsPlaces(first) :
             <<wire[d][1] - skip, wire[d][2]>> \in PsPlaces(first)[b] <=> d = b
      BY <2>3
    <3> HIDE DEF raw, named, wire
    <3>3. QED
      BY <3>1, <3>2, FoundInBody
  <2>5. QED
    BY <2>4, <1>1
<1>3. PsDirs(raw.hat) = bs \cap Dirs
  <2>1. raw.hat = IF Hat(bs \cap Dirs) = 0 THEN 8 ELSE Hat(bs \cap Dirs) - 1
    BY DEF RawReport, Rocker
  <2>2. ~Opposed(bs \cap Dirs)
    BY DEF Possible, Rocker, Opposed
  <2>3. QED
    BY <2>1, <2>2, HatRead DEF Pointed
<1>4. f = Frame(found \cup PsDirs(raw.hat), raw.axis, raw.l2, raw.r2)
  BY DEF ParsePs
<1>5. raw.l2 = Pulled(p, "L2") /\ raw.r2 = Pulled(p, "R2")
  BY DEF RawReport
<1>6. raw.axis = [a \in Axes |-> (32768 + Pushed(s, a)) \div 256]
  BY DEF RawReport
<1> HIDE DEF raw
<1>7. f.buttons = found \cup (bs \cap Dirs) /\ f.l2 = Pulled(p, "L2") /\ f.r2 = Pulled(p, "R2")
      /\ f.axis = raw.axis /\ f = Frame(f.buttons, f.axis, f.l2, f.r2)
  BY <1>3, <1>4, <1>5 DEF Frame
<1> HIDE DEF f, found
<1> DEFINE ts == Switched(c, p)
<1>8. ts \subseteq Triggers /\ Pressed(c, bs, p) = bs \cup ts /\ \A t \in ts : p[1] = t
  BY PressedButtons
<1> HIDE DEF ts
<1>9. f.buttons = bs \cup ts
  <2>1. bs \subseteq Shared \cup {"TOUCH", "MUTE"}
    BY PressedButtons
  <2>2. QED
    BY <1>1, <1>2, <1>7, <1>8, <2>1 DEF Triggers, Dirs
<1>10. f.axis = [a \in Axes |-> f.axis[a]] /\ \A a \in Axes : Leans(f.axis[a], Pushed(s, a))
  <2>1. \A a \in Axes : Leans((32768 + Pushed(s, a)) \div 256, Pushed(s, a))
    BY AxesScaled
  <2>2. QED
    BY <1>6, <1>7, <2>1
<1>11. Says(f, bs, p, s, TRUE)
  BY <1>7, <1>8, <1>9, <1>10, SaidSo
<1>12. QED
  BY <1>11 DEF f, raw

\* A trigger counts as a button only if it is pulled.
LEMMA DeepPulls ==
  ASSUME NEW c, NEW bs, NEW p, NEW s, Possible(c, bs, p, s)
  PROVE  LET ts == Deep(Pulled(p, "L2"), Pulled(p, "R2"))
         IN  ts \subseteq Triggers /\ \A t \in ts : p[1] = t
<1>1. "L2" \in Triggers /\ "R2" \in Triggers
  BY DEF Triggers
<1>2. /\ Pulled(p, "L2") \in 0 .. 255 /\ (p[1] = "L2" <=> Pulled(p, "L2") > 0)
      /\ Pulled(p, "R2") \in 0 .. 255 /\ (p[1] = "R2" <=> Pulled(p, "R2") > 0)
  BY <1>1, TriggersPulled
<1>3. QED
  BY <1>1, <1>2 DEF Deep

\* The Xbox controller; the old firmware leaves its guide button out.
LEMMA XboxParsed ==
  ASSUME NEW c \in {"xbox", "xboxOld"}, NEW bs, NEW p, NEW s, Possible(c, bs, p, s)
  PROVE  LET f == ParseXbox(RawReport(c, bs, p, s), c = "xboxOld")
         IN  Says(f, IF c = "xboxOld" THEN bs \ {"PS"} ELSE bs, p, s, TRUE)
<1> DEFINE raw == RawReport(c, bs, p, s)
           legacy == c = "xboxOld"
           f == ParseXbox(raw, legacy)
           pressed == Pressed(c, bs, p) \cap DOMAIN Wire[c]
           found == Found(XboxPlaces(legacy), Body(raw, 1))
           named == IF c = "xboxOld" THEN bs \ {"PS"} ELSE bs
           ts == Deep(Pulled(p, "L2"), Pulled(p, "R2"))
<1>1. Wire[c] = IF legacy THEN LegacyWire ELSE XboxWire
  BY DEF Wire, Possible
<1>2. /\ DOMAIN Wire[c] = DOMAIN XboxWire
      /\ DOMAIN XboxPlaces(legacy) = DOMAIN XboxWire \ (IF legacy THEN {"PS"} ELSE {})
      /\ \A d \in DOMAIN Wire[c], b \in DOMAIN XboxPlaces(legacy) :
                 <<Wire[c][d][1] - 1, Wire[c][d][2]>> \in XboxPlaces(legacy)[b] <=> d = b
  <2>1. legacy \in BOOLEAN
    OBVIOUS
  <2> HIDE DEF legacy
  <2>2. QED
    BY <1>1, <2>1, XboxSpots
<1>3. DOMAIN XboxWire = Shared \ Dirs
  BY DEF XboxWire, Shared, Digital, Faces, Dirs
<1>4. bs \subseteq Shared
  BY DEF Possible, Has
<1>5. Pressed(c, bs, p) = bs
  <2>1. Shared \cap Triggers = {}
    BY ButtonsNamed
  <2>2. Switched(c, p) = {}
    <3>1. Switched(c, p) \subseteq Triggers
      BY PressedButtons
    <3>2. Switched(c, p) \subseteq DOMAIN Wire[c]
      BY DEF Switched
    <3>3. QED
      BY <3>1, <3>2, <2>1, <1>2, <1>3
  <2>3. QED
    BY <2>2, PressedButtons
<1>6. found = pressed \cap DOMAIN XboxPlaces(legacy)
  <2>1. raw.at = {Wire[c][b] : b \in pressed}
    BY DEF RawReport
  <2> HIDE DEF raw, pressed, legacy
  <2>2. pressed \in SUBSET DOMAIN Wire[c]
    BY DEF pressed
  <2>3. QED
    BY <2>1, <2>2, <1>2, FoundInBody
<1>7. XboxDirs(raw.hat) = bs \cap Dirs
  <2>1. raw.hat = Hat(bs \cap Dirs)
    BY DEF RawReport, Rocker
  <2>2. ~Opposed(bs \cap Dirs)
    BY DEF Possible, Rocker, Opposed
  <2>3. QED
    BY <2>1, <2>2, HatRead DEF Pointed
<1>8. raw.l2 = Pulled(p, "L2") * 4 /\ raw.r2 = Pulled(p, "R2") * 4
      /\ raw.axis = [a \in Axes |-> 32768 + Pushed(s, a)]
  BY DEF RawReport
<1>9. Pulled(p, "L2") \in 0 .. 255 /\ Pulled(p, "R2") \in 0 .. 255
  BY TriggersPulled DEF Triggers
<1>10. \A n \in 0 .. 255 : (IF n * 4 > 1023 THEN 1023 ELSE n * 4) \div 4 = n
  BY SMTT(30)
<1> HIDE DEF raw
<1>11. f = Frame(found \cup ts \cup XboxDirs(raw.hat), [a \in Axes |-> raw.axis[a] \div 256],
                 Pulled(p, "L2"), Pulled(p, "R2"))
  <2> DEFINE l2 == (IF raw.l2 > 1023 THEN 1023 ELSE raw.l2) \div 4
             r2 == (IF raw.r2 > 1023 THEN 1023 ELSE raw.r2) \div 4
  <2>1. f = Frame(found \cup Deep(l2, r2) \cup XboxDirs(raw.hat),
                  [a \in Axes |-> raw.axis[a] \div 256], l2, r2)
    BY Zenon DEF ParseXbox
  <2>2. l2 = Pulled(p, "L2") /\ r2 = Pulled(p, "R2")
    BY <1>8, <1>9, <1>10
  <2> HIDE DEF l2, r2, f, found
  <2>3. QED
    BY <2>1, <2>2, Zenon
<1>12. f.buttons = named \cup ts
  <2>1. found \cup (bs \cap Dirs) = named
    <3>1. "PS" \notin Dirs
      BY DEF Dirs
    <3> HIDE DEF found, legacy
    <3>2. found = (bs \ Dirs) \ (IF legacy THEN {"PS"} ELSE {})
      BY <1>2, <1>3, <1>4, <1>5, <1>6
    <3>3. legacy <=> c = "xboxOld"
      BY DEF legacy
    <3>4. QED
      BY <3>1, <3>2, <3>3
  <2> HIDE DEF found, f, ts, named
  <2>2. QED
    BY <1>7, <1>11, <2>1 DEF Frame
<1> HIDE DEF f, found
<1>13. f.axis = [a \in Axes |-> f.axis[a]] /\ \A a \in Axes : Leans(f.axis[a], Pushed(s, a))
  <2>1. \A a \in Axes : Leans((32768 + Pushed(s, a)) \div 256, Pushed(s, a))
    BY AxesScaled
  <2>2. QED
    BY <1>8, <1>11, <2>1 DEF Frame
<1>14. f.l2 = Pulled(p, "L2") /\ f.r2 = Pulled(p, "R2") /\ f = Frame(f.buttons, f.axis, f.l2, f.r2)
  BY <1>11 DEF Frame
<1>15. ts \subseteq Triggers /\ \A t \in ts : p[1] = t
  BY DeepPulls
<1>16. named \subseteq bs
  OBVIOUS
<1> HIDE DEF ts, named
<1>17. Says(f, named, p, s, TRUE)
  BY <1>12, <1>13, <1>14, <1>15, <1>16, SaidSo
<1>18. QED
  BY <1>17 DEF f, raw, named

\* The Steam controller, whose vertical axes point up.
LEMMA SteamParsed ==
  ASSUME NEW bs, NEW p, NEW s, Possible("steam", bs, p, s)
  PROVE  Says(ParseSteam(RawReport("steam", bs, p, s)), bs, p, s, TRUE)
<1> DEFINE raw == RawReport("steam", bs, p, s)
           f == ParseSteam(raw)
           pressed == Pressed("steam", bs, p) \cap DOMAIN SteamWire
           found == Found(SteamPlaces, raw.at)
           deep == Deep(Pulled(p, "L2"), Pulled(p, "R2"))
           ts == Switched("steam", p) \cup deep
           axes == [a \in Axes |->
                      ((IF a \in Vertical THEN WrappingNeg(raw.axis[a]) ELSE raw.axis[a]) + 32768) \div 256]
<1>1. Wire["steam"] = SteamWire
  BY DEF Wire, Possible
<1>2. DOMAIN SteamWire = Shared \cup Triggers /\ DOMAIN SteamPlaces = DOMAIN SteamWire
  BY SteamSpots DEF SteamWire, Shared, Digital, Faces, Dirs, Triggers
<1>3. pressed = bs \cup Switched("steam", p)
  <2>1. bs \subseteq Shared
    BY DEF Possible, Has
  <2>2. QED
    BY <1>2, <2>1, PressedButtons
<1>4. found = pressed
  <2>1. raw.at = {SteamWire[b] : b \in pressed}
    BY <1>1 DEF RawReport
  <2>2. pressed \in SUBSET DOMAIN SteamWire
    OBVIOUS
  <2> HIDE DEF raw, pressed
  <2>3. found = pressed \cap DOMAIN SteamPlaces
    BY <2>1, <2>2, <1>2, SteamSpots, FoundDown
  <2>4. QED
    BY <2>2, <2>3, <1>2
<1>5. raw.l2 = Pulled(p, "L2") /\ raw.r2 = Pulled(p, "R2")
      /\ \A a \in Axes : raw.axis[a] = IF a \in Vertical
                                     THEN (IF Pushed(s, a) = -32768 THEN 32767 ELSE -Pushed(s, a))
                                     ELSE Pushed(s, a)
  BY DEF RawReport
<1>6. f = Frame(found \cup Deep(raw.l2, raw.r2), axes, raw.l2, raw.r2)
  <2> HIDE DEF raw
  <2>1. QED
    BY DEF ParseSteam
<1>7. \A a \in Axes : Leans(axes[a], Pushed(s, a))
  <2> SUFFICES ASSUME NEW a \in Axes PROVE Leans(axes[a], Pushed(s, a))
    OBVIOUS
  <2> DEFINE v == Pushed(s, a)
  <2>1. v \in {0} \cup Thrown
    BY StickPushed
  <2>2. axes[a] = IF a \in Vertical THEN (WrappingNeg(Negated(v)) + 32768) \div 256
                  ELSE (v + 32768) \div 256
    BY <1>5 DEF Negated
  <2> HIDE DEF axes, v
  <2>3. Leans((32768 + v) \div 256, v) /\ Leans((WrappingNeg(Negated(v)) + 32768) \div 256, v)
    BY <2>1, Scaled
  <2>4. v + 32768 = 32768 + v
    BY <2>1 DEF Thrown
  <2>5. Leans(axes[a], v)
    BY <2>2, <2>3, <2>4
  <2>6. QED
    BY <2>5 DEF v
<1> HIDE DEF raw, axes, found
<1>8. f = Frame(found \cup deep, axes, Pulled(p, "L2"), Pulled(p, "R2"))
  BY <1>5, <1>6
<1>9. axes = [a \in Axes |-> axes[a]]
  BY DEF axes
<1> HIDE DEF f
<1>10. f.buttons = bs \cup ts
  BY <1>3, <1>4, <1>8 DEF Frame
<1>11. ts \subseteq Triggers /\ \A t \in ts : p[1] = t
  BY PressedButtons, DeepPulls
<1> HIDE DEF ts, deep
<1>12. /\ f.axis = axes /\ f.l2 = Pulled(p, "L2") /\ f.r2 = Pulled(p, "R2")
       /\ f = Frame(f.buttons, f.axis, f.l2, f.r2)
  BY <1>8 DEF Frame
<1>13. Says(f, bs, p, s, TRUE)
  BY <1>7, <1>9, <1>10, <1>11, <1>12, SaidSo
<1>14. QED
  BY <1>13 DEF f, raw

\* The keyboard, whose sticks have only their ends.
LEMMA KeyboardSays ==
  ASSUME NEW bs, NEW p, NEW s, Possible("keyboard", bs, p, s)
  PROVE  Says(KeyboardFrame(bs, p, s), bs, p, s, TRUE)
<1> DEFINE f == KeyboardFrame(bs, p, s)
           axes == [a \in Axes |-> IF a \in {"lx", "ly"} THEN Key(Pushed(s, a)) ELSE 127]
           ts == {}
<1>1. f = Frame(bs, axes, Pulled(p, "L2"), Pulled(p, "R2"))
  BY DEF KeyboardFrame
<1>2. \A a \in Axes : Leans(axes[a], Pushed(s, a))
  <2> SUFFICES ASSUME NEW a \in Axes PROVE Leans(axes[a], Pushed(s, a))
    OBVIOUS
  <2> DEFINE v == Pushed(s, a)
  <2>1. v \in {0} \cup Thrown /\ (a \notin {"lx", "ly"} => v = 0)
    BY StickPushed
  <2>2. axes[a] = IF a \in {"lx", "ly"} THEN Key(v) ELSE 127
    OBVIOUS
  <2> HIDE DEF axes, v
  <2>3. Leans(Key(v), v) /\ Leans(127, 0)
    BY <2>1, Scaled DEF Leans
  <2>4. Leans(axes[a], v)
    BY <2>1, <2>2, <2>3
  <2>5. QED
    BY <2>4 DEF v
<1>3. axes = [a \in Axes |-> axes[a]]
  OBVIOUS
<1>a. bs = bs \cup ts /\ ts \subseteq Triggers /\ \A t \in ts : p[1] = t
  OBVIOUS
<1> HIDE DEF f, axes, ts
<1>4. /\ f.axis = axes /\ f.l2 = Pulled(p, "L2") /\ f.r2 = Pulled(p, "R2")
      /\ f.buttons = bs \cup ts /\ f = Frame(f.buttons, f.axis, f.l2, f.r2)
  BY <1>1, <1>a DEF Frame
<1>5. Says(f, bs, p, s, TRUE)
  BY <1>2, <1>3, <1>4, <1>a, SaidSo
<1>6. QED
  BY <1>5 DEF f

\* The browser's gamepad.
LEMMA BrowserSays ==
  ASSUME NEW bs, NEW p, NEW s, Possible("browser", bs, p, s)
  PROVE  Says(BrowserFrame(bs, p, s), bs, p, s, TRUE)
<1> DEFINE f == BrowserFrame(bs, p, s)
           axes == [a \in Axes |-> AxisToU8(Pushed(s, a))]
           ts == {t \in Triggers : Pulled(p, t) > 25}
<1>1. f = Frame(bs \cup ts, axes, Pulled(p, "L2"), Pulled(p, "R2"))
  BY DEF BrowserFrame
<1>2. \A a \in Axes : Leans(axes[a], Pushed(s, a))
  <2> SUFFICES ASSUME NEW a \in Axes PROVE Leans(axes[a], Pushed(s, a))
    OBVIOUS
  <2> DEFINE v == Pushed(s, a)
  <2>1. v \in {0} \cup Thrown
    BY StickPushed
  <2>2. axes[a] = AxisToU8(v)
    OBVIOUS
  <2> HIDE DEF axes, v
  <2>3. Leans(AxisToU8(v), v)
    BY <2>1, Scaled
  <2>4. Leans(axes[a], v)
    BY <2>2, <2>3
  <2>5. QED
    BY <2>4 DEF v
<1>3. axes = [a \in Axes |-> axes[a]]
  OBVIOUS
<1>4. ts \subseteq Triggers /\ \A t \in ts : p[1] = t
  BY TriggersPulled
<1> HIDE DEF f, axes, ts
<1>5. /\ f.axis = axes /\ f.l2 = Pulled(p, "L2") /\ f.r2 = Pulled(p, "R2")
      /\ f.buttons = bs \cup ts /\ f = Frame(f.buttons, f.axis, f.l2, f.r2)
  BY <1>1 DEF Frame
<1>6. Says(f, bs, p, s, TRUE)
  BY <1>2, <1>3, <1>4, <1>5, SaidSo
<1>7. QED
  BY <1>6 DEF f

\* The Switch controller, whose triggers have no axis.
LEMMA SwitchParsed ==
  ASSUME NEW bs, NEW p, NEW s, Possible("switch", bs, p, s)
  PROVE  Says(ParseSwitch(RawReport("switch", bs, p, s)), bs, p, s, FALSE)
<1> DEFINE raw == RawReport("switch", bs, p, s)
           f == ParseSwitch(raw)
           pressed == Pressed("switch", bs, p) \cap DOMAIN SwitchWire
           found == Found(SwitchPlaces, raw.at)
           ts == Switched("switch", p)
           onLeft == PackedStick(PackStick(raw.axis.lx, raw.axis.ly))
           onRight == PackedStick(PackStick(raw.axis.rx, raw.axis.ry))
           axes == [lx |-> onLeft[1], ly |-> onLeft[2], rx |-> onRight[1], ry |-> onRight[2]]
<1>1. Wire["switch"] = SwitchWire
  BY DEF Wire, Possible
<1>2. DOMAIN SwitchWire = Shared \cup Triggers /\ DOMAIN SwitchPlaces = DOMAIN SwitchWire
  BY SwitchSpots DEF SwitchWire, Shared, Digital, Faces, Dirs, Triggers
<1>a. bs \subseteq Shared
  BY DEF Possible, Has
<1>3. pressed = bs \cup ts
  BY <1>2, <1>a, PressedButtons
<1>4. found = pressed
  <2>1. raw.at = {SwitchWire[b] : b \in pressed}
    BY <1>1 DEF RawReport
  <2>2. pressed \in SUBSET DOMAIN SwitchWire
    OBVIOUS
  <2> HIDE DEF raw, pressed
  <2>3. found = pressed \cap DOMAIN SwitchPlaces
    BY <2>1, <2>2, <1>2, SwitchSpots, FoundDown
  <2>4. QED
    BY <2>2, <2>3, <1>2
<1>5. \A a \in Axes : raw.axis[a] = (32768 + Pushed(s, a)) \div 16
  BY DEF RawReport
<1>6. f = Frame(found, axes, 0, 0)
  BY Zenon DEF ParseSwitch
<1>7. \A a \in Axes : /\ raw.axis[a] \in Nat /\ raw.axis[a] < 4096
                       /\ Leans(raw.axis[a] \div 16, Pushed(s, a))
  <2> SUFFICES ASSUME NEW a \in Axes
               PROVE  /\ raw.axis[a] \in Nat /\ raw.axis[a] < 4096
                      /\ Leans(raw.axis[a] \div 16, Pushed(s, a))
    OBVIOUS
  <2> DEFINE v == Pushed(s, a)
  <2>1. v \in {0} \cup Thrown /\ raw.axis[a] = (32768 + v) \div 16
    BY StickPushed, <1>5
  <2> HIDE DEF v, raw
  <2>2. /\ (32768 + v) \div 16 \in Nat /\ (32768 + v) \div 16 < 4096
        /\ Leans(((32768 + v) \div 16) \div 16, v)
    BY <2>1, Scaled
  <2>3. raw.axis[a] \in Nat /\ raw.axis[a] < 4096 /\ Leans(raw.axis[a] \div 16, v)
    BY <2>1, <2>2
  <2>4. QED
    BY <2>3 DEF v
<1> HIDE DEF raw, found
<1>8. axes = [a \in Axes |-> raw.axis[a] \div 16]
  BY <1>7, SwitchSticks
<1> HIDE DEF axes
<1>9. axes = [a \in Axes |-> axes[a]]
  BY <1>8
<1>10. \A a \in Axes : Leans(axes[a], Pushed(s, a))
  BY <1>7, <1>8
<1>11. ts \subseteq Triggers /\ (\A t \in ts : p[1] = t)
       /\ \A t \in Triggers : p[1] = t => t \in ts
  <2>1. \A t \in Triggers : p[1] = t => p[2] = 255
    BY TriggerPulled
  <2>2. QED
    BY <2>1, <1>1, <1>2, PressedButtons
<1> HIDE DEF axes, f, ts
<1>12. /\ f.buttons = bs \cup ts /\ f.axis = axes /\ f.l2 = 0 /\ f.r2 = 0
       /\ f = Frame(f.buttons, f.axis, f.l2, f.r2)
  BY <1>3, <1>4, <1>6 DEF Frame
<1>13. f.buttons \subseteq Buttons /\ f.buttons \ Triggers = bs
  BY <1>a, <1>11, <1>12, ButtonsNamed
<1>14. \A t \in Triggers : Level(f, t) = 0
  BY <1>12 DEF Level
<1>15. \A t \in Triggers : t \in f.buttons <=> p[1] = t
  <2>1. bs \cap Triggers = {}
    BY <1>a, ButtonsNamed
  <2>2. QED
    BY <2>1, <1>11, <1>12
<1>16. Says(f, bs, p, s, FALSE)
  <2>1. f.l2 \in 0 .. 255 /\ f.r2 \in 0 .. 255
    BY <1>12
  <2>2. \A t \in Triggers :
           /\ t \in f.buttons \/ Level(f, t) > 0 => p[1] = t
           /\ p[1] = t => Level(f, t) > 0 \/ (~FALSE /\ t \in f.buttons)
    BY <1>14, <1>15
  <2>3. f.axis = [a \in Axes |-> f.axis[a]] /\ \A a \in Axes : Leans(f.axis[a], Pushed(s, a))
    BY <1>9, <1>10, <1>12
  <2>4. QED
    BY <2>1, <2>2, <2>3, <1>12, <1>13 DEF Says
<1>17. QED
  BY <1>16 DEF f, raw

\* What the report of the state says is down: the old firmware's has no guide button.
Down(c, bs) == IF c = "xboxOld" THEN bs \ {"PS"} ELSE bs

\* The DualShock 4.
LEMMA Ds4Parsed ==
  ASSUME NEW bs, NEW p, NEW s, Possible("ds4", bs, p, s)
  PROVE  Says(Parse("ds4", bs, p, s), bs, p, s, TRUE)
<1> DEFINE g == ParsePs(RawReport("ds4", bs, p, s), 4, 1)
           f == Parse("ds4", bs, p, s)
<1>1. Wire["ds4"] = PsWire(4 + 1)
  BY DEF Wire, Possible
<1>2. Says(g, bs, p, s, TRUE)
  BY <1>1, PsParsed
<1>3. f = [g EXCEPT !.buttons = @ \ {"MUTE"}]
  BY DEF Parse
<1>4. "MUTE" \notin bs /\ "MUTE" \notin Triggers
  BY DEF Possible, Has, Shared, Digital, Faces, Dirs, Triggers
<1> HIDE DEF g, f
<1>5. g = Frame(g.buttons, g.axis, g.l2, g.r2)
  BY <1>2 DEF Says
<1>6. f = Frame(g.buttons \ {"MUTE"}, g.axis, g.l2, g.r2)
  BY <1>3, <1>5 DEF Frame
<1>7. f.buttons = g.buttons \ {"MUTE"} /\ f.axis = g.axis /\ f.l2 = g.l2 /\ f.r2 = g.r2
  BY <1>6 DEF Frame
<1>8. "MUTE" \notin g.buttons
  BY <1>2, <1>4 DEF Says
<1>9. f = g
  <2>1. g.buttons \ {"MUTE"} = g.buttons
    BY <1>8
  <2>2. QED
    BY <2>1, <1>5, <1>6, Zenon
<1>10. QED
  BY <1>2, <1>9 DEF f

\* Every controller that can be held: its frame says what the player does.
LEMMA Parsed ==
  ASSUME NEW c, NEW bs, NEW p, NEW s, Possible(c, bs, p, s)
  PROVE  Says(Parse(c, bs, p, s), Down(c, bs), p, s, c # "switch")
<1>1. /\ c \in {"xbox", "xboxOld", "ds", "dsBt", "ds4", "switch", "steam", "keyboard", "browser"}
      /\ c \in Kinds
  BY PadAssumption DEF Possible, Hid
<1>2. CASE c \in {"xbox", "xboxOld"}
  <2>1. Parse(c, bs, p, s) = ParseXbox(RawReport(c, bs, p, s), c = "xboxOld")
    BY <1>2 DEF Parse
  <2>2. (c # "switch") = TRUE
    BY <1>2
  <2>3. Says(ParseXbox(RawReport(c, bs, p, s), c = "xboxOld"), Down(c, bs), p, s, TRUE)
    BY <1>2, XboxParsed DEF Down
  <2>4. QED
    BY <2>1, <2>2, <2>3, Zenon
<1>3. CASE c = "ds"
  <2>1. /\ Wire["ds"] = PsWire(7 + 1)
        /\ Parse("ds", bs, p, s) = ParsePs(RawReport("ds", bs, p, s), 7, 1)
    BY <1>1, <1>3 DEF Wire, Parse
  <2>2. Says(Parse("ds", bs, p, s), bs, p, s, TRUE)
    BY <1>3, <2>1, PsParsed
  <2>3. QED
    BY <1>3, <2>2 DEF Down
<1>4. CASE c = "dsBt"
  <2>1. /\ Wire["dsBt"] = PsWire(7 + 2)
        /\ Parse("dsBt", bs, p, s) = ParsePs(RawReport("dsBt", bs, p, s), 7, 2)
    BY <1>1, <1>4 DEF Wire, Parse
  <2>2. Says(Parse("dsBt", bs, p, s), bs, p, s, TRUE)
    BY <1>4, <2>1, PsParsed
  <2>3. QED
    BY <1>4, <2>2 DEF Down
<1>5. CASE c = "ds4"
  BY <1>5, Ds4Parsed DEF Down
<1>6. CASE c = "switch"
  <2>1. Parse("switch", bs, p, s) = ParseSwitch(RawReport("switch", bs, p, s))
    BY DEF Parse
  <2>2. QED
    BY <1>6, <2>1, SwitchParsed DEF Down
<1>7. CASE c = "steam"
  <2>1. Parse("steam", bs, p, s) = ParseSteam(RawReport("steam", bs, p, s))
    BY DEF Parse
  <2>2. QED
    BY <1>7, <2>1, SteamParsed DEF Down
<1>8. CASE c = "keyboard"
  <2>1. Parse("keyboard", bs, p, s) = KeyboardFrame(bs, p, s)
    BY DEF Parse
  <2>2. QED
    BY <1>8, <2>1, KeyboardSays DEF Down
<1>9. CASE c = "browser"
  <2>1. Parse("browser", bs, p, s) = BrowserFrame(bs, p, s)
    BY DEF Parse
  <2>2. QED
    BY <1>9, <2>1, BrowserSays DEF Down
<1>10. QED
  BY <1>1, <1>2, <1>3, <1>4, <1>5, <1>6, <1>7, <1>8, <1>9

\* Frames that say that nothing is touched but some buttons.
LEMMA StillSays ==
  ASSUME NEW bs \in SUBSET Shared
  PROVE  Says(Frame(bs, [a \in Axes |-> 128], 0, 0), bs, None, None, TRUE)
<1> DEFINE f == Frame(bs, [a \in Axes |-> 128], 0, 0)
<1>1. /\ f.buttons = bs /\ f.axis = [a \in Axes |-> 128] /\ f.l2 = 0 /\ f.r2 = 0
      /\ f = Frame(f.buttons, f.axis, f.l2, f.r2)
  BY DEF Frame
<1> HIDE DEF f
<1>2. f.buttons \subseteq Buttons /\ f.buttons \ Triggers = bs /\ f.buttons \cap Triggers = {}
  BY <1>1, ButtonsNamed
<1>3. \A t \in Triggers : t \notin f.buttons /\ Level(f, t) = 0 /\ None[1] # t
  BY <1>1, <1>2 DEF Level, None, Triggers
<1>4. \A a \in Axes : Pushed(None, a) = 0
  BY DEF Pushed, None, Axes
<1>5. f.axis = [a \in Axes |-> f.axis[a]] /\ \A a \in Axes : Leans(f.axis[a], Pushed(None, a))
  BY <1>1, <1>4 DEF Leans
<1>6. \A t \in Triggers :
           /\ t \in f.buttons \/ Level(f, t) > 0 => None[1] = t
           /\ None[1] = t => Level(f, t) > 0 \/ (~TRUE /\ t \in f.buttons)
  BY <1>3
<1>7. f.l2 \in 0 .. 255 /\ f.r2 \in 0 .. 255
  BY <1>1
<1>8. Says(f, bs, None, None, TRUE)
  BY <1>1, <1>2, <1>5, <1>6, <1>7 DEF Says
<1>9. QED
  BY <1>8 DEF f

-----------------------------------------------------------------------------
(* The packet, and the rumble *)

\* The packet, of the client or of the browser, is decoded to the frame it was made of.
LEMMA FrameArrives ==
  ASSUME NEW c, NEW f, NEW bs, NEW p, NEW s, NEW axes, Says(f, bs, p, s, axes)
  PROVE  Sent(c, f) = f
<1> DEFINE at == IF c = "browser" THEN BrowserOffset ELSE WrittenAt
           packet == Encode(at, f)
<1>1. WrittenAt = BrowserOffset
  <2>1. \A g \in Fields : Offset(WriteOrder, g) = BrowserOffset[g]
    BY Offsets
  <2>2. BrowserOffset = [g \in Fields |-> BrowserOffset[g]]
    BY DEF BrowserOffset, Fields
  <2>3. QED
    BY <2>1, <2>2 DEF WrittenAt
<1>2. ReadAt = BrowserOffset
  <2>1. ReadOrder = WriteOrder
    BY DEF ReadOrder, WriteOrder
  <2>2. QED
    BY <2>1, <1>1 DEF ReadAt, WrittenAt
<1>3. at = BrowserOffset
  BY <1>1
<1>4. /\ \A g, h \in Fields : BrowserOffset[g] = BrowserOffset[h] => g = h
      /\ Fields = {"buttons", "l2", "r2"} \cup Axes
      /\ "buttons" \notin Axes /\ "l2" \notin Axes /\ "r2" \notin Axes
  BY DEF BrowserOffset, Fields, Axes
<1>5. \A g \in Fields :
        /\ BrowserOffset[g] \in DOMAIN packet
        /\ packet[BrowserOffset[g]] = CASE g = "buttons" -> {Bit[b] : b \in f.buttons}
              [] g \in Axes -> f.axis[g] [] g = "l2" -> f.l2 [] g = "r2" -> f.r2
  <2> HIDE DEF at
  <2> TAKE g \in Fields
  <2>1. BrowserOffset[g] \in {at[h] : h \in Fields}
    BY <1>3
  <2>2. (CHOOSE h \in Fields : at[h] = BrowserOffset[g]) = g
    BY <1>3, <1>4
  <2>3. QED
    BY <2>1, <2>2, Zenon DEF Encode
<1> HIDE DEF packet, at
<1>6. /\ packet[ReadAt["buttons"]] = {Bit[b] : b \in f.buttons} /\ ReadAt["buttons"] \in DOMAIN packet
      /\ packet[ReadAt["l2"]] = f.l2 /\ ReadAt["l2"] \in DOMAIN packet
      /\ packet[ReadAt["r2"]] = f.r2 /\ ReadAt["r2"] \in DOMAIN packet
      /\ \A a \in Axes : packet[ReadAt[a]] = f.axis[a] /\ ReadAt[a] \in DOMAIN packet
  BY <1>2, <1>4, <1>5
<1>7. {b \in DOMAIN Bit : Bit[b] \in packet[ReadAt["buttons"]]} = f.buttons
  BY <1>6, BitsDiffer DEF Says, Buttons
<1>8. [a \in Axes |-> IF ReadAt[a] \in DOMAIN packet THEN packet[ReadAt[a]] ELSE 0] = f.axis
  BY <1>6 DEF Says
<1>9. Decode(packet) = Frame({b \in DOMAIN Bit : Bit[b] \in packet[ReadAt["buttons"]]},
                             [a \in Axes |-> IF ReadAt[a] \in DOMAIN packet THEN packet[ReadAt[a]] ELSE 0],
                             packet[ReadAt["l2"]], packet[ReadAt["r2"]])
  BY <1>6, Zenon DEF Decode
<1>10. Decode(packet) = f
  BY <1>6, <1>7, <1>8, <1>9, Zenon DEF Says
<1>11. QED
  BY <1>10 DEF Sent, packet, at

\* A rumble's report is felt by a DualSense as it was asked for.
LEMMA RumbleArrives ==
  ASSUME NEW m \in {Rest, [large |-> 255, small |-> 0], [large |-> 0, small |-> 64]}, NEW before
  PROVE  Felt("ds", RumbleReport(m), before) = m
<1>1. m = [large |-> m.large, small |-> m.small]
  BY DEF Rest
<1>2. /\ RumbleReport(m)[0] = 2 /\ RumbleReport(m)[1] = 3
      /\ RumbleReport(m)[4] = m.large /\ RumbleReport(m)[3] = m.small
  BY DEF RumbleReport, MotorByte
<1>3. QED
  BY <1>1, <1>2 DEF Felt
-----------------------------------------------------------------------------
(* The pads a host may have *)

\* The companion's pads, and all of them.
Made == {"noop", "vhidDs", "vhidDs4", "vhidXbox"}
Backends == Made \cup {"uinput", "uhid", "winDs4", "winXbox"}

\* A few candidates, each with what it needs.
Candidates(q, n) == q \in Seq(Backends \X Drivers) /\ Len(q) <= n

\* The first candidate that can be had is one of them, or none.
LEMMA OneIsFirst ==
  ASSUME NEW q, Candidates(q, 4), NEW can, NEW names, \A i \in DOMAIN q : q[i][1] \in names
  PROVE  FirstOf(q, can) \in names \cup {"noop"}
<1> DEFINE had == {i \in DOMAIN q : q[i][2] \in can}
<1>1. CASE had = {}
  BY <1>1 DEF FirstOf
<1>2. CASE had # {}
  <2>1. \E i \in had : \A j \in had : i <= j
    <3>1. \A i \in had : i \in Nat /\ 1 <= i /\ i <= 4
      BY DEF Candidates
    <3>2. 1 \in had \/ 2 \in had \/ 3 \in had \/ 4 \in had
      BY <3>1, <1>2
    <3> HIDE DEF had
    <3>3. QED
      BY <3>1, <3>2
  <2>2. (CHOOSE i \in had : \A j \in had : i <= j) \in had
    <3> HIDE DEF had
    <3>1. QED
      BY <2>1
  <2>3. FirstOf(q, can) = q[CHOOSE i \in had : \A j \in had : i <= j][1]
    BY <1>2 DEF FirstOf
  <2>4. QED
    BY <2>2, <2>3
<1>3. QED
  BY <1>1, <1>2

\* A list of one candidate,
LEMMA OneCandidate ==
  ASSUME NEW a \in Backends, NEW d \in Drivers
  PROVE  /\ Candidates(<<<<a, d>>>>, 1)
         /\ \A i \in DOMAIN <<<<a, d>>>> : <<<<a, d>>>>[i][1] = a
<1> DEFINE c == <<a, d>>
<1>1. c \in Backends \X Drivers /\ c[1] = a
  OBVIOUS
<1> HIDE DEF c
<1>2. /\ <<c>> \in Seq(Backends \X Drivers) /\ Len(<<c>>) = 1
      /\ \A i \in DOMAIN <<c>> : <<c>>[i][1] = a
  BY <1>1
<1>3. /\ Candidates(<<c>>, 1) /\ \A i \in DOMAIN <<c>> : <<c>>[i][1] = a
  BY <1>2 DEF Candidates
<1>4. QED
  BY <1>3 DEF c

\* of none,
LEMMA NoCandidate == Candidates(<<>>, 1)
BY DEF Candidates

\* and of two lists.
LEMMA MoreCandidates ==
  ASSUME NEW q, NEW m \in Nat, NEW r, NEW n \in Nat, Candidates(q, m), Candidates(r, n)
  PROVE  Candidates(q \o r, m + n)
<1>1. /\ q \o r \in Seq(Backends \X Drivers) /\ Len(q \o r) = Len(q) + Len(r)
      /\ Len(q) \in Nat /\ Len(r) \in Nat
  BY DEF Candidates
<1>2. QED
  BY <1>1 DEF Candidates

\* What the host finds is a pad it knows;
LEMMA CandidatesGiven ==
  ASSUME NEW k, NEW q, Candidates(q, k), k \in 1 .. 3, NEW can
  PROVE  FirstOf(q, can) \in Backends
<1>1. Candidates(q, 4) /\ \A i \in DOMAIN q : q[i][1] \in Backends
  BY DEF Candidates
<1>2. FirstOf(q, can) \in Backends \cup {"noop"}
  BY <1>1, OneIsFirst
<1>3. QED
  BY <1>2 DEF Backends, Made

\* so is what the companion finds of one candidate
LEMMA OneGiven ==
  ASSUME NEW a \in Made, NEW d \in Drivers, NEW can
  PROVE  FirstOf(<<<<a, d>>>>, can) \in Made
<1>1. a \in Backends
  BY DEF Backends
<1> DEFINE q == <<<<a, d>>>>
<1>2. Candidates(q, 1) /\ \A i \in DOMAIN q : q[i][1] = a
  BY <1>1, OneCandidate, Zenon
<1> HIDE DEF q
<1>3. Candidates(q, 4)
  BY <1>2 DEF Candidates
<1>4. FirstOf(q, can) \in Made \cup {"noop"}
  BY <1>2, <1>3, OneIsFirst
<1>5. QED
  BY <1>4 DEF q, Made

\* and of two.
LEMMA TwoGiven ==
  ASSUME NEW a \in Made, NEW d \in Drivers, NEW b \in Made, NEW e \in Drivers, NEW can
  PROVE  FirstOf(<<<<a, d>>, <<b, e>>>>, can) \in Made
<1> DEFINE u == <<a, d>>
           v == <<b, e>>
<1>1. u \in Backends \X Drivers /\ u[1] \in Made
  BY DEF Backends
<1>2. v \in Backends \X Drivers /\ v[1] \in Made
  BY DEF Backends
<1> HIDE DEF u, v
<1>3. /\ <<u, v>> \in Seq(Backends \X Drivers) /\ Len(<<u, v>>) = 2
      /\ \A i \in DOMAIN <<u, v>> : <<u, v>>[i][1] \in Made
  BY <1>1, <1>2
<1>4. Candidates(<<u, v>>, 4)
  BY <1>3 DEF Candidates
<1>5. FirstOf(<<u, v>>, can) \in Made \cup {"noop"}
  BY <1>3, <1>4, OneIsFirst
<1>6. QED
  BY <1>5 DEF Made, u, v

\* The names that the lists of candidates use.
LEMMA Names ==
  /\ "vhidDs" \in Made /\ "vhidDs4" \in Made /\ "vhidXbox" \in Made
  /\ "winuhid" \in Drivers /\ "vigemDs4" \in Drivers /\ "vigemXbox" \in Drivers
  /\ "companion" \in Drivers /\ "uhid" \in Drivers /\ "uinput" \in Drivers
  /\ Made \subseteq Backends /\ "uhid" \in Backends /\ "uinput" \in Backends
  /\ "winDs4" \in Backends /\ "winXbox" \in Backends
BY DEF Made, Drivers, Backends

\* The companion finds one of its own pads,
LEMMA CompanionsMade ==
  ASSUME NEW k \in {"auto", "winuhid", "ds4", "xbox360"}, NEW can
  PROVE  CompanionPad(k, can) \in Made
<1>1. CASE k = "auto"
  <2>1. CompanionPad("auto", can) = FirstOf(<<<<"vhidDs", "winuhid">>, <<"vhidDs4", "vigemDs4">>>>, can)
    BY Zenon DEF CompanionPad
  <2>2. FirstOf(<<<<"vhidDs", "winuhid">>, <<"vhidDs4", "vigemDs4">>>>, can) \in Made
    <3>1. "vhidDs" \in Made /\ "winuhid" \in Drivers /\ "vhidDs4" \in Made /\ "vigemDs4" \in Drivers
      BY Names
    <3>2. QED
      BY <3>1, TwoGiven, Zenon
  <2>3. QED
    BY <1>1, <2>1, <2>2
<1>2. CASE k = "winuhid"
  <2>1. CompanionPad("winuhid", can) = FirstOf(<<<<"vhidDs", "winuhid">>>>, can)
    BY Zenon DEF CompanionPad
  <2>2. QED
    BY <1>2, <2>1, OneGiven, Names, Zenon
<1>3. CASE k = "ds4"
  <2>1. CompanionPad("ds4", can) = FirstOf(<<<<"vhidDs4", "vigemDs4">>>>, can)
    BY Zenon DEF CompanionPad
  <2>2. QED
    BY <1>3, <2>1, OneGiven, Names, Zenon
<1>4. CASE k = "xbox360"
  <2>1. CompanionPad("xbox360", can) = FirstOf(<<<<"vhidXbox", "vigemXbox">>>>, can)
    BY Zenon DEF CompanionPad
  <2>2. QED
    BY <1>4, <2>1, OneGiven, Names, Zenon
<1>5. QED
  BY <1>1, <1>2, <1>3, <1>4

\* the Linux host one that Linux has,
LEMMA LinuxCandidates ==
  ASSUME NEW want, NEW forced, NEW wsl, NEW made \in Made, NEW can
  PROVE  FirstOf(LinuxPads(want, forced, wsl, made), can) \in Backends
<1> DEFINE one == <<<<made, "companion">>>>
           tcp == IF want = "dualsense" \/ forced \/ (want = "auto" /\ wsl) THEN one ELSE <<>>
           two == <<<<"uhid", "uhid">>>>
           uhid == IF want \in {"auto", "dualsense"} THEN two ELSE <<>>
           uinput == <<<<"uinput", "uinput">>>>
<1>1. Candidates(one, 1)
  BY Names, OneCandidate, Zenon
<1>2. Candidates(two, 1)
  BY Names, OneCandidate, Zenon
<1>3. Candidates(uinput, 1)
  BY Names, OneCandidate, Zenon
<1> HIDE DEF one, two
<1>4. Candidates(tcp, 1) /\ Candidates(uhid, 1)
  <2>1. tcp \in {one, <<>>} /\ uhid \in {two, <<>>}
    BY Zenon
  <2>2. QED
    BY <1>1, <1>2, <2>1, NoCandidate, Zenon
<1>5. \/ LinuxPads(want, forced, wsl, made) = tcp
      \/ LinuxPads(want, forced, wsl, made) = (tcp \o uhid) \o uinput
  BY Zenon DEF LinuxPads, one, two
<1> HIDE DEF tcp, uhid, uinput
<1>6. Candidates(tcp \o uhid, 1 + 1)
  BY <1>4, MoreCandidates
<1>7. Candidates((tcp \o uhid) \o uinput, (1 + 1) + 1)
  BY <1>3, <1>6, MoreCandidates
<1>8. (1 + 1) + 1 \in 1 .. 3 /\ 1 \in 1 .. 3
  OBVIOUS
<1>9. FirstOf(tcp, can) \in Backends /\ FirstOf((tcp \o uhid) \o uinput, can) \in Backends
  BY <1>4, <1>7, <1>8, CandidatesGiven, Zenon
<1>10. QED
  BY <1>5, <1>9, Zenon

\* the Windows host one that Windows has,
LEMMA WindowsCandidates ==
  ASSUME NEW want \in Wants \ {"noop"}, NEW made \in Made, NEW can
  PROVE  FirstOf(WindowsPads(want, made), can) \in Backends
<1> DEFINE tcp == <<<<made, "companion">>>>
           ds4 == <<<<"winDs4", "vigemDs4">>>>
           xbox == <<<<"winXbox", "vigemXbox">>>>
<1>1. Candidates(tcp, 1)
  BY Names, OneCandidate, Zenon
<1>2. Candidates(ds4, 1)
  BY Names, OneCandidate, Zenon
<1>3. Candidates(xbox, 1)
  BY Names, OneCandidate, Zenon
<1>4. /\ WindowsPads("dualsense", made) = tcp /\ WindowsPads("ds4", made) = ds4
      /\ WindowsPads("xbox360", made) = xbox
      /\ WindowsPads("auto", made) = (tcp \o ds4) \o xbox
  BY Zenon DEF WindowsPads
<1> HIDE DEF tcp, ds4, xbox
<1>5. want \in {"dualsense", "ds4", "xbox360", "auto"}
  BY DEF Wants
<1>6. Candidates(tcp \o ds4, 1 + 1)
  BY <1>1, <1>2, MoreCandidates
<1>7. Candidates((tcp \o ds4) \o xbox, (1 + 1) + 1)
  BY <1>3, <1>6, MoreCandidates
<1>8. (1 + 1) + 1 \in 1 .. 3 /\ 1 \in 1 .. 3
  OBVIOUS
<1>9. FirstOf(tcp, can) \in Backends /\ FirstOf(ds4, can) \in Backends /\ FirstOf(xbox, can) \in Backends
  BY <1>1, <1>2, <1>3, <1>8, CandidatesGiven, Zenon
<1>10. FirstOf((tcp \o ds4) \o xbox, can) \in Backends
  BY <1>7, <1>8, CandidatesGiven, Zenon
<1>11. QED
  <2>1. want = "dualsense" \/ want = "ds4" \/ want = "xbox360" \/ want = "auto"
    BY <1>5
  <2>2. QED
    BY <1>4, <1>9, <1>10, <2>1, Zenon

\* and so there is no pad that the mappings do not know.
LEMMA PadsAre == Pads \subseteq Backends
<1>1. ASSUME NEW os, NEW want \in Wants, NEW forced,
             NEW made \in {"auto", "winuhid", "ds4", "xbox360"}, NEW can
      PROVE  PadOf(os, want, forced, made, can) \in Backends
  <2>1. CASE want = "noop"
    <3>1. "noop" \in Backends
      BY DEF Backends, Made
    <3>2. QED
      BY <2>1, <3>1, Zenon DEF PadOf
  <2>2. CASE want # "noop"
    <3>1. CompanionPad(made, can) \in Made
      BY CompanionsMade
    <3>2. FirstOf(LinuxPads(want, forced, os = "wsl", CompanionPad(made, can)), can) \in Backends
      BY <3>1, LinuxCandidates, Zenon
    <3>3. FirstOf(WindowsPads(want, CompanionPad(made, can)), can) \in Backends
      <4>1. want \in Wants \ {"noop"}
        BY <2>2
      <4>2. QED
        BY <3>1, <4>1, WindowsCandidates, Zenon
    <3>4. QED
      BY <2>2, <3>2, <3>3, Zenon DEF PadOf
  <2>3. QED
    BY <2>1, <2>2
<1>2. ASSUME NEW b \in Pads PROVE b \in Backends
  <2>1. PICK os \in {"linux", "wsl", "windows"}, want \in Wants, forced \in BOOLEAN,
             made \in {"auto", "winuhid", "ds4", "xbox360"}, can \in SUBSET Drivers :
               b = PadOf(os, want, forced, made, can)
    BY DEF Pads
  <2>2. QED
    BY <1>1, <2>1
<1>3. QED
  BY <1>2

-----------------------------------------------------------------------------
(* The virtual controllers *)

\* What a report with a hat can say of some buttons.
Hatted(bs) == (bs \ Dirs) \cup Pointed(bs \cap Dirs)

\* The buttons a game sees of those a frame names.
Seen(b, bs) ==
  CASE b = "noop" -> {}
    [] b = "uinput" -> bs \cap (Shared \cup Triggers)
    [] b \in {"uhid", "vhidDs"} -> Hatted(bs)
    [] b \in {"vhidDs4", "winDs4"} -> Hatted(bs) \ {"MUTE"}
    [] b = "vhidXbox" -> Hatted(bs) \cap Shared
    [] b = "winXbox" -> bs \cap Shared

\* The DualSense's report has a place for every button but the directions.
LEMMA PsNames == Buttons \ Dirs = DOMAIN PsWire(8) /\ DOMAIN PsWire(8) = DOMAIN PsWire(5)
BY DEF Buttons, Bit, Dirs, PsWire, Faces, Ps9, Ps10

\* The host's DualSense report shows every button; opposed directions are none.
LEMMA DualSenseShows ==
  ASSUME NEW f, f.buttons \subseteq Buttons
  PROVE  DsButtons(DsReport(f)) = Hatted(f.buttons)
<1> DEFINE bs == f.buttons \ Dirs
           ds == f.buttons \cap Dirs
           r == DsReport(f)
<1>1. r.at = {PsWire(8)[b] : b \in bs} /\ r.hat = IF Hat(ds) = 0 THEN 8 ELSE Hat(ds) - 1
  BY DEF DsReport
<1>2. bs \in SUBSET DOMAIN PsWire(8) /\ ds \in SUBSET Dirs
  BY PsNames
<1>3. PsDirs(r.hat) = Pointed(ds)
  BY <1>1, <1>2, HatRead
<1>4. /\ DOMAIN PsWire(8) = DOMAIN PsPlaces(8)
      /\ \A d, b \in DOMAIN PsPlaces(8) : PsWire(8)[d] \in PsPlaces(8)[b] <=> d = b
  BY PsSpots
<1> HIDE DEF r, bs
<1>5. Found(PsPlaces(8), {PsWire(8)[b] : b \in bs}) = bs \cap DOMAIN PsPlaces(8)
  BY <1>2, <1>4, FoundDown
<1>6. Found(PsPlaces(8), r.at) = bs
  BY <1>1, <1>2, <1>4, <1>5
<1>7. QED
  BY <1>3, <1>6 DEF DsButtons, Hatted, r, bs

\* The bytes of the DualSense are the DualShock 4's but for the mute button.
LEMMA Ds4Bytes ==
  \A b \in DOMAIN PsWire(8) :
    /\ <<PsWire(8)[b][1] - 3, PsWire(8)[b][2]>> = PsWire(5)[b]
    /\ PsWire(8)[b][1] < 10 \/ PsWire(8)[b][2] < 4 <=> b # "MUTE"
BY SMTT(60) DEF PsWire, Faces, Ps8, Ps9, Ps10

\* The companion's DualShock 4 shows the same without the mute button.
LEMMA DualShock4Shows ==
  ASSUME NEW f, f.buttons \subseteq Buttons
  PROVE  Ds4Buttons(DsReport(f)) = Hatted(f.buttons) \ {"MUTE"}
<1> DEFINE bs == f.buttons \ Dirs
           fewer == bs \ {"MUTE"}
           ds == f.buttons \cap Dirs
           r == DsReport(f)
<1>1. r.at = {PsWire(8)[b] : b \in bs} /\ r.hat = IF Hat(ds) = 0 THEN 8 ELSE Hat(ds) - 1
  BY DEF DsReport
<1>2. bs \in SUBSET DOMAIN PsWire(8) /\ fewer \in SUBSET DOMAIN PsWire(5) /\ ds \in SUBSET Dirs
  BY PsNames
<1>3. PsDirs(IF r.hat > 8 THEN 8 ELSE r.hat) = Pointed(ds) /\ "MUTE" \notin Pointed(ds)
  <2>1. r.hat \in 0 .. 8 /\ PsDirs(r.hat) = Pointed(ds)
    BY <1>1, <1>2, HatRead
  <2> HIDE DEF r
  <2>2. (IF r.hat > 8 THEN 8 ELSE r.hat) = r.hat
    BY <2>1
  <2>3. "MUTE" \notin Pointed(ds)
    BY DEF Pointed, Dirs
  <2>4. QED
    BY <2>1, <2>2, <2>3
<1> HIDE DEF r, bs
<1>4. Ds4FromDs(r) = {PsWire(5)[b] : b \in fewer}
  <2>1. ASSUME NEW x \in Ds4FromDs(r) PROVE x \in {PsWire(5)[b] : b \in fewer}
    <3>1. PICK p \in r.at : (p[1] < 10 \/ p[2] < 4) /\ x = <<p[1] - 3, p[2]>>
      BY <2>1 DEF Ds4FromDs
    <3>2. PICK b \in bs : p = PsWire(8)[b]
      BY <1>1, <3>1
    <3>3. b # "MUTE" /\ x = PsWire(5)[b]
      BY <1>2, <3>1, <3>2, Ds4Bytes
    <3>4. QED
      BY <3>2, <3>3
  <2>2. ASSUME NEW b \in fewer PROVE PsWire(5)[b] \in Ds4FromDs(r)
    <3> DEFINE p == PsWire(8)[b]
    <3>1. p \in r.at /\ (p[1] < 10 \/ p[2] < 4) /\ <<p[1] - 3, p[2]>> = PsWire(5)[b]
      BY <1>1, <1>2, Ds4Bytes
    <3> HIDE DEF p
    <3>2. QED
      BY <3>1 DEF Ds4FromDs
  <2>3. QED
    BY <2>1, <2>2
<1>5. /\ DOMAIN PsWire(5) = DOMAIN PsPlaces(5)
      /\ \A d, b \in DOMAIN PsPlaces(5) : PsWire(5)[d] \in PsPlaces(5)[b] <=> d = b
  BY PsSpots
<1> HIDE DEF fewer
<1>6. Found(PsPlaces(5), {PsWire(5)[b] : b \in fewer}) = fewer \cap DOMAIN PsPlaces(5)
  BY <1>2, <1>5, FoundDown
<1>7. Found(PsPlaces(5), Ds4FromDs(r)) = fewer
  BY <1>2, <1>4, <1>5, <1>6
<1>8. QED
  BY <1>3, <1>7 DEF Ds4Buttons, Hatted, r, bs, fewer

\* ViGEm's DualShock 4 shows what the companion's does.
LEMMA WinDs4Shows ==
  ASSUME NEW f PROVE WinDs4Buttons(f) = Hatted(f.buttons) \ {"MUTE"}
<1>1. Opposed(f.buttons) <=> Opposed(f.buttons \cap Dirs)
  BY DEF Opposed, Dirs
<1>2. "MUTE" \notin Dirs
  BY DEF Dirs
<1>3. QED
  BY <1>1, <1>2 DEF WinDs4Buttons, Hatted, Pointed

\* Every mapping shows what Seen says.
LEMMA ButtonsSeen ==
  ASSUME NEW b \in Backends, NEW f, f.buttons \subseteq Buttons
  PROVE  Apply(b, f).buttons = Seen(b, f.buttons)
<1>1. DsButtons(DsReport(f)) = Hatted(f.buttons)
  BY DualSenseShows
<1>2. Ds4Buttons(DsReport(f)) = Hatted(f.buttons) \ {"MUTE"}
  BY DualShock4Shows
<1>3. WinDs4Buttons(f) = Hatted(f.buttons) \ {"MUTE"}
  BY WinDs4Shows
<1>4. Apply(b, f).buttons =
        CASE b = "noop" -> {}
          [] b = "uinput" -> Uinput(f)
          [] b \in {"uhid", "vhidDs"} -> DsButtons(DsReport(f))
          [] b = "vhidDs4" -> Ds4Buttons(DsReport(f))
          [] b = "vhidXbox" -> DsButtons(DsReport(f)) \cap XInput
          [] b = "winDs4" -> WinDs4Buttons(f)
          [] b = "winXbox" -> f.buttons \cap XInput
  BY Zenon DEF Apply
<1>5. b \in {"noop", "uinput", "uhid", "vhidDs", "vhidDs4", "vhidXbox", "winDs4", "winXbox"}
  BY DEF Backends, Made
<1>6. QED
  BY <1>1, <1>2, <1>3, <1>4, <1>5 DEF Seen, Uinput, XInput

\* The axes and the triggers of every mapping.
LEMMA AxesSeen ==
  ASSUME NEW b \in Backends, NEW f, NEW a \in Axes
  PROVE  /\ b = "noop" => Apply(b, f).axis[a] = 128
         /\ b \in {"vhidXbox", "winXbox"} => Apply(b, f).axis[a] = XboxThumb(a, f.axis[a])
         /\ b \notin {"noop", "vhidXbox", "winXbox"} => Apply(b, f).axis[a] = f.axis[a]
         /\ Level(Apply(b, f), "L2") = IF b = "noop" THEN 0 ELSE Level(f, "L2")
         /\ Level(Apply(b, f), "R2") = IF b = "noop" THEN 0 ELSE Level(f, "R2")
<1> DEFINE g == Apply(b, f)
<1>1. g.axis = [d \in Axes |-> IF b = "noop" THEN 128
                               ELSE IF b \in {"vhidXbox", "winXbox"} THEN XboxThumb(d, f.axis[d])
                               ELSE f.axis[d]]
  BY Zenon DEF Apply
<1>2. g.l2 = (IF b = "noop" THEN 0 ELSE f.l2) /\ g.r2 = (IF b = "noop" THEN 0 ELSE f.r2)
  BY Zenon DEF Apply
<1> HIDE DEF g
<1>3. /\ b = "noop" => g.axis[a] = 128
      /\ b \in {"vhidXbox", "winXbox"} => g.axis[a] = XboxThumb(a, f.axis[a])
      /\ b \notin {"noop", "vhidXbox", "winXbox"} => g.axis[a] = f.axis[a]
  BY <1>1
<1>4. QED
  BY <1>2, <1>3 DEF g, Level

\* What a game makes of an axis, right and down positive.
ReadAs(b, a, x) ==
  IF b \in {"vhidXbox", "winXbox"} THEN (IF a \in Vertical THEN -x ELSE x) \div 257
  ELSE (x - 128) \div 2

\* An axis that leans is read as pushed the same way, inverted or not.
LEMMA AxisRead ==
  ASSUME NEW b \in Backends, b # "noop", NEW a \in Axes, NEW x, NEW v \in {0} \cup Thrown, Leans(x, v)
  PROVE  LET r == ReadAs(b, a, IF b \in {"vhidXbox", "winXbox"} THEN XboxThumb(a, x) ELSE x)
         IN  /\ v = 0 => r \in Still
             /\ v # 0 => r \notin Still /\ Sign(r) = Sign(v)
<1>1. /\ v \in Int /\ x \in Nat /\ x <= 255
      /\ v = 0 => x \in {127, 128}
      /\ v > 0 => x >= 131
      /\ v < 0 => x <= 124
  BY DEF Leans, Thrown
<1>2. CASE b \notin {"vhidXbox", "winXbox"}
  BY <1>1, <1>2, SMTT(30) DEF ReadAs, Still, Sign
<1>3. CASE b \in {"vhidXbox", "winXbox"} /\ a \in Vertical
  <2>1. XboxThumb(a, x) = IF 255 - x = 255 THEN 32512 ELSE (127 - x) * 256
    BY <1>1, <1>3, SMTT(30) DEF XboxThumb, StickToI16, Invert
  <2>2. XboxThumb(a, x) = (127 - x) * 256
    BY <1>1, <2>1
  <2>3. QED
    BY <1>1, <1>3, <2>2, SMTT(30) DEF ReadAs, Still, Sign
<1>4. CASE b \in {"vhidXbox", "winXbox"} /\ a \notin Vertical
  <2>1. XboxThumb(a, x) = (x - 128) * 256
    BY <1>1, <1>4, SMTT(30) DEF XboxThumb, StickToI16
  <2>2. QED
    BY <1>1, <1>4, <2>1, SMTT(30) DEF ReadAs, Still, Sign
<1>5. QED
  BY <1>2, <1>3, <1>4

\* What the game g sees with the virtual controller b, when it was told of the
\* buttons bs, the trigger p and the stick s.
InGame(b, g, bs, p, s, axes) ==
  /\ g.buttons \ Triggers = Seen(b, bs)
  /\ \A t \in Triggers :
       /\ t \in g.buttons \/ Level(g, t) > 0 => p[1] = t
       /\ p[1] = t /\ b # "noop" /\ (axes \/ b \notin {"vhidXbox", "winXbox"})
            => t \in g.buttons \/ Level(g, t) > 0
  /\ \A a \in Axes :
       LET r == ReadAs(b, a, g.axis[a])
       IN  IF b # "noop" /\ s[1] = a THEN r \notin Still /\ Sign(r) = Sign(s[2]) ELSE r \in Still

\* Triggers and other buttons do not mix on the way.
LEMMA SeenApart ==
  ASSUME NEW b \in Backends, NEW bs \in SUBSET Buttons
  PROVE  /\ Seen(b, bs) \ Triggers = Seen(b, bs \ Triggers)
         /\ \A t \in Triggers :
              t \in Seen(b, bs) <=> t \in bs /\ b \notin {"noop", "vhidXbox", "winXbox"}
<1>1. \A t \in Triggers : t \notin Dirs /\ t \notin Shared /\ t # "MUTE"
  BY DEF Triggers, Dirs, Shared, Digital, Faces
<1>2. (bs \ Triggers) \cap Dirs = bs \cap Dirs /\ (bs \ Triggers) \ Dirs = (bs \ Dirs) \ Triggers
  BY <1>1
<1>3. Pointed(bs \cap Dirs) \cap Triggers = {}
  BY <1>1 DEF Pointed
<1>4. Hatted(bs) \ Triggers = Hatted(bs \ Triggers) /\ \A t \in Triggers : t \in Hatted(bs) <=> t \in bs
  BY <1>1, <1>2, <1>3 DEF Hatted
<1> HIDE DEF Triggers
<1>5. b \in {"noop", "uinput", "uhid", "vhidDs", "vhidDs4", "vhidXbox", "winDs4", "winXbox"}
  BY DEF Backends, Made
<1>6. CASE b = "noop"
  BY <1>6 DEF Seen
<1>7. CASE b = "uinput"
  BY <1>7, <1>1 DEF Seen
<1>8. CASE b \in {"uhid", "vhidDs"}
  BY <1>8, <1>4 DEF Seen
<1>9. CASE b \in {"vhidDs4", "winDs4"}
  <2>1. \A ds : Seen(b, ds) = Hatted(ds) \ {"MUTE"}
    BY <1>9 DEF Seen
  <2>2. QED
    BY <1>1, <1>4, <1>9, <2>1
<1>10. CASE b = "vhidXbox"
  <2>1. \A ds : Seen(b, ds) = Hatted(ds) \cap Shared
    BY <1>10 DEF Seen
  <2>2. QED
    BY <1>1, <1>4, <1>10, <2>1
<1>11. CASE b = "winXbox"
  <2>1. \A ds : Seen(b, ds) = ds \cap Shared
    BY <1>11 DEF Seen
  <2>2. QED
    BY <1>1, <1>11, <2>1
<1>12. QED
  BY <1>5, <1>6, <1>7, <1>8, <1>9, <1>10, <1>11

\* A frame is shown by every virtual controller as what it says.
LEMMA FrameShown ==
  ASSUME NEW b \in Backends, NEW f, NEW bs, NEW p, NEW s, NEW axes \in BOOLEAN, Says(f, bs, p, s, axes),
         \A a \in Axes : Pushed(s, a) \in {0} \cup Thrown /\ (s[1] = a <=> Pushed(s, a) # 0)
  PROVE  InGame(b, Apply(b, f), bs, p, s, axes)
<1> DEFINE g == Apply(b, f)
<1>1. f.buttons \subseteq Buttons /\ f.buttons \ Triggers = bs
  BY DEF Says
<1>2. g.buttons = Seen(b, f.buttons)
  BY <1>1, ButtonsSeen
<1>3. g.buttons \ Triggers = Seen(b, bs)
  BY <1>1, <1>2, SeenApart
<1>4. ASSUME NEW t \in Triggers
      PROVE  /\ t \in g.buttons \/ Level(g, t) > 0 => p[1] = t
             /\ p[1] = t /\ b # "noop" /\ (axes \/ b \notin {"vhidXbox", "winXbox"})
                  => t \in g.buttons \/ Level(g, t) > 0
  <2>1. /\ t \in f.buttons \/ Level(f, t) > 0 => p[1] = t
        /\ p[1] = t => Level(f, t) > 0 \/ (~axes /\ t \in f.buttons)
    BY DEF Says
  <2>2. t \in g.buttons <=> t \in f.buttons /\ b \notin {"noop", "vhidXbox", "winXbox"}
    BY <1>1, <1>2, SeenApart
  <2>3. Level(g, t) = IF b = "noop" THEN 0 ELSE Level(f, t)
    <3>1. /\ Level(g, "L2") = IF b = "noop" THEN 0 ELSE Level(f, "L2")
          /\ Level(g, "R2") = IF b = "noop" THEN 0 ELSE Level(f, "R2")
      <4>1. "lx" \in Axes
        BY DEF Axes
      <4>2. QED
        BY <4>1, AxesSeen, Zenon
    <3>2. t = "L2" \/ t = "R2"
      BY DEF Triggers
    <3>3. QED
      BY <3>1, <3>2, Zenon
  <2> HIDE DEF g
  <2>4. QED
    BY <2>1, <2>2, <2>3
<1>5. ASSUME NEW a \in Axes
      PROVE  LET r == ReadAs(b, a, g.axis[a])
             IN  IF b # "noop" /\ s[1] = a THEN r \notin Still /\ Sign(r) = Sign(s[2]) ELSE r \in Still
  <2> DEFINE x == f.axis[a]
             v == Pushed(s, a)
             y == IF b \in {"vhidXbox", "winXbox"} THEN XboxThumb(a, x) ELSE x
  <2>1. Leans(x, v) /\ v \in {0} \cup Thrown /\ (s[1] = a <=> v # 0) /\ (s[1] = a => v = s[2])
    BY DEF Says, Pushed
  <2>2. CASE b = "noop"
    <3>1. g.axis[a] = 128
      BY <2>2, AxesSeen
    <3>2. ReadAs(b, a, 128) \in Still
      BY <2>2, SMTT(30) DEF ReadAs, Still
    <3>3. QED
      BY <2>2, <3>1, <3>2
  <2>3. CASE b # "noop"
    <3>1. g.axis[a] = y
      BY <2>3, AxesSeen
    <3> HIDE DEF v, x
    <3>2. /\ v = 0 => ReadAs(b, a, y) \in Still
          /\ v # 0 => ReadAs(b, a, y) \notin Still /\ Sign(ReadAs(b, a, y)) = Sign(v)
      BY <2>1, <2>3, AxisRead
    <3> HIDE DEF y, g
    <3>3. QED
      BY <2>1, <2>3, <3>1, <3>2
  <2>4. QED
    BY <2>2, <2>3
<1> HIDE DEF g
<1>6. InGame(b, g, bs, p, s, axes)
  BY <1>3, <1>4, <1>5 DEF InGame
<1>7. QED
  BY <1>6 DEF g

\* A report of the state, all the way to the game;
LEMMA ReportShown ==
  ASSUME NEW b \in Backends, NEW c, NEW bs, NEW p, NEW s, Possible(c, bs, p, s)
  PROVE  InGame(b, Apply(b, Sent(c, Parse(c, bs, p, s))), Down(c, bs), p, s, c # "switch")
<1> DEFINE f == Parse(c, bs, p, s)
<1>1. Says(f, Down(c, bs), p, s, c # "switch")
  BY Parsed
<1> HIDE DEF f
<1>2. Sent(c, f) = f
  BY <1>1, FrameArrives
<1>3. \A a \in Axes : Pushed(s, a) \in {0} \cup Thrown /\ (s[1] = a <=> Pushed(s, a) # 0)
  BY StickPushed
<1>4. InGame(b, Apply(b, f), Down(c, bs), p, s, c # "switch")
  BY <1>1, <1>3, FrameShown
<1>5. QED
  BY <1>2, <1>4 DEF f

\* and one of the guide button.
LEMMA GuideShown ==
  ASSUME NEW b \in Backends, NEW c, NEW bs, NEW axes
  PROVE  InGame(b, Apply(b, Sent(c, ParseGuide(bs))), bs \cap {"PS"}, None, None, axes)
<1> DEFINE f == ParseGuide(bs)
<1>1. bs \cap {"PS"} \in SUBSET Shared
  BY DEF Shared
<1>2. Says(f, bs \cap {"PS"}, None, None, TRUE)
  BY <1>1, StillSays DEF ParseGuide
<1> HIDE DEF f
<1>3. Sent(c, f) = f
  BY <1>2, FrameArrives
<1>4. \A a \in Axes : Pushed(None, a) \in {0} \cup Thrown /\ (None[1] = a <=> Pushed(None, a) # 0)
  BY DEF Pushed, None, Axes
<1>5. InGame(b, Apply(b, f), bs \cap {"PS"}, None, None, TRUE)
  BY <1>2, <1>4, FrameShown
<1>6. InGame(b, Apply(b, f), bs \cap {"PS"}, None, None, axes)
  BY <1>5 DEF InGame
<1>7. QED
  BY <1>3, <1>6 DEF f

-----------------------------------------------------------------------------
(* The invariant *)

\* What the last report told the host of.
ToldDown == IF ~Arrives \/ said = "other" THEN {}
            ELSE IF said = "guide" THEN held \cap {"PS"} ELSE Down(kind, held)
ToldPull == IF said = "state" /\ Arrives THEN pull ELSE None
ToldPush == IF said = "state" /\ Arrives THEN push ELSE None

\* What is in the player's hands and at the host.
InHands ==
  /\ kind \in Kinds /\ backend \in Backends
  /\ heard \subseteq (Kinds \cap Hid) \ {"unknown"}
  /\ "ds" \in heard => "ds4" \notin heard /\ "dsBt" \notin heard
  /\ said \in {"state", "guide", "other"} /\ (said = "guide" => kind = "xboxOld")
  /\ held \subseteq Has[kind] /\ (kind \in Rocker => ~Opposed(held))
  /\ pull = None \/ \E t \in Triggers, far \in Far(kind) : pull = <<t, far>>
  /\ push = None \/ \E a \in Sticks(kind), v \in Thrown : push = <<a, v>>

\* The inductive invariant: the game knows what it was told last.
Told == InGame(backend, game, ToldDown, ToldPull, ToldPush, kind # "switch")
Rumbled ==
  /\ asked \in {Rest, [large |-> 255, small |-> 0], [large |-> 0, small |-> 64]}
  /\ RumbleFelt
PadInv == InHands /\ Told /\ Rumbled

\* Of the Sony controllers the client hears a DualSense on USB or another, not both.
LEMMA HeardOnce ==
  ASSUME NEW plugged \in SUBSET (Kinds \cap Hid), NEW h \in Heard(plugged)
  PROVE  /\ h \subseteq (Kinds \cap Hid) \ {"unknown"}
         /\ "ds" \in h => "ds4" \notin h /\ "dsBt" \notin h
<1>1. DOMAIN Accepted = 1 .. 4
  BY DEF Accepted
<1>2. /\ Accepted[1] = {"DualSense", "DualShock4"} /\ Accepted[2] = {"Xbox"}
      /\ Accepted[3] = {"Switch"} /\ Accepted[4] = {"SteamController"}
  BY DEF Accepted
<1>3. \A c \in Hid : c = "unknown" <=> (\A r \in 1 .. 4 : Family[c] \notin Accepted[r])
  BY <1>2, SMTT(30) DEF Family, Hid
<1>4. /\ Family["ds"] = "DualSense" /\ Family["dsBt"] = "DualSense" /\ Family["ds4"] = "DualShock4"
  BY DEF Family, Hid
<1>5. \A r \in 1 .. 4 : \A c \in OpenFirst(r, plugged) : c \in plugged /\ Family[c] \in Accepted[r]
  BY DEF OpenFirst
<1>6. /\ h \subseteq UNION {OpenFirst(r, plugged) : r \in 1 .. 4}
      /\ Cardinality(h \cap OpenFirst(1, plugged)) <= 1
  BY <1>1 DEF Heard
<1>7. h \subseteq plugged /\ "unknown" \notin h
  <2>1. ASSUME NEW c \in h PROVE c \in plugged /\ c # "unknown"
    <3>1. PICK r \in 1 .. 4 : c \in OpenFirst(r, plugged)
      BY <1>6
    <3>2. QED
      BY <3>1, <1>5, <1>3
  <2>2. QED
    BY <2>1
<1>8. ASSUME "ds" \in h PROVE "ds4" \notin h /\ "dsBt" \notin h
  <2>1. /\ OpenFirst(1, plugged) = {c \in plugged : Family[c] \in Accepted[1]} \cap OnUsb
        /\ "ds" \in OpenFirst(1, plugged)
    <3>1. "ds" \in plugged /\ Family["ds"] \in Accepted[1] /\ "ds" \in OnUsb
      BY <1>2, <1>4, <1>7, <1>8 DEF OnUsb
    <3>2. QED
      BY <3>1 DEF OpenFirst
  <2>2. "dsBt" \notin h
    <3>1. \A r \in 1 .. 4 : "dsBt" \in OpenFirst(r, plugged) => r = 1
      BY <1>2, <1>4, <1>5
    <3>2. "dsBt" \notin OpenFirst(1, plugged)
      BY <2>1 DEF OnUsb
    <3>3. QED
      BY <3>1, <3>2, <1>6
  <2>3. "ds4" \notin h
    <3>1. SUFFICES ASSUME "ds4" \in h PROVE FALSE
      OBVIOUS
    <3>2. "ds4" \in OpenFirst(1, plugged)
      BY <2>1, <3>1, <1>2, <1>4, <1>7 DEF OnUsb
    <3>3. h \cap OpenFirst(1, plugged) \subseteq {"ds", "ds4"}
      <4>1. Family["switch"] = "Switch" /\ Family["steam"] = "SteamController"
        BY DEF Family, Hid
      <4>2. OpenFirst(1, plugged) \subseteq {"ds", "ds4", "switch", "steam"}
        BY <2>1 DEF OnUsb
      <4>3. QED
        BY <4>1, <4>2, <1>2, <1>5
    <3>4. h \cap OpenFirst(1, plugged) = {"ds", "ds4"}
      BY <2>1, <3>1, <3>2, <3>3, <1>8
    <3>5. Cardinality({"ds", "ds4"}) = 2
      <4>1. Cardinality({"ds"}) = 1 /\ IsFiniteSet({"ds"})
        BY FS_Singleton
      <4>2. {"ds", "ds4"} = {"ds"} \cup {"ds4"} /\ "ds4" \notin {"ds"}
        OBVIOUS
      <4>3. QED
        BY <4>1, <4>2, FS_AddElement
    <3>6. QED
      BY <3>4, <3>5, <1>6
  <2>4. QED
    BY <2>2, <2>3
<1>9. QED
  BY <1>7, <1>8

\* The game knows what it was told, at the start
LEMMA PadInvInit == ReportInit => PadInv
<1> SUFFICES ASSUME ReportInit PROVE PadInv
  OBVIOUS
<1> USE DEF ReportInit
<1>1. /\ heard \subseteq (Kinds \cap Hid) \ {"unknown"}
      /\ "ds" \in heard => "ds4" \notin heard /\ "dsBt" \notin heard
  <2>1. PICK plugged \in SUBSET (Kinds \cap Hid) :
          heard \in IF kind = "browser" THEN {{}} ELSE Heard(plugged)
    OBVIOUS
  <2>2. CASE kind = "browser"
    BY <2>1, <2>2
  <2>3. CASE kind # "browser"
    BY <2>1, <2>3, HeardOnce
  <2>4. QED
    BY <2>2, <2>3
<1>2. backend \in Backends
  BY PadsAre
<1>3. InHands
  <2>1. held = {} /\ held \subseteq Has[kind] /\ ~Opposed(held)
    BY DEF Opposed
  <2>2. kind \in Kinds /\ pull = None /\ push = None /\ said = "state"
    OBVIOUS
  <2>3. QED
    BY <1>1, <1>2, <2>1, <2>2 DEF InHands
<1>4. Told
  <2> DEFINE f == Frame({}, [a \in Axes |-> 128], 0, 0)
  <2>1. Says(f, {}, None, None, TRUE)
    BY StillSays
  <2>2. \A a \in Axes : Pushed(None, a) \in {0} \cup Thrown /\ (None[1] = a <=> Pushed(None, a) # 0)
    BY DEF Pushed, None, Axes
  <2> HIDE DEF f
  <2>3. InGame(backend, Apply(backend, f), {}, None, None, TRUE)
    BY <1>2, <2>1, <2>2, FrameShown
  <2>4. game = Apply(backend, f)
    BY DEF f
  <2>5. InGame(backend, game, {}, None, None, kind # "switch")
    <3>1. \A t \in Triggers : None[1] # t
      BY DEF None, Triggers
    <3>2. QED
      BY <2>3, <2>4, <3>1 DEF InGame
  <2>6. ToldDown = {} /\ ToldPull = None /\ ToldPush = None
    BY DEF ToldDown, ToldPull, ToldPush, Down
  <2>7. QED
    BY <2>5, <2>6 DEF Told
<1>5. Rumbled
  BY DEF Rumbled, RumbleFelt
<1>6. QED
  BY <1>3, <1>4, <1>5 DEF PadInv

\* A report of the state, of buttons and pushes the controller has.
LEMMA StateTold ==
  ASSUME InHands, Told, NEW bs, NEW p, NEW s, StateReport(bs, p, s), UNCHANGED devices,
         bs \subseteq Has[kind], kind \in Rocker => ~Opposed(bs),
         p = None \/ \E t \in Triggers, far \in Far(kind) : p = <<t, far>>,
         s = None \/ \E a \in Sticks(kind), v \in Thrown : s = <<a, v>>
  PROVE  InHands' /\ Told'
<1>1. /\ held' = bs /\ pull' = p /\ push' = s /\ said' = "state"
      /\ kind' = kind /\ backend' = backend /\ heard' = heard
  BY DEF StateReport, devices
<1>2. InHands'
  BY <1>1 DEF InHands
<1>3. Arrives' = Arrives
  BY <1>1 DEF Arrives
<1>4. CASE Arrives
  <2>1. kind # "unknown"
    BY <1>4 DEF Arrives, InHands
  <2>2. Possible(kind, bs, p, s)
    BY <2>1 DEF Possible, InHands
  <2>3. game' = Apply(backend, Sent(kind, Parse(kind, bs, p, s)))
    BY <1>4, Zenon DEF StateReport, Shown
  <2>4. InGame(backend, game', Down(kind, bs), p, s, kind # "switch")
    BY <2>2, <2>3, ReportShown DEF InHands
  <2>5. ToldDown' = Down(kind, bs) /\ ToldPull' = p /\ ToldPush' = s
    BY <1>1, <1>3, <1>4 DEF ToldDown, ToldPull, ToldPush
  <2>6. QED
    BY <1>1, <1>2, <2>4, <2>5 DEF Told
<1>5. CASE ~Arrives
  <2>1. game' = game
    BY <1>5 DEF StateReport
  <2>2. ToldDown' = ToldDown /\ ToldPull' = ToldPull /\ ToldPush' = ToldPush
    BY <1>3, <1>5 DEF ToldDown, ToldPull, ToldPush
  <2>3. QED
    BY <1>1, <1>2, <2>1, <2>2 DEF Told
<1>6. QED
  BY <1>4, <1>5

\* A report of the guide button.
LEMMA GuideTold ==
  ASSUME InHands, Told, NEW bs, Guide(bs), UNCHANGED devices, kind = "xboxOld",
         bs \subseteq Has[kind], kind \in Rocker => ~Opposed(bs)
  PROVE  InHands' /\ Told'
<1>1. /\ held' = bs /\ pull' = pull /\ push' = push /\ said' = "guide"
      /\ kind' = kind /\ backend' = backend /\ heard' = heard
  BY DEF Guide, devices
<1>2. InHands'
  BY <1>1 DEF InHands
<1>3. Arrives' = Arrives
  BY <1>1 DEF Arrives
<1>4. CASE Arrives
  <2>1. game' = Apply(backend, Sent(kind, ParseGuide(bs)))
    BY <1>4, Zenon DEF Guide, Shown
  <2>2. InGame(backend, game', bs \cap {"PS"}, None, None, kind # "switch")
    BY <2>1, GuideShown DEF InHands
  <2>3. ToldDown' = bs \cap {"PS"} /\ ToldPull' = None /\ ToldPush' = None
    BY <1>1, <1>3, <1>4 DEF ToldDown, ToldPull, ToldPush
  <2>4. QED
    BY <1>1, <1>2, <2>2, <2>3 DEF Told
<1>5. CASE ~Arrives
  <2>1. game' = game
    BY <1>5 DEF Guide
  <2>2. ToldDown' = ToldDown /\ ToldPull' = ToldPull /\ ToldPush' = ToldPush
    BY <1>3, <1>5 DEF ToldDown, ToldPull, ToldPush
  <2>3. QED
    BY <1>1, <1>2, <2>1, <2>2 DEF Told
<1>6. QED
  BY <1>4, <1>5

\* and after every step.
LEMMA PadInvStep == PadInv /\ [ReportNext]_reportVars => PadInv'
<1> SUFFICES ASSUME PadInv, [ReportNext]_reportVars PROVE PadInv'
  OBVIOUS
<1> USE DEF PadInv
<1>1. ASSUME UNCHANGED <<rumble, devices>> PROVE Rumbled'
  BY <1>1 DEF Rumbled, RumbleFelt, rumble, devices
<1>2. CASE Press
  <2>1. UNCHANGED <<devices, rumble>>
    BY <1>2 DEF Press
  <2>2. PICK b \in Has[kind] \ held :
          /\ kind \in Rocker => ~Opposed(held \cup {b})
          /\ IF Alone(b) THEN Guide(held \cup {b}) ELSE StateReport(held \cup {b}, pull, push)
    BY <1>2 DEF Press
  <2>3. held \cup {b} \subseteq Has[kind]
    BY DEF InHands
  <2>4. CASE Alone(b)
    BY <1>1, <2>1, <2>2, <2>3, <2>4, GuideTold DEF Alone
  <2>5. CASE ~Alone(b)
    BY <1>1, <2>1, <2>2, <2>3, <2>5, StateTold DEF InHands
  <2>6. QED
    BY <2>4, <2>5
<1>3. CASE Release
  <2>1. UNCHANGED <<devices, rumble>>
    BY <1>3 DEF Release
  <2>2. PICK b \in held : IF Alone(b) THEN Guide(held \ {b}) ELSE StateReport(held \ {b}, pull, push)
    BY <1>3 DEF Release
  <2>3. held \ {b} \subseteq Has[kind] /\ (kind \in Rocker => ~Opposed(held \ {b}))
    BY DEF InHands, Opposed
  <2>4. CASE Alone(b)
    BY <1>1, <2>1, <2>2, <2>3, <2>4, GuideTold DEF Alone
  <2>5. CASE ~Alone(b)
    BY <1>1, <2>1, <2>2, <2>3, <2>5, StateTold DEF InHands
  <2>6. QED
    BY <2>4, <2>5
<1>4. CASE PullTrigger
  <2>1. UNCHANGED <<devices, rumble>>
    BY <1>4 DEF PullTrigger
  <2>2. CASE StateReport(held, None, push)
    BY <1>1, <2>1, <2>2, StateTold DEF InHands
  <2>3. CASE \E t \in Triggers, far \in IF kind \in {"keyboard", "switch"} THEN {255} ELSE Pulls :
                StateReport(held, <<t, far>>, push)
    <3>1. PICK t \in Triggers, far \in IF kind \in {"keyboard", "switch"} THEN {255} ELSE Pulls :
                StateReport(held, <<t, far>>, push)
      BY <2>3
    <3>2. far \in Far(kind)
      BY PadAssumption DEF Far
    <3> DEFINE p == <<t, far>>
    <3>3. \E u \in Triggers, x \in Far(kind) : p = <<u, x>>
      BY <3>2
    <3> HIDE DEF p
    <3>4. StateReport(held, p, push)
      BY <3>1 DEF p
    <3>5. QED
      BY <1>1, <2>1, <3>3, <3>4, StateTold DEF InHands
  <2>4. QED
    BY <1>4, <2>2, <2>3 DEF PullTrigger
<1>5. CASE PushStick
  <2>1. UNCHANGED <<devices, rumble>>
    BY <1>5 DEF PushStick
  <2>2. CASE StateReport(held, pull, None)
    BY <1>1, <2>1, <2>2, StateTold DEF InHands
  <2>3. CASE \E a \in IF kind = "keyboard" THEN {"lx", "ly"} ELSE Axes, v \in Pushes :
                StateReport(held, pull, <<a, v>>)
    <3>1. PICK a \in Sticks(kind), v \in Pushes : StateReport(held, pull, <<a, v>>)
      BY <2>3 DEF Sticks
    <3> DEFINE s == <<a, v>>
    <3>2. \E d \in Sticks(kind), x \in Thrown : s = <<d, x>>
      BY PadAssumption
    <3> HIDE DEF s
    <3>3. StateReport(held, pull, s)
      BY <3>1 DEF s
    <3>4. QED
      BY <1>1, <2>1, <3>2, <3>3, StateTold DEF InHands
  <2>4. QED
    BY <1>5, <2>2, <2>3 DEF PushStick
<1>6. CASE Idle
  <2>1. /\ kind' = kind /\ backend' = backend /\ heard' = heard /\ said' = "other"
        /\ held' = held /\ pull' = pull /\ push' = push /\ UNCHANGED <<rumble, devices>>
    BY <1>6 DEF Idle, devices
  <2>2. PICK c \in heard \cap Streaming : game' = Apply(backend, Sent(c, Parse(c, {}, None, None)))
    BY <1>6, Zenon DEF Idle, Shown
  <2>3. Possible(c, {}, None, None)
    BY DEF Possible, InHands, Opposed
  <2>4. InGame(backend, game', Down(c, {}), None, None, c # "switch")
    BY <2>2, <2>3, ReportShown DEF InHands
  <2>5. InGame(backend, game', {}, None, None, kind # "switch")
    <3>1. Down(c, {}) = {} /\ \A t \in Triggers : None[1] # t
      BY DEF Down, None, Triggers
    <3>2. QED
      BY <2>4, <3>1 DEF InGame
  <2>6. ToldDown' = {} /\ ToldPull' = None /\ ToldPush' = None
    BY <2>1 DEF ToldDown, ToldPull, ToldPush
  <2>7. Told'
    BY <2>1, <2>5, <2>6 DEF Told
  <2>8. InHands'
    BY <2>1 DEF InHands
  <2>9. QED
    BY <1>1, <2>1, <2>7, <2>8
<1>7. CASE Rumble
  <2>1. UNCHANGED <<kind, backend, heard, held, pull, push, said, game>>
    BY <1>7 DEF Rumble, devices
  <2>2. InHands' /\ Told'
    BY <2>1 DEF InHands, Told, ToldDown, ToldPull, ToldPush, Arrives
  <2>3. PICK m \in {Rest, [large |-> 255, small |-> 0], [large |-> 0, small |-> 64]} :
          /\ asked' = m
          /\ felt' = IF Relayed(backend, m) = {} \/ heard \cap OpenFirst(Sony, heard) = {} THEN felt
                     ELSE Felt(CHOOSE c \in heard : c \in OpenFirst(Sony, heard),
                               CHOOSE r \in Relayed(backend, m) : TRUE, felt)
    BY <1>7 DEF Rumble
  <2>4. ASSUME "ds" \in heard, backend \in {"vhidDs", "vhidXbox"} PROVE felt' = m
    <3>1. OpenFirst(Sony, heard) = {"ds"}
      <4>1. \A c \in Hid : Family[c] \in {"DualSense", "DualShock4"} <=> c \in {"ds", "dsBt", "ds4"}
        BY DEF Family, Hid
      <4>2. \A c \in heard : Family[c] \in Accepted[Sony] <=> c = "ds"
        <5>1. Accepted[Sony] = {"DualSense", "DualShock4"}
          BY DEF Accepted, Sony
        <5>2. QED
          BY <2>4, <4>1, <5>1 DEF InHands
      <4>3. {c \in heard : Family[c] \in Accepted[Sony]} = {"ds"}
        BY <2>4, <4>2
      <4>4. QED
        BY <4>3 DEF OpenFirst, OnUsb
    <3>2. /\ (CHOOSE c \in heard : c \in OpenFirst(Sony, heard)) = "ds"
          /\ heard \cap OpenFirst(Sony, heard) # {}
      BY <2>4, <3>1
    <3>3. Relayed(backend, m) = {RumbleReport(m)}
      BY <2>4 DEF Relayed
    <3>4. (CHOOSE r \in Relayed(backend, m) : TRUE) = RumbleReport(m) /\ Relayed(backend, m) # {}
      BY <3>3
    <3>5. felt' = Felt("ds", RumbleReport(m), felt)
      BY <2>3, <3>2, <3>4
    <3>6. QED
      BY <3>5, RumbleArrives
  <2>5. Rumbled'
    BY <2>1, <2>3, <2>4 DEF Rumbled, RumbleFelt
  <2>6. QED
    BY <2>2, <2>5
<1>8. CASE UNCHANGED reportVars
  BY <1>8 DEF reportVars, InHands, Told, Rumbled, RumbleFelt, ToldDown, ToldPull, ToldPush, Arrives
<1>9. QED
  BY <1>2, <1>3, <1>4, <1>5, <1>6, <1>7, <1>8 DEF ReportNext

\* So it does always.
LEMMA PadInvariant == ReportSpec => []PadInv
<1>1. QED
  BY PadInvInit, PadInvStep, PTL DEF ReportSpec

-----------------------------------------------------------------------------
(* The theorems *)

\* What the virtual controller is to show of the buttons it is told of.
LEMMA SeenOfHeld ==
  ASSUME InHands, NEW bs \in {held, held \ {"PS"}}
  PROVE  Seen(backend, bs) = (Meant \cap bs) \cap Shows
<1>1. held \subseteq Shared \cup {"TOUCH", "MUTE"}
  BY DEF InHands, Has, Shared, Digital
<1>2. Opposed(bs) <=> Opposed(held)
  BY DEF Opposed
<1>3. Opposed(bs) <=> Opposed(bs \cap Dirs)
  BY DEF Opposed, Dirs
<1>4. Hatted(bs) = IF Opposed(held) THEN bs \ Dirs ELSE bs
  BY <1>2, <1>3 DEF Hatted, Pointed
<1>5. \A t \in Triggers : t \notin bs
  BY <1>1, ButtonsNamed
<1>6. "MUTE" \notin Shared /\ "TOUCH" \notin Shared /\ bs \subseteq Shared \cup {"TOUCH", "MUTE"}
  BY <1>1 DEF Shared, Digital, Faces, Dirs
<1>7. backend \in {"noop", "uinput", "uhid", "vhidDs", "vhidDs4", "vhidXbox", "winDs4", "winXbox"}
  BY DEF InHands, Backends, Made
<1>8. bs \subseteq held
  OBVIOUS
<1>9. CASE backend = "noop"
  BY <1>9 DEF Seen, Shows
<1>10. CASE backend = "uinput"
  <2>1. Seen(backend, bs) = bs \cap (Shared \cup Triggers) /\ Shows = Shared /\ Meant = held
    BY <1>10 DEF Seen, Shows, Meant
  <2>2. QED
    BY <1>5, <1>8, <2>1
<1>11. CASE backend \in {"uhid", "vhidDs"}
  <2>1. /\ Seen(backend, bs) = Hatted(bs) /\ Shows = Shared \cup {"TOUCH", "MUTE"}
        /\ Meant = IF Opposed(held) THEN held \ Dirs ELSE held
    BY <1>11 DEF Seen, Shows, Meant
  <2>2. QED
    BY <1>4, <1>6, <1>8, <2>1
<1>12. CASE backend \in {"vhidDs4", "winDs4"}
  <2>1. /\ Seen(backend, bs) = Hatted(bs) \ {"MUTE"} /\ Shows = Shared \cup {"TOUCH"}
        /\ Meant = IF Opposed(held) THEN held \ Dirs ELSE held
    BY <1>12 DEF Seen, Shows, Meant
  <2>2. QED
    BY <1>4, <1>6, <1>8, <2>1
<1>13. CASE backend = "vhidXbox"
  <2>1. /\ Seen(backend, bs) = Hatted(bs) \cap Shared /\ Shows = Shared
        /\ Meant = IF Opposed(held) THEN held \ Dirs ELSE held
    BY <1>13 DEF Seen, Shows, Meant
  <2>2. QED
    BY <1>4, <1>8, <2>1
<1>14. CASE backend = "winXbox"
  <2>1. Seen(backend, bs) = bs \cap Shared /\ Shows = Shared /\ Meant = held
    BY <1>14 DEF Seen, Shows, Meant
  <2>2. QED
    BY <1>8, <2>1
<1>15. QED
  BY <1>7, <1>9, <1>10, <1>11, <1>12, <1>13, <1>14

\* The guide button's packet says nothing of the hat.
LEMMA SeenOfGuide ==
  ASSUME InHands PROVE Seen(backend, held \cap {"PS"}) = held \cap {"PS"} \cap Shows
<1> DEFINE bs == held \cap {"PS"}
<1>1. "PS" \notin Dirs /\ "PS" \in Shared
  BY DEF Dirs, Shared
<1>2. Hatted(bs) = bs
  BY <1>1 DEF Hatted, Pointed
<1>3. backend \in {"noop", "uinput", "uhid", "vhidDs", "vhidDs4", "vhidXbox", "winDs4", "winXbox"}
  BY DEF InHands, Backends, Made
<1>4. backend # "noop" => Shared \subseteq Shows
  BY DEF Shows
<1>5. backend # "noop" => Seen(backend, bs) = bs
  <2>1. bs \cap (Shared \cup Triggers) = bs /\ bs \cap Shared = bs /\ bs \ {"MUTE"} = bs
    BY <1>1
  <2> HIDE DEF bs
  <2>2. QED
    BY <1>2, <1>3, <2>1 DEF Seen
<1>6. backend = "noop" => Seen(backend, bs) = {} /\ Shows = {}
  BY DEF Seen, Shows
<1>7. bs \subseteq Shared
  BY <1>1
<1>8. QED
  BY <1>4, <1>5, <1>6, <1>7

\* ReportExact for every set of controllers, pushes and pulls: what the player
\* holds down reaches the game as it is (recognize.rs, parse*.rs, pad_frame.rs,
\* clpd.ts, map_frame.rs, backend.rs).
THEOREM PressesArrive == ReportSpec => []ReportExact
<1>1. PadInv => ReportExact
  <2> SUFFICES ASSUME PadInv PROVE ReportExact
    OBVIOUS
  <2>1. game.buttons \ Triggers = Seen(backend, ToldDown) /\ InHands
    BY DEF PadInv, Told, InGame
  <2>2. CASE ~Arrives \/ said = "other"
    <3>1. Seen(backend, {}) = {}
      <4>1. backend \in {"noop", "uinput", "uhid", "vhidDs", "vhidDs4", "vhidXbox", "winDs4", "winXbox"}
        BY <2>1 DEF InHands, Backends, Made
      <4>2. Hatted({}) = {}
        BY DEF Hatted, Pointed
      <4>3. QED
        BY <4>1, <4>2 DEF Seen
    <3>2. QED
      BY <2>1, <2>2, <3>1 DEF ReportExact, ToldDown
  <2>3. CASE Arrives /\ said = "guide"
    <3>1. ToldDown = held \cap {"PS"}
      BY <2>3 DEF ToldDown
    <3>2. QED
      BY <2>1, <2>3, <3>1, SeenOfGuide DEF ReportExact
  <2>4. CASE Arrives /\ said = "state"
    <3>1. ToldDown = IF kind = "xboxOld" THEN held \ {"PS"} ELSE held
      BY <2>4 DEF ToldDown, Down
    <3>2. Seen(backend, ToldDown) = (Meant \cap ToldDown) \cap Shows
      BY <2>1, <3>1, SeenOfHeld
    <3>3. Meant \subseteq held
      BY DEF Meant
    <3>4. QED
      BY <2>1, <2>4, <3>1, <3>2, <3>3 DEF ReportExact
  <2>5. QED
    BY <2>1, <2>2, <2>3, <2>4 DEF InHands
<1>2. QED
  BY <1>1, PadInvariant, PTL

\* StickFollows for every set of controllers and every push of 1024 or more of
\* 32768: the stick the player pushes is the one the game reads, the same way
\* (parse*.rs, clpd.ts, virtual_pad.rs, backend.rs).
THEOREM SticksAreFollowed == ReportSpec => []StickFollows
<1>1. PadInv => StickFollows
  <2> SUFFICES ASSUME PadInv, NEW a \in Axes
               PROVE  IF Played /\ push[1] = a THEN Read(a) \notin Still /\ Sign(Read(a)) = Sign(push[2])
                      ELSE Read(a) \in Still
    BY DEF StickFollows
  <2>1. Read(a) = ReadAs(backend, a, game.axis[a])
    BY DEF Read, ReadAs
  <2>2. IF backend # "noop" /\ ToldPush[1] = a
        THEN /\ ReadAs(backend, a, game.axis[a]) \notin Still
             /\ Sign(ReadAs(backend, a, game.axis[a])) = Sign(ToldPush[2])
        ELSE ReadAs(backend, a, game.axis[a]) \in Still
    BY Zenon DEF PadInv, Told, InGame
  <2>3. CASE Played
    BY <2>1, <2>2, <2>3 DEF Played, ToldPush
  <2>4. CASE ~Played
    <3>1. ~(backend # "noop" /\ ToldPush[1] = a)
      BY <2>4 DEF Played, ToldPush, None, Axes
    <3>2. QED
      BY <2>1, <2>2, <2>4, <3>1
  <2>5. QED
    BY <2>3, <2>4
<1>2. QED
  BY <1>1, PadInvariant, PTL

\* TriggerSeen for every set of controllers and every pull: a pulled trigger is
\* seen, and only that one (parse*.rs, pad_frame.rs, backend.rs).
THEOREM TriggersAreSeen == ReportSpec => []TriggerSeen
<1>1. PadInv => TriggerSeen
  <2> SUFFICES ASSUME PadInv, NEW t \in Triggers
               PROVE  LET seen == t \in game.buttons \/ (IF t = "L2" THEN game.l2 ELSE game.r2) > 0
                      IN  /\ Played /\ ~(kind = "switch" /\ backend \in {"vhidXbox", "winXbox"})
                              => (pull[1] = t <=> seen)
                          /\ said = "other" => ~seen
    BY DEF TriggerSeen
  <2> DEFINE seen == t \in game.buttons \/ Level(game, t) > 0
  <2>1. /\ seen => ToldPull[1] = t
        /\ ToldPull[1] = t /\ backend # "noop" /\ (kind # "switch" \/ backend \notin {"vhidXbox", "winXbox"})
             => seen
    BY DEF PadInv, Told, InGame
  <2>2. None[1] # t
    BY DEF None, Triggers
  <2> HIDE DEF seen
  <2>3. /\ Played /\ ~(kind = "switch" /\ backend \in {"vhidXbox", "winXbox"}) => (pull[1] = t <=> seen)
        /\ said = "other" => ~seen
    BY <2>1, <2>2 DEF Played, ToldPull
  <2>4. QED
    BY <2>3 DEF seen, Level
<1>2. QED
  BY <1>1, PadInvariant, PTL

\* RumbleFelt for every set of controllers plugged in: a rumble reaches the
\* DualSense whose reports arrive, as the game asked for it (feedback.rs,
\* dualsense_reader.rs).
THEOREM RumblesAreFelt == ReportSpec => []RumbleFelt
<1>1. PadInv => RumbleFelt
  BY DEF PadInv, Rumbled
<1>2. QED
  BY <1>1, PadInvariant, PTL
=============================================================================
