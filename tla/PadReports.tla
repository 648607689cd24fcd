----------------------------- MODULE PadReports -----------------------------
(***************************************************************************)
(* One press, from a controller to the game: a HID report of the player's  *)
(* controller, its parser (pad/src/parse*.rs), the keyboard or the         *)
(* browser's gamepad, the CLPD packet (proto pad_frame.rs, web clpd.ts),   *)
(* and the virtual controller (pad map_frame.rs, windows_pad.rs,           *)
(* virtual_pad.rs, ds-vhid backend.rs); and one rumble back. Which of the  *)
(* controllers is read and which virtual one there is: PadDevices.         *)
(*                                                                         *)
(* A report is the set of its places <<byte, bit>> that are one, with the  *)
(* hat, the sticks and the triggers as numbers. The controllers' own       *)
(* layouts are those of pad/src/sim.rs and of the parsers' headers.        *)
(***************************************************************************)
EXTENDS PadDevices

CONSTANTS Kinds,        \* kinds the player may hold
          Pushes,       \* how far a stick is pushed, right and down positive
          Pulls,        \* how far a trigger is pulled, of 255
          MaxActive,    \* bound: controls in use at a time
          MaxPlugged    \* bound: controllers plugged in

\* A stick that is pushed is beyond the noise around its centre.
Thrown == {v \in Int : -32768 <= v /\ v <= 32767 /\ (v <= -1024 \/ v >= 1024)}

ASSUME PadAssumption ==
    /\ Kinds \subseteq Hid \cup {"keyboard", "browser"}
    /\ Pushes \subseteq Thrown /\ Pulls \subseteq 1..255
    /\ MaxActive \in Nat /\ MaxPlugged \in Nat

VARIABLES kind, backend,  \* the controller in the player's hands and the host's
          heard,          \* the controllers whose reports arrive
          held,           \* buttons down
          pull,           \* <<trigger, how far>>
          push,           \* <<axis, how far>>
          said,           \* the last report: "state", "guide", or of an "other" controller
          game,           \* what the game sees of the virtual controller
          asked, felt     \* the rumble of the game, and of the player's controller

reportVars == <<kind, backend, heard, held, pull, push, said, game, asked, felt>>
devices == <<kind, backend, heard>>
rumble == <<asked, felt>>

Dirs == {"UP", "DOWN", "LEFT", "RIGHT"}
Faces == {"SQUARE", "CROSS", "CIRCLE", "TRIANGLE"}
Digital == Faces \cup Dirs \cup {"L1", "R1", "CREATE", "OPTIONS"}
Shared == Digital \cup {"L3", "R3", "PS"}
Triggers == {"L2", "R2"}
Axes == {"lx", "ly", "rx", "ry"}
Vertical == {"ly", "ry"}

-----------------------------------------------------------------------------
(* The controllers: a button is a place of the raw report *)

Ps8 == [SQUARE |-> 16, CROSS |-> 32, CIRCLE |-> 64, TRIANGLE |-> 128]
Ps9 == [L1 |-> 1, R1 |-> 2, L2 |-> 4, R2 |-> 8, CREATE |-> 16, OPTIONS |-> 32, L3 |-> 64, R3 |-> 128]
Ps10 == [PS |-> 1, TOUCH |-> 2, MUTE |-> 4]
PsWire(first) ==
    [b \in Faces \cup DOMAIN Ps9 \cup DOMAIN Ps10 |->
        IF b \in Faces THEN <<first, Ps8[b]>>
        ELSE IF b \in DOMAIN Ps9 THEN <<first + 1, Ps9[b]>> ELSE <<first + 2, Ps10[b]>>]
XboxWire ==
    [CROSS |-> <<14, 1>>, CIRCLE |-> <<14, 2>>, SQUARE |-> <<14, 4>>, TRIANGLE |-> <<14, 8>>,
     L1 |-> <<14, 16>>, R1 |-> <<14, 32>>, CREATE |-> <<14, 64>>, OPTIONS |-> <<14, 128>>,
     PS |-> <<15, 16>>, L3 |-> <<15, 32>>, R3 |-> <<15, 64>>]
LegacyWire == [XboxWire EXCEPT !.L3 = <<15, 1>>, !.R3 = <<15, 2>>]
SwitchWire ==
    [CROSS |-> <<3, 8>>, CIRCLE |-> <<3, 4>>, SQUARE |-> <<3, 2>>, TRIANGLE |-> <<3, 1>>,
     R1 |-> <<3, 64>>, R2 |-> <<3, 128>>, L1 |-> <<5, 64>>, L2 |-> <<5, 128>>,
     CREATE |-> <<4, 1>>, OPTIONS |-> <<4, 2>>, R3 |-> <<4, 4>>, L3 |-> <<4, 8>>, PS |-> <<4, 16>>,
     UP |-> <<5, 2>>, DOWN |-> <<5, 1>>, LEFT |-> <<5, 8>>, RIGHT |-> <<5, 4>>]
SteamWire ==
    [CROSS |-> <<8, 128>>, CIRCLE |-> <<8, 32>>, SQUARE |-> <<8, 64>>, TRIANGLE |-> <<8, 16>>,
     L1 |-> <<8, 8>>, R1 |-> <<8, 4>>, L2 |-> <<8, 2>>, R2 |-> <<8, 1>>,
     CREATE |-> <<9, 16>>, OPTIONS |-> <<9, 64>>, PS |-> <<9, 32>>, L3 |-> <<10, 64>>, R3 |-> <<10, 4>>,
     UP |-> <<9, 1>>, DOWN |-> <<9, 8>>, LEFT |-> <<9, 4>>, RIGHT |-> <<9, 2>>]

\* The hat, clockwise from up; 0 is none. A rocker cannot be pressed on both ends.
Compass == <<{"UP"}, {"UP", "RIGHT"}, {"RIGHT"}, {"RIGHT", "DOWN"}, {"DOWN"},
             {"DOWN", "LEFT"}, {"LEFT"}, {"LEFT", "UP"}>>
Hat(dirs) == IF \E i \in 1..8 : Compass[i] = dirs THEN CHOOSE i \in 1..8 : Compass[i] = dirs ELSE 0
Opposed(bs) == {"UP", "DOWN"} \subseteq bs \/ {"LEFT", "RIGHT"} \subseteq bs
Rocker == {"xbox", "xboxOld", "ds", "dsBt", "ds4"}

Wire == [c \in Kinds |->
    CASE c = "xbox" -> XboxWire [] c = "xboxOld" -> LegacyWire
      [] c = "ds" -> PsWire(8) [] c = "dsBt" -> PsWire(9) [] c = "ds4" -> PsWire(5)
      [] c = "switch" -> SwitchWire [] c = "steam" -> SteamWire [] OTHER -> <<>>]

\* What the controller has.
Has == [c \in Kinds |->
    CASE c = "keyboard" -> Digital [] c \in {"ds", "dsBt"} -> Shared \cup {"TOUCH", "MUTE"}
      [] c \in {"ds4", "browser"} -> Shared \cup {"TOUCH"} [] OTHER -> Shared]

\* A trigger's switch closes at the end of its way, where it has one.
Pressed(c, bs, p) == bs \cup (IF p[2] = 255 /\ p[1] \in DOMAIN Wire[c] THEN {p[1]} ELSE {})

Pulled(p, t) == IF p[1] = t THEN p[2] ELSE 0
Pushed(s, a) == IF s[1] = a THEN s[2] ELSE 0

RawReport(c, bs, p, s) ==
    [at |-> {Wire[c][b] : b \in Pressed(c, bs, p) \cap DOMAIN Wire[c]},
     hat |-> IF c \notin Rocker THEN 0
             ELSE IF c \in {"xbox", "xboxOld"} THEN Hat(bs \cap Dirs)
             ELSE IF Hat(bs \cap Dirs) = 0 THEN 8 ELSE Hat(bs \cap Dirs) - 1,
     axis |-> [a \in Axes |->
                 CASE c \in {"xbox", "xboxOld"} -> 32768 + Pushed(s, a)
                   [] c = "switch" -> (32768 + Pushed(s, a)) \div 16
                   [] c = "steam" -> IF a \in Vertical
                                     THEN (IF Pushed(s, a) = -32768 THEN 32767 ELSE -Pushed(s, a))
                                     ELSE Pushed(s, a)
                   [] OTHER -> (32768 + Pushed(s, a)) \div 256],
     l2 |-> IF c \in {"xbox", "xboxOld"} THEN Pulled(p, "L2") * 4 ELSE Pulled(p, "L2"),
     r2 |-> IF c \in {"xbox", "xboxOld"} THEN Pulled(p, "R2") * 4 ELSE Pulled(p, "R2")]

-----------------------------------------------------------------------------
(* The parsers: where each looks for a button, in the body behind the header *)

Body(raw, skip) == {<<p[1] - skip, p[2]>> : p \in raw.at}
Found(places, body) == {b \in DOMAIN places : \E p \in places[b] : p \in body}

PsPlaces(first) ==
    [SQUARE |-> {<<first, 16>>}, CROSS |-> {<<first, 32>>}, CIRCLE |-> {<<first, 64>>},
     TRIANGLE |-> {<<first, 128>>}, L1 |-> {<<first + 1, 1>>}, R1 |-> {<<first + 1, 2>>},
     L2 |-> {<<first + 1, 4>>}, R2 |-> {<<first + 1, 8>>}, CREATE |-> {<<first + 1, 16>>},
     OPTIONS |-> {<<first + 1, 32>>}, L3 |-> {<<first + 1, 64>>}, R3 |-> {<<first + 1, 128>>},
     PS |-> {<<first + 2, 1>>}, TOUCH |-> {<<first + 2, 2>>}, MUTE |-> {<<first + 2, 4>>}]
PsDirs(hat) == IF hat < 8 THEN Compass[hat + 1] ELSE {}
XboxFront == [CROSS |-> {<<13, 1>>}, CIRCLE |-> {<<13, 2>>}, SQUARE |-> {<<13, 4>>},
              TRIANGLE |-> {<<13, 8>>}, L1 |-> {<<13, 16>>}, R1 |-> {<<13, 32>>}]
\* Mutant: the unified layout's clicks are looked for in a legacy packet.
XboxClicksUnified(legacy) == [L3 |-> 32, R3 |-> 64]
XboxClicks(legacy) == IF legacy THEN [L3 |-> 1, R3 |-> 2] ELSE [L3 |-> 32, R3 |-> 64]
XboxPlaces(legacy) ==
    [b \in DOMAIN XboxWire \ (IF legacy THEN {"PS"} ELSE {}) |->
        CASE b \in DOMAIN XboxFront -> XboxFront[b]
          [] b = "CREATE" -> {<<13, 64>>} \cup (IF legacy THEN {} ELSE {<<14, 4>>, <<15, 1>>})
          [] b = "OPTIONS" -> {<<13, 128>>} \cup (IF legacy THEN {} ELSE {<<14, 8>>})
          [] b = "PS" -> {<<14, 16>>}
          [] b \in {"L3", "R3"} -> {<<14, XboxClicks(legacy)[b]>>}]

XboxDirs(hat) == IF hat \in 1..8 THEN Compass[hat] ELSE {}
SwitchPlaces ==
    [TRIANGLE |-> {<<3, 1>>}, SQUARE |-> {<<3, 2>>}, CIRCLE |-> {<<3, 4>>}, CROSS |-> {<<3, 8>>},
     R1 |-> {<<3, 64>>}, R2 |-> {<<3, 128>>}, L1 |-> {<<5, 64>>}, L2 |-> {<<5, 128>>},
     CREATE |-> {<<4, 1>>}, OPTIONS |-> {<<4, 2>>}, R3 |-> {<<4, 4>>}, L3 |-> {<<4, 8>>},
     PS |-> {<<4, 16>>},
     DOWN |-> {<<5, 1>>}, UP |-> {<<5, 2>>}, RIGHT |-> {<<5, 4>>}, LEFT |-> {<<5, 8>>}]
SteamPlaces ==
    [CROSS |-> {<<8, 128>>}, CIRCLE |-> {<<8, 32>>}, SQUARE |-> {<<8, 64>>}, TRIANGLE |-> {<<8, 16>>},
     L1 |-> {<<8, 8>>}, R1 |-> {<<8, 4>>}, CREATE |-> {<<9, 16>>}, PS |-> {<<9, 32>>},
     OPTIONS |-> {<<9, 64>>}, UP |-> {<<9, 1>>}, RIGHT |-> {<<9, 2>>}, LEFT |-> {<<9, 4>>},
     DOWN |-> {<<9, 8>>}, R3 |-> {<<10, 4>>}, L3 |-> {<<10, 64>>}, L2 |-> {<<8, 2>>}, R2 |-> {<<8, 1>>}]

\* Mutant: any pull is the button, none is needed.
DeepAlways(l2, r2) == Triggers

\* A trigger that is pulled past the threshold is also a button.
Deep(l2, r2) == (IF l2 > 16 THEN {"L2"} ELSE {}) \cup (IF r2 > 16 THEN {"R2"} ELSE {})

Frame(buttons, axis, l2, r2) == [buttons |-> buttons, axis |-> axis, l2 |-> l2, r2 |-> r2]

ParseXbox(raw, legacy) ==
    LET l2 == (IF raw.l2 > 1023 THEN 1023 ELSE raw.l2) \div 4
        r2 == (IF raw.r2 > 1023 THEN 1023 ELSE raw.r2) \div 4
    IN  Frame(Found(XboxPlaces(legacy), Body(raw, 1)) \cup Deep(l2, r2) \cup XboxDirs(raw.hat),
              [a \in Axes |-> raw.axis[a] \div 256], l2, r2)
ParseGuide(bs) == Frame(bs \cap {"PS"}, [a \in Axes |-> 128], 0, 0)
ParsePs(raw, first, skip) ==
    Frame(Found(PsPlaces(first), Body(raw, skip)) \cup PsDirs(raw.hat), raw.axis, raw.l2, raw.r2)

\* Two axes of 12 bits in three bytes.
PackStick(x, y) == <<x % 256, (x \div 256) + 16 * (y % 16), y \div 16>>
\* Mutant: the low nibble of the middle byte is taken for the second axis.
PackedStickSwapped(b) == <<(b[1] + 256 * (b[2] \div 16)) \div 16, ((b[2] % 16) + 16 * b[3]) \div 16>>
PackedStick(b) == <<(b[1] + 256 * (b[2] % 16)) \div 16, ((b[2] \div 16) + 16 * b[3]) \div 16>>

ParseSwitch(raw) ==
    LET left == PackedStick(PackStick(raw.axis.lx, raw.axis.ly))
        right == PackedStick(PackStick(raw.axis.rx, raw.axis.ry))
    IN  Frame(Found(SwitchPlaces, raw.at),
              [lx |-> left[1], ly |-> left[2], rx |-> right[1], ry |-> right[2]], 0, 0)

WrappingNeg(v) == IF v = -32768 THEN v ELSE -v
ParseSteam(raw) ==
    Frame(Found(SteamPlaces, raw.at) \cup Deep(raw.l2, raw.r2),
          [a \in Axes |-> ((IF a \in Vertical THEN WrappingNeg(raw.axis[a]) ELSE raw.axis[a])
                           + 32768) \div 256],
          raw.l2, raw.r2)

\* Keys: the left stick at its ends only, the triggers without a button.
Key(v) == IF v < 0 THEN 0 ELSE IF v > 0 THEN 255 ELSE 127
KeyboardFrame(bs, p, s) ==
    Frame(bs, [a \in Axes |-> IF a \in {"lx", "ly"} THEN Key(Pushed(s, a)) ELSE 127],
          Pulled(p, "L2"), Pulled(p, "R2"))

\* The browser's standard gamepad: a number from -1 to 1 for an axis.
AxisToU8(v) == ((v + 32768) * 255 + 32768) \div 65536
BrowserFrame(bs, p, s) ==
    Frame(bs \cup {t \in Triggers : Pulled(p, t) > 25}, [a \in Axes |-> AxisToU8(Pushed(s, a))],
          Pulled(p, "L2"), Pulled(p, "R2"))

Parse(c, bs, p, s) ==
    CASE c \in {"xbox", "xboxOld"} -> ParseXbox(RawReport(c, bs, p, s), c = "xboxOld")
      [] c = "ds" -> ParsePs(RawReport(c, bs, p, s), 7, 1)
      [] c = "dsBt" -> ParsePs(RawReport(c, bs, p, s), 7, 2)
      [] c = "ds4" -> [ParsePs(RawReport(c, bs, p, s), 4, 1) EXCEPT !.buttons = @ \ {"MUTE"}]
      [] c = "switch" -> ParseSwitch(RawReport(c, bs, p, s))
      [] c = "steam" -> ParseSteam(RawReport(c, bs, p, s))
      [] c = "keyboard" -> KeyboardFrame(bs, p, s)
      [] c = "browser" -> BrowserFrame(bs, p, s)

-----------------------------------------------------------------------------
(* The CLPD packet: a field is the bytes at its offset *)

Bit == [SQUARE |-> 0, CROSS |-> 1, CIRCLE |-> 2, TRIANGLE |-> 3, L1 |-> 4, R1 |-> 5, L2 |-> 6,
        R2 |-> 7, CREATE |-> 8, OPTIONS |-> 9, L3 |-> 10, R3 |-> 11, PS |-> 12, TOUCH |-> 13,
        MUTE |-> 14, UP |-> 16, DOWN |-> 17, LEFT |-> 18, RIGHT |-> 19]

\* The encoder writes and the decoder reads the fields one behind the other;
\* the browser writes each at an offset of its own.
WriteOrder == <<<<"magic", 4>>, <<"version", 1>>, <<"seq", 4>>, <<"buttons", 4>>, <<"lx", 1>>,
                <<"ly", 1>>, <<"rx", 1>>, <<"ry", 1>>, <<"l2", 1>>, <<"r2", 1>>>>
\* Mutant: the decoder reads the sequence number in two bytes.
ReadOrderShort == [WriteOrder EXCEPT ![3] = <<"seq", 2>>]
ReadOrder == <<<<"magic", 4>>, <<"version", 1>>, <<"seq", 4>>, <<"buttons", 4>>, <<"lx", 1>>,
               <<"ly", 1>>, <<"rx", 1>>, <<"ry", 1>>, <<"l2", 1>>, <<"r2", 1>>>>

Offset(order, f) ==
    LET start[i \in DOMAIN order] == IF i = 1 THEN 0 ELSE start[i - 1] + order[i - 1][2]
    IN  start[CHOOSE i \in DOMAIN order : order[i][1] = f]
BrowserOffset == [buttons |-> 9, lx |-> 13, ly |-> 14, rx |-> 15, ry |-> 16, l2 |-> 17, r2 |-> 18]
Fields == DOMAIN BrowserOffset
WrittenAt == [f \in Fields |-> Offset(WriteOrder, f)]
ReadAt == [f \in Fields |-> Offset(ReadOrder, f)]

Encode(at, frame) ==
    [o \in {at[f] : f \in Fields} |->
        LET f == CHOOSE g \in Fields : at[g] = o
        IN  CASE f = "buttons" -> {Bit[b] : b \in frame.buttons}
              [] f \in Axes -> frame.axis[f] [] f = "l2" -> frame.l2 [] f = "r2" -> frame.r2]
Decode(packet) ==
    LET field(f, empty) == IF ReadAt[f] \in DOMAIN packet THEN packet[ReadAt[f]] ELSE empty
        bits == field("buttons", {})
    IN  Frame({b \in DOMAIN Bit : Bit[b] \in bits}, [a \in Axes |-> field(a, 0)],
              field("l2", 0), field("r2", 0))
Sent(c, frame) == Decode(Encode(IF c = "browser" THEN BrowserOffset ELSE WrittenAt, frame))

-----------------------------------------------------------------------------
(* The virtual controllers *)

\* Mutant: a hat of two directions is released.
DsReportStraight(frame) ==
    [at |-> {PsWire(8)[b] : b \in frame.buttons \ Dirs},
     hat |-> IF Cardinality(frame.buttons \cap Dirs) # 1 THEN 8 ELSE Hat(frame.buttons \cap Dirs) - 1,
     axis |-> frame.axis, l2 |-> frame.l2, r2 |-> frame.r2]

\* The DualSense report the host writes; a game reads it like the parser does.
DsReport(frame) ==
    [at |-> {PsWire(8)[b] : b \in frame.buttons \ Dirs},
     hat |-> IF Hat(frame.buttons \cap Dirs) = 0 THEN 8 ELSE Hat(frame.buttons \cap Dirs) - 1,
     axis |-> frame.axis, l2 |-> frame.l2, r2 |-> frame.r2]
DsButtons(r) == Found(PsPlaces(8), r.at) \cup PsDirs(r.hat)

\* The companion's DualShock 4 takes the DualSense's bytes for its own.
Ds4FromDs(r) == {<<p[1] - 3, p[2]>> : p \in {q \in r.at : q[1] < 10 \/ q[2] < 4}}
Ds4Buttons(r) == Found(PsPlaces(5), Ds4FromDs(r)) \cup PsDirs(IF r.hat > 8 THEN 8 ELSE r.hat)

\* XInput has the triggers as axes only.
XInput == Shared
Invert(u) == IF u > 255 THEN 0 ELSE 255 - u
StickToI16(u) == LET w == (u - 128) * 256 IN IF w > 32767 THEN 32767 ELSE w
\* Mutant: up is down.
XboxThumbUpright(a, u) == StickToI16(u)
XboxThumb(a, u) == IF a \in Vertical THEN StickToI16(Invert(u)) ELSE StickToI16(u)

WinDs4Buttons(frame) ==
    (frame.buttons \ (Dirs \cup {"MUTE"})) \cup (IF Opposed(frame.buttons) THEN {} ELSE frame.buttons \cap Dirs)

Uinput(frame) == frame.buttons \cap (Shared \cup Triggers)

Apply(b, frame) ==
    [buttons |-> CASE b = "noop" -> {}
                   [] b = "uinput" -> Uinput(frame)
                   [] b \in {"uhid", "vhidDs"} -> DsButtons(DsReport(frame))
                   [] b = "vhidDs4" -> Ds4Buttons(DsReport(frame))
                   [] b = "vhidXbox" -> DsButtons(DsReport(frame)) \cap XInput
                   [] b = "winDs4" -> WinDs4Buttons(frame)
                   [] b = "winXbox" -> frame.buttons \cap XInput,
     axis |-> [a \in Axes |-> IF b = "noop" THEN 128
                              ELSE IF b \in {"vhidXbox", "winXbox"} THEN XboxThumb(a, frame.axis[a])
                              ELSE frame.axis[a]],
     l2 |-> IF b = "noop" THEN 0 ELSE frame.l2, r2 |-> IF b = "noop" THEN 0 ELSE frame.r2]

-----------------------------------------------------------------------------
(* The player *)

None == <<"none", 0>>
Active == Cardinality(held) + (IF pull = None THEN 0 ELSE 1) + (IF push = None THEN 0 ELSE 1)
          + (IF asked = Rest THEN 0 ELSE 1)

Arrives == kind \in heard \cup {"keyboard", "browser"}
Shown(c, frame) == Apply(backend, Sent(c, frame))

\* A report with everything the controller has down, all the way to the game.
StateReport(bs, p, s) ==
    /\ held' = bs /\ pull' = p /\ push' = s /\ said' = "state"
    /\ game' = IF Arrives THEN Shown(kind, Parse(kind, bs, p, s)) ELSE game

\* The guide button of the old Xbox firmware has a report of its own.
Guide(bs) ==
    /\ held' = bs /\ said' = "guide"
    /\ game' = IF Arrives THEN Shown(kind, ParseGuide(bs)) ELSE game
    /\ UNCHANGED <<pull, push>>

Alone(b) == kind = "xboxOld" /\ b = "PS"

Press ==
    /\ Active < MaxActive
    /\ \E b \in Has[kind] \ held :
          /\ kind \in Rocker => ~Opposed(held \cup {b})
          /\ IF Alone(b) THEN Guide(held \cup {b}) ELSE StateReport(held \cup {b}, pull, push)
    /\ UNCHANGED <<devices, rumble>>

Release ==
    /\ \E b \in held : IF Alone(b) THEN Guide(held \ {b}) ELSE StateReport(held \ {b}, pull, push)
    /\ UNCHANGED <<devices, rumble>>

PullTrigger ==
    /\ \/ pull # None /\ StateReport(held, None, push)
       \/ /\ pull = None /\ Active < MaxActive
          /\ \E t \in Triggers, far \in IF kind \in {"keyboard", "switch"} THEN {255} ELSE Pulls :
                StateReport(held, <<t, far>>, push)
    /\ UNCHANGED <<devices, rumble>>

PushStick ==
    /\ \/ push # None /\ StateReport(held, pull, None)
       \/ /\ push = None /\ Active < MaxActive
          /\ \E a \in IF kind = "keyboard" THEN {"lx", "ly"} ELSE Axes, v \in Pushes :
                StateReport(held, pull, <<a, v>>)
    /\ UNCHANGED <<devices, rumble>>

\* The tick sends the report of another controller, which lies on the table.
Idle ==
    /\ \E c \in (heard \cap Streaming) \ {kind} : game' = Shown(c, Parse(c, {}, None, None))
    /\ said' = "other"
    /\ UNCHANGED <<devices, held, pull, push, rumble>>

\* The game turns the motors on or off, and is heard.
Rumble ==
    /\ \E m \in {Rest, [large |-> 255, small |-> 0], [large |-> 0, small |-> 64]} :
          /\ m # Rest => Active < MaxActive
          /\ asked' = m
          /\ felt' = IF Relayed(backend, m) = {} \/ heard \cap OpenFirst(Sony, heard) = {} THEN felt
                     ELSE Felt(CHOOSE c \in heard : c \in OpenFirst(Sony, heard),
                               CHOOSE r \in Relayed(backend, m) : TRUE, felt)
    /\ UNCHANGED <<devices, held, pull, push, said, game>>

\* The browser is another client, without readers.
ReportInit ==
    /\ kind \in Kinds
    /\ backend \in Pads
    /\ \E plugged \in SUBSET (Kinds \cap Hid) :
          /\ Cardinality(plugged) <= MaxPlugged
          /\ kind \in Hid => kind \in plugged
          /\ heard \in IF kind = "browser" THEN {{}} ELSE Heard(plugged)
    /\ held = {} /\ pull = None /\ push = None /\ said = "state"
    /\ game = Apply(backend, Frame({}, [a \in Axes |-> 128], 0, 0))
    /\ asked = Rest /\ felt = Rest

ReportNext == Press \/ Release \/ PullTrigger \/ PushStick \/ Idle \/ Rumble
ReportSpec == ReportInit /\ [][ReportNext]_reportVars

-----------------------------------------------------------------------------
(* Properties *)

\* What the virtual controller can show.
Shows == IF backend = "noop" THEN {}
         ELSE Shared \cup (CASE backend = "uinput" -> {} [] backend \in {"uhid", "vhidDs"} -> {"TOUCH", "MUTE"}
                             [] backend \in {"vhidDs4", "winDs4"} -> {"TOUCH"} [] OTHER -> {})
\* Both ends of a direction at once are nothing where the target has a hat.
Meant == IF Opposed(held) /\ backend \notin {"uinput", "winXbox"} THEN held \ Dirs ELSE held

\* Whatever the controller, the virtual one and what else is plugged in, after a
\* report the game sees the buttons that are down, those and no others: no
\* recognition, layout, packet or mapping loses, adds or swaps one on the way
\* (recognize.rs, parse*.rs, pad_frame.rs, clpd.ts, map_frame.rs, backend.rs). The
\* old firmware's guide button is seen after its own packet, which says nothing of
\* the other buttons; a controller on the table says that nothing is down.
ReportExact ==
    game.buttons \ Triggers =
        IF ~Arrives \/ said = "other" THEN {}
        ELSE IF said = "guide" THEN held \cap {"PS"} \cap Shows
        ELSE IF kind = "xboxOld" THEN (Meant \cap Shows) \ {"PS"} ELSE Meant \cap Shows

\* How the game reads an axis, with right and down positive: noise around the
\* centre is none.
Read(a) ==
    IF backend \in {"vhidXbox", "winXbox"}
    THEN (IF a \in Vertical THEN -game.axis[a] ELSE game.axis[a]) \div 257
    ELSE (game.axis[a] - 128) \div 2
Sign(v) == IF v > 0 THEN 1 ELSE IF v < 0 THEN -1 ELSE 0
Still == {-1, 0}
Played == said = "state" /\ Arrives /\ backend # "noop"

\* A pushed stick moves its own axis, the way it is pushed, and no other; one at
\* rest is read as at rest: 12 bits in three bytes, a negated axis on the wire, a
\* centre of 127 or 128 and XInput's inverted axis cancel out.
StickFollows ==
    \A a \in Axes :
        IF Played /\ push[1] = a THEN Read(a) \notin Still /\ Sign(Read(a)) = Sign(push[2])
        ELSE Read(a) \in Still

\* A trigger that is pulled is seen by the game, as an axis or as a button, and
\* one that is not is not. The Switch controller's triggers have no axis and
\* XInput has no button for them: there the pull is lost.
TriggerSeen ==
    \A t \in Triggers :
        LET seen == t \in game.buttons \/ (IF t = "L2" THEN game.l2 ELSE game.r2) > 0
        IN  /\ Played /\ ~(kind = "switch" /\ backend \in {"vhidXbox", "winXbox"})
                => (pull[1] = t <=> seen)
            /\ said = "other" => ~seen

\* A rumble the host hears of is felt by the player's DualSense, each motor as
\* strong as the game asked, and whatever controller the player holds at the time
\* (feedback.rs, backend.rs, winuhid.rs, dualsense_reader.rs).
RumbleFelt == "ds" \in heard /\ backend \in {"vhidDs", "vhidXbox"} => felt = asked
=============================================================================
