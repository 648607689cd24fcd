----------------------------- MODULE PadDevices -----------------------------
(***************************************************************************)
(* The two ends of a pad's path: the controllers on the player's machine   *)
(* and the client's four readers of them (pad recognize.rs, client         *)
(* *_reader.rs), the virtual controller the host finds for a seat (pad     *)
(* virtual_pad.rs, windows_pad.rs, ds-vhid backend.rs), and the report     *)
(* that takes a rumble the other way (pad feedback.rs).                    *)
(***************************************************************************)
EXTENDS Integers, Sequences, FiniteSets

Hid == {"xbox", "xboxOld", "ds", "dsBt", "ds4", "switch", "steam", "unknown"}

\* classify: by maker and product.
Family ==
    [c \in Hid |->
        CASE c \in {"xbox", "xboxOld"} -> "Xbox" [] c \in {"ds", "dsBt"} -> "DualSense"
          [] c = "ds4" -> "DualShock4" [] c = "switch" -> "Switch"
          [] c = "steam" -> "SteamController" [] c = "unknown" -> "Unknown"]

\* What each reader opens.
Sony == 1
Accepted == <<{"DualSense", "DualShock4"}, {"Xbox"}, {"Switch"}, {"SteamController"}>>
OnUsb == {"ds", "ds4", "switch", "steam"}

\* A reader opens one of its controllers, on USB if there is one.
OpenFirst(r, plugged) ==
    LET mine == {c \in plugged : Family[c] \in Accepted[r]}
    IN  IF mine \cap OnUsb # {} THEN mine \cap OnUsb ELSE mine

\* The controllers whose reports arrive: one of each reader's at most. A node
\* that may not be opened is not replaced by another; a Switch or a Steam
\* controller that does not take the mode it is told stays silent.
Heard(plugged) ==
    {h \in SUBSET UNION {OpenFirst(r, plugged) : r \in DOMAIN Accepted} :
        \A r \in DOMAIN Accepted : Cardinality(h \cap OpenFirst(r, plugged)) <= 1}

\* Controllers that report at rest.
Streaming == {"ds", "dsBt", "ds4", "switch"}

-----------------------------------------------------------------------------
(* The host's virtual controller: the first candidate that can be had *)

Wants == {"auto", "dualsense", "ds4", "xbox360", "noop"}
Drivers == {"companion", "winuhid", "vigemDs4", "vigemXbox", "uhid", "uinput"}

FirstOf(candidates, can) ==
    LET had == {i \in DOMAIN candidates : candidates[i][2] \in can}
    IN  IF had = {} THEN "noop"
        ELSE candidates[CHOOSE i \in had : \A j \in had : i <= j][1]

\* The companion's, by the kind it was started with.
CompanionPad(kind, can) ==
    FirstOf(CASE kind = "auto" -> <<<<"vhidDs", "winuhid">>, <<"vhidDs4", "vigemDs4">>>>
              [] kind = "winuhid" -> <<<<"vhidDs", "winuhid">>>>
              [] kind = "ds4" -> <<<<"vhidDs4", "vigemDs4">>>>
              [] kind = "xbox360" -> <<<<"vhidXbox", "vigemXbox">>>>, can)

LinuxPads(want, forced, wsl, companion) ==
    LET tcp == IF want = "dualsense" \/ forced \/ (want = "auto" /\ wsl)
               THEN <<<<companion, "companion">>>> ELSE <<>>
        uhid == IF want \in {"auto", "dualsense"} THEN <<<<"uhid", "uhid">>>> ELSE <<>>
    IN  IF want = "dualsense" /\ wsl THEN tcp ELSE tcp \o uhid \o <<<<"uinput", "uinput">>>>

WindowsPads(want, companion) ==
    LET tcp == <<<<companion, "companion">>>>
        ds4 == <<<<"winDs4", "vigemDs4">>>>
        xbox == <<<<"winXbox", "vigemXbox">>>>
    IN  CASE want = "dualsense" -> tcp [] want = "ds4" -> ds4 [] want = "xbox360" -> xbox
          [] want = "auto" -> tcp \o ds4 \o xbox

\* create_virtual_pad: without any, the seat's player is only shown the game.
PadOf(os, want, forced, companion, can) ==
    IF want = "noop" THEN "noop"
    ELSE FirstOf(IF os = "windows" THEN WindowsPads(want, CompanionPad(companion, can))
                 ELSE LinuxPads(want, forced, os = "wsl", CompanionPad(companion, can)), can)

\* What any host may come to have.
Pads == {PadOf(os, want, forced, companion, can) :
            os \in {"linux", "wsl", "windows"}, want \in Wants, forced \in BOOLEAN,
            companion \in {"auto", "winuhid", "ds4", "xbox360"}, can \in SUBSET Drivers}

-----------------------------------------------------------------------------
(* A rumble: the strong motor of the left grip, the weak one of the right *)

Rest == [large |-> 0, small |-> 0]

\* Mutant: the motors are exchanged.
MotorByteSwapped == [large |-> 3, small |-> 4]
MotorByte == [large |-> 4, small |-> 3]

\* build_usb_output_report: the report's first bytes.
RumbleReport(m) ==
    [b \in 0..4 |-> CASE b = 0 -> 2 [] b = 1 -> 3 [] b = MotorByte.large -> m.large
                      [] b = MotorByte.small -> m.small [] OTHER -> 0]

\* The backends that hear of the game's rumble, and what they relay.
Relayed(backend, m) == IF backend \in {"vhidDs", "vhidXbox"} THEN {RumbleReport(m)} ELSE {}

\* The Sony reader's controller is given the bytes as they are. A DualSense on USB
\* knows the report; the others do not.
Felt(c, report, before) ==
    IF c = "ds" /\ report[0] = 2 /\ report[1] = 3 THEN [large |-> report[4], small |-> report[3]]
    ELSE before
=============================================================================
