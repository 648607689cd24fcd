---------------------------- MODULE FrameChannel ----------------------------
(***************************************************************************)
(* What the video data channel promises its two ends, and all that they    *)
(* may rely on: of the access units that one end pushed, some come out at  *)
(* the other, in any order, each as it was pushed and at most once. Clvd   *)
(* implements it with fragments, headers and parity.                       *)
(***************************************************************************)
EXTENDS Sequences

CONSTANT AccessUnits   \* what may be pushed

VARIABLES pushed,      \* the access units pushed
          delivered    \* those that came out, in the order they did

vars == <<pushed, delivered>>

Delivered == {delivered[i] : i \in DOMAIN delivered}

Init == pushed = {} /\ delivered = <<>>

Push == /\ \E u \in AccessUnits \ pushed : pushed' = pushed \cup {u}
        /\ UNCHANGED delivered

Deliver == /\ \E u \in pushed \ Delivered : delivered' = Append(delivered, u)
           /\ UNCHANGED pushed

Next == Push \/ Deliver
Spec == Init /\ [][Next]_vars
=============================================================================
