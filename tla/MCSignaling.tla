---------------------------- MODULE MCSignaling ----------------------------
(***************************************************************************)
(* Instances of Signaling for TLC: one session, a few sockets.  Sockets of *)
(* one kind, and PINs, are interchangeable: the module only compares them. *)
(***************************************************************************)
EXTENDS Signaling, TLC

Symmetry == Permutations(PlayerSocks) \cup Permutations(HostSocks)
              \cup Permutations(Pins)
=============================================================================
