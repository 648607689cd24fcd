----------------------------- MODULE MCLinkGov -----------------------------
(***************************************************************************)
(* Instances of LinkGov for TLC.  A browser reports every two seconds and  *)
(* a window lasts five, so one player's reports number at most three; a    *)
(* window of a 60 fps stream delivers 300 frames.  With 300 delivered, 33  *)
(* frames shed are 9 % (bad) and 60 are 16 % (severe).                     *)
(***************************************************************************)
EXTENDS LinkGov
=============================================================================
