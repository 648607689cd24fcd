----------------------------- MODULE MCSession -----------------------------
(***************************************************************************)
(* Instances of Session for TLC.  Players are only compared.               *)
(***************************************************************************)
EXTENDS Session, TLC

Symmetry == Permutations(Players)
=============================================================================
