---------------------------- MODULE MCVideoPath ----------------------------
(* Model-checking instance of VideoPath: VideoHeals.                       *)
EXTENDS VideoPath
=============================================================================
