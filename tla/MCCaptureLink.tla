--------------------------- MODULE MCCaptureLink ---------------------------
(* Model-checking instance of CaptureLink: see CaptureRecovers.cfg. *)
EXTENDS CaptureLink
=============================================================================
