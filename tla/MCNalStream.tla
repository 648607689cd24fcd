---------------------------- MODULE MCNalStream ----------------------------
EXTENDS NalStream
=============================================================================
