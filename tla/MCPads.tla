------------------------------ MODULE MCPads ------------------------------
EXTENDS Pads
=============================================================================
