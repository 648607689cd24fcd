--------------------------- MODULE MCPadReports ---------------------------
EXTENDS PadReports
MCPushes == {-32768, -1024, 1024, 32767}
=============================================================================
