--------------------------- MODULE MCNativeClient ---------------------------
\* Model-checking instance of NativeClient.
EXTENDS NativeClient
=============================================================================
