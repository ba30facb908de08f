------------------------- MODULE MC_StreamReceiver -------------------------
EXTENDS StreamReceiver
=============================================================================
