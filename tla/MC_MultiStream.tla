--------------------------- MODULE MC_MultiStream ---------------------------
EXTENDS MultiStream

CONSTANTS none

=============================================================================
