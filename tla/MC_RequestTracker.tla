------------------------ MODULE MC_RequestTracker ------------------------
(* Two calling tasks and one answering server.                     *)
EXTENDS RequestTracker

CONSTANTS c1, c2, s1, s2

MCCallers == {c1, c2}
MCServer == {s1}
=============================================================================
