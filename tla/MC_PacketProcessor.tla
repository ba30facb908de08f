------------------------ MODULE MC_PacketProcessor ------------------------
(* Instantiates PacketProcessor with two planes, two topics and two        *)
(* dispatching tasks; the remaining constants are set in each .cfg.        *)
EXTENDS PacketProcessor

CONSTANTS p1, p2, t1, t2, k1, k2

MCPlanes == {p1, p2}
MCTopics == {t1, t2}
MCTasks  == {k1, k2}
=============================================================================
