\* A dispatch future dropped at its await leaves its deferred mutations
\* pending; add_node then writes past them.
CONSTANTS
    p1 = p1  p2 = p2  t1 = t1  t2 = t2  k1 = k1  k2 = k2
    Planes <- MCPlanes
    Topics <- MCTopics
    Tasks <- MCTasks
    QueueCap = 1
    MaxNodes = 3
    MaxPackets = 2
    PlaneReuse = FALSE
SPECIFICATION CancelSpec
INVARIANT NoPanic
