\* The dispatch table with deferred mutations implements DispatchTable, never
\* panics, and applies every deferred mutation.  Fewer packets than
\* rt_core: checking the refinement evaluates the mapping on every step.
\* Re-entrant dispatch: three packets, each answered by the handler with a
\* follow-up, a one-slot local packet queue (so a follow-up can be refused)
\* and a one-slot subscriber queue (so both tasks' dispatches suspend).
CONSTANTS
    p1 = p1  p2 = p2  t1 = t1  t2 = t2  k1 = k1  k2 = k2
    Planes <- MCPlanes
    Topics <- MCTopics
    Tasks <- MCTasks
    QueueCap = 1
    MaxNodes = 3
    MaxPackets = 2
    PlaneReuse = FALSE
    RDSends = 3
    RDLocalCap = 1
    RDSinkCap = 1
SPECIFICATION DSpec
INVARIANT NoPanic
PROPERTIES DispatchTableRefinement MutationsApplied RD_ReentrantDelivered
