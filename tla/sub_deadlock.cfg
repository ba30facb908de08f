\* Two workers whose subscribing roles may start at the same time, as with a
\* role started per worker (on_worker_group, or a TcpServer accepting on each
\* worker).  Setup may stop for good, so deadlock is left to the property.
CONSTANTS
    NWorkers = 2
    Concurrent = TRUE
    Gens = 1
    Reuse = FALSE
SPECIFICATION Spec
PROPERTY SetupCompletes
CHECK_DEADLOCK FALSE
