\* A send that takes a seq without delivering its item (try_send returning
\* false) leaves a gap the reader never gets past.  Deadlock is not reported:
\* the stalled reader is what StreamCompletes is about.
CONSTANTS
    MaxItems = 2
    QueueCap = 1
    none = none
    None <- none
    StartSeq = 0
    Lossy = TRUE
    Reorder = FALSE
    Owner = 7
    Id = 3
SPECIFICATION Spec
PROPERTY StreamCompletes
CHECK_DEADLOCK FALSE
