\* A call dropped before its response frees its request id; the late response completes the next call that takes the id.
CONSTANTS
    c1 = c1  c2 = c2  s1 = s1  s2 = s2
    Callers <- MCCallers
    Servers <- MCServer
    MaxCalls = 3
    Observed = TRUE
    Cancellation = TRUE
SPECIFICATION Spec
INVARIANT CorrectResponse
