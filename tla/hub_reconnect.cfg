\* A client that reconnects to the hub after its first connection died:
\* both connections carry plane, and so channel, 0x42424242.
CONSTANTS
    NConns = 2
    Order <- MCOrder
    PlaneOf <- HubPlanes
    Reconnect = TRUE
    RxWorker = 0
SPECIFICATION Spec
INVARIANT EgressIsolated
