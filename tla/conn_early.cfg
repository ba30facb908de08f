\* One connection to a TcpServer whose role starts on worker 1 and then on
\* the local worker 0, which also runs the transport's tcp-rx task.
CONSTANTS
    NConns = 1
    Order <- MCOrder
    PlaneOf <- ServerPlanes
    Reconnect = FALSE
    RxWorker = 0
SPECIFICATION Spec
INVARIANT IngressHandled
