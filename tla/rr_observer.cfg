\* Two workers: the rx task on worker 1, the caller on worker 1, and a
\* subscribe() on worker 0.  One call.
CONSTANTS
    Workers = {0, 1}
    RxWorker = 1
    Callers = {1}
    Observers = {0}
    Remote = Remote
    MaxCalls = 1
    MaxRemote = 0
    LocalAddr = 1
    RemoteAddr = 2
SPECIFICATION Spec
PROPERTY ObserversAnswered
