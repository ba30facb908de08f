\* Two one-byte packets in one bundle, forwarded by the hub to its local
\* transport.
CONSTANTS
    Plane = 1111638594
    Topics = {66051}
    Source = 16909060
    ChannelA = 1111638594
    RemoteCh = 7
    Lens = {1}
    NPackets = 2
    BufSize = 48
SPECIFICATION Spec
INVARIANT LocalExact
