SPECIFICATION Spec
CONSTANTS
    KeepAlive = 3
    KeepAliveCheck = 1
    SocketTimeout = 4
    BufSize = 3
    TxSize = 3
    OutSize = 2
    PacketSizes <- MCPacketSizes
    MaxPackets = 3
INVARIANT
    NeverTorn
