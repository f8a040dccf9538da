CONSTANTS
    m1 = m1
    m2 = m2
    Protocols = {"tcp", "websocket", "quic"}
    Packets <- MCPackets
    QueueCap = 2
    PipeCap = 1
    BatchSize = 2
    MaxWire <- MCMaxWire
    Idling = {"server"}
    Pinging = {"client"}
    Idle = 2
    PingEvery = 1
    Pong = 1
    WriteDeadline = 1
SPECIFICATION FairSpec
PROPERTIES TimeoutDeserved TeardownCompletes
CHECK_DEADLOCK FALSE
