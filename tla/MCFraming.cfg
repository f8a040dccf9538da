CONSTANTS
    HeaderSize = 2
    MaxExt = 1
    MaxPay = 4
    WireExt = 2
    WirePay = 5
    Scan = 3
    Sources <- MCSources
    Tails <- MCTails
    Protocols = {"tcp", "websocket", "quic"}
    Policies = {"strict", "lenient"}
SPECIFICATION FairSpec
INVARIANTS DeliversWhatWasSent ChunkingIrrelevant WaitsWithinBound
PROPERTIES ParserReturns
CHECK_DEADLOCK FALSE
