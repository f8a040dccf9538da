CONSTANTS
    g1 = g1
    g2 = g2
    s1 = s1
    b1 = b1
    u1 = u1
    Protocols = {"tcp", "tls", "websocket", "quic"}
    Peers = {g1, g2, s1, b1, u1}
    NoPeer = NoPeer
    Silent = {s1}
    Bad = {b1}
    Mute = {u1}
    MaxPending = 1
    Cap = 1
SPECIFICATION FairSpec
PROPERTIES PeerAnswered ListenerStops
CHECK_DEADLOCK FALSE
