CONSTANTS
    Packets <- MCPackets
    OwnIp <- MCOwnIp
    VsockCap = 3
    MaxRawFaults = 2
    Destinations <- MCDestinations
    MaxSent <- MCMaxSent
    HopCap = 2
    MaxTcpFaults = 1
    MaxBytes = 2
    MaxRecord = 2
    WireCap = 3
SPECIFICATION Spec
INVARIANTS WholePackets StreamsFaithful Authenticated Faithful
PROPERTIES Forwarded HalfCloses Delivered
CHECK_DEADLOCK FALSE
