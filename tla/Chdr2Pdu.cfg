CONSTANTS
    MTU = 12
    SPP = 4
    PACKETS = 3
    STARTS = 2
SPECIFICATION Spec
INVARIANTS TypeOK ThreadDiesFirst StreamerIsThere PduPerPacket
PROPERTIES DestroyEnds PacketsArrive
