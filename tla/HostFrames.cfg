CONSTANTS
    pan_id <- MCpan_id
    src_addr <- MCsrc_addr
    epid <- MCepid
    short_addr_mode = FALSE
    CharMin <- MCCharMin
    REQUESTS = 300
    Received <- MCReceived
SPECIFICATION HostSpec
INVARIANTS SameChecksum ShortErrorsSeen SentIsReceived OwnModeRejects BeaconsNumbered
CHECK_DEADLOCK FALSE
