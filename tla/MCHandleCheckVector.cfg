SPECIFICATION SpecCheck
CHECK_DEADLOCK FALSE
CONSTANTS
    c1 = c1  c2 = c2  web = web
    Endpoint = {c1, c2, web}
    IsPort80 <- MCIsPort80
    SeqNum = {0, 1, 2}
    HeapSeq = {0}
    MemoryFails = FALSE
    Data = {"req", "rsp"}
    NoData = "none"
    Packets <- MCPackets
    NBuckets = 2
    Hash <- MCHash
    Decodes <- MCDecodes
    TIMEOUT_CHECK_DUR = 2
    FLUSH_AGE = 1
    TIMEOUT = 3
    MaxPackets = 3
    MaxTime = 4
PROPERTY WholeVectorTraversed
