SPECIFICATION Spec
CHECK_DEADLOCK FALSE
CONSTANTS
    c1 = c1  c2 = c2  web = web
    Endpoint = {c1, c2, web}
    IsPort80 <- MCIsPort80
    SeqNum = {1, 2}
    HeapSeq = {1, 2}
    MemoryFails = TRUE
    Data = {"req", "rsp"}
    NoData = "none"
    Packets <- MCPackets
    NBuckets = 2
    Hash <- MCHash
    Decodes <- MCDecodes
    TIMEOUT_CHECK_DUR = 2
    FLUSH_AGE = 1
    TIMEOUT = 3
    MaxPackets = 4
    MaxTime = 3
INVARIANTS TypeOK OneSessionPerConnection SidesKeptApart SegmentsUsedOnce StampsCurrent
PROPERTY ExchangeSpec
