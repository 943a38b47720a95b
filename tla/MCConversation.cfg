SPECIFICATION ConversationSpec
CHECK_DEADLOCK FALSE
CONSTANTS
    c1 = c1  c2 = c2  web = web
    clientEnd = c1  serverEnd = web
    other <- MCOther
    Exchanges = 2  Parts = 2  MaxDelay = 1
    Endpoint = {c1, c2, web}
    IsPort80 <- MCIsPort80
    SeqNum <- MCSeqNum
    HeapSeq = {0}
    MemoryFails = FALSE
    Data = {1, 2}
    NoData = 0
    Packets <- ConversationPackets
    NBuckets = 2
    Hash <- MCHash
    Decodes <- MCDecodes
    TIMEOUT_CHECK_DUR = 2
    FLUSH_AGE = 1
    TIMEOUT = 3
    MaxPackets = 9
    MaxTime = 6
INVARIANTS AnswersMatchRequests EveryExchangeRecorded CopiesDropped
