CONSTANTS
    p0 = p0
    p1 = p1
    c = c
    Producers = {p0, p1}
    Consumer = c
    NbStreams = 2
    QueueSize = 2
    MaxItems = 2
    AllocFails = FALSE
    Feeds <- MCFeeds
SPECIFICATION FairSpec
INVARIANTS
    TypeOK
    SenderSleepsForAReason
    ReceiverSleepsForAReason
    IndexMatchesItem
PROPERTIES
    ChannelSpec
    FinishedStreamEnds
    SendReturns
