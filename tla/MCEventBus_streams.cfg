SPECIFICATION FairSpec
CONSTANTS
    p1 = p1
    p2 = p2
    s1 = s1
    a1 = a1
    Publishers <- MCPublishers
    SiteStreams <- MCSiteStreams
    AdminStreams <- MCAdminStreams
    Types <- MCTypes
    Allowed <- MCAllowed
    Buffer = 1
    MaxEvents = 2
    MaxStreams = 2
CHECK_DEADLOCK FALSE
INVARIANTS BusInv StreamsComplete
PROPERTY EventReachesClient
