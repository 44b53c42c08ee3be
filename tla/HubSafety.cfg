SPECIFICATION MCSpec
CONSTANTS
    i1 = i1
    i2 = i2
    v1 = v1
    v2 = v2
    v3 = v3
    r1 = r1
    r2 = r2
    r3 = r3
    NoViewer = NoViewer
    Instances <- MCInstances
    Viewers <- MCViewers
    Requests <- MCRequests
    At <- MCAt
    MaxErrors = 1
CHECK_DEADLOCK FALSE
INVARIANTS
    FeedTypeOK
    DeliveredOnceInOrder
    DeafOnlyWhenCut
    NoOrphanChannel
    StaleOnlyInWindows
PROPERTIES
    NewsArrives
    NewsNotDropped
    ImplementsChannel
