CONSTANTS
    Cycles = {0, 100}
    ModeCycle = 10
    Sizes = {4, 20}
    MaxUdp = 10
    Header = 2
    ByteBase = 2
    MaxCounter = 4
    MaxStarts = 2
    NumServices = 2
    MaxQueue = 2
    Server = 1
    Scenes = {"events", "callbacks"}
SPECIFICATION Spec
INVARIANTS
    TypeOK
    CycleFollowsMode
    StopReleasesAll
    SubscriptionHasHandler
PROPERTIES
    JumpMeansLoss
    EventuallySubscribed
CHECK_DEADLOCK FALSE
