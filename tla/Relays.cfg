SPECIFICATION FairSpec
CONSTANTS
    Sockets <- MCSockets
    Ids = {i1, i2}
    Reused = {i1}
    Leavers = {1}
    Viewers <- MCViewers
    MaxQueue = 3
    NoSocket = NoSocket
INVARIANTS
    TypeOK
    NobodyOutlivesTheSocket
    NewestIsServed
    OneStatsChain
PROPERTIES
    StatsFollowViewers
CHECK_DEADLOCK FALSE
