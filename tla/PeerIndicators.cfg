SPECIFICATION Spec
CONSTANTS
    p1 = p1
    p2 = p2
    Peers = {p1, p2}
    Zones = {"main", "stage"}
    MainZone = "main"
    Walkers = {p1}
    Movers = {p1}
    Closers = {p2}
    Undefined = Undefined
    NoPeer = NoPeer
    MaxChanges = 2
CONSTRAINT TwoActs
INVARIANTS
    TypeOK
    Acquainted
    FacesAreKnown
    KnowsTheLatest
    
    PausedAsAsked
    OtherZonesAreSilent
CHECK_DEADLOCK FALSE
