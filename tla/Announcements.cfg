SPECIFICATION FairSpec
CONSTANTS
    audio = audio
    movement = movement
    events = events
    p1 = p1
    p2 = p2
    Peers = {p1, p2}
    Leavers = {p2}
    Asking <- AskingOrder
    MediaKinds = {audio}
    Movement = movement
    Events = events
    MayProduce <- Producible
INVARIANTS
    TypeOK
    EveryoneServed
    LobbyIsQuiet
PROPERTIES
    ConferenceSpec
    ServedEventually
CHECK_DEADLOCK FALSE
