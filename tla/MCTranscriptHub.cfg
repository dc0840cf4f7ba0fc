SPECIFICATION Spec
CONSTANTS
    Rooms = {a, b}
    Clients = {c1}
    Sockets = {s1, s2}
    MaxTries = 2
    MaxTurns = 1
    MaxSaid = 2
    NoKey = NoKey
    NoSocket = NoSocket
    NoClient = NoClient
INVARIANTS
    TypeOK
    OneSource
    LiveSocketSubscribed
PROPERTIES
    FeedIsFaithful
    GoneIsForgotten
CHECK_DEADLOCK FALSE
