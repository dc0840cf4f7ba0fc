SPECIFICATION Safety
CONSTANTS
    Rooms = {a}
    Clients = {c1}
    Sockets = {s1, s2}
    MaxTries = 2
    MaxTurns = 1
    MaxSaid = 2
    NoKey = NoKey
    NoSocket = NoSocket
    NoClient = NoClient
INVARIANTS
    SubscribedByFullName
CHECK_DEADLOCK FALSE
