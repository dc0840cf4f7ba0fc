SPECIFICATION Spec
CONSTANTS
    Conns = {c1, c2}
    Sids = {s1}
    Workers = {w1}
    MaxSessions = 1
    MaxRestarts = 1
    NoKey = NoKey
    NoConn = NoConn
    GuardrailsEnabled = TRUE
    ModeratorAnswers = {FALSE}
PROPERTIES
    DisconnectEndsCall
    TurnCompletes
CHECK_DEADLOCK FALSE
