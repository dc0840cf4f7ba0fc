SPECIFICATION MeetingSafety
CONSTANTS
    Conns = {c1, c2}
    Sids = {s1, s2}
    Workers = {w1, w2}
    MaxSessions = 1
    MaxRestarts = 1
    NoKey = NoKey
    NoConn = NoConn
    GuardrailsEnabled = TRUE
    ModeratorAnswers = {FALSE}
SYMMETRY Symmetry
INVARIANTS
    TypeOK
    OneHandlerPerSession
    CapacityRespected
    GaugeBalanced
    StrikesMatchHarm
PROPERTIES
    StrikesAreEarned
    LedgerIsKept
    ThirdStrikeEndsCall
CHECK_DEADLOCK FALSE
