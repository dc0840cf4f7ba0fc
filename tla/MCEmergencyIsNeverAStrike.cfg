SPECIFICATION Safety
CONSTANTS
    Conns = {c1}
    Sids = {s1}
    Workers = {w1}
    MaxSessions = 1
    MaxRestarts = 0
    NoKey = NoKey
    NoConn = NoConn
    GuardrailsEnabled = TRUE
    ModeratorAnswers = {FALSE}
INVARIANT
    EmergencyIsNeverAStrike
CHECK_DEADLOCK FALSE
