SPECIFICATION Spec
CONSTANTS
    Tasks = {t1, t2}
    Texts = {hello, balance}
    NoText = NoText
    FallbackChunks = 2
    QueueMax = 2
INVARIANTS
    TypeOK
    OnePipeline
    EndsOnce
PROPERTIES
    NothingWedges
CHECK_DEADLOCK FALSE
