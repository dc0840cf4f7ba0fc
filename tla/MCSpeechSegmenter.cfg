SPECIFICATION Spec
CONSTANTS
    SpeechThreshold = 2
    SilenceThreshold = 2
    MinSpeechFrames = 3
    FrameBytes = 2
    MaxChunk = 6
    MaxFrames = 11
INVARIANTS
    TypeOK
    UtteranceIsOneRun
    CountsMatchBuffer
PROPERTY
    UtterancesDisjoint
