SPECIFICATION Spec
CONSTANTS
    NbStreams = 4
    Limiting <- MCLimiting
    StartTb = 6
    Tb <- MCTb
    SampleTime <- MCSampleTime
    Frames <- MCFrames
    FramesMax <- MCFramesMax
    FrameSamples <- MCFrameSamples
    BufSize = 7
    ReceiverEnds = {1, 4}
INVARIANTS TypeOK HeadIsMin NotAhead EndsWithShortest NothingHeldBack AheadIsBounded SamplesThere
PROPERTIES FinishedStays ConstantSize EofIsFinal
