SPECIFICATION Spec
CONSTANTS
    InputFiles <- MCInputFiles
    Decoders <- MCDecoders
    OutputFormats <- MCOutputFormats
    Encoders <- MCEncoders
    OptionDefs <- MCOptionDefs
    Sessions <- MCSessions
INVARIANTS StartsUnlessRefused QueuesAsNeeded NoStaleTags
CHECK_DEADLOCK FALSE
