SPECIFICATION Spec
CONSTANTS
    InputFiles <- MCInputFiles
    Decoders <- MCDecoders
    OutputFormats <- MCOutputFormats
    Encoders <- MCEncoders
    OptionDefs <- MCOptionDefs
    Sessions <- MCSessions
INVARIANT FreshStart
CHECK_DEADLOCK FALSE
