SPECIFICATION FairSpec
CONSTANT Instances <- OnlyBeat
PROPERTIES MuxingStarts
CHECK_DEADLOCK FALSE
