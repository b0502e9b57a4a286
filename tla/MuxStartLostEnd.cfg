SPECIFICATION FairSpec
CONSTANT Instances <- OnlyLost
PROPERTIES MuxerAlwaysEnds
