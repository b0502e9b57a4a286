SPECIFICATION FairSpec
CONSTANT Instances <- Passing
INVARIANTS TypeOK NothingStranded StreamOrder SdpBeforeMuxing FlushInDtsOrder
PROPERTIES MuxingStarts MuxerEnds
