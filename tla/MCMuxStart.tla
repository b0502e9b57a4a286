------------------------------ MODULE MCMuxStart ------------------------------
(* Instances for TLC.                                                       *)
EXTENDS MuxStart

\* One muxer: a stream copy, a stream that is opened; both may end early, and
\* the header may not be written.
One == [NbMux |-> 1, NbStreams |-> 2, MuxOf |-> <<1, 1>>, Dts |-> <<<<1, 3, 5>>, <<2, 4>>>>,
        CopyStreams |-> {1}, Sdp |-> FALSE,
        QueueSize |-> 1, PreCapacity |-> 1, DataThreshold |-> 1, MaxPackets |-> 1,
        InitFails |-> TRUE, MuxStops |-> TRUE,
        BeatSource |-> {}, SubStream |-> 0, BeatCapacity |-> 0]

\* Two muxers, the first with two streams, and an SDP.
Two == [NbMux |-> 2, NbStreams |-> 3, MuxOf |-> <<1, 2, 1>>, Dts |-> <<<<NOPTS, 3>>, <<1>>, <<2, NOPTS>>>>,
        CopyStreams |-> {}, Sdp |-> TRUE,
        QueueSize |-> 1, PreCapacity |-> 1, DataThreshold |-> 0, MaxPackets |-> 4,
        InitFails |-> FALSE, MuxStops |-> FALSE,
        BeatSource |-> {1}, SubStream |-> 3, BeatCapacity |-> 2]

\* One muxer: a stream copy whose pre-muxing queue may not grow, so that even
\* its end may not fit while the other stream is not open yet.
Lost == [NbMux |-> 1, NbStreams |-> 2, MuxOf |-> <<1, 1>>, Dts |-> <<<<1, 3>>, <<2, 4>>>>,
         CopyStreams |-> {1}, Sdp |-> FALSE,
         QueueSize |-> 1, PreCapacity |-> 1, DataThreshold |-> 0, MaxPackets |-> 1,
         InitFails |-> FALSE, MuxStops |-> FALSE,
         BeatSource |-> {}, SubStream |-> 0, BeatCapacity |-> 0]

Passing == {One, Two, Lost}
OnlyLost == {Lost}

\* One muxer: a heartbeat stream, a subtitle stream, a late third stream.
Beat == [NbMux |-> 1, NbStreams |-> 3, MuxOf |-> <<1, 1, 1>>,
         Dts |-> <<<<1, 2, 3, 4, 5>>, <<0, 2>>, <<5>>>>,
         CopyStreams |-> {}, Sdp |-> FALSE,
         QueueSize |-> 1, PreCapacity |-> 1, DataThreshold |-> 0, MaxPackets |-> 8,
         InitFails |-> FALSE, MuxStops |-> FALSE,
         BeatSource |-> {1}, SubStream |-> 2, BeatCapacity |-> 1]

OnlyBeat == {Beat}
=============================================================================
