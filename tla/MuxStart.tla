------------------------------ MODULE MuxStart ------------------------------
(***************************************************************************)
(* How muxers start (ffmpeg_sched.c: sch_mux_stream_ready, mux_init,       *)
(* mux_task_start, mux_queue_packet, send_to_mux).  A muxer can write its  *)
(* header, and its thread can run, only when all its streams are           *)
(* initialized, which encoded streams are at their first frame; until then *)
(* packets wait in a pre-muxing queue per stream.  The thread that makes   *)
(* the last stream ready starts the muxer itself: it moves the queued      *)
(* packets to the muxer's thread queue, holding mux_ready_lock all along.  *)
(*                                                                         *)
(* Every stream has one producer: the thread that opens its encoder and    *)
(* then, once opened, the encoder's own thread (or a demuxer for a stream  *)
(* copy).  The muxer's thread queue is abstracted to what StreamChannel    *)
(* promises, kept in one bounded sequence as in ThreadQueue.  The schedule *)
(* update that ends send_to_mux is left to Choking and Pipeline.  Left     *)
(* out: failures of print_sdp and of task_start, and of mux->init inside   *)
(* sch_start, each of which makes the whole run fail.                      *)
(***************************************************************************)
EXTENDS Integers, Sequences, FiniteSets

CONSTANT Instances

VARIABLE inst       \* what is muxed, one of Instances; it never changes

NbMux         == inst.NbMux         \* sch->nb_mux
NbStreams     == inst.NbStreams     \* all muxed streams, numbered in muxer order
MuxOf         == inst.MuxOf         \* [Streams -> Muxes]
Dts           == inst.Dts           \* [Streams -> Seq(dts)]: BOUND on the packets of a stream
CopyStreams   == inst.CopyStreams   \* streams made ready before sch_start (stream copies)
Sdp           == inst.Sdp           \* sdp_filename || sdp_auto
QueueSize     == inst.QueueSize     \* capacity of a muxer's thread queue
PreCapacity   == inst.PreCapacity   \* initial capacity of a pre-muxing queue (8 in the code)
DataThreshold == inst.DataThreshold \* pre_mux_queue.data_threshold, in packets of size 1
MaxPackets    == inst.MaxPackets    \* pre_mux_queue.max_packets
InitFails     == inst.InitFails     \* may mux->init (writing the header) fail?
MuxStops      == inst.MuxStops      \* may a muxer end a stream, or itself, early?
BeatSource    == inst.BeatSource    \* streams with fix_sub_duration_heartbeat
SubStream     == inst.SubStream     \* the subtitle stream those heartbeats go to
BeatCapacity  == inst.BeatCapacity  \* frames held between the muxer and SubStream's encoder:
                                    \* the decoder's queue, the encoder's, one in each's hands

Muxes == 1 .. NbMux
Streams == 1 .. NbStreams
StreamsOf(m) == {s \in Streams : MuxOf[s] = m}

\* The muxers and streams of any instance.
AnyMux == UNION {1 .. i.NbMux : i \in Instances}
AnyStream == UNION {1 .. i.NbStreams : i \in Instances}

NOPTS == -1         \* AV_NOPTS_VALUE
NULL == [stream |-> 0, n |-> 0, dts |-> NOPTS]  \* the NULL packet: end of stream

ASSUME InstanceAssumption ==
    \A i \in Instances :
        /\ i.NbMux \in Nat \ {0} /\ i.NbStreams \in Nat
        /\ i.MuxOf \in [1 .. i.NbStreams -> 1 .. i.NbMux]
        /\ i.Dts \in [1 .. i.NbStreams -> Seq(Int)]
        /\ i.QueueSize \in Nat \ {0} /\ i.PreCapacity \in Nat \ {0}
        /\ i.DataThreshold \in Nat /\ i.MaxPackets \in Nat /\ i.BeatCapacity \in Nat
        /\ i.Sdp \in BOOLEAN
        /\ i.CopyStreams \subseteq 1 .. i.NbStreams
        /\ i.BeatSource \subseteq (1 .. i.NbStreams) \ {i.SubStream}

VARIABLES
    phase,          \* sch->state: "uninit" until sch_start
    nbReady,        \* mux->nb_streams_ready
    nbMuxReady,     \* sch->nb_mux_ready
    headers,        \* muxers whose header is written
    sdpWritten,     \* print_sdp was called
    muxStarted,     \* mux->mux_started
    initEof,        \* streams with ms->init_eof
    preQueue,       \* [Streams -> Seq(packet)]: pre_mux_queue.fifo
    preCap,         \* its capacity
    preData,        \* pre_mux_queue.data_size
    lock,           \* holder of mux_ready_lock, 0 if free
    toStart,        \* muxers the holder of the lock is starting
    pc,             \* [Streams -> where its producer is]
    next,           \* [Streams -> number of the packet to send]
    beats,          \* frames on their way from heartbeats to SubStream
    muxPc,          \* [Muxes -> where its thread is]
    inHand,         \* the packet a muxer thread sends a heartbeat for
    queue,          \* [Muxes -> Seq(packet)]: mux->queue
    sendFinished, recvFinished,     \* streams: the flags of mux->queue
    written,        \* [Muxes -> Seq(packet)]: history, packets muxed
    flushed         \* history: packets that went through a pre-muxing queue

schVars == <<phase, nbReady, nbMuxReady, headers, sdpWritten>>
preVars == <<preQueue, preCap, preData, initEof, flushed>>
queueVars == <<queue, sendFinished, recvFinished>>
threadVars == <<muxPc, inHand, written, beats>>
vars == <<schVars, preVars, queueVars, threadVars, muxStarted, lock, toStart, pc, next>>

Packet(s, n) == [stream |-> s, n |-> n, dts |-> Dts[s][n]]
LastPacket(s) == Len(Dts[s])

Init ==     \* after the configuration phase
    /\ inst \in Instances
    /\ phase = "uninit"
    /\ nbReady = [m \in Muxes |-> Cardinality(StreamsOf(m) \cap CopyStreams)]
    /\ nbMuxReady = 0
    /\ headers = {}
    /\ sdpWritten = FALSE
    /\ muxStarted = [m \in Muxes |-> FALSE]
    /\ initEof = {}
    /\ preQueue = [s \in Streams |-> <<>>]
    /\ preCap = [s \in Streams |-> PreCapacity]
    /\ preData = [s \in Streams |-> 0]
    /\ lock = 0
    /\ toStart = <<>>
    /\ pc = [s \in Streams |-> IF s \in CopyStreams THEN "send" ELSE "opening"]
    /\ next = [s \in Streams |-> 1]
    /\ beats = 0
    /\ muxPc = [m \in Muxes |-> "off"]
    /\ inHand = [m \in Muxes |-> NULL]
    /\ queue = [m \in Muxes |-> <<>>]
    /\ sendFinished = {}
    /\ recvFinished = {}
    /\ written = [m \in Muxes |-> <<>>]
    /\ flushed = {}

-----------------------------------------------------------------------------
(* Starting                                                                *)

AllReady(ready, m) == ready[m] = Cardinality(StreamsOf(m))

\* task_start for the muxers in M
StartThreads(M) == muxPc' = [m \in Muxes |-> IF m \in M THEN "receive" ELSE muxPc[m]]

\* sch_start: mux_init for every muxer whose streams are all ready.  Nothing
\* was queued yet, so a muxer started here is started at once.
SchStart ==
    /\ phase = "uninit"
    /\ phase' = "started"
    /\ LET M == {m \in Muxes : AllReady(nbReady, m)}
           all == M = Muxes
           S == IF Sdp THEN IF all THEN Muxes ELSE {} ELSE M
       IN  /\ nbMuxReady' = Cardinality(M)
           /\ headers' = M
           /\ sdpWritten' = (Sdp /\ all)
           /\ muxStarted' = [m \in Muxes |-> m \in S]
           /\ StartThreads(S)
    /\ UNCHANGED <<nbReady, preVars, queueVars, inHand, written, beats, lock, toStart, pc, next>>

InSequence(M) == [i \in 1 .. Cardinality(M) |->
                    CHOOSE m \in M : Cardinality({k \in M : k < m}) = i - 1]

\* sch_mux_stream_ready, not the last stream of its muxer
StreamReady(s) ==
    /\ phase = "started"
    /\ pc[s] = "opening"
    /\ lock = 0
    /\ nbReady' = [nbReady EXCEPT ![MuxOf[s]] = @ + 1]
    /\ ~AllReady(nbReady', MuxOf[s])
    /\ pc' = [pc EXCEPT ![s] = "send"]
    /\ UNCHANGED <<phase, nbMuxReady, headers, sdpWritten, preVars, queueVars, threadVars,
                   muxStarted, lock, toStart, next>>

\* Mutant: a muxer starts at once, SDP or not.
MuxInit_NoSdpWait(s) ==
    /\ phase = "started"
    /\ pc[s] = "opening"
    /\ lock = 0
    /\ nbReady' = [nbReady EXCEPT ![MuxOf[s]] = @ + 1]
    /\ AllReady(nbReady', MuxOf[s])
    /\ headers' = headers \cup {MuxOf[s]}
    /\ nbMuxReady' = nbMuxReady + 1
    /\ sdpWritten' = (Sdp /\ nbMuxReady' = NbMux)
    /\ lock' = s
    /\ pc' = [pc EXCEPT ![s] = "starting"]
    /\ toStart' = <<MuxOf[s]>>
    /\ StartThreads({MuxOf[s]})
    /\ UNCHANGED <<phase, preVars, queueVars, inHand, written, beats, muxStarted, next>>

\* sch_mux_stream_ready for the last stream: mux_init writes the header.
\* With an SDP wanted and a muxer missing, that is all; else the muxer, or
\* with the SDP all of them, is to be started, by this thread.
MuxInit(s) ==
    /\ phase = "started"
    /\ pc[s] = "opening"
    /\ lock = 0
    /\ nbReady' = [nbReady EXCEPT ![MuxOf[s]] = @ + 1]
    /\ AllReady(nbReady', MuxOf[s])
    /\ headers' = headers \cup {MuxOf[s]}
    /\ nbMuxReady' = nbMuxReady + 1
    /\ LET all == nbMuxReady' = NbMux
           wait == Sdp /\ ~all
           S == IF Sdp THEN Muxes ELSE {MuxOf[s]}
       IN  IF wait
           THEN /\ pc' = [pc EXCEPT ![s] = "send"]
                /\ UNCHANGED <<sdpWritten, lock, toStart, muxPc>>
           ELSE /\ sdpWritten' = Sdp
                /\ lock' = s
                /\ pc' = [pc EXCEPT ![s] = "starting"]
                /\ toStart' = InSequence(S)
                /\ StartThreads({toStart'[1]})
    /\ UNCHANGED <<phase, preVars, queueVars, inHand, written, beats, muxStarted, next>>

\* mux->init fails: the error goes back to the thread that opened the encoder.
MuxInitFails(s) ==
    /\ InitFails
    /\ phase = "started"
    /\ pc[s] = "opening"
    /\ lock = 0
    /\ nbReady' = [nbReady EXCEPT ![MuxOf[s]] = @ + 1]
    /\ AllReady(nbReady', MuxOf[s])
    /\ pc' = [pc EXCEPT ![s] = "eof"]
    /\ UNCHANGED <<phase, nbMuxReady, headers, sdpWritten, preVars, queueVars, threadVars,
                   muxStarted, lock, toStart, next>>

\* The stream mux_task_start takes next: the first whose head is an EOF or has
\* no dts, if there is one before any later choice; else the earliest dts.
Head1(s) == preQueue[s][1]
AtOnce(s) == Head1(s) = NULL \/ Head1(s).dts = NOPTS

\* Mutant: the first stream that has a packet, whatever its dts.
MinStream_First(m, s) ==
    LET Q == {r \in StreamsOf(m) : preQueue[r] # <<>>}
    IN  s \in Q /\ \A r \in Q : s <= r

MinStream(m, s) ==
    LET Q == {r \in StreamsOf(m) : preQueue[r] # <<>>}
        U == {r \in Q : AtOnce(r)}
    IN  /\ s \in Q
        /\ IF U # {} THEN s \in U /\ \A r \in U : s <= r
           ELSE \A r \in Q : \/ Head1(s).dts < Head1(r).dts
                             \/ Head1(s).dts = Head1(r).dts /\ s <= r

TakePre(s) == preQueue' = [preQueue EXCEPT ![s] = Tail(@)]

\* One packet of the flush in mux_task_start; tq_send blocks while it is full.
FlushPacket(p) ==
    /\ lock = p /\ pc[p] = "starting"
    /\ \E s \in Streams :
         /\ MinStream(toStart[1], s)
         /\ Head1(s) # NULL
         /\ TakePre(s)
         /\ IF s \in initEof
            THEN UNCHANGED <<queue, initEof, flushed>>
            ELSE IF s \in recvFinished
            THEN initEof' = initEof \cup {s} /\ UNCHANGED <<queue, flushed>>
            ELSE /\ Len(queue[toStart[1]]) < QueueSize
                 /\ queue' = [queue EXCEPT ![toStart[1]] = Append(@, Head1(s))]
                 /\ flushed' = flushed \cup {Head1(s)}
                 /\ UNCHANGED initEof
    /\ UNCHANGED <<schVars, preCap, preData, sendFinished, recvFinished, threadVars,
                   muxStarted, lock, toStart, pc, next>>

\* Mutant: an end of stream in the queue is not passed on.
FlushEof_Dropped(p) ==
    /\ lock = p /\ pc[p] = "starting"
    /\ \E s \in Streams :
         /\ MinStream(toStart[1], s)
         /\ Head1(s) = NULL
         /\ TakePre(s)
    /\ UNCHANGED <<schVars, preCap, preData, initEof, flushed, queueVars, threadVars,
                   muxStarted, lock, toStart, pc, next>>

FlushEof(p) ==
    /\ lock = p /\ pc[p] = "starting"
    /\ \E s \in Streams :
         /\ MinStream(toStart[1], s)
         /\ Head1(s) = NULL
         /\ TakePre(s)
         /\ sendFinished' = sendFinished \cup {s}
    /\ UNCHANGED <<schVars, preCap, preData, initEof, flushed, queue, recvFinished, threadVars,
                   muxStarted, lock, toStart, pc, next>>

\* Mutant: mux_started is never set.
FlushDone_NotMarked(p) ==
    /\ lock = p /\ pc[p] = "starting"
    /\ \A s \in StreamsOf(toStart[1]) : preQueue[s] = <<>>
    /\ toStart' = <<>>
    /\ lock' = 0
    /\ pc' = [pc EXCEPT ![p] = "send"]
    /\ UNCHANGED <<schVars, preVars, queueVars, threadVars, muxStarted, next>>

\* The flush is over: mux_started; the next muxer's thread is started, or the
\* lock released.
FlushDone(p) ==
    /\ lock = p /\ pc[p] = "starting"
    /\ \A s \in StreamsOf(toStart[1]) : preQueue[s] = <<>>
    /\ muxStarted' = [muxStarted EXCEPT ![toStart[1]] = TRUE]
    /\ toStart' = Tail(toStart)
    /\ IF toStart' = <<>>
       THEN /\ lock' = 0
            /\ pc' = [pc EXCEPT ![p] = "send"]
            /\ UNCHANGED muxPc
       ELSE StartThreads({toStart'[1]}) /\ UNCHANGED <<lock, pc>>
    /\ UNCHANGED <<schVars, preVars, queueVars, inHand, written, beats, next>>

-----------------------------------------------------------------------------
(* Producers: send_to_mux                                                  *)

\* A producer has another packet, or decides that the stream ends.  SubStream's
\* later packets come from heartbeats.
HasPacket(s) == next[s] <= LastPacket(s) /\ (s = SubStream /\ next[s] > 1 => beats > 0)

TakeFrame(s) == beats' = IF s = SubStream /\ next[s] > 1 THEN beats - 1 ELSE beats

\* Mutant: the muxer's thread runs, so the packet goes to it directly.
SendPacket_ThreadRuns(s) ==
    /\ phase = "started" /\ pc[s] = "send"
    /\ HasPacket(s)
    /\ TakeFrame(s)
    /\ pc' = [pc EXCEPT ![s] = IF muxPc[MuxOf[s]] # "off" THEN "direct" ELSE "queueing"]
    /\ UNCHANGED <<schVars, preVars, queueVars, muxPc, inHand, written, muxStarted, lock,
                   toStart, next>>

\* The first, unlocked test of mux_started.
SendPacket(s) ==
    /\ phase = "started" /\ pc[s] = "send"
    /\ HasPacket(s)
    /\ TakeFrame(s)
    /\ pc' = [pc EXCEPT ![s] = IF muxStarted[MuxOf[s]] THEN "direct" ELSE "queueing"]
    /\ UNCHANGED <<schVars, preVars, queueVars, muxPc, inHand, written, muxStarted, lock,
                   toStart, next>>

\* The stream ends: at its end, after an error, or before its encoder got a
\* frame to be opened with ("Could not open encoder before EOF").
SendEof(s) ==
    /\ phase = "started" /\ pc[s] \in {"opening", "send", "eof"}
    /\ next' = [next EXCEPT ![s] = LastPacket(s) + 1]
    /\ pc' = [pc EXCEPT ![s] = IF muxStarted[MuxOf[s]] THEN "direct" ELSE "queueing"]
    /\ UNCHANGED <<schVars, preVars, queueVars, threadVars, muxStarted, lock, toStart>>

IsEof(s) == next[s] > LastPacket(s)
ThisPacket(s) == IF IsEof(s) THEN NULL ELSE Packet(s, next[s])

\* Mutant: the end of the stream counts as a packet.
Sent_CountsEof(s) ==
    /\ pc' = [pc EXCEPT ![s] = IF IsEof(s) THEN "done" ELSE "send"]
    /\ next' = [next EXCEPT ![s] = @ + 1]

Sent(s) ==
    /\ pc' = [pc EXCEPT ![s] = IF IsEof(s) THEN "done" ELSE "send"]
    /\ next' = [next EXCEPT ![s] = IF IsEof(s) THEN @ ELSE @ + 1]

PreFull(s) == Len(preQueue[s]) = preCap[s]

\* mux_queue_packet: a full queue is doubled; past the data threshold only up
\* to max_packets.
NewCapacity(s) ==
    LET size == IF IsEof(s) THEN 0 ELSE 1
        double == 2 * preCap[s]
    IN  IF preData[s] + size > DataThreshold /\ MaxPackets < double THEN MaxPackets ELSE double

PreWrite(s) ==
    /\ preQueue' = [preQueue EXCEPT ![s] = Append(@, ThisPacket(s))]
    /\ preData' = [preData EXCEPT ![s] = IF IsEof(s) THEN @ ELSE @ + 1]

\* Mutant: mux_started is not looked at again under the lock.
PreQueue_NoRecheck(s) ==
    /\ pc[s] = "queueing" /\ lock = 0
    /\ PreFull(s) => NewCapacity(s) > preCap[s]
    /\ preCap' = [preCap EXCEPT ![s] = IF PreFull(s) THEN NewCapacity(s) ELSE @]
    /\ PreWrite(s)
    /\ Sent(s)
    /\ UNCHANGED <<schVars, initEof, flushed, queueVars, threadVars, muxStarted, lock, toStart>>

\* Under mux_ready_lock, not started: the packet is queued.
PreQueue(s) ==
    /\ pc[s] = "queueing" /\ lock = 0
    /\ ~muxStarted[MuxOf[s]]
    /\ PreFull(s) => NewCapacity(s) > preCap[s]
    /\ preCap' = [preCap EXCEPT ![s] = IF PreFull(s) THEN NewCapacity(s) ELSE @]
    /\ PreWrite(s)
    /\ Sent(s)
    /\ UNCHANGED <<schVars, initEof, flushed, queueVars, threadVars, muxStarted, lock, toStart>>

\* "Too many packets buffered for output stream": the task fails, and its
\* clean-up sends the end of the stream.  An end refused here is lost: the
\* callers of send_to_mux(NULL) mark the stream finished without a look at the
\* result.
PreOverflow(s) ==
    /\ pc[s] = "queueing" /\ lock = 0
    /\ ~muxStarted[MuxOf[s]]
    /\ PreFull(s) /\ NewCapacity(s) <= preCap[s]
    /\ pc' = [pc EXCEPT ![s] = IF IsEof(s) THEN "failed" ELSE "eof"]
    /\ UNCHANGED <<schVars, preVars, queueVars, threadVars, muxStarted, lock, toStart, next>>

\* Under mux_ready_lock, started meanwhile: fall through to the normal path.
FallThrough(s) ==
    /\ pc[s] = "queueing" /\ lock = 0
    /\ muxStarted[MuxOf[s]]
    /\ pc' = [pc EXCEPT ![s] = "direct"]
    /\ UNCHANGED <<schVars, preVars, queueVars, threadVars, muxStarted, lock, toStart, next>>

\* tq_send, or EOF from init_eof or from a stream its muxer has ended: then
\* the caller sends the end of the stream.
DirectPacket(s) ==
    /\ pc[s] = "direct" /\ ~IsEof(s)
    /\ IF s \in initEof \/ s \in recvFinished
       THEN /\ pc' = [pc EXCEPT ![s] = "eof"]
            /\ UNCHANGED <<queue, next>>
       ELSE /\ Len(queue[MuxOf[s]]) < QueueSize
            /\ queue' = [queue EXCEPT ![MuxOf[s]] = Append(@, ThisPacket(s))]
            /\ Sent(s)
    /\ UNCHANGED <<schVars, preVars, sendFinished, recvFinished, threadVars, muxStarted, lock,
                   toStart>>

DirectEof(s) ==     \* tq_send_finish
    /\ pc[s] = "direct" /\ IsEof(s)
    /\ sendFinished' = sendFinished \cup {s}
    /\ Sent(s)
    /\ UNCHANGED <<schVars, preVars, queue, recvFinished, threadVars, muxStarted, lock, toStart>>

-----------------------------------------------------------------------------
(* The muxer threads (muxer_thread, sch_mux_sub_heartbeat)                 *)

\* mux_packet_filter: the packet is muxed, or it ends its stream (-t or
\* -shortest on a stream copy), or the whole muxer (-fs, an error).
Mux(m, pkt) ==
    \/ /\ written' = [written EXCEPT ![m] = Append(@, pkt)]
       /\ muxPc' = [muxPc EXCEPT ![m] = "receive"]
       /\ UNCHANGED recvFinished
    \/ /\ MuxStops
       /\ recvFinished' = recvFinished \cup {pkt.stream}
       /\ muxPc' = [muxPc EXCEPT ![m] = "receive"]
       /\ UNCHANGED written
    \/ /\ MuxStops
       /\ muxPc' = [muxPc EXCEPT ![m] = "ending"]
       /\ UNCHANGED <<written, recvFinished>>

\* sch_mux_receive: an item of a stream the muxer has ended is dropped.
MuxReceive(m) ==
    /\ muxPc[m] = "receive" /\ queue[m] # <<>>
    /\ queue' = [queue EXCEPT ![m] = Tail(@)]
    /\ LET pkt == Head(queue[m])
       IN  IF pkt.stream \in recvFinished
           THEN UNCHANGED <<written, muxPc, inHand, recvFinished>>
           ELSE IF pkt.stream \in BeatSource
           THEN /\ muxPc' = [muxPc EXCEPT ![m] = "beat"]
                /\ inHand' = [inHand EXCEPT ![m] = pkt]
                /\ UNCHANGED <<written, recvFinished>>
           ELSE Mux(m, pkt) /\ UNCHANGED inHand
    /\ UNCHANGED <<schVars, preVars, sendFinished, beats, muxStarted, lock, toStart, pc, next>>

\* sch_mux_sub_heartbeat: tq_send to the decoder, which may block.
MuxBeat(m) ==
    /\ muxPc[m] = "beat"
    /\ beats < BeatCapacity \/ IsEof(SubStream)
    /\ beats' = IF IsEof(SubStream) THEN beats ELSE beats + 1
    /\ Mux(m, inHand[m])
    /\ inHand' = [inHand EXCEPT ![m] = NULL]
    /\ UNCHANGED <<schVars, preVars, queue, sendFinished, muxStarted, lock, toStart, pc, next>>

MuxReceiveEof(m) ==
    /\ muxPc[m] = "receive" /\ queue[m] = <<>>
    /\ \E s \in StreamsOf(m) \cap (sendFinished \ recvFinished) :
         recvFinished' = recvFinished \cup {s}
    /\ UNCHANGED <<schVars, preVars, queue, sendFinished, threadVars, muxStarted, lock,
                   toStart, pc, next>>

\* The thread ends, all streams being done or by itself: mux_done.
MuxDone(m) ==
    /\ \/ muxPc[m] = "ending"
       \/ muxPc[m] = "receive" /\ queue[m] = <<>> /\ StreamsOf(m) \subseteq recvFinished
    /\ muxPc' = [muxPc EXCEPT ![m] = "done"]
    /\ recvFinished' = recvFinished \cup StreamsOf(m)
    /\ UNCHANGED <<schVars, preVars, queue, sendFinished, inHand, written, beats, muxStarted,
                   lock, toStart, pc, next>>

-----------------------------------------------------------------------------
Starting(s) == \/ StreamReady(s) \/ MuxInit(s) \/ MuxInitFails(s)
               \/ FlushPacket(s) \/ FlushEof(s) \/ FlushDone(s)
Sending(s) == \/ SendPacket(s) \/ SendEof(s)
              \/ PreQueue(s) \/ PreOverflow(s) \/ FallThrough(s)
              \/ DirectPacket(s) \/ DirectEof(s)
Muxing(m) == MuxReceive(m) \/ MuxBeat(m) \/ MuxReceiveEof(m) \/ MuxDone(m)

\* The muxer thread waits for the end of a stream whose producer has lost it in
\* a full pre-muxing queue: nothing will wake it up.
WaitsForLostEnd(m) ==
    /\ muxPc[m] = "receive" /\ queue[m] = <<>>
    /\ \E s \in StreamsOf(m) \ (sendFinished \cup recvFinished) : pc[s] = "failed"

AllDone == /\ phase = "started"
           /\ \A s \in Streams : pc[s] \in {"done", "failed"}
           /\ \A m \in Muxes : muxPc[m] \in {"off", "done"} \/ WaitsForLostEnd(m)

Terminated == AllDone /\ UNCHANGED vars

Next ==
    \/ SchStart
    \/ \E s \in Streams : Starting(s) \/ Sending(s)
    \/ \E m \in Muxes : Muxing(m)
    \/ Terminated

Spec == Init /\ [][Next /\ UNCHANGED inst]_<<vars, inst>>

\* Every thread runs when it can; no stream has to be opened or ended.  The
\* mutex is held a bounded number of times for a start, so weak fairness is
\* enough for those who wait for it.
FairSpec ==
    /\ Spec
    /\ WF_vars(SchStart)
    /\ \A s \in AnyStream :
         /\ WF_vars(s \in Streams /\ (FlushPacket(s) \/ FlushEof(s) \/ FlushDone(s)))
         /\ WF_vars(s \in Streams /\ (SendPacket(s) \/ DirectPacket(s) \/ DirectEof(s)))
         /\ WF_vars(s \in Streams /\ (PreQueue(s) \/ PreOverflow(s) \/ FallThrough(s)))
    /\ \A m \in AnyMux : WF_vars(m \in Muxes /\ Muxing(m))

-----------------------------------------------------------------------------
(* Properties                                                              *)

Packets == UNION {{Packet(s, n) : n \in 1 .. LastPacket(s)} : s \in Streams}

TypeOK ==
    /\ phase \in {"uninit", "started"}
    /\ nbReady \in [Muxes -> 0 .. NbStreams]
    /\ nbMuxReady \in 0 .. NbMux
    /\ headers \subseteq Muxes /\ sdpWritten \in BOOLEAN
    /\ muxStarted \in [Muxes -> BOOLEAN]
    /\ initEof \subseteq Streams
    /\ preQueue \in [Streams -> Seq(Packets \cup {NULL})]
    /\ preCap \in [Streams -> Nat] /\ preData \in [Streams -> Nat]
    /\ lock \in Streams \cup {0}
    /\ toStart \in Seq(Muxes)
    /\ pc \in [Streams -> {"opening", "starting", "send", "queueing", "direct", "eof",
                           "done", "failed"}]
    /\ next \in [Streams -> Nat] /\ \A s \in Streams : next[s] \in 1 .. LastPacket(s) + 1
    /\ beats \in 0 .. BeatCapacity
    /\ muxPc \in [Muxes -> {"off", "receive", "beat", "ending", "done"}]
    /\ inHand \in [Muxes -> Packets \cup {NULL}]
    /\ queue \in [Muxes -> Seq(Packets)] /\ written \in [Muxes -> Seq(Packets)]
    /\ sendFinished \subseteq Streams /\ recvFinished \subseteq Streams
    /\ flushed \subseteq Packets

\* No packet is left behind in a pre-muxing queue: a producer that saw
\* mux_started = 0 just before the muxer started must not queue its packet.
NothingStranded ==
    \A s \in Streams : muxStarted[MuxOf[s]] => preQueue[s] = <<>>

\* What a muxer got of a stream is the stream from its start, in order: no
\* packet overtakes those that waited in the pre-muxing queue.
StreamOrder ==
    \A m \in Muxes : \A i \in 1 .. Len(written[m]) :
        written[m][i].n =
            Cardinality({j \in 1 .. i : written[m][j].stream = written[m][i].stream})

\* ffmpeg_sched.h: the SDP is written "AFTER all the headers are written",
\* "BEFORE any packets are written by any muxer" and "with all the muxers
\* quiescent"; and no muxer runs before its own header is written.
SdpBeforeMuxing ==
    \A m \in Muxes : muxPc[m] # "off" =>
        /\ m \in headers
        /\ Sdp => sdpWritten /\ headers = Muxes

\* The packets that waited are muxed in the order of their dts.
FlushInDtsOrder ==
    \A m \in Muxes : \A j \in 1 .. Len(written[m]) : \A i \in 1 .. j - 1 :
        LET p == written[m][i]
            q == written[m][j]
        IN  (p.dts # NOPTS /\ q.dts # NOPTS /\ {p, q} \subseteq flushed) => p.dts <= q.dts

\* "Muxing is started once all the streams are ready" (ffmpeg_sched.h): the
\* muxer's header is written, so are the others' if an SDP is wanted, and then
\* mux_started is set.
MuxingStarts ==
    \A m \in AnyMux :
        m \in headers /\ (Sdp => headers = Muxes) ~> m \in Muxes /\ muxStarted[m]

\* sch_mux_receive promises the muxer an EOF for every stream, then one for
\* all, "and the muxer should therefore flush everything and terminate"
\* (ffmpeg_sched.h): once its producers have all sent the end of their stream,
\* queued or directly, its thread ends, which sch_stop waits for.
MuxerEnds ==
    \A m \in AnyMux :
        m \in Muxes /\ (\A s \in StreamsOf(m) : pc[s] = "done")
            ~> m \in Muxes /\ muxPc[m] \in {"off", "done"}

\* The same promise for whatever producers do: they are through, the end of a
\* stream sent or refused by its full pre-muxing queue.  The code ignores that
\* it was refused, and the muxer thread waits for it for ever.
MuxerAlwaysEnds ==
    \A m \in AnyMux :
        m \in Muxes /\ (\A s \in StreamsOf(m) : pc[s] \in {"done", "failed"})
            ~> m \in Muxes /\ muxPc[m] \in {"off", "done"}
=============================================================================
