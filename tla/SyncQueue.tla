------------------------------ MODULE SyncQueue ------------------------------
(***************************************************************************)
(* sync_queue.c: holds back the frames of every stream that would get      *)
(* ahead of a limiting stream (-shortest, -frames), cuts audio into frames *)
(* of a constant size, and ends all streams with the shortest.             *)
(*                                                                         *)
(* The queue is used from one thread at a time (the muxer thread, or under *)
(* sq_enc[].lock), always alike: send_to_enc_sq and sync_queue_process     *)
(* call sq_send once, then sq_receive for any stream until it answers      *)
(* EAGAIN or EOF.  The senders come in any order.  A sq_receive call is    *)
(* one action, or one for each turn of its loops: over the frames that     *)
(* samples are copied from, and over the streams that get heartbeats.      *)
(*                                                                         *)
(* Timestamps are counted in the time base of their stream, and a time     *)
(* base in units common to all streams, so that av_compare_ts compares     *)
(* products and av_rescale_q rounds a quotient.  Allocation failures and   *)
(* frames_max = 0 are left out.                                            *)
(***************************************************************************)
EXTENDS Integers, Sequences

CONSTANTS
    NbStreams,      \* sq->nb_streams
    Limiting,       \* the limiting streams
    StartTb,        \* st->tb from sq_add_stream, 1/1, in common units
    Tb,             \* [Streams -> time base of the frames], in common units
    SampleTime,     \* [Streams -> 1 / sample_rate], in common units
    Frames,         \* [Streams -> Seq(frame)]: BOUND, what each source has
    FramesMax,      \* [Streams -> frames_max], out of reach where unlimited
    FrameSamples,   \* [Streams -> frame_samples], 0 if not constant
    BufSize,        \* buf_size_us, in common units
    ReceiverEnds    \* streams whose encoder may answer EOF to a frame

Streams == 1 .. NbStreams
NOPTS == -1000      \* AV_NOPTS_VALUE: below all timestamps, adds up like one
None == 0           \* no stream (-1)

ASSUME StreamsAssumption == NbStreams \in Nat \ {0} /\ Limiting \subseteq Streams
ASSUME TbAssumption == StartTb \in Nat \ {0} /\ Tb \in [Streams -> Nat \ {0}]
ASSUME SampleAssumption == SampleTime \in [Streams -> Nat \ {0}]
ASSUME FramesAssumption ==
    Frames \in [Streams -> Seq([pts : Int, dur : Nat, samples : Nat])]
ASSUME LimitAssumption ==
    /\ FramesMax \in [Streams -> Nat \ {0}]
    /\ FrameSamples \in [Streams -> Nat]
    /\ BufSize \in Nat
    /\ ReceiverEnds \subseteq Streams

VARIABLES
    sq,         \* the fields of the queue and of its streams that decide:
                \*   head, tb, finished (a set), finHead, headStream
    fifo,       \* [Streams -> Seq(frame)]: st->fifo
    samplesQueued, samplesSent, framesSent,     \* [Streams -> Nat]
    accepted,   \* [Streams -> number of frames taken by sq_send]
    closed,     \* streams whose source has sent NULL
    pc,         \* where the thread that uses the queue is
    copy,       \* receive_samples: stream, nb_samples, those left, dst's end
    beat,       \* overflow_heartbeat: stream, tail_ts, loop index
    out,        \* history, per stream: number of frames received, samples of
                \*   the last one, latest end
    eof         \* history: sq_receive has answered EOF

fifoVars == <<fifo, samplesQueued>>
sentVars == <<samplesSent, framesSent, accepted>>
vars == <<sq, fifoVars, sentVars, closed, pc, copy, beat, out, eof>>

Init ==     \* sq_alloc, sq_add_stream
    /\ sq = [head |-> [s \in Streams |-> NOPTS],
             tb |-> [s \in Streams |-> StartTb],
             finished |-> {}, finHead |-> None, headStream |-> None]
    /\ fifo = [s \in Streams |-> <<>>]
    /\ samplesQueued = [s \in Streams |-> 0]
    /\ samplesSent = [s \in Streams |-> 0]
    /\ framesSent = [s \in Streams |-> 0]
    /\ accepted = [s \in Streams |-> 0]
    /\ closed = {}
    /\ pc = "idle"
    /\ copy = [st |-> None, nb |-> 0, left |-> 0, end |-> NOPTS]
    /\ beat = [st |-> None, ts |-> 0, at |-> 1]
    /\ out = [s \in Streams |-> [count |-> 0, last |-> 0, end |-> NOPTS]]
    /\ eof = FALSE

-----------------------------------------------------------------------------
(* Heads and ends of streams                                               *)

Known(q, s) == q.head[s] # NOPTS
Time(q, s) == q.head[s] * q.tb[s]

\* av_rescale_q of the non-negative time t to time base tb: to the nearest
Rescale(t, tb) == (2 * t + tb) \div (2 * tb)

\* Mutant: the last limiting stream to finish is the finished head.
FinishStream_LastWins(q, s) ==
    IF s \in Limiting /\ Known(q, s)
    THEN [q EXCEPT !.finHead = s,
                   !.finished = @ \cup {s} \cup {r \in Streams : Known(q, r)
                                                     /\ Time(q, s) <= Time(q, r)}]
    ELSE [q EXCEPT !.finished = @ \cup {s}]

\* finish_stream: s ends, and with it all streams that are ahead of the
\* finished limiting stream that ended first.
FinishStream(q, s) ==
    IF s \in Limiting /\ Known(q, s)
    THEN LET h == IF q.finHead = None \/ Time(q, s) < Time(q, q.finHead) THEN s
                  ELSE q.finHead
         IN  [q EXCEPT !.finHead = h,
                       !.finished = @ \cup {s} \cup {r \in Streams : Known(q, r)
                                                         /\ Time(q, h) <= Time(q, r)}]
    ELSE [q EXCEPT !.finished = @ \cup {s}]

QueueFinished(q) == q.finished = Streams    \* sq->finished

Lowest(q) == {l \in Limiting : \A k \in Limiting : Time(q, l) <= Time(q, k)}

\* Mutant: the head stream is determined without waiting for all streams.
QueueHeadUpdate_NoWait(q) ==
    LET K == {l \in Limiting : Known(q, l)}
        L == {l \in K : \A k \in K : Time(q, l) <= Time(q, k)}
    IN  IF L = {} \/ q.headStream \in L THEN q
        ELSE [q EXCEPT !.headStream = CHOOSE l \in L : \A k \in L : l <= k]

\* queue_head_update: wait for one timestamp of each limiting stream, then
\* take the lowest; the present head stream wins a tie, then the first.
QueueHeadUpdate(q) ==
    IF q.headStream = None /\ \E l \in Limiting : ~Known(q, l)
    THEN q
    ELSE IF q.headStream \in Lowest(q) THEN q
    ELSE [q EXCEPT !.headStream = CHOOSE l \in Lowest(q) : \A k \in Lowest(q) : l <= k]

\* Mutant: the head stream is never looked at again.
StreamUpdateTs_HeadOnce(q, s, ts) ==
    IF ts = NOPTS \/ (Known(q, s) /\ q.head[s] >= ts) THEN q
    ELSE LET q1 == [q EXCEPT !.head[s] = ts]
             q2 == IF q1.finHead # None /\ Time(q1, q1.finHead) <= Time(q1, s)
                   THEN FinishStream(q1, s) ELSE q1
         IN  IF s \in Limiting /\ q2.headStream = None
             THEN QueueHeadUpdate(q2) ELSE q2

StreamUpdateTs(q, s, ts) ==     \* stream_update_ts
    IF ts = NOPTS \/ (Known(q, s) /\ q.head[s] >= ts) THEN q
    ELSE LET q1 == [q EXCEPT !.head[s] = ts]
             q2 == IF q1.finHead # None /\ Time(q1, q1.finHead) <= Time(q1, s)
                   THEN FinishStream(q1, s) ELSE q1
         IN  IF s \in Limiting /\ q2.headStream \in {None, s}
             THEN QueueHeadUpdate(q2) ELSE q2

\* tb_update: the first frame brings the time base of its stream.
TbUpdate(q, s) ==
    IF q.tb[s] = Tb[s] THEN q
    ELSE [q EXCEPT !.tb[s] = Tb[s],
                   !.head[s] = IF Known(q, s) THEN Rescale(Time(q, s), Tb[s]) ELSE @]

-----------------------------------------------------------------------------
(* Frames and samples                                                      *)

\* av_rescale_q of nb samples of stream s to its time base
SamplesDur(s, nb) == Rescale(nb * SampleTime[s], Tb[s])

\* frame_end, of the first nb samples of f or of all of it
FrameEnd(s, f, nb) == f.pts + (IF nb > 0 THEN SamplesDur(s, nb) ELSE f.dur)

-----------------------------------------------------------------------------
(* sq_send                                                                 *)

\* A frame of stream s; a finished stream would answer EOF, changing nothing.
Send(s) ==
    /\ pc = "idle"
    /\ s \notin closed /\ s \notin sq.finished
    /\ accepted[s] < Len(Frames[s])
    /\ accepted' = [accepted EXCEPT ![s] = @ + 1]
    /\ LET f == Frames[s][accepted[s] + 1]
           q == StreamUpdateTs(TbUpdate(sq, s), s, FrameEnd(s, f, 0))
       IN  /\ fifo' = [fifo EXCEPT ![s] = Append(@, f)]
           /\ samplesQueued' = [samplesQueued EXCEPT ![s] = @ + f.samples]
           /\ samplesSent' = [samplesSent EXCEPT ![s] = @ + f.samples]
           /\ framesSent' = [framesSent EXCEPT ![s] =
                                IF FrameSamples[s] > 0 THEN samplesSent'[s] \div FrameSamples[s]
                                ELSE @ + 1]
           /\ sq' = IF framesSent'[s] >= FramesMax[s] THEN FinishStream(q, s) ELSE q
    /\ pc' = "receive"
    /\ UNCHANGED <<closed, copy, beat, out, eof>>

\* Mutant: the NULL frame does not finish its stream.
SendNull_NotFinished(s) ==
    /\ pc = "idle"
    /\ s \notin closed
    /\ closed' = closed \cup {s}
    /\ pc' = "receive"
    /\ UNCHANGED <<sq, fifoVars, sentVars, copy, beat, out, eof>>

\* NULL: the source of s is at its end.
SendNull(s) ==
    /\ pc = "idle"
    /\ s \notin closed
    /\ closed' = closed \cup {s}
    /\ sq' = FinishStream(sq, s)
    /\ pc' = "receive"
    /\ UNCHANGED <<fifoVars, sentVars, copy, beat, out, eof>>

-----------------------------------------------------------------------------
(* sq_receive                                                              *)

\* Mutant: the samples of one frame at a time.
NbSamples_OneFrame(s) ==
    IF FrameSamples[s] > 0 /\ Head(fifo[s]).samples < FrameSamples[s]
    THEN Head(fifo[s]).samples ELSE FrameSamples[s]

\* Mutant: the last frame is no shorter.
NbSamples_NotLast(s) == FrameSamples[s]

\* The samples the next frame of s would have, 0 for a whole frame.
NbSamples(s) ==
    IF s \in sq.finished /\ samplesQueued[s] < FrameSamples[s]
    THEN samplesQueued[s] ELSE FrameSamples[s]

NextEnd(s) == FrameEnd(s, Head(fifo[s]), NbSamples(s))

Available(s) ==
    /\ fifo[s] # <<>>
    /\ FrameSamples[s] <= samplesQueued[s] \/ s \in sq.finished

\* Mutant: a frame that ends with the queue head is held back.
Ready_Strict(s) ==
    /\ Available(s)
    /\ \/ NextEnd(s) = NOPTS
       \/ Limiting = {}
       \/ sq.headStream # None /\ NextEnd(s) * sq.tb[s] < Time(sq, sq.headStream)

\* receive_for_stream has a frame to release: it does not end after the queue
\* head, or it has no timestamp, or no stream is limiting.
Ready(s) ==
    /\ Available(s)
    /\ \/ NextEnd(s) = NOPTS
       \/ Limiting = {}
       \/ sq.headStream # None /\ NextEnd(s) * sq.tb[s] <= Time(sq, sq.headStream)

FirstReady(s) == Ready(s) /\ \A r \in 1 .. s - 1 : ~Ready(r)

\* A frame of stream s with nb samples goes to the caller, who hands it on; an
\* encoder that answers EOF has its stream ended.
HandOn(s, nb, end) ==
    /\ out' = [out EXCEPT ![s] = [count |-> @.count + 1, last |-> nb,
                                  end |-> IF @.end < end THEN end ELSE @.end]]
    /\ \/ sq' = sq
       \/ s \in ReceiverEnds /\ sq' = FinishStream(sq, s)
    /\ pc' = "receive"

\* The end of a frame with a timestamp, in common units.
EndOf(f, nb, s) == IF f.pts = NOPTS THEN NOPTS ELSE FrameEnd(s, f, nb) * sq.tb[s]

\* A whole frame of the first stream that has one ready.
Receive(s) ==
    /\ pc \in {"receive", "retry"}
    /\ FirstReady(s) /\ NbSamples(s) = 0
    /\ fifo' = [fifo EXCEPT ![s] = Tail(@)]
    /\ samplesQueued' = [samplesQueued EXCEPT ![s] = @ - Head(fifo[s]).samples]
    /\ HandOn(s, Head(fifo[s]).samples, EndOf(Head(fifo[s]), 0, s))
    /\ UNCHANGED <<sentVars, closed, copy, beat, eof>>

\* So many samples of the first stream that has them.
ReceiveSamples(s) ==
    /\ pc \in {"receive", "retry"}
    /\ FirstReady(s) /\ NbSamples(s) > 0
    /\ copy' = [st |-> s, nb |-> NbSamples(s), left |-> NbSamples(s),
                end |-> EndOf(Head(fifo[s]), NbSamples(s), s)]
    /\ pc' = "copy"
    /\ UNCHANGED <<sq, fifoVars, sentVars, closed, beat, out, eof>>

\* offset_audio: the first nb samples of f are gone
OffsetAudio(s, f, nb) ==
    [f EXCEPT !.pts = @ + SamplesDur(s, nb), !.samples = @ - nb,
              !.dur = SamplesDur(s, f.samples - nb)]

\* One turn of its loop: samples of one frame, which is drained or offset.
CopySamples ==
    /\ pc = "copy"
    /\ fifo[copy.st] # <<>>
    /\ LET s == copy.st
           f == Head(fifo[s])
           n == IF copy.left < f.samples THEN copy.left ELSE f.samples
       IN  /\ fifo' = [fifo EXCEPT ![s] = IF n < f.samples
                                          THEN <<OffsetAudio(s, f, n)>> \o Tail(@) ELSE Tail(@)]
           /\ samplesQueued' = [samplesQueued EXCEPT ![s] = @ - n]
           /\ copy' = [copy EXCEPT !.left = @ - n]
           /\ IF copy'.left = 0 THEN HandOn(s, copy.nb, copy.end)
              ELSE UNCHANGED <<sq, out, pc>>
    /\ UNCHANGED <<sentVars, closed, beat, eof>>

NothingReady == \A s \in Streams : ~Ready(s)

\* Every stream answers EOF.
AllEof == QueueFinished(sq) \/ \A s \in Streams : s \in sq.finished /\ fifo[s] = <<>>

\* Mutant: one stream that is through is enough.
ReceiveEof_AnyStream ==
    /\ pc \in {"receive", "retry"}
    /\ NothingReady
    /\ \E s \in Streams : s \in sq.finished /\ fifo[s] = <<>>
    /\ eof' = TRUE
    /\ pc' = "idle"
    /\ UNCHANGED <<sq, fifoVars, sentVars, closed, copy, beat, out>>

ReceiveEof ==
    /\ pc \in {"receive", "retry"}
    /\ NothingReady
    /\ AllEof
    /\ eof' = TRUE
    /\ pc' = "idle"
    /\ UNCHANGED <<sq, fifoVars, sentVars, closed, copy, beat, out>>

\* The stream that is most ahead, the first of them.
MostAhead(s) ==
    /\ Known(sq, s)
    /\ \A r \in Streams : Known(sq, r) =>
         Time(sq, r) < Time(sq, s) \/ (Time(sq, r) = Time(sq, s) /\ s <= r)

\* the end of the first frame queued for s that has one
HasTail(s) == \E i \in 1 .. Len(fifo[s]) : FrameEnd(s, fifo[s][i], 0) # NOPTS
TailTs(s) ==
    LET i == CHOOSE i \in 1 .. Len(fifo[s]) :
                /\ FrameEnd(s, fifo[s][i], 0) # NOPTS
                /\ \A j \in 1 .. i - 1 : FrameEnd(s, fifo[s][j], 0) = NOPTS
    IN  FrameEnd(s, fifo[s][i], 0)

\* The tail of s is the specified duration behind its head.
Overflowing(s) ==
    /\ HasTail(s)
    /\ TailTs(s) < sq.head[s]
    /\ (sq.head[s] - TailTs(s)) * sq.tb[s] >= BufSize

\* EAGAIN, with no overflow: the caller's loop ends.
ReceiveAgain ==
    /\ pc = "receive"
    /\ NothingReady /\ ~AllEof
    /\ \A s \in Streams : MostAhead(s) => ~Overflowing(s)
    /\ pc' = "idle"
    /\ UNCHANGED <<sq, fifoVars, sentVars, closed, copy, beat, out, eof>>

\* EAGAIN, and overflow_heartbeat starts.
Overflow(s) ==
    /\ pc = "receive"
    /\ NothingReady /\ ~AllEof
    /\ MostAhead(s) /\ Overflowing(s)
    /\ beat' = [st |-> s, ts |-> TailTs(s) + 1, at |-> 1]
    /\ pc' = "beat"
    /\ UNCHANGED <<sq, fifoVars, sentVars, closed, copy, out, eof>>

BeatTime == beat.ts * sq.tb[beat.st]

\* The fake timestamp for stream s, later than its head.
FakeTs(s) ==
    LET ts == Rescale(BeatTime, sq.tb[s])
    IN  IF Known(sq, s) /\ ts <= sq.head[s] THEN sq.head[s] + 1 ELSE ts

\* Mutant: finished streams get fake timestamps too.
Heartbeat_Finished ==
    /\ pc = "beat"
    /\ LET s == beat.at
           skip == s = beat.st \/ (Known(sq, s) /\ BeatTime <= Time(sq, s))
       IN  sq' = IF skip THEN sq ELSE StreamUpdateTs(sq, s, FakeTs(s))
    /\ beat' = [beat EXCEPT !.at = @ + 1]
    /\ pc' = IF beat'.at > NbStreams THEN "retry" ELSE "beat"
    /\ UNCHANGED <<fifoVars, sentVars, closed, copy, out, eof>>

\* Mutant: streams that have no timestamp yet get none.
Heartbeat_NotFirst ==
    /\ pc = "beat"
    /\ LET s == beat.at
           skip == s = beat.st \/ s \in sq.finished
                   \/ ~Known(sq, s) \/ BeatTime <= Time(sq, s)
       IN  sq' = IF skip THEN sq ELSE StreamUpdateTs(sq, s, FakeTs(s))
    /\ beat' = [beat EXCEPT !.at = @ + 1]
    /\ pc' = IF beat'.at > NbStreams THEN "retry" ELSE "beat"
    /\ UNCHANGED <<fifoVars, sentVars, closed, copy, out, eof>>

\* One turn of its loop: the streams that hold back tail_ts + 1 are moved on.
Heartbeat ==
    /\ pc = "beat"
    /\ LET s == beat.at
           skip == s = beat.st \/ s \in sq.finished
                   \/ (Known(sq, s) /\ BeatTime <= Time(sq, s))
       IN  sq' = IF skip THEN sq ELSE StreamUpdateTs(sq, s, FakeTs(s))
    /\ beat' = [beat EXCEPT !.at = @ + 1]
    /\ pc' = IF beat'.at > NbStreams THEN "retry" ELSE "beat"
    /\ UNCHANGED <<fifoVars, sentVars, closed, copy, out, eof>>

\* The second try answers EAGAIN too.
RetryAgain ==
    /\ pc = "retry"
    /\ NothingReady /\ ~AllEof
    /\ pc' = "idle"
    /\ UNCHANGED <<sq, fifoVars, sentVars, closed, copy, beat, out, eof>>

-----------------------------------------------------------------------------
Terminated == pc = "idle" /\ closed = Streams /\ UNCHANGED vars

Next ==
    \/ \E s \in Streams : Send(s) \/ SendNull(s)
    \/ \E s \in Streams : Receive(s) \/ ReceiveSamples(s) \/ Overflow(s)
    \/ CopySamples \/ ReceiveEof \/ ReceiveAgain
    \/ Heartbeat \/ RetryAgain
    \/ Terminated

Spec == Init /\ [][Next]_vars

-----------------------------------------------------------------------------
(* Properties                                                              *)

Frame == [pts : Int, dur : Nat, samples : Nat]

TypeOK ==
    /\ sq \in [head : [Streams -> Int], tb : [Streams -> Nat \ {0}],
               finished : SUBSET Streams, finHead : Streams \cup {None},
               headStream : Streams \cup {None}]
    /\ fifo \in [Streams -> Seq(Frame)]
    /\ samplesQueued \in [Streams -> Int]
    /\ samplesSent \in [Streams -> Nat] /\ framesSent \in [Streams -> Nat]
    /\ \A s \in Streams : accepted[s] \in 0 .. Len(Frames[s])
    /\ closed \subseteq sq.finished
    /\ pc \in {"idle", "receive", "copy", "beat", "retry"}
    /\ copy \in [st : Streams \cup {None}, nb : Nat, left : Nat, end : Int]
    /\ beat \in [st : Streams \cup {None}, ts : Int, at : 1 .. NbStreams + 1]
    /\ out \in [Streams -> [count : Nat, last : Nat, end : Int]]
    /\ eof \in BOOLEAN

\* A head that heartbeats moved before the first frame is rounded when that
\* brings the time base, by half a tick at most: twice what it may be off by
\* then, and what it is off by now.
Rounding(s) == IF \E k \in 1 .. StartTb : StartTb = k * Tb[s] THEN 0 ELSE Tb[s]
Rounded(q, s) == IF q.tb[s] = Tb[s] THEN Rounding(s) ELSE 0

\* "The head stream of the whole queue is the limiting stream with the
\* smallest head timestamp" (sync_queue.c:54), once there is one: it is not
\* left behind when another stream, a heartbeat or a new time base moves, but
\* for the rounding of heads at a new time base, after which the code does not
\* look again.
HeadIsMin ==
    sq.headStream # None =>
        /\ sq.headStream \in Limiting
        /\ \A l \in Limiting :
             /\ Known(sq, l)
             /\ 2 * Time(sq, sq.headStream) <=
                    2 * Time(sq, l) + Rounded(sq, sq.headStream) + Rounded(sq, l)

\* "the queue ensures no stream gets ahead of any of the limiting streams"
\* (sync_queue.h): what came out of any stream ended before what any limiting
\* stream has reached, so never after the end of one that is finished.  The
\* rounding of the head that let it out and of the limiting stream's is the
\* most it may be ahead, nothing where time bases divide a second.
NotAhead ==
    \A s \in Streams, l \in Limiting :
        out[s].end # NOPTS =>
            /\ Known(sq, l)
            /\ \E h \in Limiting : 2 * out[s].end <= 2 * Time(sq, l) + Rounding(h) + Rounded(sq, l)

\* When limiting streams end, the finished head is the one that ended first,
\* and no stream that has reached its end, but by rounding, takes frames any
\* more.
EndsWithShortest ==
    /\ \A l \in Limiting \cap sq.finished : Known(sq, l) =>
         sq.finHead # None /\ Time(sq, sq.finHead) <= Time(sq, l)
    /\ sq.finHead # None =>
         /\ sq.finHead \in Limiting \cap sq.finished
         /\ \A s \in Streams \ sq.finished : Known(sq, s) =>
              2 * Time(sq, s) < 2 * Time(sq, sq.finHead) + Rounded(sq, s)

\* A finished stream's head stays where it is: nothing moves the end that the
\* others are held to.
FinishedStays ==
    [][\A s \in sq.finished : s \in sq'.finished /\ sq'.head[s] = sq.head[s]]_vars

\* The assertions of receive_samples and receive_for_stream: what is taken was
\* counted, and a copy finds the samples it needs.
SamplesThere ==
    /\ \A s \in Streams : samplesQueued[s] >= 0
    /\ pc = "copy" => fifo[copy.st] # <<>> /\ copy.left <= samplesQueued[copy.st]

\* "All output frames will have exactly frame_samples audio samples, except
\* possibly for the last one, which may have fewer" (sync_queue.h).
ConstantSize ==
    [][\A s \in Streams : FrameSamples[s] > 0 /\ out'[s].count > out[s].count =>
         /\ out'[s].last \in 1 .. FrameSamples[s]
         /\ out[s].count > 0 => out[s].last = FrameSamples[s]]_vars

\* Between calls nothing is held back that ends before all limiting streams'
\* heads and is long enough: every release that a send or a heartbeat made
\* possible has happened.
NothingHeldBack ==
    pc = "idle" /\ (\A l \in Limiting : Known(sq, l)) =>
        \A s \in Streams : Available(s) =>
            \E l \in Limiting : NextEnd(s) * sq.tb[s] > Time(sq, l)

\* After EOF from sq_receive "no more frames will be available" (sync_queue.h).
EofIsFinal == [][eof => out' = out]_vars

\* The time that passes from the end of the first frame queued for s to its head.
Buffered(s) ==
    IF Known(sq, s) /\ HasTail(s) THEN (sq.head[s] - TailTs(s)) * sq.tb[s] ELSE 0

\* "maximum duration that will be buffered" (sync_queue.h, buf_size_us): while
\* frames are still taken for it, the stream that is most ahead stays within
\* it, here within twice that, as a heartbeat is rounded: heartbeats release
\* what lagging streams hold back.  Leaves out limiting streams that ended
\* without a timestamp.
AheadIsBounded ==
    pc = "idle" /\ (\A l \in Limiting \cap sq.finished : Known(sq, l)) =>
        \A s \in Streams \ sq.finished : MostAhead(s) => Buffered(s) < 2 * BufSize

=============================================================================
