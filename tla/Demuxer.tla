------------------------------ MODULE Demuxer -------------------------------
(***************************************************************************)
(* What the thread of an input file does to the timestamps of its packets: *)
(* wrap-around, offsets, loops, discontinuities, the prediction of the     *)
(* next dts, the limit on the time to read, and reading at a given rate.   *)
(*                                                                         *)
(* A demuxer is a record d with a sequence d.streams of stream records, a  *)
(* packet a record p with its stream p.s.  Every operator is one function  *)
(* of ffmpeg_demux.c and returns what the function leaves in its           *)
(* arguments.                                                              *)
(***************************************************************************)
EXTENDS Timestamps, Sequences, FiniteSets

\* 2^n for the numbers of bits of a timestamp that wrap around.
Wrap(bits) == 2 ^ bits

\* Streams whose timestamps do not wrap have 64 bits.
Wraps(ds) == ds.wrap_bits < 64

Shifted(p, by) ==
    [p EXCEPT !.dts = IF @ = NOPTS THEN @ ELSE @ + by,
              !.pts = IF @ = NOPTS THEN @ ELSE @ + by]

\* The last frame of the decoders is forgotten.
LastEnd_Packets(d, end_pts) == d.max_pts

\* The last frame of the decoders may end after the last packet began.
LastEnd(d, end_pts) ==
    IF end_pts.ts # NOPTS
       /\ (d.max_pts.ts = NOPTS \/ Before(d.max_pts.ts, d.max_pts.tb, end_pts.ts, end_pts.tb))
    THEN end_pts ELSE d.max_pts

(* The file starts again: what it was long is added to what comes next.    *)
SeekToStart(d, end_pts) ==
    LET max_pts == LastEnd(d, end_pts)
        min_ts  == IF d.min_pts.ts = NOPTS THEN 0 ELSE d.min_pts.ts
        length  == IF max_pts.ts = NOPTS THEN d.duration.ts
                   ELSE max_pts.ts - Rescale(min_ts, d.min_pts.tb, max_pts.tb)
    IN  [d EXCEPT !.max_pts = max_pts, !.duration = Stamp(length, max_pts.tb),
                  !.loop = IF @ > 0 THEN @ - 1 ELSE @]

\* Only the last jump counts.
OffsetChanged_Forgets(d, by) == [d EXCEPT !.ts_offset_discont = -by]

\* What comes after a jump is moved by it too.
OffsetChanged(d, by) == [d EXCEPT !.ts_offset_discont = @ - by]

(* A packet with a dts, against what was expected of its stream.           *)
TsDiscontinuityDetect(d, p) ==
    LET ds   == d.streams[p.s]
        dts  == Rescale(p.dts, p.tb, AV_TIME_BASE_Q)
        pts  == Rescale(p.pts, p.tb, AV_TIME_BASE_Q)
        wrapped == Rescale(p.dts + Wrap(ds.wrap_bits), p.tb, AV_TIME_BASE_Q)
        known == ds.next_dts # NOPTS
        only_wrapped == /\ known /\ d.discont /\ ds.wrap_bits < 60
                        /\ Abs(wrapped - ds.next_dts) < Abs(dts - ds.next_dts) \div 10
        corrects == known /\ (~d.copy_ts \/ only_wrapped)
        delta == dts - ds.next_dts
        jumps == /\ corrects /\ d.discont
                 /\ \/ Abs(delta) > dts_delta_threshold * AV_TIME_BASE
                    \/ dts + AV_TIME_BASE \div 10 < ds.dts
        jumps_between == /\ ~known /\ ~d.copy_ts /\ d.discont /\ d.last_ts # NOPTS
                         /\ Abs(dts - d.last_ts) > dts_delta_threshold * AV_TIME_BASE
        by == IF jumps THEN delta ELSE IF jumps_between THEN dts - d.last_ts ELSE 0
        Invalid(ts) == corrects /\ ~d.discont
                       /\ Abs(ts - ds.next_dts) > dts_error_threshold * AV_TIME_BASE
        moved == Shifted(p, -Rescale(by, AV_TIME_BASE_Q, p.tb))
        q == [moved EXCEPT !.dts = IF Invalid(dts) THEN NOPTS ELSE @,
                           !.pts = IF @ # NOPTS /\ Invalid(pts) THEN NOPTS ELSE @]
    IN  [d |-> [OffsetChanged(d, by) EXCEPT !.last_ts = RescaleTs(q.dts, q.tb, AV_TIME_BASE_Q)],
         p |-> q]

TsDiscontinuityProcess(d, p) ==
    LET q == Shifted(p, Rescale(d.ts_offset_discont, AV_TIME_BASE_Q, p.tb))
    IN  IF d.streams[p.s].type \in {"video", "audio"} /\ q.dts # NOPTS
        THEN TsDiscontinuityDetect(d, q)
        ELSE [d |-> d, p |-> q]

\* When the packet is thought to end; a picture has two fields, or as many as the
\* parser says.
NextDts(ds, dts, p) ==
    CASE ds.type = "audio" ->
            IF ds.sample_rate # 0 THEN dts + (AV_TIME_BASE * ds.frame_size) \div ds.sample_rate
            ELSE dts + Rescale(p.dur, p.tb, AV_TIME_BASE_Q)
      [] ds.type = "video" /\ ds.framerate[1] # 0 ->
            Rescale(Rescale(dts, AV_TIME_BASE_Q, Inv(ds.framerate)) + 1, Inv(ds.framerate), AV_TIME_BASE_Q)
      [] ds.type = "video" /\ ds.framerate[1] = 0 /\ p.dur # 0 ->
            dts + Rescale(p.dur, p.tb, AV_TIME_BASE_Q)
      [] ds.type = "video" /\ ds.framerate[1] = 0 /\ p.dur = 0 /\ ds.codec_rate[1] # 0 ->
            dts + Rescale(ds.fields, Inv(<<2 * ds.codec_rate[1], ds.codec_rate[2]>>), AV_TIME_BASE_Q)
      [] OTHER -> dts

IstDtsUpdate(ds, p) ==
    LET first == (IF p.pts = NOPTS THEN 0 ELSE Rescale(p.pts, p.tb, AV_TIME_BASE_Q)) - ds.delay
        begun == IF ds.saw_first_ts THEN ds
                 ELSE [ds EXCEPT !.first_dts = first, !.dts = first, !.saw_first_ts = TRUE]
        dts   == CASE p.dts # NOPTS -> Rescale(p.dts, p.tb, AV_TIME_BASE_Q)
                   [] p.dts = NOPTS /\ begun.next_dts = NOPTS -> begun.dts
                   [] OTHER -> begun.next_dts
    IN  [begun EXCEPT !.dts = dts, !.next_dts = NextDts(ds, dts, p)]

(* Timestamps that wrapped around before the file started.                 *)
CorrectWrap(d, p) ==
    LET ds == d.streams[p.s]
        stime == Rescale(d.start_time_effective, AV_TIME_BASE_Q, p.tb)
        Above(ts) == ts # NOPTS /\ ts > stime + Wrap(ds.wrap_bits - 1)
        Unwrapped(ts) == IF Above(ts) THEN ts - Wrap(ds.wrap_bits) ELSE ts
    IN  IF ds.wrap_correction_done \/ d.start_time_effective = NOPTS \/ ~Wraps(ds)
        THEN [d |-> d, p |-> p]
        ELSE [d |-> [d EXCEPT !.streams[p.s].wrap_correction_done = ~Above(p.dts) /\ ~Above(p.pts)],
              p |-> [p EXCEPT !.dts = Unwrapped(@), !.pts = Unwrapped(@)]]

(* The first and last pts of the file, for its length when it loops.       *)
TrackExtent(d, p) ==
    LET end == p.pts + (IF d.have_audio_dec THEN 0 ELSE p.dur)
    IN  IF p.pts = NOPTS THEN d
        ELSE [d EXCEPT !.max_pts = IF @.ts = NOPTS \/ Before(@.ts, @.tb, end, p.tb) THEN Stamp(end, p.tb) ELSE @,
                       !.min_pts = IF @.ts = NOPTS \/ Before(p.pts, p.tb, @.ts, @.tb) THEN Stamp(p.pts, p.tb) ELSE @]

\* The offset and the scale of the file, then the laps before.
Placed(d, p) ==
    LET ds == d.streams[p.s]
        Times(ts) == IF ts = NOPTS THEN NOPTS ELSE TruncDiv(ts * ds.ts_scale[1], ds.ts_scale[2])
        Times2(q) == [q EXCEPT !.dts = Times(@), !.pts = Times(@)]
    IN  Shifted(Times2(Shifted(p, Rescale(d.ts_offset, AV_TIME_BASE_Q, p.tb))),
                Rescale(d.duration.ts, d.duration.tb, p.tb))

TsFixup(d, p) ==
    LET Updated(e, q, ds) == [d |-> [e EXCEPT !.streams[p.s] = ds], p |-> [q EXCEPT !.est = ds.dts]]
        Predicted(r) == Updated(r.d, r.p, IstDtsUpdate(r.d.streams[p.s], r.p))
        Tracked(e, q) == Predicted(TsDiscontinuityProcess(TrackExtent(e, q), q))
        Unwrapped(c) == Tracked(c.d, Placed(d, c.p))
    IN  Unwrapped(CorrectWrap(d, p))

(* What is sent, and whether it is past the time to read: then the streams *)
(* that are copied end.                                                    *)
InputPacketProcess(d, p) ==
    LET r == TsFixup(d, p)
        start == IF ~d.copy_ts THEN 0
                 ELSE (IF d.start_time = NOPTS THEN 0 ELSE d.start_time)
                      + (IF d.start_at_zero THEN 0 ELSE d.start_time_effective)
    IN  [d |-> r.d, p |-> r.p,
         streamcopy_eof |-> d.recording_time # Never /\ r.p.est >= d.recording_time + start]

(***************************************************************************)
(* Reading at a rate (-readrate, -re).  now is the time on the clock,     *)
(* never 0; the rate is a pair, the burst and all times are in             *)
(* AV_TIME_BASE units.  The result is when reading goes on.                *)
(***************************************************************************)
Progress(d) ==
    LET file_start == IF ~d.copy_ts THEN 0
                      ELSE (IF d.start_time_effective = NOPTS \/ d.start_at_zero THEN 0
                            ELSE d.start_time_effective)
                           + (IF d.start_time = NOPTS THEN 0 ELSE d.start_time)
        live == {i \in DOMAIN d.streams : LET ds == d.streams[i] IN
                    ~ds.discard /\ ~ds.finished /\ ds.first_dts # NOPTS}
        done == {d.streams[i].dts - Larger(d.streams[i].first_dts, file_start) : i \in live}
    IN  IF live = {} THEN Never ELSE CHOOSE x \in done : \A y \in done : x <= y

\* The higher rate stays.
CaughtUp_Never(d, lag) == d

\* Caught up: back to the plain rate.
CaughtUp(d, lag) ==
    IF d.lag # 0 /\ lag = 0 THEN [d EXCEPT !.lag = 0, !.resume_wc = 0, !.resume_progress = 0] ELSE d

ReadrateSleep(d, now) ==
    LET progress == Progress(d)
        waits    == progress # Never /\ progress > d.burst
        max_prog == d.burst + ((now - d.wallclock_start) * d.readrate[1]) \div d.readrate[2]
        lag      == Larger(max_prog - progress, 0)
        slack    == (3 * AV_TIME_BASE) \div 10
        resumes  == (d.lag = 0 /\ lag > slack) \/ lag > d.lag + slack
        caught   == [d EXCEPT !.lag = lag, !.resume_wc = now, !.resume_progress = progress]
        e        == CaughtUp(IF resumes THEN caught ELSE d, lag)
        limit    == IF e.resume_wc = 0 THEN max_prog
                    ELSE e.resume_progress + ((now - e.resume_wc) * d.catchup[1]) \div d.catchup[2]
    IN  IF ~waits THEN [d |-> d, now |-> now]
        ELSE [d |-> e, now |-> IF progress > limit THEN now + progress - limit ELSE now]
=============================================================================
