----------------------------- MODULE FrameSync ------------------------------
(***************************************************************************)
(* What leaves a filtergraph: the time base of an output is chosen at its  *)
(* first frame, audio frames get timestamps in it, and video frames are    *)
(* repeated or dropped to suit the rate of the encoder.  Also the overlay  *)
(* of subtitles on video, whose frames are made here.                      *)
(*                                                                         *)
(* An output is a record ofp, each operator a function of                  *)
(* ffmpeg_filter.c.  Positions between frames are counted in 1/FINE of a   *)
(* frame; the code keeps them in a double.                                 *)
(***************************************************************************)
EXTENDS Timestamps, Sequences, FiniteSets

CONSTANT frame_drop_threshold   \* in 1/FINE of a frame

FINE == 100
NoFrame == [none |-> TRUE]
IsFrame(f) == f # NoFrame

(* configure_filtergraph when a frame comes: the graph converts everything *)
(* to the time base of its inputs.                                         *)
SendFrame(f, tb) == [f EXCEPT !.pts = RescaleTs(@, f.tb, tb), !.dur = Rescale(@, f.tb, tb), !.tb = tb]

\* trim or atrim, inserted when the output has a start or a duration.
InTrim(f, start, duration) ==
    LET t(x) == f.pts * f.tb[1] * AV_TIME_BASE >= x * f.tb[2]
    IN  /\ start = NOPTS \/ t(start)
        /\ duration = Never \/ ~t(duration + (IF start = NOPTS THEN 0 ELSE start))

Known(q) == q[1] > 0 /\ q[2] > 0
Faster(p, q) == p[1] * q[2] > q[1] * p[2]

\* av_find_nearest_q_idx
NearestRate(fr, rates) ==
    LET far(q) == (Abs(fr[1] * q[2] - q[1] * fr[2]) * 10000) \div q[2]
        best == {i \in DOMAIN rates : \A j \in DOMAIN rates : far(rates[i]) <= far(rates[j])}
    IN  rates[CHOOSE i \in best : \A j \in best : i <= j]

\* The frame rate of the output: the one given, bounded, and supported.
ChooseRate(ofp) ==
    LET given == IF ofp.framerate[1] # 0 THEN ofp.framerate ELSE ofp.sink_rate
        max == ofp.framerate_max
        constant == ofp.vsync_method \in {"cfr", "vscfr"}
        Supported(r) == IF r[1] > 0 /\ ofp.framerate_supported # <<>> THEN NearestRate(r, ofp.framerate_supported) ELSE r
        Bounded(r) == Supported(IF constant /\ max[1] # 0 /\ (r[2] = 0 \/ Faster(r, max)) THEN max ELSE r)
    IN  Bounded(IF constant /\ given[1] = 0 /\ max[1] = 0 THEN <<25, 1>> ELSE given)

ChooseOutTimebase(ofp, f) ==
    LET asked == CASE ofp.enc_timebase = "demux"  -> f.dec_tb
                   [] ofp.enc_timebase = "filter" -> f.tb
                   [] OTHER -> <<0, 0>>
        Locked(tb, rate) == [ofp EXCEPT !.tb_out = tb, !.framerate = rate, !.tb_out_locked = TRUE]
        Video(rate) == Locked(CASE Known(asked) -> asked
                                [] ~Known(asked) /\ Known(rate) -> Inv(rate)
                                [] OTHER -> f.tb, rate)
    IN  IF ofp.type = "audio" THEN Locked(IF Known(asked) THEN asked ELSE <<1, f.rate>>, ofp.framerate)
        ELSE Video(ChooseRate(ofp))

Median3(a, b, c) == Larger(Smaller(a, b), Smaller(Larger(a, b), c))

\* Where the frame falls in the output, in FINE units, never halfway.
AdjustFramePts(f, tb_dst, start) ==
    LET fine == <<tb_dst[1], tb_dst[2] * FINE>>
        OffHalf(pts) == IF pts % FINE = 0 THEN pts ELSE IF pts > 0 THEN pts + 1 ELSE pts - 1
    IN  OffHalf(Rescale(f.pts, f.tb, fine) - Rescale(start, AV_TIME_BASE_Q, fine))

\* What a frame means for the output: its next pts, and how often the frame n
\* and of these the frame before it, prev, are sent.
Verdict(pts, n, prev, dur) == [next_pts |-> pts, n |-> n, prev |-> prev, dur |-> dur]

\* A constant rate: drift is how far ahead the frame begins, delta0 without
\* clipping, delta how far ahead it ends.
Constant(ofp, pts, delta0, delta) ==
    LET drops == \/ frame_drop_threshold # 0 /\ delta < frame_drop_threshold /\ ofp.frame_number # 0
                 \/ delta < -110
        many  == ~drops /\ delta > 110
    IN  Verdict(pts, CASE drops -> 0 [] many -> EvenDiv(delta, FINE) [] OTHER -> 1,
                IF many /\ delta0 > 110 THEN EvenDiv(delta0 - 60, FINE) ELSE 0, 1)

(* A frame that begins at ipts, drifts by drift, and lasts long.           *)
Placement(ofp, ipts, drift, long) ==
    LET clips == drift < 0 /\ drift + long > 0 /\ ofp.vsync_method # "passthrough"
        start == ofp.vsync_method = "vscfr" /\ ofp.frame_number = 0 /\ ~clips /\ 2 * drift >= FINE
        length == IF clips THEN long + drift ELSE long
        at == IF clips THEN ofp.next_pts ELSE EvenDiv(ipts, FINE)
    IN  CASE ofp.vsync_method \in {"cfr", "vscfr"} ->
                Constant(ofp, IF start THEN at ELSE ofp.next_pts, IF clips \/ start THEN 0 ELSE drift,
                         IF start THEN long ELSE drift + long)
          [] ofp.vsync_method = "vfr" ->
                Verdict(IF drift + long > 60 THEN at ELSE ofp.next_pts, IF drift + long <= -60 THEN 0 ELSE 1,
                        0, EvenDiv(length, FINE))
          [] ofp.vsync_method = "passthrough" -> Verdict(at, 1, 0, EvenDiv(length, FINE))

Decide(ofp, f) ==
    LET Drifting(ipts) == Placement(ofp, ipts, ipts - ofp.next_pts * FINE,
                                    Rescale(f.dur, f.tb, <<ofp.tb_out[1], ofp.tb_out[2] * FINE>>))
    IN  Drifting(AdjustFramePts(f, ofp.tb_out, ofp.ts_offset))

\* At the end the last frame is repeated as often as the frames before it.
AtEnd(ofp) ==
    LET Again(n) == Verdict(ofp.next_pts, n, n, 0)
    IN  Again(Median3(ofp.prev_hist[1], ofp.prev_hist[2], ofp.prev_hist[3]))

(* f is NoFrame at the end.                                                *)
VideoSyncProcess(ofp, f) ==
    LET Counted(x, usual, too_many) ==
            [ofp EXCEPT !.next_pts = x.next_pts,
                        !.prev_hist = <<x.prev, @[1], @[2]>>,
                        !.nb_drop = @ + Cardinality({i \in 1 .. 3 :
                                          \/ i = 1 /\ ~IsFrame(f) /\ x.n = 0 /\ ofp.last_dropped
                                          \/ i = 2 /\ x.prev = 0 /\ ofp.last_dropped
                                          \/ i = 3 /\ too_many}),
                        !.nb_dup = @ + (IF too_many \/ x.n <= usual THEN 0 ELSE x.n - usual)]
        Result(x, kept, dropped, too_many) ==
            IF too_many THEN [ofp |-> kept, n |-> 0, prev |-> x.prev, dur |-> x.dur]
            ELSE [ofp |-> [kept EXCEPT !.last_dropped = dropped,
                                       !.dropped_keyframe = @ \/ (dropped /\ f.key)],
                  n |-> x.n, prev |-> x.prev, dur |-> x.dur]
        Weighed(x, usual, too_many) ==
            Result(x, Counted(x, usual, too_many), x.n = x.prev /\ IsFrame(f), too_many)
        Usual(x) == (IF x.prev # 0 /\ ofp.last_dropped THEN 1 ELSE 0) + (IF x.n > x.prev THEN 1 ELSE 0)
        Decided(x) == Weighed(x, Usual(x), x.n > Usual(x) /\ x.n > dts_error_threshold * 30)
    IN  Decided(IF IsFrame(f) THEN Decide(ofp, f) ELSE AtEnd(ofp))

\* The i-th frame sent: the one before or the one that came.
SyncedFrame(ofp, v, f, i) ==
    LET old == i <= v.prev /\ IsFrame(ofp.last_frame)
        g == IF old THEN ofp.last_frame ELSE [f EXCEPT !.dur = v.dur, !.tb = ofp.tb_out]
        forced == i = 1 /\ v.ofp.dropped_keyframe
        again  == ~old /\ i > v.prev + 1
    IN  [g EXCEPT !.pts = v.ofp.next_pts + i - 1, !.key = forced \/ (@ /\ ~again)]

VideoOut(ofp, f) ==
    LET Own(v, n) == [f EXCEPT !.key = @ /\ n <= v.prev, !.dur = v.dur, !.tb = ofp.tb_out]
        Sent(v, n) ==
            [ofp |-> [v.ofp EXCEPT
                         !.next_pts = @ + n, !.frame_number = @ + n,
                         !.dropped_keyframe = @ /\ n = 0,
                         !.last_frame = IF IsFrame(f) THEN Own(v, n) ELSE @],
             out |-> [i \in 1 .. n |-> SyncedFrame(ofp, v, f, i)]]
        Synced(v) == Sent(v, IF IsFrame(f) \/ IsFrame(ofp.last_frame) THEN v.n ELSE 0)
    IN  Synced(VideoSyncProcess(ofp, f))

AudioOut(ofp, f) ==
    LET dur == Rescale(f.samples, <<1, f.rate>>, ofp.tb_out)
        Sent(pts) == [ofp |-> [ofp EXCEPT !.next_pts = pts + dur],
                      out |-> <<[f EXCEPT !.pts = pts, !.dur = dur, !.tb = ofp.tb_out]>>]
    IN  Sent(IF f.pts = NOPTS THEN ofp.next_pts
             ELSE Rescale(f.pts, f.tb, ofp.tb_out) - Rescale(ofp.ts_offset, AV_TIME_BASE_Q, ofp.tb_out))

(* f is NoFrame at the end; got_frame says that the graph has sent one.    *)
FgOutputFrame(ofp, f, got_frame) ==
    CASE ofp.type = "video" /\ (IsFrame(f) \/ got_frame) -> VideoOut(ofp, f)
      [] ofp.type = "audio" /\ IsFrame(f) -> AudioOut(ofp, f)
      [] OTHER -> [ofp |-> ofp, out |-> <<>>]

FgOutputStep(ofp, f, got_frame) ==
    FgOutputFrame(IF ofp.tb_out_locked THEN ofp ELSE ChooseOutTimebase(ofp, f),
                  IF ofp.type = "video" /\ f.dur = 0 /\ Known(ofp.sink_rate)
                  THEN [f EXCEPT !.dur = Rescale(1, Inv(ofp.sink_rate), f.tb)] ELSE f,
                  got_frame)

(***************************************************************************)
(* Subtitles drawn on video: s keeps what is shown and until when, and     *)
(* the times of the last two frames given to the filter.                   *)
(***************************************************************************)
PushRef(s, pts) == [s EXCEPT !.last_pts = pts, !.pushed = <<@[2], pts>>]

Sub2VideoPrepare(tb) ==
    [tb |-> tb, last_pts |-> NOPTS, end_pts |-> NOPTS, initialize |-> TRUE, pushed |-> <<NOPTS, NOPTS>>]

Sub2VideoUpdate(s, heartbeat_pts, sub) ==
    LET pts == CASE IsFrame(sub) -> Rescale(sub.pts + sub.start, AV_TIME_BASE_Q, s.tb)
                 [] ~IsFrame(sub) /\ s.initialize -> heartbeat_pts
                 [] OTHER -> s.end_pts
        end == IF IsFrame(sub) THEN Rescale(sub.pts + sub.end, AV_TIME_BASE_Q, s.tb) ELSE Never
    IN  [PushRef(s, pts) EXCEPT !.end_pts = end, !.initialize = FALSE]

Sub2VideoHeartbeat(s, pts, tb) ==
    LET pts2 == Rescale(pts, tb, s.tb) - 1
    IN  CASE pts2 <= s.last_pts -> s
          [] pts2 > s.last_pts /\ (pts2 >= s.end_pts \/ s.initialize) -> Sub2VideoUpdate(s, pts2 + 1, NoFrame)
          [] OTHER -> PushRef(s, pts2)

Sub2VideoFrame(s, f) ==
    CASE ~IsFrame(f) -> IF s.end_pts < Never THEN Sub2VideoUpdate(s, Never, NoFrame) ELSE s
      [] IsFrame(f) /\ f.kind = "heartbeat" -> Sub2VideoHeartbeat(s, f.pts, f.tb)
      [] OTHER -> Sub2VideoUpdate(s, NOPTS, f)
=============================================================================
