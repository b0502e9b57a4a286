------------------------------ MODULE Decoder -------------------------------
(***************************************************************************)
(* What a decoder thread makes of the timestamps and durations of its      *)
(* packets, and how it times subtitles.  The codec itself is external: it  *)
(* returns one frame of a packet, or an error.  A decoder is a record dp,  *)
(* each operator one function of ffmpeg_dec.c; the frames it sends are the *)
(* field out of the result.                                                *)
(***************************************************************************)
EXTENDS Timestamps, Sequences

CONSTANT max_error_rate      \* a pair

INT_MAX == 2147483647
COMMON_RATE == 28224000      \* represents all common sample rates

DecAlloc(type) ==
    [type |-> type, ts_unreliable |-> FALSE, fr_forced |-> FALSE, fix_sub_duration |-> FALSE,
     codec_rate |-> <<0, 1>>, framerate_in |-> <<0, 1>>,
     last_frame_pts |-> NOPTS, last_frame_duration_est |-> 0, last_frame_tb |-> <<1, 1>>,
     last_filter_in_rescale_delta |-> NOPTS, last_frame_sample_rate |-> 0,
     sub_prev |-> <<>>, frames_decoded |-> 0, decode_errors |-> 0]

\* A time base for both rates.
CommonTb(prev, gcd, f) ==
    LET Finer(both) == f.tb[1] = 1 /\ f.tb[2] > both /\ f.tb[2] % both = 0
        Chosen(both) == IF Finer(both) THEN f.tb ELSE <<1, both>>
    IN  Chosen(IF prev \div gcd >= INT_MAX \div f.rate THEN COMMON_RATE ELSE (prev \div gcd) * f.rate)

(* A change of the sample rate.                                            *)
AudioSamplerateUpdate(dp, f) ==
    LET prev == dp.last_frame_tb[2]
        Changed(tb) == [dp EXCEPT !.last_frame_pts = RescaleTs(@, dp.last_frame_tb, tb),
                                  !.last_frame_duration_est = Rescale(@, dp.last_frame_tb, tb),
                                  !.last_frame_tb = tb,
                                  !.last_frame_sample_rate = f.rate]
    IN  IF f.rate = dp.last_frame_sample_rate THEN dp ELSE Changed(CommonTb(prev, Gcd(prev, f.rate), f))

\* Rounded the other way.
IsGap_RoundedDown(dp, f, pred) ==
    f.pts # NOPTS /\ dp.last_frame_pts # NOPTS /\ f.pts > RescaleDown(pred, dp.last_frame_tb, f.tb)

\* More is missing than the time base of the frame may have rounded away.
IsGap(dp, f, pred) ==
    f.pts # NOPTS /\ dp.last_frame_pts # NOPTS /\ f.pts > RescaleUp(pred, dp.last_frame_tb, f.tb)

AudioTsProcess(dp0, f) ==
    LET Predicted(dp) == IF dp.last_frame_pts = NOPTS THEN 0 ELSE dp.last_frame_pts + dp.last_frame_duration_est
        Result(dp, tb, r) ==
            [dp |-> [dp EXCEPT !.last_filter_in_rescale_delta = r.last,
                               !.last_frame_pts = r.ts,
                               !.last_frame_duration_est = Rescale(f.samples, <<1, f.rate>>, tb)],
             f  |-> [f EXCEPT !.pts = Rescale(r.ts, tb, <<1, f.rate>>), !.dur = f.samples, !.tb = <<1, f.rate>>]]
        Smoothed(dp, tb, g, last) == Result(dp, tb, RescaleDelta(g.tb, g.pts, tb, f.samples, last, tb))
        Process(dp, tb, pred) ==
            Smoothed(dp, tb, IF f.pts = NOPTS THEN [f EXCEPT !.pts = pred, !.tb = tb] ELSE f,
                     IF IsGap(dp, f, pred) THEN NOPTS ELSE dp.last_filter_in_rescale_delta)
        Updated(dp) == Process(dp, dp.last_frame_tb, Predicted(dp))
    IN  Updated(AudioSamplerateUpdate(dp0, f))

(* The duration of a video frame: the first of these that is known.        *)
VideoDurationEstimate(dp, f) ==
    LET ts_diff == IF f.pts # NOPTS /\ dp.last_frame_pts # NOPTS THEN f.pts - dp.last_frame_pts ELSE -1
        reliable == f.dur > 0 /\ ~dp.ts_unreliable /\ ~(f.dur = 1 /\ ts_diff > 2 * f.dur)
        codec == IF dp.codec_rate[1] = 0 THEN 0 ELSE Rescale(f.repeat + 2, Inv(<<2 * dp.codec_rate[1], dp.codec_rate[2]>>), f.tb)
        average == IF dp.framerate_in[1] = 0 THEN 0 ELSE Rescale(1, Inv(dp.framerate_in), f.tb)
        known == <<IF dp.fr_forced \/ reliable THEN f.dur ELSE 0,
                   IF dp.ts_unreliable THEN codec ELSE 0,
                   ts_diff, f.dur, codec, average, dp.last_frame_duration_est, 1>>
    IN  known[CHOOSE i \in DOMAIN known : known[i] > 0 /\ \A j \in 1 .. (i - 1) : known[j] <= 0]

VideoFrameProcess(dp, f) ==
    LET forced == [f EXCEPT !.pts = NOPTS, !.dur = 1, !.tb = Inv(dp.framerate_in)]
        Stamped(g) == [g EXCEPT !.pts = IF @ # NOPTS THEN @
                                        ELSE IF dp.last_frame_pts = NOPTS THEN 0
                                        ELSE dp.last_frame_pts + dp.last_frame_duration_est]
        Result(h) == [dp |-> [dp EXCEPT !.last_frame_duration_est = VideoDurationEstimate(dp, h),
                                        !.last_frame_pts = h.pts, !.last_frame_tb = h.tb],
                      f  |-> h]
    IN  Result(Stamped(IF dp.fr_forced THEN forced ELSE f))

(***************************************************************************)
(* Subtitles, with -fix_sub_duration: one is kept back until the next      *)
(* tells how long it may stay; sub_prev is the one kept, or empty.         *)
(***************************************************************************)
ProcessSubtitle(dp, sub) ==
    LET prev == dp.sub_prev
        end  == IF prev = <<>> THEN 1 ELSE Rescale(sub.pts - prev[1].pts, AV_TIME_BASE_Q, <<1, 1000>>)
        cut  == [i \in DOMAIN prev |-> [prev[i] EXCEPT !.end = Smaller(@, end)]]
    IN  IF ~dp.fix_sub_duration THEN [dp |-> dp, out |-> <<sub>>]
        ELSE [dp |-> [dp EXCEPT !.sub_prev = <<sub>>], out |-> IF end > 0 THEN cut ELSE <<>>]

\* However late the key frame is.
FixSubDurationHeartbeat_Late(dp, signal_pts) ==
    IF ~dp.fix_sub_duration \/ dp.sub_prev = <<>> THEN [dp |-> dp, out |-> <<>>]
    ELSE ProcessSubtitle(dp, [dp.sub_prev[1] EXCEPT !.pts = signal_pts])

(* A key frame of another stream shows what is on the screen so far.       *)
FixSubDurationHeartbeat(dp, signal_pts) ==
    IF ~dp.fix_sub_duration \/ dp.sub_prev = <<>> \/ dp.sub_prev[1].rects = 0
       \/ signal_pts <= dp.sub_prev[1].pts
    THEN [dp |-> dp, out |-> <<>>]
    ELSE ProcessSubtitle(dp, [dp.sub_prev[1] EXCEPT !.pts = signal_pts])

TranscodeSubtitles(dp, p) ==
    CASE p.kind = "heartbeat" -> [dp |-> dp, out |-> <<p>>]
      [] p.kind = "fix" -> FixSubDurationHeartbeat(dp, Rescale(p.pts, p.tb, AV_TIME_BASE_Q))
      [] p.kind = "bad" -> [dp |-> [dp EXCEPT !.decode_errors = @ + 1], out |-> <<>>]
      [] OTHER -> ProcessSubtitle([dp EXCEPT !.frames_decoded = @ + 1],
                                  [p EXCEPT !.pts = Rescale(@, p.tb, AV_TIME_BASE_Q), !.tb = AV_TIME_BASE_Q])

PacketDecode(dp, p) ==
    LET Sent(r) == [dp |-> [r.dp EXCEPT !.frames_decoded = @ + 1], out |-> <<r.f>>]
        Frame(q) == Sent(IF dp.type = "audio" THEN AudioTsProcess(dp, q) ELSE VideoFrameProcess(dp, q))
    IN  CASE dp.type = "subtitle" -> TranscodeSubtitles(dp, p)
          [] dp.type # "subtitle" /\ p.kind = "empty" -> [dp |-> dp, out |-> <<>>]
          [] dp.type # "subtitle" /\ p.kind = "bad" ->
                [dp |-> [dp EXCEPT !.decode_errors = @ + 1], out |-> <<>>]
          [] OTHER -> Frame(IF dp.ts_unreliable THEN [p EXCEPT !.pts = NOPTS, !.dts = NOPTS] ELSE p)

\* What the thread sends last, and what a demuxer that loops is told.
EndTs(dp) ==
    Stamp(IF dp.last_frame_pts = NOPTS THEN NOPTS ELSE dp.last_frame_pts + dp.last_frame_duration_est,
          dp.last_frame_tb)

FlushTs(dp) == IF dp.type = "audio" THEN EndTs(dp) ELSE Stamp(NOPTS, <<1, 1>>)

ErrorRateExceeded(dp) ==
    LET all == dp.frames_decoded + dp.decode_errors
    IN  all # 0 /\ dp.decode_errors * max_error_rate[2] > max_error_rate[1] * all
=============================================================================
