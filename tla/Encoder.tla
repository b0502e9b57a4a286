------------------------------ MODULE Encoder -------------------------------
(***************************************************************************)
(* What an encoder thread does with its frames: opening at the first one,  *)
(* the limit on the time to record, forced key frames and the packets of   *)
(* subtitles.  The codec is external: it makes one packet of a frame.  An  *)
(* encoder is a record e, an output file a record of; each operator is a   *)
(* function of ffmpeg_enc.c.                                               *)
(***************************************************************************)
EXTENDS Timestamps, Sequences

EncAlloc(type, codec) ==
    [type |-> type, codec |-> codec, opened |-> FALSE, time_base |-> <<0, 1>>, frame_size |-> 0,
     fixed_size |-> FALSE, bits |-> 0, channels |-> 0, param_change |-> FALSE,
     frames_encoded |-> 0, samples_encoded |-> 0, packets_encoded |-> 0,
     kf |-> [ref_pts |-> NOPTS, index |-> 1, pts |-> <<>>, kind |-> "none", period |-> 0, n_forced |-> 0]]

(* frame is what the first frame tells; the raw bits are those of the      *)
(* user, or of the frame as far as its format holds them.                  *)
EncOpen(e, f, user_bits) ==
    LET media == e.type \in {"video", "audio"}
    IN  IF e.opened THEN e
        ELSE [e EXCEPT
                !.opened = TRUE,
                !.time_base  = IF media THEN f.tb ELSE AV_TIME_BASE_Q,
                !.bits       = IF ~media THEN @ ELSE IF user_bits # 0 THEN user_bits ELSE Smaller(f.raw_bits, f.format_bits),
                !.channels   = IF e.type = "audio" THEN f.channels ELSE @,
                !.frame_size = IF e.type = "audio" /\ @ = 0 /\ e.fixed_size THEN f.samples ELSE @]

\* FALSE once the output has its length.
CheckRecordingTime(of, ts, tb) ==
    of.recording_time = Never \/ Before(ts, tb, of.recording_time, AV_TIME_BASE_Q)

(***************************************************************************)
(* One subtitle: DVB takes a packet to draw and one to clear, ASS one for  *)
(* every rectangle.                                                        *)
(***************************************************************************)
SubtitlePackets(e, sub) ==
    CASE e.codec = "dvb" -> 2
      [] e.codec = "ass" -> Larger(sub.rects, 1)
      [] OTHER -> 1

SubtitlePacket(e, sub, i) ==
    LET Ms(n) == Rescale(n, <<1, 1000>>, AV_TIME_BASE_Q)
        pts == sub.pts + (IF e.codec # "dvb" THEN 0 ELSE IF i = 1 THEN Ms(sub.start) ELSE Ms(sub.end))
    IN  [sub EXCEPT !.pts = pts, !.dts = pts, !.dur = Ms(sub.end), !.tb = AV_TIME_BASE_Q,
                    !.rects = CASE e.codec = "dvb" /\ i = 2 -> 0
                                [] e.codec = "ass" /\ @ > 0 -> 1
                                [] OTHER -> @]

DoSubtitleOut(of, e, sub) ==
    LET early == of.start_time # NOPTS /\ sub.pts < of.start_time
        pts   == sub.pts - (IF of.start_time = NOPTS THEN 0 ELSE of.start_time)
        over  == ~CheckRecordingTime(of, pts, AV_TIME_BASE_Q)
        n     == IF early \/ over THEN 0 ELSE SubtitlePackets(e, sub)
    IN  [e |-> [e EXCEPT !.frames_encoded = @ + n],
         out |-> [i \in 1 .. n |-> SubtitlePacket(e, sub, i)],
         eof |-> over /\ ~early]

(* -force_key_frames: times, an expression of the number of key frames,    *)
(* the key frames of the input, or a change of scene.                      *)
ForcedKfApply(kf0, f) ==
    LET kf == [kf0 EXCEPT !.ref_pts = IF @ = NOPTS THEN f.pts ELSE @]
        listed == /\ kf.index <= Len(kf.pts)
                  /\ ~Before(f.pts, f.tb, kf.pts[kf.index], AV_TIME_BASE_Q)
        due    == /\ ~listed /\ kf.kind = "expr"
                  /\ ~Before(f.pts - kf.ref_pts, f.tb, kf.n_forced * kf.period, AV_TIME_BASE_Q)
    IN  [kf |-> [kf EXCEPT !.index = IF listed THEN @ + 1 ELSE @,
                           !.n_forced = IF due THEN @ + 1 ELSE @],
         key |-> listed \/ due \/ (kf.kind = "source" /\ f.key) \/ (kf.kind = "scd" /\ f.scene)]

EncodeFrame(e, f) ==
    [e |-> [e EXCEPT !.frames_encoded = @ + 1, !.samples_encoded = @ + f.samples,
                     !.packets_encoded = @ + 1],
     out |-> <<[f EXCEPT !.dts = f.pts, !.tb = e.time_base]>>,
     eof |-> FALSE]

FrameEncode(of, e, f) ==
    LET forced == ForcedKfApply(e.kf, f)
        none == [e |-> e, out |-> <<>>, eof |-> FALSE]
    IN  CASE e.type = "subtitle" /\ f.rects = 0 -> none
          [] e.type = "subtitle" /\ f.rects # 0 -> DoSubtitleOut(of, e, f)
          [] e.type # "subtitle" /\ ~CheckRecordingTime(of, f.pts, f.tb) -> [none EXCEPT !.eof = TRUE]
          [] e.type = "video" /\ CheckRecordingTime(of, f.pts, f.tb) ->
                EncodeFrame([e EXCEPT !.kf = forced.kf], [f EXCEPT !.key = forced.key])
          [] e.type = "audio" /\ CheckRecordingTime(of, f.pts, f.tb) ->
                IF ~e.param_change /\ e.channels # f.channels THEN none ELSE EncodeFrame(e, f)
=============================================================================
