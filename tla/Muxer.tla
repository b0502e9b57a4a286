------------------------------- MODULE Muxer --------------------------------
(***************************************************************************)
(* What the thread of an output file does to the timestamps of its         *)
(* packets.  mux is the file, ms one of its streams, p a packet; each      *)
(* operator is a function of ffmpeg_mux.c.                                 *)
(***************************************************************************)
EXTENDS Timestamps, Sequences

\* What lies between the other two.
Middle(a, b, c) ==
    a + b + c - Smaller(a, Smaller(b, c)) - Larger(a, Larger(b, c))

Converted(ms, p) ==
    LET in_ms == [p EXCEPT !.dur = Rescale(@, p.tb, ms.tb), !.tb = ms.tb]
        Sound(r) == [ms |-> [ms EXCEPT !.ts_rescale_delta_last = r.last], p |-> [in_ms EXCEPT !.dts = r.ts, !.pts = r.ts]]
    IN  IF ms.type = "audio" /\ ms.copy
        THEN Sound(RescaleDelta(p.tb, p.dts, <<1, ms.sample_rate>>, IF p.samples # 0 THEN p.samples ELSE ms.frame_size,
                                ms.ts_rescale_delta_last, ms.tb))
        ELSE [ms |-> ms,
              p  |-> [in_ms EXCEPT !.dts = RescaleTs(@, p.tb, ms.tb), !.pts = RescaleTs(@, p.tb, ms.tb)]]

\* A dts after the pts: both are replaced by the most likely of three.
Ordered(ms, p) ==
    LET Both(guess) == [p EXCEPT !.pts = guess, !.dts = guess]
    IN  IF p.dts # NOPTS /\ p.pts # NOPTS /\ p.dts > p.pts
        THEN Both(Middle(p.pts, p.dts, ms.last_mux_dts + 1)) ELSE p

\* The least dts the format takes after the last one.
NextMuxDts(mux, ms) == ms.last_mux_dts + (IF mux.nonstrict THEN 0 ELSE 1)

Monotonic(mux, ms, p) ==
    LET max == NextMuxDts(mux, ms)
    IN  IF p.dts # NOPTS /\ ms.last_mux_dts # NOPTS /\ p.dts < max
        THEN [p EXCEPT !.dts = max, !.pts = IF @ >= p.dts THEN Larger(@, max) ELSE @]
        ELSE p

MuxFixupTs(mux, ms, p) ==
    LET Result(ms2, q) == [ms |-> [ms2 EXCEPT !.last_mux_dts = q.dts], p |-> q]
        Fixed(c) == Result(c.ms, IF mux.notimestamps THEN c.p ELSE Monotonic(mux, ms, Ordered(ms, c.p)))
    IN  Fixed(Converted(ms, p))

(* Refused once the file has its size.  A packet has size 1.               *)
WritePacket(mux, ms, p) ==
    LET Written(r) == [mux |-> [mux EXCEPT !.filesize = @ + 1],
                       ms |-> [r.ms EXCEPT !.packets_written = @ + 1], out |-> <<r.p>>, eof |-> FALSE]
    IN  IF mux.filesize >= mux.limit_filesize
        THEN [mux |-> mux, ms |-> ms, out |-> <<>>, eof |-> TRUE]
        ELSE Written(MuxFixupTs(mux, ms, p))

(***************************************************************************)
(* A packet that is copied: "eof" past the time to record, "skip" before   *)
(* the start or the first key frame.                                       *)
(***************************************************************************)
CopyVerdict(mux, ms, p) ==
    LET start == IF mux.start_time = NOPTS THEN 0 ELSE mux.start_time
        prior == IF p.pts = NOPTS THEN p.est < ms.ts_copy_start
                 ELSE p.pts < Rescale(ms.ts_copy_start, AV_TIME_BASE_Q, p.tb)
    IN  CASE mux.recording_time # Never /\ p.est >= mux.recording_time + start -> "eof"
          [] ms.streamcopy_started -> "copy"
          [] ~p.key /\ ~ms.copy_initial_nonkeyframes -> "skip"
          [] ~ms.copy_prior_start /\ prior -> "skip"
          [] mux.start_time # NOPTS /\ p.est < mux.start_time -> "skip"
          [] OTHER -> "copy"

CopyTimes(mux, ms, p) ==
    LET offset == Rescale(IF mux.start_time = NOPTS THEN 0 ELSE mux.start_time, AV_TIME_BASE_Q, p.tb)
        dts == IF p.dts = NOPTS THEN Rescale(p.est, AV_TIME_BASE_Q, p.tb) ELSE p.dts
        pts == CASE p.dts # NOPTS /\ ms.type = "audio" -> p.dts - offset
                 [] p.pts = NOPTS /\ (p.dts = NOPTS \/ ms.type # "audio") -> NOPTS
                 [] OTHER -> p.pts - offset
    IN  [p EXCEPT !.pts = pts, !.dts = dts - offset]

OfStreamcopy(mux, ms, p) ==
    LET Judged(verdict) ==
            [verdict |-> verdict,
             ms |-> IF verdict = "copy" THEN [ms EXCEPT !.streamcopy_started = TRUE] ELSE ms,
             p  |-> IF verdict = "copy" THEN CopyTimes(mux, ms, p) ELSE p]
    IN  Judged(CopyVerdict(mux, ms, p))

(* Copied or encoded, with no bitstream filter and no sync queue; a key    *)
(* frame is also a heartbeat for subtitles.                                *)
MuxPacketFilter(mux, ms, p) ==
    LET Fix(q) == IF p.key THEN <<[q EXCEPT !.kind = "fix"]>> ELSE <<>>
        Sent(w, q) == [mux |-> w.mux, ms |-> w.ms, out |-> w.out, stream_eof |-> FALSE, file_eof |-> w.eof, fix |-> Fix(q)]
        Kept(c) == IF c.verdict = "copy" THEN Sent(WritePacket(mux, c.ms, c.p), c.p)
                   ELSE [mux |-> mux, ms |-> c.ms, out |-> <<>>, stream_eof |-> c.verdict = "eof", file_eof |-> FALSE, fix |-> <<>>]
    IN  Kept(IF ms.copy THEN OfStreamcopy(mux, ms, p) ELSE [verdict |-> "copy", ms |-> ms, p |-> p])
=============================================================================
