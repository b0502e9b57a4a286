------------------------------- MODULE Media --------------------------------
(***************************************************************************)
(* The way of timestamps through the program: a file is read, its streams  *)
(* are copied, or decoded, filtered and encoded, and muxed into one file.  *)
(* The threads of the components share nothing but the queues between      *)
(* them, whose order Pipeline checks, so that one packet is taken to the   *)
(* end before the next is read: work holds what is on its way, and each    *)
(* component has a step for what comes first.                              *)
(*                                                                         *)
(* The file is the environment: packets in the order of the media time t   *)
(* they belong to, which the program does not see.  Their timestamps are t *)
(* plus an offset that changes where the file was cut, in the time base of *)
(* the stream, wrapped around at its number of bits.                       *)
(***************************************************************************)
EXTENDS Demuxer, Decoder, FrameSync, Encoder, Muxer, SequencesExt

CONSTANTS Jobs       \* what is read and what is made of it

VARIABLES
    job,      \* the member of Jobs this run does
    src,      \* the file: next media time of each stream, offset, laps
    clock,    \* the time of day, for -readrate
    demux, dec, sync, canvas, enc, ms, mux,
    work,     \* items [at, s, p]: packet or frame p of stream s is due at a component
    log       \* what was decoded and muxed last

vars == <<job, src, clock, demux, dec, sync, canvas, enc, ms, mux, work, log>>

ThisStream == DOMAIN job.streams
Copied(s) == job.streams[s].copy

Todo(at, s, p) == [at |-> at, s |-> s, p |-> p]
AllTodo(at, s, out) == [i \in DOMAIN out |-> Todo(at, s, out[i])]
After(s) == IF Copied(s) THEN "mux" ELSE "dec"

NoStamp == Stamp(NOPTS, <<1, 1>>)
EofAt(s, stamp) == [kind |-> "eof", s |-> s, pts |-> stamp.ts, tb |-> stamp.tb]

(***************************************************************************)
(* The file.                                                               *)
(***************************************************************************)
Unread == {s \in ThisStream : src.t[s] < job.length[s]}
PlaceInFile(s) == src.t[s] - job.streams[s].lead
DueNow == {s \in Unread : \A r \in Unread : PlaceInFile(s) <= PlaceInFile(r)}

FileTs(s, t) ==
    LET ds == demux.streams[s]
        ts == Rescale(t + src.offset, AV_TIME_BASE_Q, job.streams[s].tb)
    IN  IF ds.wrap_bits < 60 THEN ts % Wrap(ds.wrap_bits) ELSE ts

FilePacket(s, step, kind) ==
    LET x == job.streams[s]
        ts == FileTs(s, src.t[s]) + (IF kind = "wild" THEN Rescale(job.off_by, AV_TIME_BASE_Q, x.tb) ELSE 0)
    IN  [s |-> s, kind |-> kind, t |-> src.lap * job.lap + src.t[s],
         pts |-> IF kind = "unstamped" THEN NOPTS ELSE ts,
         dts |-> IF kind = "unstamped" THEN NOPTS ELSE ts,
         dur |-> IF x.timed THEN Rescale(step, AV_TIME_BASE_Q, x.tb) ELSE 0,
         tb |-> x.tb, est |-> NOPTS, key |-> kind = "key", scene |-> FALSE, repeat |-> 0,
         samples |-> x.samples, rate |-> x.rate, channels |-> 2, raw_bits |-> 8, format_bits |-> 8,
         start |-> 0, end |-> x.show, rects |-> IF kind = "clear" THEN 0 ELSE 1, dec_tb |-> x.tb]

\* The file was cut here: from now on its timestamps have another offset.
Cut ==
    /\ work = <<>> /\ Unread # {} /\ src.t # job.first /\ src.cuts > 0
    /\ \E o \in job.offsets \ {src.offset} : src' = [src EXCEPT !.offset = o, !.cuts = @ - 1]
    /\ UNCHANGED <<job, clock, demux, dec, sync, canvas, enc, ms, mux, work, log>>

\* Nothing is read for a while.
Stall ==
    /\ work = <<>> /\ Unread # {} /\ src.stalls > 0
    /\ clock' = clock + job.stall
    /\ src' = [src EXCEPT !.stalls = @ - 1]
    /\ UNCHANGED <<job, demux, dec, sync, canvas, enc, ms, mux, work, log>>

\* demux_send: every packet tells the subtitles drawn on video the time.
Drawn == {s \in ThisStream : job.streams[s].drawn}
Heartbeats(p) ==
    LET deaf == {s \in Drawn : demux.streams[s].finished}
        told == SetToSeq(Drawn \ deaf)
    IN  IF p.pts = NOPTS THEN <<>>
        ELSE [i \in DOMAIN told |-> Todo("dec", told[i], [p EXCEPT !.kind = "heartbeat"])]

(* input_thread: a packet is read, timed and sent, or dropped if its       *)
(* stream is finished.  A timestamp far off and a packet nobody can decode *)
(* come only later in the file.                                            *)
ReadPacket ==
    /\ work = <<>>
    /\ \E s \in DueNow : \E step \in job.streams[s].steps, kind \in job.streams[s].kinds :
       /\ kind \in {"wild", "bad"} => src.t[s] > job.first[s]
       /\ src' = [src EXCEPT !.t[s] = @ + step]
       /\ IF demux.streams[s].finished THEN UNCHANGED <<demux, clock, work>>
          ELSE \E r \in {InputPacketProcess(demux, FilePacket(s, step, kind))} :
               \E z \in {IF job.readrate THEN ReadrateSleep(r.d, clock) ELSE [d |-> r.d, now |-> clock]} :
               LET ended == r.streamcopy_eof /\ Copied(s)
               IN  /\ demux' = [z.d EXCEPT !.streams[s].finished = ended]
                   /\ clock' = z.now
                   /\ work' = IF ended THEN <<Todo("mux", s, EofAt(s, NoStamp))>>
                              ELSE Heartbeats(r.p) \o <<Todo(After(s), s, r.p)>>
    /\ UNCHANGED <<job, dec, sync, canvas, enc, ms, mux, log>>

\* What the decoders report when the file starts again.
FlushEnd ==
    LET ends == {FlushTs(dec[s]) : s \in {r \in ThisStream : ~Copied(r) /\ job.streams[r].type = "audio"}}
        known == {e \in ends : e.ts # NOPTS}
    IN  IF known = {} THEN Stamp(NOPTS, <<0, 1>>)
        ELSE CHOOSE e \in known : \A f \in known : ~Before(e.ts, e.tb, f.ts, f.tb)

EndOfFile ==
    /\ work = <<>> /\ Unread = {} /\ ~src.ended
    /\ IF demux.loop # 0
       THEN /\ demux' = SeekToStart(demux, FlushEnd)
            /\ src' = [src EXCEPT !.t = job.first, !.lap = @ + 1]
            /\ work' = <<>>
       ELSE /\ src' = [src EXCEPT !.ended = TRUE]
            /\ work' = [s \in ThisStream |-> Todo(After(s), s, EofAt(s, NoStamp))]
            /\ demux' = demux
    /\ UNCHANGED <<job, clock, dec, sync, canvas, enc, ms, mux, log>>

(***************************************************************************)
(* The components: each takes the first item and puts what it sends first. *)
(***************************************************************************)
Now == Head(work)
At(what) == work # <<>> /\ Now.at = what
Send(at, out) == work' = AllTodo(at, Now.s, out) \o Tail(work)
IsEof(p) == p.kind = "eof"

(* decoder_thread: a packet, or the end with its timestamp.                *)
AfterDec(s) == IF job.streams[s].type # "subtitle" THEN "filter" ELSE IF s \in Drawn THEN "canvas" ELSE "enc"

Decode ==
    /\ At("dec") /\ ~IsEof(Now.p)
    /\ \E s \in {Now.s} : \E r \in {PacketDecode(dec[s], Now.p)} :
          /\ dec' = [dec EXCEPT ![s] = r.dp]
          /\ Send(AfterDec(s), r.out)
          /\ log' = [log EXCEPT ![s].decoded = IF r.out # <<>> /\ Now.p.kind # "heartbeat"
                                                THEN <<@[2], r.out[1]>> ELSE @]
    /\ UNCHANGED <<job, src, clock, demux, sync, canvas, enc, ms, mux>>

DecodeEnd ==
    /\ At("dec") /\ IsEof(Now.p)
    /\ Send(AfterDec(Now.s), <<EofAt(Now.s, EndTs(dec[Now.s]))>>)
    /\ log' = [log EXCEPT ![Now.s].failed = ErrorRateExceeded(dec[Now.s])]
    /\ UNCHANGED <<job, src, clock, demux, dec, sync, canvas, enc, ms, mux>>

(* filter_thread, for a subtitle that is drawn.                            *)
Draw ==
    /\ At("canvas")
    /\ canvas' = [canvas EXCEPT ![Now.s] = Sub2VideoFrame(@, IF IsEof(Now.p) THEN NoFrame ELSE Now.p)]
    /\ work' = Tail(work)
    /\ UNCHANGED <<job, src, clock, demux, dec, sync, enc, ms, mux, log>>

(* filter_thread of a simple graph, which may trim its frames.  The first   *)
(* frame configures it.                                                    *)
Configured(ofp, f) == IF ofp.in_tb[1] = 0 THEN [ofp EXCEPT !.in_tb = f.tb] ELSE ofp

Filter ==
    /\ At("filter") /\ ~IsEof(Now.p)
    /\ \E ofp \in {Configured(sync[Now.s], Now.p)} : \E f \in {SendFrame(Now.p, ofp.in_tb)} :
       \E r \in {IF InTrim(f, mux.start_time, mux.recording_time)
                  THEN FgOutputStep(ofp, f, ofp.got_frame) ELSE [ofp |-> ofp, out |-> <<>>]} :
          /\ sync' = [sync EXCEPT ![Now.s] = [r.ofp EXCEPT !.got_frame = @ \/ r.out # <<>>]]
          /\ Send("enc", r.out)
    /\ UNCHANGED <<job, src, clock, demux, dec, canvas, enc, ms, mux, log>>

FilterEnd ==
    /\ At("filter") /\ IsEof(Now.p)
    /\ \E r \in {FgOutputFrame(sync[Now.s], NoFrame, sync[Now.s].got_frame)} :
          /\ sync' = [sync EXCEPT ![Now.s] = r.ofp]
          /\ Send("enc", Append(r.out, Now.p))
    /\ UNCHANGED <<job, src, clock, demux, dec, canvas, enc, ms, mux, log>>

(* encoder_thread: the first frame opens the encoder; after its end what   *)
(* still comes is dropped.                                                 *)
Encode ==
    /\ At("enc") /\ ~IsEof(Now.p) /\ ~enc[Now.s].ended
    /\ \E s \in {Now.s} : \E r \in {FrameEncode(mux, EncOpen(enc[s], Now.p, 0), Now.p)} :
          /\ enc' = [enc EXCEPT ![s] = [r.e EXCEPT !.ended = r.eof]]
          /\ Send("mux", IF r.eof THEN Append(r.out, EofAt(s, NoStamp)) ELSE r.out)
    /\ UNCHANGED <<job, src, clock, demux, dec, sync, canvas, ms, mux, log>>

EncodeEnd ==
    /\ At("enc") /\ (IsEof(Now.p) \/ enc[Now.s].ended)
    /\ Send("mux", IF enc[Now.s].ended THEN <<>> ELSE <<Now.p>>)
    /\ enc' = [enc EXCEPT ![Now.s].ended = TRUE]
    /\ UNCHANGED <<job, src, clock, demux, dec, sync, canvas, ms, mux, log>>

\* What the log keeps of a muxed packet: guessed if its dts was changed.
Entry(s, p, before) ==
    [t |-> p.t, pts |-> p.pts, dts |-> p.dts, dur |-> p.dur, tb |-> p.tb,
     guessed |-> p.dts # before.dts \/ p.pts # before.pts]

(* muxer_thread.  A key frame may go back to a subtitle decoder.           *)
Beats(s, fix) == [i \in 1 .. (IF fix = <<>> THEN 0 ELSE Len(job.beats[s])) |-> Todo("dec", job.beats[s][i], fix[1])]

Mux ==
    /\ At("mux") /\ ~IsEof(Now.p) /\ ~ms[Now.s].finished /\ ~mux.done
    /\ \E s \in {Now.s} : \E r \in {MuxPacketFilter(mux, ms[s], Now.p)} :
       \E before \in {Converted(ms[s], IF Copied(s) THEN OfStreamcopy(mux, ms[s], Now.p).p ELSE Now.p).p} :
          /\ ms' = [ms EXCEPT ![s] = [r.ms EXCEPT !.finished = r.stream_eof]]
          /\ mux' = [r.mux EXCEPT !.done = r.file_eof]
          /\ work' = Beats(s, r.fix) \o Tail(work)
          /\ log' = [log EXCEPT ![s].muxed = IF r.out = <<>> THEN @ ELSE <<@[2], Entry(s, r.out[1], before)>>]
    /\ UNCHANGED <<job, src, clock, demux, dec, sync, canvas, enc>>

\* The end of a stream; after that of the file all is dropped.
MuxEnd ==
    /\ At("mux") /\ (IsEof(Now.p) \/ ms[Now.s].finished \/ mux.done)
    /\ ms' = [ms EXCEPT ![Now.s].finished = TRUE]
    /\ work' = Tail(work)
    /\ UNCHANGED <<job, src, clock, demux, dec, sync, canvas, enc, mux, log>>

\* All is read and muxed.
Complete == src.ended /\ work = <<>> /\ UNCHANGED vars

Init ==
    /\ job \in Jobs
    /\ src = [t |-> job.first, lap |-> 0, offset |-> job.offset, cuts |-> job.cuts,
              stalls |-> job.stalls, ended |-> FALSE]
    /\ clock = 1
    /\ demux = job.demux
    /\ dec = job.dec
    /\ sync = job.sync
    /\ canvas = job.canvas
    /\ enc = job.enc
    /\ ms = job.ms
    /\ mux = job.mux
    /\ work = <<>>
    /\ log = [s \in DOMAIN job.streams |-> [decoded |-> <<NoFrame, NoFrame>>, muxed |-> <<NoFrame, NoFrame>>,
                                          failed |-> FALSE]]

Next == Cut \/ Stall \/ ReadPacket \/ EndOfFile \/ Decode \/ DecodeEnd \/ Draw \/ Filter \/ FilterEnd
        \/ Encode \/ EncodeEnd \/ Mux \/ MuxEnd \/ Complete

Spec == Init /\ [][Next]_vars

-----------------------------------------------------------------------------

LastMuxed(s) == log[s].muxed[2]

\* Every packet is muxed at the media time it belongs to, but for rounding and
\* for what the file itself leaves open: cuts, loops, wrap-around, missing and
\* wrong timestamps, trimming and the change of the frame rate shift nothing,
\* however often they happen.
OnTime ==
    \A s \in ThisStream :
        LET p == LastMuxed(s) IN
        IsFrame(p) => Abs(Rescale(p.pts, p.tb, AV_TIME_BASE_Q) - p.t - job.shift) <= job.slack

\* The muxer never replaces a timestamp (mux_fixup_ts), unless the file itself
\* has wrong ones: all components before it keep the dts of a stream
\* increasing, over cuts and loops too.
MuxerNeverGuesses ==
    \A s \in ThisStream : IsFrame(LastMuxed(s)) /\ job.clean => ~LastMuxed(s).guessed

\* A decoded audio frame begins where the one before it ended, in samples,
\* though the file rounds its timestamps or lacks them: audio_ts_process takes
\* a gap for one only if it is larger than the rounding.
SoundGapless ==
    \A s \in ThisStream :
        LET p == log[s].decoded[1]
            q == log[s].decoded[2]
        IN  IsFrame(p) /\ job.streams[s].type = "audio" => Abs(q.pts - p.pts - p.samples) <= job.gap

\* With -readrate the program never reads more than one packet ahead of the
\* clock, and after a pause no faster than -readrate_catchup (readrate_sleep).
Throttled ==
    LET done == Progress(demux)
        Allowed(since, rate) == ((clock - since) * rate[1]) \div rate[2] + job.step
    IN  job.readrate /\ done # Never =>
            /\ done <= demux.burst + Allowed(demux.wallclock_start, demux.readrate)
            /\ demux.resume_wc # 0 => done - demux.resume_progress <= Allowed(demux.resume_wc, demux.catchup)

\* One subtitle ends before the next begins when -fix_sub_duration is given,
\* with key frames of the video in between; and those drawn on video reach the
\* filter in the order of their times (sub2video_heartbeat).
SubtitlesApart ==
    \A s \in ThisStream :
        LET p == log[s].decoded[1]
            q == log[s].decoded[2]
        IN  /\ IsFrame(p) /\ dec[s].fix_sub_duration => p.pts + Rescale(p.end, <<1, 1000>>, AV_TIME_BASE_Q) <= q.pts
            /\ s \in Drawn => canvas[s].pushed[1] <= canvas[s].pushed[2]
=============================================================================
