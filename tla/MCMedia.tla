------------------------------ MODULE MCMedia -------------------------------
(***************************************************************************)
(* Small files and what is made of them, for Media.  Times are in          *)
(* milliseconds: AV_TIME_BASE is 1000.                                     *)
(***************************************************************************)
EXTENDS Media

MaxErrorRate == <<2, 3>>

\* A stream of the file and how it is used.
InStream(type, tb, step, copy) ==
    [type |-> type, tb |-> tb, copy |-> copy, steps |-> {step}, kinds |-> {"key"}, timed |-> TRUE,
     lead |-> 0,        \* how far before its time a packet is in the file
     drawn |-> FALSE,   \* a subtitle drawn on video
     samples |-> IF type = "audio" THEN step ELSE 0, rate |-> 1000, show |-> 500]

\* Fields of a stream that no run changes, or few.
DemuxStreamOf(x, bits) ==
    [type |-> x.type, wrap_bits |-> bits, ts_scale |-> <<1, 1>>, delay |-> 0, framerate |-> <<0, 1>>, codec_rate |-> <<0, 1>>, fields |-> 2,
     sample_rate |-> IF x.type = "audio" THEN x.rate ELSE 0, frame_size |-> x.samples,
     discard |-> FALSE, finished |-> FALSE, saw_first_ts |-> FALSE, wrap_correction_done |-> FALSE,
     first_dts |-> NOPTS, dts |-> NOPTS, next_dts |-> NOPTS]

DemuxOf(streams, bits) ==
    [streams |-> [s \in DOMAIN streams |-> DemuxStreamOf(streams[s], bits)],
     copy_ts |-> FALSE, start_at_zero |-> FALSE, discont |-> FALSE,
     start_time |-> NOPTS, start_time_effective |-> 0, ts_offset |-> 0, recording_time |-> Never,
     loop |-> 0, have_audio_dec |-> \E s \in DOMAIN streams : streams[s].type = "audio" /\ ~streams[s].copy,
     ts_offset_discont |-> 0, last_ts |-> NOPTS,
     duration |-> Stamp(0, <<1, 1>>), min_pts |-> Stamp(NOPTS, <<1, 1>>), max_pts |-> Stamp(NOPTS, <<1, 1>>),
     readrate |-> <<1, 1>>, catchup |-> <<4, 1>>, burst |-> 100, wallclock_start |-> 1,
     lag |-> 0, resume_wc |-> 0, resume_progress |-> 0]

SyncOf(x) ==
    [type |-> x.type, in_tb |-> <<0, 1>>, enc_timebase |-> "none", vsync_method |-> "cfr",
     framerate |-> <<25, 1>>, framerate_max |-> <<0, 1>>, framerate_supported |-> <<>>, sink_rate |-> <<25, 1>>,
     tb_out |-> <<1, 25>>, tb_out_locked |-> FALSE, ts_offset |-> 0, next_pts |-> 0, frame_number |-> 0,
     last_frame |-> NoFrame, last_dropped |-> FALSE, dropped_keyframe |-> FALSE, prev_hist |-> <<0, 0, 0>>,
     nb_dup |-> 0, nb_drop |-> 0, got_frame |-> FALSE]

MuxStreamOf(x, tb) ==
    [type |-> x.type, copy |-> x.copy, tb |-> tb, sample_rate |-> 1000, frame_size |-> x.samples,
     last_mux_dts |-> NOPTS, ts_rescale_delta_last |-> NOPTS, streamcopy_started |-> FALSE,
     copy_initial_nonkeyframes |-> FALSE, copy_prior_start |-> FALSE, ts_copy_start |-> 0,
     packets_written |-> 0, finished |-> FALSE]

\* A job on the streams, read for the given time, muxed in the time base out.
Job(name, streams, length, out) ==
    [name |-> name, streams |-> streams,
     first |-> [s \in DOMAIN streams |-> 0], length |-> [s \in DOMAIN streams |-> length], lap |-> length,
     offset |-> 0, offsets |-> {0}, cuts |-> 0, stalls |-> 0, stall |-> 0, readrate |-> FALSE,
     step |-> 40,       \* the longest packet
     off_by |-> 5000,    \* how far off a wrong timestamp is
     beats |-> [s \in DOMAIN streams |-> <<>>],
     shift |-> 0,       \* from media time to that of the output
     slack |-> 5,       \* and how far a packet may be from there, in milliseconds
     gap |-> 0,         \* what may be between two frames of sound, in samples
     clean |-> TRUE,    \* nothing in the file makes the muxer guess
     demux |-> DemuxOf(streams, 64),
     dec |-> [s \in DOMAIN streams |-> DecAlloc(streams[s].type)],
     sync |-> [s \in DOMAIN streams |-> SyncOf(streams[s])],
     canvas |-> [s \in DOMAIN streams |-> Sub2VideoPrepare(<<1, 100>>)],
     enc |-> [s \in DOMAIN streams |-> EncAlloc(streams[s].type, "other") @@ [ended |-> FALSE]],
     ms |-> [s \in DOMAIN streams |-> MuxStreamOf(streams[s], out)],
     mux |-> [start_time |-> NOPTS, recording_time |-> Never, nonstrict |-> FALSE, notimestamps |-> FALSE,
              limit_filesize |-> Never, filesize |-> 0, done |-> FALSE]]

V(tb, copy) == InStream("video", tb, 40, copy)
A(tb, copy) == InStream("audio", tb, 32, copy)

\* A transport stream that is cut and joined, copied.
Joined == [Job("joined", <<V(<<1, 900>>, TRUE), A(<<1, 900>>, TRUE)>>, 300, <<1, 900>>) EXCEPT
              !.cuts = 2, !.offsets = {0, 30000, -20000}, !.offset = 0, !.demux.discont = TRUE]

\* A file read twice, its sound transcoded, its picture too or copied.
Twice(pic) ==
    [Job("twice", <<V(<<1, 100>>, pic), A(<<1, 100>>, FALSE)>>, 200, <<1, 1000>>) EXCEPT
        !.demux.loop = 1, !.length = <<200, 192>>, !.lap = 192, !.gap = 10,
        !.slack = IF pic THEN 5 ELSE 20]

\* Pictures at any distance, made regular.
Regular(method) ==
    [Job("regular", <<[V(<<1, 100>>, FALSE) EXCEPT !.steps = {20, 40, 100}, !.kinds = {"key", "delta"}]>>,
         200, <<1, 25>>) EXCEPT !.sync[1].vsync_method = method, !.slack = 80]

\* Sound with timestamps that were rounded, and some missing or wrong, which is
\* copied or decoded, but for packets nobody can decode.
Sound(copy, kinds) ==
    [Job("sound", <<[A(<<1, 100>>, copy) EXCEPT !.kinds = {"key"} \cup kinds]>>, 256, <<1, 1000>>) EXCEPT
        !.gap = IF "bad" \in kinds THEN 300 ELSE 0]

\* The clock of the file wraps around at 2^10/100 seconds.
Wrapped(start) ==
    LET streams == <<V(<<1, 100>>, TRUE), A(<<1, 100>>, TRUE)>> IN
    [Job("wrapped", streams, 300, <<1, 100>>) EXCEPT
        !.offset = start, !.shift = Smaller(start, 0), !.demux = [DemuxOf(streams, 10) EXCEPT
            !.start_time_effective = Larger(start, 0), !.ts_offset = -Larger(start, 0), !.discont = TRUE]]

\* Only a part of the file is wanted.
Part(copy) ==
    [Job("part", <<V(<<1, 100>>, copy), A(<<1, 100>>, FALSE)>>, 300, <<1, 1000>>) EXCEPT
        !.shift = -80, !.mux.start_time = 80, !.mux.recording_time = 120,
        !.sync[1].ts_offset = 80, !.sync[2].ts_offset = 80]

\* Read at the rate of the clock, which sometimes stands still for us.
Live == [Job("live", <<V(<<1, 1000>>, TRUE), A(<<1, 1000>>, TRUE)>>, 1200, <<1, 1000>>) EXCEPT
            !.readrate = TRUE, !.stalls = 2, !.stall = 500]

\* Subtitles, as packets of their own or drawn on the video.
Signs(drawn) ==
    [Job("signs", <<V(<<1, 100>>, TRUE),
                    [InStream("subtitle", <<1, 100>>, 0, FALSE) EXCEPT
                        !.steps = {60, 100}, !.kinds = {"key", "clear"}, !.show = 130, !.lead = 50, !.drawn = drawn]>>,
         300, <<1, 1000>>) EXCEPT
        !.slack = 300, !.clean = FALSE, !.beats[1] = IF drawn THEN <<>> ELSE <<2>>,
        !.dec[2].fix_sub_duration = ~drawn, !.enc[2].codec = "dvb"]

MCJobs == {Joined, Twice(FALSE), Twice(TRUE), Part(TRUE), Part(FALSE), Live}
          \cup {Regular(m) : m \in {"cfr", "vscfr", "vfr"}}
          \cup {Sound(TRUE, {}), Sound(TRUE, {"wild"}), Sound(FALSE, {"unstamped", "wild"}), Sound(FALSE, {"bad"})}
          \cup {Wrapped(s) : s \in {-80, 10100}} \cup {Signs(FALSE), Signs(TRUE)}
=============================================================================
