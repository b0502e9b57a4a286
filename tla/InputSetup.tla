----------------------------- MODULE InputSetup -----------------------------
(***************************************************************************)
(* Opening input files (ffmpeg_demux.c: ifile_open, ist_add, istg_add), and*)
(* their timestamp offsets (ffmpeg_opt.c: correct_input_start_times,       *)
(* apply_sync_offsets).  An operation takes and returns the record w of    *)
(* Bindings; opts are the options of the file's group.                     *)
(***************************************************************************)
EXTENDS Bindings

CONSTANTS
    InputFiles,     \* what libavformat finds in each file that can be opened
    Decoders        \* the decoders that can be named: their types

\* What libavformat finds comes in lists; a group has tiles if it is a tile grid,
\* and no filtergraph yet.
ASSUME InputFilesAssumption ==
    \A name \in DOMAIN InputFiles :
        /\ IsList(InputFiles[name].streams)
        /\ IsList(InputFiles[name].groups)
        /\ \A group \in Range(InputFiles[name].groups) :
              "fg" \notin DOMAIN group /\ (group.type = "tile" => IsList(group.tiles))

NOPTS == -1000      \* AV_NOPTS_VALUE
INF   == 1000       \* INT64_MAX

-----------------------------------------------------------------------------
(* Streams                                                                 *)

\* choose_decoder fails if the decoder named does not exist or is for another type.
DecoderFor(w, opts, file, i) == OptFor(opts, "c", file, i, "")

DecoderKnown(w, opts, file, i) ==
    LET name == DecoderFor(w, opts, file, i)
    IN  name # "" => /\ name \in DOMAIN Decoders
                     /\ Decoders[name] = file.streams[i].type \/ w.global.recast_media

\* ist_add: nothing is read of a stream until it is used.
IstAdd(w, f, opts, file, i) ==
    LET st   == file.streams[i]
        name == DecoderFor(w, opts, file, i)
        type == IF name # "" /\ w.global.recast_media THEN Decoders[name] ELSE st.type
        drop == OptFor(opts, "drop_changed", file, i, FALSE)
        reinit == OptFor(opts, "reinit_filter", file, i, -1)
        discard == OptFor(opts, "discard", file, i,
                          IF Opt(opts, "disable_" \o type, FALSE) THEN "all" ELSE "none")
        ist  == With([st EXCEPT !.type = type, !.dec = @ \/ name # ""],
                     [user_set_discard |-> discard, discard |-> TRUE,
                      st_discard |-> OptFor(opts, "discard", file, i, "all"),
                      sch |-> 0, decoder |-> 0, sub2video |-> FALSE,
                      fix_sub_duration |-> /\ type \in {"data", "subtitle"}
                                           /\ OptFor(opts, "fix_sub_duration", file, i, FALSE)])
    IN  IF ~DecoderKnown(w, opts, file, i) THEN Fail(w, "unknown or unfit decoder")
        ELSE IF drop /\ reinit > 0 THEN Fail(w, "drop_changed and reinit_filters both enabled")
        ELSE [w EXCEPT !.files[f].streams = Append(@, ist)]

\* istg_parse_tile_grid: a filtergraph of our own puts the tiles together.
TileGrid(f, g, group) ==
    [ins  |-> [k \in DOMAIN group.tiles |->
                 [type |-> "video", label |-> <<"file", f, InGroupNth(g, group.tiles[k])>>]],
     outs |-> <<[type |-> "video", label |-> <<"file", f, InGroup(g)>>]>>]

\* istg_add: a grid of one tile needs no filtergraph.
IstgAdd(w, f, group) ==
    LET g == Len(w.files[f].groups) + 1
        Added(v, fg) == [v EXCEPT !.files[f].groups = Append(@, With(group, [fg |-> fg]))]
    IN  CASE group.type = "tile" /\ group.tiles = <<>> -> Fail(w, "invalid tile group")
          [] group.type = "tile" /\ Len(group.tiles) > 1 ->
               Then(FgCreate(w, TileGrid(f, g, group), TRUE), LAMBDA v : Added(v, Len(v.fgs)))
          [] OTHER -> Added(w, 0)

-----------------------------------------------------------------------------
(* Files                                                                   *)

\* -ss, for the sake of -to.
Start(opts) == IF Opt(opts, "ss", NOPTS) = NOPTS THEN 0 ELSE Opt(opts, "ss", NOPTS)

\* Both files and outputs take -t over -to, ...
Stops(opts) == Opt(opts, "t", INF) = INF /\ Opt(opts, "to", INF) # INF

\* ... so that only a -to that counts is refused, if it does not come after -ss.
StopAccepted(opts) == Stops(opts) => Opt(opts, "to", INF) > Start(opts)

\* -t, or what is left up to -to.
RecordingTime(opts) == IF Stops(opts) THEN Opt(opts, "to", INF) - Start(opts) ELSE Opt(opts, "t", INF)

\* Where reading starts: -ss, or -sseof of a file whose duration is known.
StartTime(opts, file) ==
    LET eof == Opt(opts, "sseof", NOPTS)
    IN  IF Opt(opts, "ss", NOPTS) # NOPTS \/ eof = NOPTS \/ file.duration = 0 THEN Opt(opts, "ss", NOPTS)
        ELSE IF eof + file.duration < 0 THEN NOPTS ELSE eof + file.duration

\* The offset added to the timestamps of the file.
TsOffset(global, opts, file) ==
    LET start == StartTime(opts, file)
        known == file.start_time # NOPTS
    IN  Opt(opts, "itsoffset", 0) -
          (IF global.copy_ts THEN IF global.start_at_zero /\ known THEN file.start_time ELSE 0
           ELSE (IF start = NOPTS THEN 0 ELSE start)
                + (IF known /\ ~Opt(opts, "seek_timestamp", FALSE) THEN file.start_time ELSE 0))

\* -readrate, -readrate_initial_burst and -readrate_catchup, in percent.
ReadrateAccepted(opts) ==
    LET rate == Opt(opts, "readrate", 0)
    IN  /\ rate >= 0
        /\ rate > 0 \/ Opt(opts, "re", FALSE) =>
             LET eff == IF rate > 0 THEN rate ELSE 100
             IN  Opt(opts, "readrate_initial_burst", 50) >= 0 /\ Opt(opts, "readrate_catchup", INF) >= eff

\* ifile_open
IfileOpen(w, opts, name) ==
    LET file == InputFiles[name]
        f    == Len(w.files) + 1
        new  == [name |-> name, streams |-> <<>>, groups |-> <<>>, programs |-> file.programs,
                 meta |-> file.meta, chapters |-> file.chapters, programsMeta |-> file.programsMeta,
                 start |-> file.start_time, discont |-> file.discont, realtime |-> file.realtime,
                 start_time |-> StartTime(opts, file), effective |-> NOPTS,
                 ts_offset |-> TsOffset(w.global, opts, file),
                 itsoffset |-> Opt(opts, "itsoffset", 0), isync |-> Opt(opts, "isync", 0)]
        opened == [w EXCEPT !.sch = AddDemux(@), !.files = Append(@, new)]
        AddStreams(v) == ForEach(v, [i \in DOMAIN file.streams |-> i],
                              LAMBDA u, i : IstAdd(u, f, opts, file, i))
        AddGroups(v)  == ForEach(v, file.groups, LAMBDA u, g : IstgAdd(u, f, g))
    IN  IF ~StopAccepted(opts) THEN Fail(w, "-to value smaller than -ss")
        ELSE IF name \notin DOMAIN InputFiles THEN Fail(w, "error opening input")
        ELSE IF Opt(opts, "sseof", NOPTS) >= 0 /\ Opt(opts, "ss", NOPTS) = NOPTS
        THEN Fail(w, "-sseof value must be negative")
        ELSE IF ~ReadrateAccepted(opts) THEN Fail(w, "invalid -readrate")
        ELSE Then(AddStreams(opened), AddGroups)

-----------------------------------------------------------------------------
(* Offsets between files                                                   *)

Known(times) == {t \in times : t # NOPTS}
Least(times) == CHOOSE t \in times : \A u \in times : t <= u

\* correct_input_start_times: where timestamps may jump, the streams that are
\* not read do not count for the start of the file.
CorrectInputStartTimes(w) ==
    LET Corrected(file) ==
            LET read  == {file.streams[i].start : i \in {j \in DOMAIN file.streams :
                                                           file.streams[j].st_discard # "all"}}
                start == IF Known(read) = {} THEN INF ELSE Least(Known(read))
                seek  == file.start + (IF file.start_time # NOPTS THEN file.start_time ELSE 0)
                offset == CASE w.global.copy_ts /\ w.global.start_at_zero  -> 0 - start
                            [] w.global.copy_ts /\ ~w.global.start_at_zero -> 0
                            [] ~w.global.copy_ts -> 0 - (IF seek > start THEN seek ELSE start)
            IN  IF file.start = NOPTS \/ ~file.discont \/ start = file.start
                THEN [file EXCEPT !.effective = file.start]
                ELSE [file EXCEPT !.effective = start, !.ts_offset = offset + file.itsoffset]
    IN  [w EXCEPT !.files = [f \in DOMAIN @ |-> Corrected(@[f])]]

\* apply_sync_offsets: -isync n takes file n for the clock of this one.
SyncOffset(w, i) ==
    LET self == w.files[i]
        ref  == w.files[self.isync]
        Seek(file) == IF file.start_time = NOPTS THEN 0 ELSE file.start_time
        Starts(file) == IF NOPTS \notin {self.realtime, ref.realtime} THEN file.realtime
                        ELSE file.effective
    IN  IF self.isync \in {0, i} THEN w
        ELSE IF self.isync \notin DOMAIN w.files THEN Fail(w, "-isync references a non-existent input")
        ELSE IF w.global.copy_ts /\ ~w.global.start_at_zero
        THEN Fail(w, "-isync requires start_at_zero with -copyts")
        ELSE IF ref.isync \notin {0, self.isync} \/ NOPTS \in {Starts(self), Starts(ref)} THEN w
        ELSE [w EXCEPT !.files[i].ts_offset =
                @ + (Starts(self) - Starts(ref)) + ref.itsoffset
                  + (IF w.global.copy_ts THEN 0 ELSE Seek(self) - Seek(ref))]

ApplySyncOffsets(w) == ForEach(w, [i \in DOMAIN w.files |-> i], SyncOffset)
=============================================================================
