---------------------------- MODULE OutputSetup ----------------------------
(***************************************************************************)
(* Opening an output file (ffmpeg_mux_init.c: of_open; ffmpeg_opt.c:       *)
(* opt_map): which streams it gets and from where, how each is encoded or  *)
(* copied, and which of them wait for one another in a sync queue.  An     *)
(* operation takes and returns the record w of Bindings; o is the file's   *)
(* number, opts are the options of its group.                              *)
(***************************************************************************)
EXTENDS Metadata

CONSTANTS
    OutputFormats,  \* what is known of the format of each file that can be written
    Encoders        \* the encoders that can be named

AVTypes == {"video", "audio"}
MapTypes == <<"video", "audio", "data", "subtitle">>

OptOf(w, o, opts, s, name, default) == OptFor(opts, name, w.outs[o], s, default)

-----------------------------------------------------------------------------
(* -map                                                                    *)

StreamMap(label, file, stream, view) ==
    [label |-> label, file |-> file, stream |-> stream, view |-> view, disabled |-> FALSE]

\* opt_map: a map of a label is looked at later; any other has to match a stream
\* that is not disabled, and one with a minus takes back earlier maps.
OptMap(w, st, m) ==
    LET file     == w.files[m.file]
        matching == Those([i \in DOMAIN file.streams |-> i],
                              LAMBDA i : StreamSpecifierMatch(m.spec, file, i))
        enabled  == Those(matching, LAMBDA i : file.streams[i].user_set_discard # "all")
        Off(x)   == x.label = <<>> /\ x.file = m.file /\ x.stream \in Range(matching)
        after    == IF m.negative
                    THEN [k \in DOMAIN st.maps |-> [st.maps[k] EXCEPT !.disabled = @ \/ Off(st.maps[k])]]
                    ELSE st.maps \o [k \in DOMAIN enabled |-> StreamMap(<<>>, m.file, enabled[k], m.view)]
        found    == IF m.negative THEN st.maps # <<>> ELSE enabled # <<>>
    IN  IF m.label # <<>> THEN [st EXCEPT !.maps = Append(@, StreamMap(m.label, 0, 0, FALSE))]
        ELSE IF m.file \notin DOMAIN w.files THEN [st EXCEPT !.err = "invalid input file index"]
        ELSE IF found \/ m.allow_unused THEN [st EXCEPT !.maps = after]
        ELSE [st EXCEPT !.err = "stream map matches no streams"]

StreamMaps(w, opts) ==
    ForEach([maps |-> <<>>, err |-> ""], OptAll(opts, "map"), LAMBDA st, m : OptMap(w, st, m))

-----------------------------------------------------------------------------
(* One output stream                                                       *)

NoQueue == [queue |-> 0, limiting |-> FALSE, frames |-> INF]

NewOst(type, ist, id, sch) ==
    [id |-> id, type |-> type, pic |-> FALSE, usable |-> TRUE, default |-> FALSE, meta |-> NoTags,
     ist |-> ist, sch |-> sch, src |-> 0, enc |-> 0, encoder |-> "", fixed_frame_size |-> FALSE,
     filter |-> FALSE, apad |-> FALSE, vsync |-> "", max_frames |-> INF, heartbeat |-> FALSE, kf |-> <<>>,
     sq_enc |-> NoQueue, sq_mux |-> NoQueue]

\* choose_encoder: "" for none.
EncoderName(w, o, opts, s) ==
    LET type == w.outs[o].streams[s].type
        name == OptOf(w, o, opts, s, "c", "")
    IN  IF name = "copy" \/ (name = "" /\ type \notin AVTypes \cup {"subtitle"}) THEN ""
        ELSE IF name = "" THEN w.outs[o].format.encoder[type]
        ELSE name

\* The format or the encoder wants audio in frames of one size (AVFMT_FIXED_FRAMESIZE
\* makes ost_add set AV_CODEC_FLAG2_FIXED_FRAME_SIZE).
FixedFrameSize(format, encoder) == format.fixed_frame_size \/ ~encoder.variable_frame_size

ChooseEncoder(w, o, opts, s) ==
    LET type == w.outs[o].streams[s].type
        name == EncoderName(w, o, opts, s)
    IN  IF OptOf(w, o, opts, s, "c", "") = "copy" \/ (name = "" /\ type \notin AVTypes \cup {"subtitle"}) THEN w
        ELSE IF type \notin AVTypes \cup {"subtitle"} THEN Fail(w, "only -c copy for streams of this type")
        ELSE IF name = "" THEN Fail(w, "automatic encoder selection failed")
        ELSE IF name \notin DOMAIN Encoders THEN Fail(w, "unknown encoder")
        ELSE IF Encoders[name].type # type /\ ~w.global.recast_media THEN Fail(w, "invalid encoder type")
        ELSE LET sch == AddEnc(w.sch)
             IN  [w EXCEPT !.sch = sch,
                           !.outs[o].streams[s] = [@ EXCEPT !.enc = sch.nb_enc, !.encoder = name,
                              !.fixed_frame_size = FixedFrameSize(w.outs[o].format, Encoders[name])]]

\* new_stream_video: -fps_mode, or what suits the format and the input.
VsyncMethod(w, o, opts, s) ==
    LET ost    == w.outs[o].streams[s]
        chosen == OptOf(w, o, opts, s, "fps_mode", "auto")
        rated  == OptOf(w, o, opts, s, "r", 0) # 0 \/ OptOf(w, o, opts, s, "fpsmax", 0) # 0
        auto   == IF rated THEN "cfr" ELSE w.outs[o].format.vsync
        lone   == /\ ost.ist # <<>>
                  /\ Len(w.files[ost.ist[1]].streams) = 1
                  /\ w.files[ost.ist[1]].itsoffset = 0
    IN  IF chosen # "auto" THEN chosen
        ELSE IF auto = "cfr" /\ (lone \/ w.global.copy_ts) THEN "vscfr" ELSE auto

VideoAccepted(w, o, opts, s) ==
    LET rates == {name \in {"r", "fpsmax"} : OptOf(w, o, opts, s, name, 0) # 0}
    IN  /\ rates # {"r", "fpsmax"}
        /\ w.outs[o].streams[s].enc # 0 /\ rates # {} =>
              OptOf(w, o, opts, s, "fps_mode", "auto") \in {"auto", "cfr", "vscfr"}

\* new_stream_subtitle: text does not become pictures, nor pictures text.
SubtitleAccepted(w, o, s) ==
    LET ost == w.outs[o].streams[s]
    IN  ost.enc = 0 \/ Cardinality({Ist(w, ost.ist[1], ost.ist[2]).props, Encoders[ost.encoder].props} \ {""}) < 2

StreamOptions(w, o, opts, s) ==
    LET type == w.outs[o].streams[s].type
        encoded == w.outs[o].streams[s].enc # 0
    IN  IF \/ type = "video" /\ ~VideoAccepted(w, o, opts, s)
           \/ type = "subtitle" /\ ~SubtitleAccepted(w, o, s)
        THEN Fail(w, "contradictory options of an output stream")
        ELSE [w EXCEPT !.outs[o].streams[s] =
                 [@ EXCEPT !.max_frames = OptOf(w, o, opts, s, "frames", INF),
                           !.heartbeat  = OptOf(w, o, opts, s, "fix_sub_duration_heartbeat", FALSE),
                           !.vsync      = IF type = "video" /\ encoded THEN VsyncMethod(w, o, opts, s) ELSE "",
                           !.apad       = type = "audio" /\ encoded /\ OptOf(w, o, opts, s, "apad", FALSE)]]

-----------------------------------------------------------------------------
NullFilter(type) == LET pads == <<[type |-> type, label |-> <<>>]>> IN [ins |-> pads, outs |-> pads]

\* ost_bind_filter: the stream comes from a filtergraph, one of its own if none
\* was given.  The encoder is asked for the formats of the stream's type, which
\* one of another type, as -recast_media allows, does not have.
OstBindFilter(w, o, opts, s, pad) ==
    LET ost    == w.outs[o].streams[s]
        filter == OptOf(w, o, opts, s, "filter", <<>>)
        desc   == IF filter = <<>> THEN NullFilter(ost.type) ELSE filter
        bound  == [w EXCEPT !.outs[o].streams[s].filter = TRUE]
    IN  IF Encoders[ost.encoder].type # ost.type THEN Fail(w, "no formats of this type")
        ELSE IF pad = <<>> THEN FgCreateSimple(bound, ost.ist[1], ost.ist[2], desc, ost.enc)
        ELSE IF filter # <<>> THEN Fail(w, "simple and complex filtering of one stream")
        ELSE OfilterBindEnc(bound, pad[1], pad[2], ost.enc)

\* The node a stream comes from, connected to the muxer in the end.
OstConnect(w, o, opts, s, pad) ==
    LET ost  == w.outs[o].streams[s]
        dst  == Node("mux", o, ost.sch)
        enc  == Node("enc", ost.enc, 1)
        Used(v)    == [v EXCEPT !.outs[o].streams[s].src = v.src[2]]
        Encoded(v) == IF ost.enc = 0 THEN v ELSE SchConnect(v, v.src, enc)
        Muxed(v)   == SchConnect(v, IF ost.enc = 0 THEN v.src ELSE enc, dst)
    IN  IF ost.enc # 0 /\ ost.type \in AVTypes THEN Then(OstBindFilter(w, o, opts, s, pad), Muxed)
        ELSE IF ost.ist # <<>>
        THEN Then(Then(Then(IstUse(w, ost.ist[1], ost.ist[2], ost.enc # 0), Used), Encoded), Muxed)
        ELSE IF ost.type # "attachment" THEN Fail(w, Assertion)
        ELSE w

\* streamcopy_init
CopyAccepted(w, o, opts, s) ==
    w.outs[o].streams[s].enc # 0 \/ OptOf(w, o, opts, s, "filter", <<>>) = <<>>

\* ost_add: from stream ist, from pad <<filtergraph, output>>, or an attachment.
OstAdd(w, o, opts, type, ist, pad) ==
    LET sch == IF ist # <<>> \/ pad # <<>> THEN AddMuxStream(w.sch, o) ELSE w.sch
        s   == Len(w.outs[o].streams) + 1
        ost == NewOst(type, ist, s, IF ist # <<>> \/ pad # <<>> THEN sch.mux[o] ELSE 0)
        added == [w EXCEPT !.sch = sch, !.outs[o].streams = Append(@, ost)]
        NotCopied(v) == IF pad # <<>> /\ v.outs[o].streams[s].enc = 0
                        THEN Fail(v, "streamcopy of the output of a filtergraph") ELSE v
        Copied(v)    == IF ist = <<>> \/ CopyAccepted(v, o, opts, s) THEN v
                        ELSE Fail(v, "filtering and streamcopy of one stream")
        Connected(v) == OstConnect(v, o, opts, s, pad)
    IN  Then(Then(Then(Then(ChooseEncoder(added, o, opts, s), NotCopied),
                       LAMBDA v : StreamOptions(v, o, opts, s)), Connected), Copied)

-----------------------------------------------------------------------------
(* Streams nobody asked for by name                                        *)

Candidate(score, bonus, ist, pad) == [score |-> score, bonus |-> bonus, ist |-> ist, pad |-> pad]
Nobody == Candidate(0, 0, <<>>, <<>>)

Best(candidates) == FoldLeft(LAMBDA best, c : IF c.score > best.score THEN c ELSE best, Nobody, candidates)

\* A default stream is preferred within its file, but not over other files.
BestOfFiles(w, Candidates_(_)) ==
    Best([f \in DOMAIN w.files |->
             LET best == Best(Candidates_(f)) IN [best EXCEPT !.score = @ - best.bonus]])

Bonus(of)  == IF of.default THEN 5000000 ELSE 0
Active(of) == IF of.active THEN 100000000 ELSE 0

StreamCandidates(w, f, type, WithBonus(_)) ==
    LET streams == w.files[f].streams
        usable  == Those([i \in DOMAIN streams |-> i],
                             LAMBDA i : streams[i].user_set_discard # "all" /\ streams[i].type = type
                                        /\ ~streams[i].enhancement)
    IN  [k \in DOMAIN usable |->
            LET st == streams[usable[k]]
            IN  IF WithBonus(st) THEN Candidate(st.size + Active(st) + Bonus(st), Bonus(st), <<f, usable[k]>>, <<>>)
                ELSE Candidate(1, 0, <<f, usable[k]>>, <<>>)]

\* map_auto_video: the largest picture, of a stream or of a tile grid.  Cover
\* pictures come last, unless the format takes nothing else.
MapAutoVideo(w, o, opts) ==
    LET covers == w.outs[o].format.covers
        Grids(f) == LET grids == Those(w.files[f].groups, LAMBDA g : g.fg # 0 /\ g.type = "tile")
                    IN  [k \in DOMAIN grids |-> Candidate(grids[k].size + Active(grids[k]) + Bonus(grids[k]),
                                                          Bonus(grids[k]), <<>>, <<grids[k].fg, 1>>)]
        Pictures(f) == Those(StreamCandidates(w, f, "video", LAMBDA st : covers \/ ~st.pic),
                                 LAMBDA c : covers => Ist(w, c.ist[1], c.ist[2]).pic)
        best == BestOfFiles(w, LAMBDA f : Grids(f) \o Pictures(f))
    IN  IF w.outs[o].format.encoder["video"] = "" \/ best = Nobody THEN w
        ELSE OstAdd(w, o, opts, "video", best.ist, best.pad)

\* map_auto_audio: the most channels.
MapAutoAudio(w, o, opts) ==
    LET best == BestOfFiles(w, LAMBDA f : StreamCandidates(w, f, "audio", LAMBDA st : TRUE))
    IN  IF w.outs[o].format.encoder["audio"] = "" \/ best = Nobody THEN w
        ELSE OstAdd(w, o, opts, "audio", best.ist, <<>>)

\* map_auto_subtitle: the first that can be encoded, or whose encoder was named.
MapAutoSubtitle(w, o, opts) ==
    LET default == w.outs[o].format.encoder["subtitle"]
        named   == \E k \in DOMAIN opts : opts[k].name = "c" /\ opts[k].spec = Typed("subtitle")
        found   == Those(InputStreams(w), LAMBDA p :
                      LET ist == Ist(w, p[1], p[2])
                      IN  /\ ist.type = "subtitle" /\ ist.user_set_discard # "all"
                          /\ \/ named
                             \/ ist.props = Encoders[default].props
                             \/ "" \in {ist.props, Encoders[default].props})
    IN  IF (default = "" /\ ~named) \/ found = <<>> THEN w
        ELSE OstAdd(w, o, opts, "subtitle", found[1], <<>>)

\* map_auto_data: all that the format takes.
MapAutoData(w, o, opts) ==
    LET codec == w.outs[o].format.data
        found == Those(InputStreams(w), LAMBDA p :
                    LET ist == Ist(w, p[1], p[2])
                    IN  ist.type = "data" /\ ist.user_set_discard # "all" /\ ist.codec = codec)
    IN  IF codec = "" THEN w
        ELSE ForEach(w, found, LAMBDA v, p : OstAdd(v, o, opts, "data", p, <<>>))

MapAuto(w, o, opts, type) ==
    CASE type = "video"    -> MapAutoVideo(w, o, opts)
      [] type = "audio"    -> MapAutoAudio(w, o, opts)
      [] type = "data"     -> MapAutoData(w, o, opts)
      [] type = "subtitle" -> MapAutoSubtitle(w, o, opts)

\* map_manual
MapManual(w, o, opts, map) ==
    LET pads == Those(OutputPads(w), LAMBDA p : Out(w, p[1], p[2]).label = map.label)
        ist  == Ist(w, map.file, map.stream)
    IN  IF map.disabled THEN w
        ELSE IF map.label # <<>>
        THEN IF pads = <<>> THEN Fail(w, "no filtergraph output with this label")
             ELSE OstAdd(w, o, opts, Out(w, pads[1][1], pads[1][2]).type, <<>>, pads[1])
        ELSE IF ist.user_set_discard = "all" THEN Fail(w, "stream is disabled and cannot be mapped")
        ELSE IF Opt(opts, "disable_" \o ist.type, FALSE) THEN w
        ELSE IF ist.type = "unknown" /\ ~w.global.copy_unknown
        THEN IF w.global.ignore_unknown THEN w ELSE Fail(w, "unsupported type")
        ELSE IF map.view /\ ist.type # "video" THEN Fail(w, "view specifier for another type than video")
        ELSE OstAdd(w, o, opts, ist.type, <<map.file, map.stream>>, <<>>)

\* of_add_attachments
OfAddAttachments(w, o, opts) ==
    ForEach(w, OptAll(opts, "attach"),
            LAMBDA v, readable : IF readable THEN OstAdd(v, o, opts, "attachment", <<>>, <<>>)
                                 ELSE Fail(v, "could not open attachment file"))

\* The streams of the file that end subtitles early: for each the decoders told.
\* An attachment has no place in the scheduler.
Heartbeats(w, o) ==
    LET streams == w.outs[o].streams
        Told(s, d) == /\ d # s /\ streams[s].heartbeat
                      /\ streams[d].type = "subtitle" /\ streams[d].enc # 0 /\ streams[d].ist # <<>>
                      /\ Ist(w, streams[d].ist[1], streams[d].ist[2]).fix_sub_duration
        told == {p \in (DOMAIN streams) \X (DOMAIN streams) : Told(p[1], p[2])}
    IN  IF \E p \in told : streams[p[1]].sch = 0 THEN Fail(w, Assertion)
        ELSE [w EXCEPT !.outs[o].beats = {<<streams[p[1]].sch, streams[p[2]].src>> : p \in told}]

\* Sound is made as long as the video only if it is filtered, and -shortest given.
Apad(w, o, opts) ==
    LET padded == /\ Opt(opts, "shortest", FALSE)
                  /\ \E s \in DOMAIN w.outs[o].streams : w.outs[o].streams[s].type = "video"
    IN  EachOst(w, o, LAMBDA s, ost : [ost EXCEPT !.apad = @ /\ padded])

\* create_streams: first what filtergraphs leave open, then what is mapped, or
\* the best of each type that no filtergraph makes.
CreateStreams(w, o, opts, maps) ==
    LET open == Those(OutputPads(w), LAMBDA p : Out(w, p[1], p[2]).label = <<>> /\ ~Out(w, p[1], p[2]).bound)
        made == {Out(w, open[k][1], open[k][2]).type : k \in DOMAIN open}
        auto == Those(MapTypes, LAMBDA type : type \notin made /\ ~Opt(opts, "disable_" \o type, FALSE))
        Opened(v) == ForEach(v, open, LAMBDA u, p : OstAdd(u, o, opts, Out(u, p[1], p[2]).type, <<>>, p))
        Mapped(v) == IF maps = <<>> THEN ForEach(v, auto, LAMBDA u, type : MapAuto(u, o, opts, type))
                     ELSE ForEach(v, maps, LAMBDA u, map : MapManual(u, o, opts, map))
        Checked(v) == IF v.outs[o].streams = <<>> /\ ~v.outs[o].format.nostreams
                      THEN Fail(v, "output file does not contain any stream") ELSE v
    IN  Then(Then(Then(Then(Opened(w), Mapped), LAMBDA v : OfAddAttachments(v, o, opts)),
                  LAMBDA v : Heartbeats(v, o)),
             LAMBDA v : Checked(Apad(v, o, opts)))

-----------------------------------------------------------------------------
(* Groups, programs and sync queues                                        *)

\* of_parse_group_token: audio in an IAMF group is encoded in frames of one size.
\* A group names streams; a copy of a group of an input (map=) and groups within
\* groups (stg=) are left out.
AddGroup(w, o, g) ==
    LET Framed(s, ost) == [ost EXCEPT !.fixed_frame_size = @ \/ (g.type = "iamf" /\ s \in Range(g.streams) /\ ost.enc # 0)]
    IN  IF ~(Range(g.streams) \subseteq DOMAIN w.outs[o].streams) THEN Fail(w, "invalid stream index")
        ELSE EachOst([w EXCEPT !.outs[o].groups = Append(@, g)], o, Framed)

\* of_add_groups
OfAddGroups(w, o, opts) == ForEach(w, OptAll(opts, "stream_group"), LAMBDA v, g : AddGroup(v, o, g))

\* of_add_programs
OfAddPrograms(w, o, opts) ==
    LET programs == OptAll(opts, "program")
    IN  [w EXCEPT !.outs[o].programs = programs,
                  !.outs[o].programsMeta = [p \in DOMAIN programs |-> NoTags]]

Interleaved(ost) == ost.type # "attachment"
AVEncoded(ost)   == ost.enc # 0 /\ ost.type \in AVTypes
OneFrameSize(ost) == ost.enc # 0 /\ ost.type = "audio" /\ ost.fixed_frame_size
Limited(ost)     == ost.max_frames < INF

Some(streams, Is(_)) == \E s \in DOMAIN streams : Is(streams[s])
Several(streams, Is(_)) == Cardinality({s \in DOMAIN streams : Is(streams[s])}) > 1

\* setup_sync_queues: encoders wait for one another before frames are encoded;
\* if there are other streams too, all wait before packets are muxed.
SetupSyncQueues(w, o, opts) ==
    LET streams  == w.outs[o].streams
        shortest == Opt(opts, "shortest", FALSE)
        needed   == \/ shortest /\ Several(streams, Interleaved)
                    \/ Some(streams, Interleaved) /\ Some(streams, Limited)
                    \/ Some(streams, OneFrameSize)
        encoding == \/ shortest /\ Several(streams, AVEncoded)
                    \/ Some(streams, LAMBDA ost : AVEncoded(ost) /\ Limited(ost))
                    \/ Some(streams, OneFrameSize)
        muxing   == Some(streams, LAMBDA ost : Interleaved(ost) /\ ~AVEncoded(ost))
        Place(ost) == [queue |-> o, limiting |-> shortest \/ Limited(ost), frames |-> ost.max_frames]
    IN  IF ~needed THEN w
        ELSE EachOst(w, o, LAMBDA s, ost :
                 [ost EXCEPT !.sq_enc = IF encoding /\ AVEncoded(ost) THEN Place(ost) ELSE @,
                             !.sq_mux = IF muxing /\ Interleaved(ost) THEN Place(ost) ELSE @])

\* Mutant: the sync queues are set up before the groups are known.
OfFinish_QueuesFirst(w, o, opts) ==
    Then(Then(OfAddGroups(SetupSyncQueues(CopyMeta(w, o, opts), o, opts), o, opts),
              LAMBDA v : OfAddMetadata(OfAddPrograms(v, o, opts), o, opts)),
         LAMBDA v : ForcedKeyframes(SetDispositions(v, o, opts), o, opts))

\* What of_open does once the streams are there.
OfFinish(w, o, opts) ==
    Then(Then(Then(CopyMeta(w, o, opts), LAMBDA v : OfAddGroups(v, o, opts)),
              LAMBDA v : OfAddMetadata(OfAddPrograms(v, o, opts), o, opts)),
         LAMBDA v : SetupSyncQueues(ForcedKeyframes(SetDispositions(v, o, opts), o, opts), o, opts))

\* of_open
OfOpen(w, opts, name) ==
    LET o    == Len(w.outs) + 1
        maps == StreamMaps(w, opts)
        new  == [name |-> name, format |-> OutputFormats[name], streams |-> <<>>, programs |-> <<>>, groups |-> <<>>,
                 start_time |-> Opt(opts, "ss", NOPTS), recording_time |-> RecordingTime(opts),
                 meta |-> NoTags, chapters |-> <<>>, programsMeta |-> <<>>, beats |-> {}]
        Known_(v) == IF v.outs[o].format.exists /\ ~v.global.overwrite THEN Fail(v, "not overwriting") ELSE v
    IN  IF maps.err # "" THEN Fail(w, maps.err)
        ELSE IF ~StopAccepted(opts) THEN Fail(w, "-to value smaller than -ss")
        ELSE IF name \notin DOMAIN OutputFormats THEN Fail(w, "error initializing the muxer")
        ELSE Then(Then(CreateStreams([w EXCEPT !.sch = AddMux(@), !.outs = Append(@, new)], o, opts, maps.maps),
                       Known_),
                  LAMBDA v : OfFinish(v, o, opts))
=============================================================================
