------------------------------ MODULE MCSetup ------------------------------
(***************************************************************************)
(* A few files, formats and codecs, and command lines put together from    *)
(* their options, for Setup.                                               *)
(***************************************************************************)
EXTENDS Setup

Tags(seq) == [tag \in Range(seq) |-> "in"]

St(id, type, size) ==
    [id |-> id, type |-> type, size |-> size, pic |-> FALSE, usable |-> TRUE, default |-> FALSE, dec |-> TRUE,
     props |-> "", codec |-> "", active |-> FALSE, enhancement |-> FALSE, start |-> 0, meta |-> NoTags]

File(streams) ==
    [streams |-> streams, groups |-> <<>>, programs |-> <<>>, start_time |-> 0, duration |-> 60, discont |-> FALSE,
     realtime |-> NOPTS, meta |-> NoTags, chapters |-> <<>>, programsMeta |-> <<>>]

Chapter(from, to) == [start |-> from, end |-> to, meta |-> Tags(<<<<"title", "">>>>)]

\* A film, one with subtitles and a font, a picture in tiles, a song with a
\* cover, a transport stream, a video with an enhancement.
MCInputFiles ==
    "film.mp4" :> [File(<<[St(1, "video", 6) EXCEPT !.meta = Tags(<<<<"DURATION", "-eng">>, <<"language", "">>>>)],
                          [St(2, "audio", 2) EXCEPT !.meta = Tags(<<<<"iTunSMPB", "">>, <<"language", "">>>>)]>>)
                   EXCEPT !.meta = Tags(<<<<"major_brand", "">>, <<"encoded_by", "">>, <<"title", "">>>>),
                          !.chapters = <<Chapter(0, 10), Chapter(10, 20), Chapter(20, 60)>>] @@
    "subs.mkv" :> File(<<[St(1, "video", 9) EXCEPT !.default = TRUE], St(2, "audio", 6),
                         [St(3, "subtitle", 1) EXCEPT !.props = "text"], [St(4, "attachment", 1) EXCEPT !.dec = FALSE]>>) @@
    "tiles.heif" :> [File([i \in 1 .. 3 |-> St(i, "video", i)])
                     EXCEPT !.groups = <<[type |-> "tile", tiles |-> <<0, 1>>, streams |-> <<1, 2>>, el |-> 0, size |-> 4,
                                          default |-> TRUE, active |-> FALSE]>>] @@
    "song.mp3" :> [File(<<St(1, "audio", 2), [St(2, "video", 9) EXCEPT !.pic = TRUE]>>)
                   EXCEPT !.meta = Tags(<<<<"encoding_tool", "">>>>)] @@
    "tv.ts" :> [File(<<[St(1, "video", 6) EXCEPT !.start = 7], St(2, "audio", 2), [St(3, "subtitle", 1) EXCEPT !.props = "bitmap"],
                       [St(4, "data", 1) EXCEPT !.codec = "klv", !.dec = FALSE], [St(5, "unknown", 1) EXCEPT !.dec = FALSE]>>)
                EXCEPT !.programs = <<<<1, 2>>, <<3, 4, 5>>>>, !.discont = TRUE, !.start_time = 5] @@
    "lcevc.mp4" :> [File(<<St(1, "video", 6), [St(2, "video", 9) EXCEPT !.enhancement = TRUE]>>)
                    EXCEPT !.groups = <<[type |-> "lcevc", tiles |-> <<>>, streams |-> <<1, 2>>, el |-> 2, size |-> 0,
                                         default |-> FALSE, active |-> FALSE]>>]

MCDecoders == [name \in {"h264", "aac"} |-> IF name = "h264" THEN "video" ELSE "audio"]

Enc(type, variable, props) == [type |-> type, variable_frame_size |-> variable, props |-> props]
MCEncoders ==
    "x264" :> Enc("video", TRUE, "") @@ "png" :> Enc("video", TRUE, "") @@ "aac" :> Enc("audio", FALSE, "") @@
    "pcm" :> Enc("audio", TRUE, "") @@ "ass" :> Enc("subtitle", TRUE, "text") @@ "dvbsub" :> Enc("subtitle", TRUE, "bitmap")

Format(video, audio, subtitle, vsync) ==
    [encoder |-> [type \in {"video", "audio", "subtitle"} |->
                    CASE type = "video" -> video [] type = "audio" -> audio [] type = "subtitle" -> subtitle],
     data |-> "", covers |-> FALSE, nostreams |-> FALSE, exists |-> FALSE, vsync |-> vsync,
     fixed_frame_size |-> FALSE]
MCOutputFormats ==
    "out.mkv" :> Format("x264", "pcm", "ass", "vfr") @@
    "out.ts" :> [Format("x264", "aac", "dvbsub", "cfr") EXCEPT !.data = "klv"] @@
    "out.mp3" :> [Format("png", "pcm", "", "vfr") EXCEPT !.covers = TRUE] @@
    "old.avi" :> [Format("x264", "aac", "", "cfr") EXCEPT !.exists = TRUE] @@
    "fixed.au" :> [Format("", "pcm", "", "vfr") EXCEPT !.fixed_frame_size = TRUE]

-----------------------------------------------------------------------------
(* Words                                                                   *)

Both == {"input", "output"}
Value(name, spec, files) == [name |-> name, spec |-> spec, arg |-> TRUE, val |-> "", files |-> files]
Flag(name, val, files)   == [name |-> name, spec |-> AnyStream, arg |-> FALSE, val |-> val, files |-> files]

MCOptionDefs ==
    "-copyts" :> Flag("copy_ts", TRUE, {}) @@ "-nocopyts" :> Flag("copy_ts", FALSE, {}) @@
    "-start_at_zero" :> Flag("start_at_zero", TRUE, {}) @@ "-y" :> Flag("overwrite", TRUE, {}) @@
    "-copy_unknown" :> Flag("copy_unknown", TRUE, {}) @@ "-ignore_unknown" :> Flag("ignore_unknown", TRUE, {}) @@
    "-filter_complex" :> Value("filter_complex", AnyStream, {}) @@
    "-ss" :> Value("ss", AnyStream, Both) @@ "-t" :> Value("t", AnyStream, Both) @@ "-to" :> Value("to", AnyStream, Both) @@
    "-c" :> Value("c", AnyStream, Both) @@ "-c:v" :> Value("c", Typed("video"), Both) @@
    "-c:a" :> Value("c", Typed("audio"), Both) @@ "-c:s" :> Value("c", Typed("subtitle"), Both) @@
    "-vn" :> Flag("disable_video", TRUE, Both) @@ "-an" :> Flag("disable_audio", TRUE, Both) @@
    "-sn" :> Flag("disable_subtitle", TRUE, Both) @@
    "-discard" :> Value("discard", AnyStream, {"input"}) @@ "-recast_media" :> Flag("recast_media", TRUE, {}) @@
    "-itsoffset" :> Value("itsoffset", AnyStream, {"input"}) @@ "-isync" :> Value("isync", AnyStream, {"input"}) @@
    "-fix_sub_duration" :> Flag("fix_sub_duration", TRUE, {"input"}) @@
    "-map" :> Value("map", AnyStream, {"output"}) @@ "-attach" :> Value("attach", AnyStream, {"output"}) @@
    "-frames:v" :> Value("frames", Typed("video"), {"output"}) @@ "-frames:a" :> Value("frames", Typed("audio"), {"output"}) @@
    "-frames:s:0" :> Value("frames", Nth("subtitle", 0), {"output"}) @@
    "-shortest" :> Flag("shortest", TRUE, {"output"}) @@ "-apad" :> Flag("apad", TRUE, {"output"}) @@
    "-r" :> Value("r", AnyStream, {"output"}) @@ "-fpsmax" :> Value("fpsmax", AnyStream, {"output"}) @@
    "-fps_mode" :> Value("fps_mode", AnyStream, {"output"}) @@ "-filter:v" :> Value("filter", Typed("video"), {"output"}) @@
    "-fix_sub_duration_heartbeat:v" :>
        [Flag("fix_sub_duration_heartbeat", TRUE, {"output"}) EXCEPT !.spec = Typed("video")] @@
    "-metadata" :> Value("metadata", AnyStream, {"output"}) @@ "-map_metadata" :> Value("map_metadata", AnyStream, {"output"}) @@
    "-keep_metadata" :> Value("keep_metadata", AnyStream, {"output"}) @@
    "-map_chapters" :> Value("map_chapters", AnyStream, {"output"}) @@
    "-force_key_frames" :> Value("force_key_frames", AnyStream, {"output"}) @@
    "-stream_group" :> Value("stream_group", AnyStream, {"output"}) @@ "-program" :> Value("program", AnyStream, {"output"})

StreamsOf(file, spec, negative, allow) ==
    [label |-> <<>>, file |-> file, spec |-> spec, negative |-> negative, allow_unused |-> allow, view |-> FALSE]
Map(file, spec) == <<"-map", StreamsOf(file, spec, FALSE, FALSE)>>
Label(name) == <<"-map", [label |-> name]>>

-----------------------------------------------------------------------------
(* Command lines that take streams as they are                             *)

Inputs ==
    {<<"-i", "film.mp4">>, <<"-i", "tiles.heif">>, <<"-i", "song.mp3">>, <<"-i", "lcevc.mp4">>,
     <<"-fix_sub_duration", "-i", "subs.mkv">>,
     <<"-sn", "-ss", 3, "-i", "tv.ts", "-itsoffset", 2, "-isync", 1, "-i", "subs.mkv">>,
     <<"-an", "-i", "film.mp4", "-c:a", "aac", "-i", "song.mp3">>,
     <<"-c:v", "aac", "-i", "film.mp4">>, <<"-t", 5, "-shortest", "-i", "film.mp4">>, <<"-i", "none.mp4">>}

Selections ==
    {<<>>, <<"-vn">>, Map(1, AnyStream), Map(1, Nth("audio", 0)), Map(2, AnyStream), Map(1, InGroup(1)), Map(1, InProgram(2)),
     Map(1, AnyStream) \o <<"-map", StreamsOf(1, Typed("video"), TRUE, FALSE)>>,
     <<"-map", StreamsOf(1, Typed("video"), TRUE, FALSE)>>,
     <<"-map", StreamsOf(1, Typed("subtitle"), FALSE, TRUE)>> \o Map(1, Nth("video", 0)) \o Map(1, Nth("video", 0))}

Codecs == {<<>>, <<"-c", "copy">>, <<"-c:v", "copy">>, <<"-c:a", "pcm", "-c:s", "copy">>, <<"-c:v", "x264", "-c:a", "aac">>}

Limits ==
    {<<"-shortest">>, <<"-frames:v", 3>>, <<"-frames:a", 3, "-shortest", "-apad">>, <<"-frames:s:0", 2>>,
     <<"-attach", TRUE, "-frames:v", 3, "-t", 9>>, <<"-stream_group", [type |-> "iamf", streams |-> <<1, 2>>]>>}

Plain == {in \o sel \o codec \o <<out>> :
             in \in Inputs, sel \in Selections, codec \in Codecs, out \in {"out.mkv", "out.ts", "out.mp3"}}
Limiting == {<<"-fix_sub_duration">> \o in \o sel \o codec \o limit \o <<out>> :
                in \in {<<"-i", "subs.mkv">>, <<"-i", "film.mp4">>}, sel \in {<<>>, Map(1, AnyStream)},
                codec \in Codecs, limit \in Limits, out \in {"out.mkv", "out.ts"}}

\* Options of metadata and of other things one output has.
Tagging ==
    LET tag == <<"DURATION", "-eng">>
        Set(kind) == [ms |-> Meta(kind, 1, AnyStream), tag |-> tag, val |-> "new"]
        Copy(from, to) == [file |-> 1, in |-> Meta(from, 1, AnyStream), out |-> Meta(to, 1, Typed("video"))]
    IN  {<<"-i", "film.mp4">> \o codec \o meta \o <<"out.mkv">> :
            codec \in Codecs,
            meta \in {<<>>, <<"-metadata", Set("s")>>, <<"-metadata", Set("")>>, <<"-metadata", Set("c")>>, <<"-metadata", Set("p")>>,
                      <<"-metadata", Set("x")>>, <<"-map_metadata", Copy("x", "s")>>,
                      <<"-map_metadata", Copy("s", "s")>>, <<"-map_metadata", Copy("g", "s")>>, <<"-map_metadata", Copy("s", "g")>>,
                      <<"-map_metadata", Copy("c", "")>>, <<"-map_metadata", Copy("p", "")>>,
                      <<"-map_metadata", [file |-> 0, in |-> Meta("", 1, AnyStream), out |-> Meta("", 1, AnyStream)]>>,
                      <<"-keep_metadata", [ms |-> Meta("s", 1, AnyStream), tag |-> <<"DURATION", "">>]>>,
                      <<"-keep_metadata", [ms |-> Meta("g", 1, AnyStream), tag |-> <<"encoded_by", "">>]>>,
                      <<"-map_chapters", 1, "-ss", 12, "-t", 5, "-force_key_frames", <<<<4>>, <<>>, <<1>>>>>>,
                      <<"-map_chapters", 2>>, <<"-program", <<1>>>>, <<"-stream_group", [type |-> "iamf", streams |-> <<9>>]>>,
                      <<"-r", 25>>, <<"-r", 25, "-fpsmax", 30>>, <<"-r", 25, "-fps_mode", "vfr">>, <<"-to", 3, "-ss", 3>>,
                      <<"-filter:v", NullFilter("video")>>, <<"-filter:v", [NullFilter("video") EXCEPT !.outs = <<>>]>>,
                      <<"-filter:v", [NullFilter("video") EXCEPT !.ins = @ \o @]>>}}

-----------------------------------------------------------------------------
(* Command lines with filtergraphs                                         *)

Pad(type, label) == [type |-> type, label |-> label]
Chain(from, to) == [ins |-> <<Pad("video", from)>>, outs |-> <<Pad("video", to)>>]
Merge(one, other, to) == [ins |-> <<Pad("video", one), Pad("video", other)>>, outs |-> <<Pad("video", to)>>]
FirstVideo == <<"file", 1, Nth("video", 0)>>

Filtered ==
    {<<"-i", "film.mp4", "-filter_complex", Chain(a, b), "-filter_complex", Merge(c, d, e)>> \o map \o <<"out.mkv">> \o dec :
        a \in {<<>>, <<"y">>, <<"dec", 1>>, FirstVideo}, b \in {<<>>, <<"x">>}, c \in {<<>>, <<"x">>, <<"dec", 1>>},
        d \in {<<>>, FirstVideo}, e \in {<<>>, <<"y">>}, map \in {<<>>, Label(<<"y">>), Map(1, Typed("video"))},
        dec \in {<<>>, <<"-dec", [file |-> 1, stream |-> 1]>>}}

\* Sources, sounds, grids that are mapped by name, filters that do not fit.
Odd ==
    {<<"-filter_complex", [ins |-> <<>>, outs |-> <<Pad("video", <<>>)>>], "out.mkv">>,
     <<"-filter_complex", [ins |-> <<>>, outs |-> <<>>], "out.mkv">>,
     <<"-i", "film.mp4", "-filter_complex", [ins |-> <<Pad("subtitle", <<>>)>>, outs |-> <<Pad("video", <<>>)>>], "out.mkv">>,
     <<"-i", "subs.mkv", "-filter_complex", Merge(FirstVideo, <<"file", 1, Typed("subtitle")>>, <<>>), "out.mkv">>,
     <<"-i", "tiles.heif">> \o Label(<<"file", 1, InGroup(1)>>) \o <<"out.mkv">>,
     <<"-i", "tiles.heif", "-filter_complex", Chain(<<"file", 1, InGroup(1)>>, <<>>), "out.mkv">>,
     <<"-i", "tiles.heif">> \o Map(1, Nth("video", 2)) \o <<"out.mkv">>,
     <<"-i", "film.mp4", "-filter_complex", Chain(<<>>, <<>>), "-c:v", "copy", "out.mkv">>,
     <<"-i", "film.mp4", "-filter_complex", Chain(<<>>, <<>>), "-filter:v", NullFilter("video"), "out.mkv">>,
     <<"-fix_sub_duration", "-i", "subs.mkv", "-fix_sub_duration_heartbeat:v", "out.mkv">>,
     <<"-i", "tv.ts", "-copy_unknown", "-c", "copy">> \o Map(1, AnyStream) \o <<"out.ts">>,
     <<"-i", "tv.ts", "-ignore_unknown", "-c", "copy">> \o Map(1, AnyStream) \o <<"out.ts">>,
     <<"-vn", "-discard", "none", "-i", "tv.ts", "out.mkv">>, <<"-discard", "all", "-i", "tv.ts", "out.mkv">>,
     <<"-recast_media", "-i", "film.mp4", "-c:v", "aac", "out.mkv">>,
     <<"-i", "song.mp3", "fixed.au">>, <<"-i", "film.mp4", "-c:v", "copy", "fixed.au">>, <<"-i", "song.mp3", "-c", "copy", "fixed.au">>,
     <<"-i", "film.mp4", "-t", 0, "out.mkv">>, <<"-i", "film.mp4", "-ss", 3, "-to", 2, "-t", 4, "out.mkv">>,
     <<"-i", "film.mp4", "old.avi">>, <<"-y", "-i", "film.mp4", "old.avi">>, <<"-i", "film.mp4", "--", "-i">>,
     <<"-i", "film.mp4", "-what", "out.mkv">>, <<"-i", "film.mp4", "-t">>, <<"-i", "film.mp4">>,
     <<"-i", "film.mp4", "out.mkv", "-c", "copy", "out.ts">>,
     <<"-i", "film.mp4", "-c", "copy", "out.mkv", "-dec", [file |-> 1, stream |-> 1]>>,
     <<"-i", "film.mp4", "out.mkv", "-dec", [file |-> 2, stream |-> 1]>>,
     <<"-i", "film.mp4", "out.mkv", "-dec", [file |-> 1, stream |-> 1], "-filter_complex", Chain(<<"dec", 1>>, <<"z">>)>>
        \o Label(<<"z">>) \o <<"out.ts">>}

\* Most lives of the process see one command line, some a second one that finds
\* the global options of the first.
MCSessions ==
    {<<cmd>> : cmd \in Plain \cup Limiting \cup Tagging \cup Filtered \cup Odd}
        \cup {<<first, second>> : first \in {<<"-copyts", "-y", "-i", "film.mp4", "out.mkv">>, <<"-copyts", "-what">>},
                                  second \in Odd \cup {<<"-i", "tv.ts", "-isync", 1, "-i", "film.mp4", "out.mkv">>}}
=============================================================================
