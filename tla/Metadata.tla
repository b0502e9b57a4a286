------------------------------ MODULE Metadata ------------------------------
(***************************************************************************)
(* What an output file takes over from its inputs beside packets           *)
(* (ffmpeg_mux_init.c: copy_meta and what it calls, of_add_metadata,       *)
(* set_dispositions, process_forced_keyframes).                            *)
(*                                                                         *)
(* A dictionary is a function from tags to values.  A tag is a pair, its   *)
(* name and what follows it: <<"BPS", "-eng">>.  The specifier of metadata *)
(* has a kind: "" (none given), "g" for the file, "s" with a stream        *)
(* specifier, "c" and "p" with the number of a chapter or program.         *)
(***************************************************************************)
EXTENDS InputSetup

NoTags == [tag \in {} |-> ""]

\* av_dict_set: an empty value takes the tag away.
DictSet(dict, tag, val) ==
    IF val = "" THEN [t \in DOMAIN dict \ {tag} |-> dict[t]] ELSE (tag :> val) @@ dict

Without(dict, tags) == [t \in DOMAIN dict \ tags |-> dict[t]]

Meta(kind, idx, spec) == [kind |-> kind, idx |-> idx, spec |-> spec]

\* parse_meta_type takes no other.
MetaKinds == {"", "g", "s", "c", "p"}

\* The output streams a specifier of kind "s" means.
MetaStreams(of, ms) == {s \in DOMAIN of.streams : StreamSpecifierMatch(ms.spec, of, s)}

\* Each stream of output file o becomes what New makes of its number and itself.
EachOst(w, o, New(_, _)) ==
    LET streams == w.outs[o].streams
    IN  [w EXCEPT !.outs[o].streams = [s \in DOMAIN streams |-> New(s, streams[s])]]

-----------------------------------------------------------------------------
(* Metadata maps and chapters                                              *)

Parts(file, kind) == CASE kind = "c" -> file.chapters [] kind = "p" -> file.programsMeta

PartKnown(file, ms) == ms.kind \in {"c", "p"} => ms.idx \in DOMAIN Parts(file, ms.kind)

\* The dictionary read: of streams, that of the first that matches.
MetaIn(file, ms) ==
    CASE ms.kind \in {"", "g"} -> file.meta
      [] ms.kind = "c"         -> file.chapters[ms.idx].meta
      [] ms.kind = "p"         -> file.programsMeta[ms.idx]
      [] ms.kind = "s"         -> file.streams[Least(MetaStreams(file, ms))].meta

\* copy_metadata: what is there already is not overwritten.  Chapters are only
\* copied later, so a map to one of the output finds none.
CopyMetadata(w, o, map) ==
    LET file == w.files[map.file]
        of   == w.outs[o]
    IN  IF ~({map.in.kind, map.out.kind} \subseteq MetaKinds) THEN Fail(w, "invalid metadata type")
        ELSE IF map.file = 0 THEN w
        ELSE IF map.file \notin DOMAIN w.files \/ ~PartKnown(file, map.in) \/ ~PartKnown(of, map.out)
                \/ (map.in.kind = "s" /\ MetaStreams(file, map.in) = {})
        THEN Fail(w, "invalid metadata map")
        ELSE CASE map.out.kind \in {"", "g"} -> [w EXCEPT !.outs[o].meta = @ @@ MetaIn(file, map.in)]
               [] map.out.kind = "c" -> [w EXCEPT !.outs[o].chapters[map.out.idx].meta = @ @@ MetaIn(file, map.in)]
               [] map.out.kind = "p" -> [w EXCEPT !.outs[o].programsMeta[map.out.idx] = @ @@ MetaIn(file, map.in)]
               [] map.out.kind = "s" ->
                    EachOst(w, o, LAMBDA s, ost : IF s \in MetaStreams(of, map.out)
                                                  THEN [ost EXCEPT !.meta = @ @@ MetaIn(file, map.in)] ELSE ost)

\* A map that names a kind, or takes the file's whole metadata away, turns off
\* the copies that are made otherwise.
Manual(maps, kind) ==
    \E i \in DOMAIN maps : \/ maps[i].in.kind = kind
                           \/ maps[i].out.kind = kind
                           \/ kind = "g" /\ "" \in {maps[i].in.kind, maps[i].out.kind}
                           \/ maps[i].out.kind = "" /\ maps[i].file = 0

\* copy_chapters: those that lie in what is recorded, cut to it.
CopyChapters(file, start_time, recording_time, with_meta) ==
    LET off == (IF start_time = NOPTS THEN 0 ELSE start_time) - file.ts_offset
        Bounded(t) == recording_time # INF /\ t > recording_time
        Beyond(ch) == recording_time # INF /\ ch.start > recording_time + off
        first(k)   == \A i \in 1 .. k : Beyond(file.chapters[i]) => file.chapters[i].end < off
        kept == Those([i \in DOMAIN file.chapters |-> i],
                          LAMBDA i : file.chapters[i].end >= off /\ first(i))
        Cut(ch) == [start |-> IF ch.start < off THEN 0 ELSE ch.start - off,
                    end   |-> IF Bounded(ch.end - off) THEN recording_time ELSE ch.end - off,
                    meta  |-> IF with_meta THEN ch.meta ELSE NoTags]
    IN  [k \in DOMAIN kept |-> Cut(file.chapters[kept[k]])]

\* The file chapters come from: -map_chapters, or the first that has some.
ChaptersFile(w, wanted) ==
    IF wanted # INF THEN wanted
    ELSE LET having == {f \in DOMAIN w.files : w.files[f].chapters # <<>>}
         IN  IF having = {} THEN 0 ELSE Least(having)

-----------------------------------------------------------------------------
(* Tags that describe the former encoding                                  *)

\* reenc_delete_keys: the types of stream whose encoding makes a tag stale, for
\* tags known by their whole name and for those that may have something appended.
StaleWhole(type) ==
    {"encoded_by", "encoding_tool", "vendor_id"} \cup
        IF type = "audio" THEN {"iTunPGAP", "iTunSMPB", "gapless_playback", "iTunNORM"} ELSE {}
StaleFamily == {"BPS", "DURATION", "NUMBER_OF_BYTES", "NUMBER_OF_FRAMES", "_STATISTICS_TAGS",
                "_STATISTICS_WRITING_APP", "_STATISTICS_WRITING_DATE_UTC"}
StaleAlways == {"major_brand", "minor_version", "compatible_brands"}

\* encoded: the types encoded, of "video" and "audio".
StaleTags(dict, encoded) ==
    {tag \in DOMAIN dict :
        \/ tag[1] \in StaleAlways /\ tag[2] = ""
        \/ encoded # {} /\ tag[1] \in StaleFamily
        \/ tag[2] = "" /\ tag[1] \in UNION {StaleWhole(type) : type \in encoded}}

\* meta_spec_matches; s is 0 for the file.
MetaSpecMatches(of, s, ms) ==
    \/ ms.kind = ""
    \/ ms.kind = "g" /\ s = 0
    \/ ms.kind = "s" /\ s # 0 /\ s \in MetaStreams(of, ms)

\* reenc_delete_metadata_key: -keep_metadata keeps a tag, or all of its family,
\* and what -metadata sets anyway is left to it.
KeepsTag(of, s, opts, tag) ==
    \/ \E k \in Range(OptAll(opts, "keep_metadata")) :
          MetaSpecMatches(of, s, k.ms) /\ k.tag \in {tag} \cup (IF tag[1] \in StaleFamily THEN {<<tag[1], "">>} ELSE {})
    \/ \E m \in Range(OptAll(opts, "metadata")) :
          /\ m.ms.kind = "" => s = 0
          /\ MetaSpecMatches(of, s, m.ms)
          /\ m.tag = tag

\* reenc_delete_stale_metadata
WithoutStale(of, s, opts, dict, encoded) ==
    Without(dict, {tag \in StaleTags(dict, encoded) : ~KeepsTag(of, s, opts, tag)})

EncodedTypes(of, streams) ==
    {of.streams[s].type : s \in {i \in streams : of.streams[i].enc # 0}} \cap {"video", "audio"}

PruneFile(w, o, opts) ==
    [w EXCEPT !.outs[o].meta =
        WithoutStale(w.outs[o], 0, opts, @, EncodedTypes(w.outs[o], DOMAIN w.outs[o].streams))]

PruneStreams(w, o, opts) ==
    EachOst(w, o, LAMBDA s, ost :
        [ost EXCEPT !.meta = WithoutStale(w.outs[o], s, opts, @, EncodedTypes(w.outs[o], {s}))])

CopyStreamMeta(w, o) ==
    EachOst(w, o, LAMBDA s, ost :
        IF ost.ist = <<>> THEN ost ELSE [ost EXCEPT !.meta = @ @@ Ist(w, ost.ist[1], ost.ist[2]).meta])

\* Mutant: streams are pruned before the tags of the input are copied to them.
StreamTags_PrunedFirst(w, o, opts, manual) ==
    LET v == PruneStreams(w, o, opts) IN IF manual THEN v ELSE CopyStreamMeta(v, o)

\* The tags of the streams are copied unless a map said what to copy, and pruned
\* in any case.
StreamTags(w, o, opts, manual) ==
    PruneStreams(IF manual THEN w ELSE CopyStreamMeta(w, o), o, opts)

-----------------------------------------------------------------------------
\* copy_meta
CopyMeta(w, o, opts) ==
    LET maps    == OptAll(opts, "map_metadata")
        chapters == ChaptersFile(w, Opt(opts, "map_chapters", INF))
        Maps(v) == ForEach(v, maps, LAMBDA u, map : CopyMetadata(u, o, map))
        Chapters(v) ==
            IF chapters \notin DOMAIN v.files THEN v
            ELSE [v EXCEPT !.outs[o].chapters =
                     @ \o CopyChapters(v.files[chapters], v.outs[o].start_time, v.outs[o].recording_time,
                                       ~Manual(maps, "c"))]
        FileMeta(v) ==
            IF Manual(maps, "g") \/ v.files = <<>> THEN v
            ELSE [v EXCEPT !.outs[o].meta =
                     Without(@ @@ v.files[1].meta,
                             {<<"creation_time", "">>, <<"company_name", "">>, <<"product_name", "">>,
                              <<"product_version", "">>}
                             \cup IF v.outs[o].recording_time # INF THEN {<<"duration", "">>} ELSE {})]
    IN  IF chapters \notin DOMAIN w.files \cup {0} THEN Fail(w, "invalid file for chapters")
        ELSE Then(Maps(w), LAMBDA v : StreamTags(PruneFile(FileMeta(Chapters(v)), o, opts), o, opts, Manual(maps, "s")))

\* What of_add_metadata does with one option.
AddMetadata(w, o, m) ==
    CASE m.ms.kind \in {"", "g"} -> [w EXCEPT !.outs[o].meta = DictSet(@, m.tag, m.val)]
      [] m.ms.kind \in {"c", "p"} /\ ~PartKnown(w.outs[o], m.ms) -> Fail(w, "invalid index in metadata specifier")
      [] m.ms.kind = "c" /\ PartKnown(w.outs[o], m.ms) ->
           [w EXCEPT !.outs[o].chapters[m.ms.idx].meta = DictSet(@, m.tag, m.val)]
      [] m.ms.kind = "p" /\ PartKnown(w.outs[o], m.ms) ->
           [w EXCEPT !.outs[o].programsMeta[m.ms.idx] = DictSet(@, m.tag, m.val)]
      [] m.ms.kind = "s" ->
           EachOst(w, o, LAMBDA s, ost : IF s \in MetaStreams(w.outs[o], m.ms)
                                         THEN [ost EXCEPT !.meta = DictSet(@, m.tag, m.val)] ELSE ost)
      [] OTHER -> Fail(w, "invalid metadata type")

\* of_add_metadata
OfAddMetadata(w, o, opts) == ForEach(w, OptAll(opts, "metadata"), LAMBDA v, m : AddMetadata(v, o, m))

-----------------------------------------------------------------------------
\* set_dispositions: those of the inputs, unless some are given; without any
\* given, the first stream of a type with several is made the default if none is.
SetDispositions(w, o, opts) ==
    LET of     == w.outs[o]
        Given(s) == OptFor(opts, "disposition", of, s, "")
        Copied(s) == of.streams[s].ist # <<>> /\ Ist(w, of.streams[s].ist[1], of.streams[s].ist[2]).default
        OfType(s) == {i \in DOMAIN of.streams : of.streams[i].type = of.streams[s].type}
        Pic(s)    == of.streams[s].ist # <<>> /\ Ist(w, of.streams[s].ist[1], of.streams[s].ist[2]).pic
        First(s)  == s = Least({i \in OfType(s) : ~Pic(i)} \cup {Len(of.streams) + 1})
        Default(s) ==
            IF \E i \in DOMAIN of.streams : Given(i) # ""
            THEN IF Given(s) = "" THEN Copied(s) ELSE Given(s) = "default"
            ELSE \/ Copied(s)
                 \/ Cardinality(OfType(s)) > 1 /\ First(s) /\ \A i \in OfType(s) : ~Copied(i)
    IN  EachOst(w, o, LAMBDA s, ost : [ost EXCEPT !.default = Default(s), !.pic = Given(s) = "" /\ Pic(s)])

\* process_forced_keyframes: times, each <<t>> or <<>> for those of the chapters,
\* of the video streams that are encoded; kept in order.
ForcedKeyframes(w, o, opts) ==
    LET of == w.outs[o]
        Times(items) == FlattenSeq([i \in DOMAIN items |->
            IF items[i] = <<>> THEN [c \in DOMAIN of.chapters |-> of.chapters[c].start] ELSE items[i]])
        Forced(s) ==
            LET items == OptFor(opts, "force_key_frames", of, s, <<>>)
            IN  IF of.streams[s].type = "video" /\ of.streams[s].enc # 0
                THEN SortSeq(Times(items), LAMBDA a, b : a < b)
                ELSE <<>>
    IN  EachOst(w, o, LAMBDA s, ost : [ost EXCEPT !.kf = Forced(s)])
=============================================================================
