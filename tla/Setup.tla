------------------------------- MODULE Setup -------------------------------
(***************************************************************************)
(* From a command line to a transcoding graph (ffmpeg.c: main;             *)
(* ffmpeg_opt.c: ffmpeg_parse_options), run after run in one process, as   *)
(* the Android application does (native-lib.cpp: runFFmpeg).               *)
(*                                                                         *)
(* The record prog is w of Bindings; pc says which step comes next, next   *)
(* which of the files or filtergraphs it is for.  The threads the graph    *)
(* is for are those of Pipeline.                                           *)
(***************************************************************************)
EXTENDS OutputSetup

CONSTANTS
    Sessions,       \* the command lines of each life of the process
    OptionDefs      \* the words that are options (see CommandLine)

\* The options on a command line.
Split(argv) == SplitCommandline(OptionDefs, DOMAIN InputFiles \cup DOMAIN OutputFormats, argv)

\* A life of the process is a list of command lines, a command line a list of
\* words, and the open pads of the filtergraphs it describes are lists.
ASSUME SessionsAssumption ==
    \A session \in Sessions :
        /\ IsList(session)
        /\ \A argv \in Range(session) :
              /\ IsList(argv)
              /\ \A desc \in Range(OptAll(Split(argv).global, "filter_complex")) :
                    IsList(desc.ins) /\ IsList(desc.outs)

VARIABLES
    todo,           \* the command lines still to come
    octx,           \* the options of this one, split into groups
    prog,           \* the files, filtergraphs and decoders, and the graph
    pc, next

vars == <<todo, octx, prog, pc, next>>

DefaultOptions ==
    [copy_ts |-> FALSE, start_at_zero |-> FALSE, recast_media |-> FALSE, overwrite |-> FALSE,
     copy_unknown |-> FALSE, ignore_unknown |-> FALSE]

\* What resetFFmpegGlobal() and the cleanup of the run before leave: the global
\* options are not among it.
Cleaned(global) ==
    [err |-> "", sch |-> NoGraph, files |-> <<>>, fgs |-> <<>>, outs |-> <<>>, decs |-> <<>>,
     global |-> global, src |-> NoNode]

Init ==
    /\ todo \in Sessions
    /\ octx = EmptySplit
    /\ prog = Cleaned(DefaultOptions)
    /\ pc = "idle"
    /\ next = 1

\* runFFmpeg, main, and the splitting of the command line.
RunFFmpeg ==
    /\ pc = "idle" /\ todo # <<>>
    /\ octx' = Split(Head(todo))
    /\ todo' = Tail(todo)
    /\ prog' = IF octx'.err = "" THEN prog ELSE Fail(prog, octx'.err)
    /\ pc' = "options"
    /\ UNCHANGED next

\* Global options: those that are not given keep what they had.
ParseGlobalOptions ==
    /\ pc = "options" /\ prog.err = ""
    /\ prog' = [prog EXCEPT !.global = [name \in DOMAIN @ |-> Opt(octx.global, name, @[name])]]
    /\ pc' = "filtergraphs"
    /\ UNCHANGED <<todo, octx, next>>

\* open_files and the loop over -filter_complex: one item after the other.
Each(here, items, there, Op(_, _)) ==
    /\ pc = here /\ prog.err = ""
    /\ IF next \in DOMAIN items
       THEN prog' = Op(prog, items[next]) /\ next' = next + 1 /\ UNCHANGED pc
       ELSE pc' = there /\ next' = 1 /\ UNCHANGED prog
    /\ UNCHANGED <<todo, octx>>

Opened(kind, v, group, Open(_, _, _)) ==
    IF GroupAccepted(kind, group) THEN Open(v, group.opts, group.arg)
    ELSE Fail(v, "option cannot be applied to this kind of file")

CreateFiltergraphs == Each("filtergraphs", OptAll(octx.global, "filter_complex"), "inputs",
                           LAMBDA v, desc : FgCreate(v, desc, FALSE))
OpenInputs  == Each("inputs", octx.input, "outputs", LAMBDA v, g : Opened("input", v, g, IfileOpen))
OpenOutputs == Each("outputs", octx.output, "decoders", LAMBDA v, g : Opened("output", v, g, OfOpen))
CreateDecoders == Each("decoders", octx.dec, "bindings",
                       LAMBDA v, g : Opened("dec", v, g, LAMBDA u, opts, arg : DecCreate(u, arg)))

FinaliseBindings ==
    /\ pc = "bindings" /\ prog.err = ""
    /\ prog' = FgFinaliseBindings(prog)
    /\ pc' = "offsets"
    /\ UNCHANGED <<todo, octx, next>>

SetOffsets ==
    /\ pc = "offsets" /\ prog.err = ""
    /\ prog' = ApplySyncOffsets(CorrectInputStartTimes(prog))
    /\ pc' = "parsed"
    /\ UNCHANGED <<todo, octx, next>>

\* main and sch_start: threads are started for a graph that is prepared.
Transcode ==
    /\ pc = "parsed" /\ prog.err = ""
    /\ IF prog.outs # <<>> /\ StartPrepare(prog.sch) THEN pc' = "running" /\ UNCHANGED prog
       ELSE prog' = Fail(prog, "not started") /\ UNCHANGED pc
    /\ UNCHANGED <<todo, octx, next>>

\* ffmpeg_cleanup: after the run, or as soon as something fails.
Cleanup ==
    /\ pc = "running" \/ prog.err # ""
    /\ prog' = Cleaned(prog.global)
    /\ octx' = EmptySplit
    /\ pc' = "idle"
    /\ next' = 1
    /\ UNCHANGED todo

Next == \/ RunFFmpeg \/ ParseGlobalOptions \/ CreateFiltergraphs \/ OpenInputs \/ OpenOutputs
        \/ CreateDecoders \/ FinaliseBindings \/ SetOffsets \/ Transcode \/ Cleanup

Spec == Init /\ [][Next]_vars

-----------------------------------------------------------------------------
(* Properties                                                              *)

\* A run does what its own command line says: "resetFFmpegGlobal() resets the
\* global option variables" (ANDROID_PATCHES.md, PATCH 4).
FreshStart ==
    pc = "filtergraphs" => \A name \in DOMAIN DefaultOptions :
        prog.global[name] = Opt(octx.global, name, DefaultOptions[name])

\* The loopback decoders nothing reads from.
IdleDecoders == {n \in DOMAIN prog.decs : Dsts(prog.sch, Node("dec", prog.decs[n].sch, 1)) = <<>>}

\* Whatever the command line, the options are read without an assertion of the
\* program failing, and what they make of it can be started: every stream that
\* is demuxed goes somewhere, every filtergraph, encoder and muxer is fed, once
\* each (sch_connect, start_prepare).  It is refused at the start only for a
\* cycle, or for a loopback decoder that was asked for and is not used.
StartsUnlessRefused ==
    /\ prog.err # Assertion
    /\ pc = "parsed" /\ prog.err \in {"", "not started"} /\ prog.outs # <<>> =>
          (StartPrepare(prog.sch) <=> ~HasCycle(prog.sch) /\ IdleDecoders = {})

\* The streams of a file that are interleaved.
Streams_(of) == {s \in DOMAIN of.streams : Interleaved(of.streams[s])}

\* What is asked of a stream depends on others, and reaches a queue that has
\* them (setup_sync_queues).  A number of frames limits the stream in some
\* queue.  With -shortest, the interleaved streams of a file, if there are
\* several, can all end one another: they share a queue and limit it.  An
\* encoder of sound that takes frames of one size only gets them from a queue.
QueuesAsNeeded ==
    pc \in {"decoders", "parsed", "running"} => \A o \in DOMAIN prog.outs :
        LET of == prog.outs[o]
            Queues(s) == {of.streams[s].sq_enc, of.streams[s].sq_mux} \ {NoQueue}
            shortest == Opt(octx.output[o].opts, "shortest", FALSE)
        IN  \A s \in Streams_(of) :
              /\ Limited(of.streams[s]) =>
                    \E q \in Queues(s) : q.limiting /\ q.frames = of.streams[s].max_frames
              /\ OneFrameSize(of.streams[s]) => of.streams[s].sq_enc # NoQueue
              /\ shortest /\ Cardinality(Streams_(of)) > 1 =>
                    \/ \A t \in Streams_(of) : of.streams[t].sq_enc # NoQueue /\ of.streams[t].sq_enc.limiting
                    \/ \A t \in Streams_(of) : of.streams[t].sq_mux # NoQueue /\ of.streams[t].sq_mux.limiting

\* No tag that tells of the encoding a stream had is left on a stream of video or
\* audio that is encoded again, however it got there, unless it was to be kept or
\* was given anew; and those of the file are gone as soon as one such stream is
\* encoded.  Subtitles that are encoded keep theirs, as copy_meta looks at video
\* and audio only; the tags of the input's container are left on no stream.
NoStaleTags ==
    pc = "decoders" => \A o \in DOMAIN prog.outs :
        LET of   == prog.outs[o]
            opts == octx.output[o].opts
            Asked(s, tag) == KeepsTag(of, s, opts, tag)
        IN  /\ \A tag \in StaleTags(of.meta, EncodedTypes(of, DOMAIN of.streams)) : Asked(0, tag)
            /\ \A s \in DOMAIN of.streams :
                  \A tag \in StaleTags(of.streams[s].meta, EncodedTypes(of, {s})) : Asked(s, tag)
=============================================================================
