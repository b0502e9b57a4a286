------------------------------ MODULE Bindings ------------------------------
(***************************************************************************)
(* What is decoded, and what filtergraphs are connected to                 *)
(* (ffmpeg_demux.c: ist_use, ist_filter_add; ffmpeg_dec.c: dec_create;     *)
(* ffmpeg_filter.c: fg_create to fg_finalise_bindings).                    *)
(*                                                                         *)
(* The state of the setup is one record w, an operation a function from    *)
(* such records to such records:                                           *)
(*   err     why the program gives up ("" if it does not)                  *)
(*   sch     the transcoding graph built so far                            *)
(*   files   input_files; of each its streams and groups                   *)
(*   fgs     filtergraphs: those of -filter_complex and of tile grids      *)
(*   outs    output_files                                                  *)
(*   decs    decoders: the loopback ones                                   *)
(*   global  the global options                                            *)
(*   src     the node a call hands back                                    *)
(* A link label is a tuple: <<>> none, <<"dec", n>> for [dec:n],           *)
(* <<"file", f, spec>> for one that reads as a stream specifier, <<name>>  *)
(* for any other.  Numbers count from 1.                                   *)
(***************************************************************************)
EXTENDS SchedSetup, CommandLine

Fail(w, why) == [w EXCEPT !.err = why]

\* What is said when an av_assert0() does not hold: the program aborts.
Assertion == "assertion failed"

\* Op runs only after what came before it succeeded.
Then(w, Op(_)) == IF w.err = "" THEN Op(w) ELSE w

\* Op for each member of a sequence, until one fails.
ForEach(w, seq, Op(_, _)) ==
    FoldLeft(LAMBDA v, x : IF v.err = "" THEN Op(v, x) ELSE v, w, seq)

SchConnect(w, src, dst) ==
    IF MayConnect(w.sch, src, dst) THEN [w EXCEPT !.sch = Connect(@, src, dst)]
    ELSE Fail(w, Assertion)

-----------------------------------------------------------------------------
(* Input streams                                                           *)

Ist(w, f, i) == w.files[f].streams[i]

InputStreams(w) ==
    FlattenSeq([f \in DOMAIN w.files |-> [i \in DOMAIN w.files[f].streams |-> <<f, i>>]])

\* ist_find_unused: <<>> if there is none.
IstFindUnused(w, type) ==
    LET unused == Those(InputStreams(w),
                            LAMBDA p : LET ist == Ist(w, p[1], p[2])
                                       IN  ist.type = type /\ ist.discard
                                           /\ ist.user_set_discard # "all")
    IN  IF unused = <<>> THEN <<>> ELSE unused[1]

\* The parts of ist_use: the stream is demuxed from now on, ...
Demuxed(w, f, i) ==
    LET ist == Ist(w, f, i)
        sch == IF ist.sch = 0 THEN AddDemuxStream(w.sch, f) ELSE w.sch
    IN  [w EXCEPT !.sch = sch,
                  !.files[f].streams[i] = [ist EXCEPT !.sch = IF ist.sch = 0 THEN sch.demux[f] ELSE @,
                                                    !.discard = FALSE,
                                                    !.st_discard = ist.user_set_discard]]

\* ... with the base stream of an LCEVC group of two comes the enhancement
\* stream; the first such group the stream is in counts, ...
Enhanced(w, f, i) ==
    LET pairs == Those(w.files[f].groups,
                       LAMBDA g : g.type = "lcevc" /\ Len(g.streams) = 2 /\ i \in Range(g.streams))
        els   == IF pairs = <<>> THEN {} ELSE {pairs[1].el}
    IN  [w EXCEPT !.files[f].streams = [s \in DOMAIN @ |->
            IF s \in els \ {i} THEN [@[s] EXCEPT !.st_discard = "none"] ELSE @[s]]]

\* ... and if decoding is needed there is a decoder.
Decoded(w, f, i) ==
    LET sch == AddDec(w.sch)
    IN  IF Ist(w, f, i).decoder # 0 THEN w
        ELSE SchConnect([w EXCEPT !.sch = sch, !.files[f].streams[i].decoder = sch.nb_dec],
                        Node("demux", f, Ist(w, f, i).sch), Node("dec", sch.nb_dec, 1))

\* ist_use: hands back the decoder or the demuxer's stream; both are set up once.
IstUse(w, f, i, decoding) ==
    LET used == Enhanced(Demuxed(w, f, i), f, i)
        Handed(v) ==
            [v EXCEPT !.src = IF decoding THEN Node("dec", Ist(v, f, i).decoder, 1)
                              ELSE Node("demux", f, Ist(v, f, i).sch)]
    IN  IF Ist(w, f, i).user_set_discard = "all" THEN Fail(w, "disabled input stream")
        ELSE IF decoding /\ ~Ist(w, f, i).dec THEN Fail(w, "no decoder found")
        ELSE Then(IF decoding THEN Decoded(used, f, i) ELSE used, Handed)

\* ist_filter_add: subtitles for a filtergraph need heartbeats of the other streams.
IstFilterAdd(w, f, i) ==
    Then(IstUse(w, f, i, TRUE),
         LAMBDA v : [v EXCEPT !.files[f].streams[i].sub2video = (Ist(v, f, i).type = "subtitle")])

-----------------------------------------------------------------------------
(* Inputs and outputs of filtergraphs                                      *)

In(w, f, k)  == w.fgs[f].ins[k]
Out(w, f, k) == w.fgs[f].outs[k]

\* What a pad of this type takes.
Takes(type, of) == type = of \/ <<type, of>> = <<"video", "subtitle">>

\* ifilter_bind_ist: node is the filtergraph's input.
IfilterBindIst(w, node, type, f, i) ==
    IF ~Takes(type, Ist(w, f, i).type) THEN Fail(w, "stream of another type than the filtergraph input")
    ELSE Then(IstFilterAdd(w, f, i), LAMBDA v : SchConnect(v, v.src, node))

\* ifilter_bind_dec
IfilterBindDec(w, f, k, n) ==
    LET bound == [w EXCEPT !.fgs[f].ins[k].bound = TRUE]
    IN  IF In(w, f, k).bound THEN Fail(w, Assertion)
        ELSE IF In(w, f, k).type # w.decs[n].type THEN Fail(bound, "decoder of another type than the filtergraph input")
        ELSE SchConnect(bound, Node("dec", w.decs[n].sch, 1), Node("fin", w.fgs[f].sch, k))

\* ofilter_bind_enc of an output of a complex filtergraph: its label is gone
\* then.  The encoder is for the type of the output: OstBindFilter has seen to it.
OfilterBindEnc(w, f, k, enc) ==
    IF Out(w, f, k).bound THEN Fail(w, Assertion)
    ELSE SchConnect([w EXCEPT !.fgs[f].outs[k] = [@ EXCEPT !.bound = TRUE, !.needed = TRUE, !.label = <<>>]],
                    Node("fout", w.fgs[f].sch, k), Node("enc", enc, 1))

\* ofilter_bind_ifilter
OfilterBindIfilter(w, f, k, type) ==
    IF Out(w, f, k).bound \/ Out(w, f, k).type # type THEN Fail(w, Assertion)
    ELSE [w EXCEPT !.fgs[f].outs[k] = [@ EXCEPT !.bound = TRUE, !.needed = TRUE, !.label = <<>>]]

\* ifilter_bind_fg: the source's number in the graph is taken to be its index.
IfilterBindFg(w, f, k, from, out) ==
    LET bound == [w EXCEPT !.fgs[f].ins[k].bound = TRUE]
    IN  IF In(w, f, k).bound THEN Fail(w, Assertion)
        ELSE IF In(w, f, k).type # Out(w, from, out).type THEN Fail(bound, "output of another type than the input")
        ELSE Then(OfilterBindIfilter(bound, from, out, In(w, f, k).type),
                  LAMBDA v : SchConnect(v, Node("fout", v.fgs[from].index, out), Node("fin", v.fgs[f].sch, k)))

AV(pads) == \A k \in DOMAIN pads : pads[k].type \in {"video", "audio"}

\* fg_create: desc tells the pads a filtergraph description leaves open.
FgCreate(w, desc, internal) ==
    LET fg == [index    |-> Len(w.fgs) + 1,
               sch      |-> Len(w.sch.filters) + 1,
               internal |-> internal,
               ins      |-> [k \in DOMAIN desc.ins |-> With(desc.ins[k], [bound |-> FALSE])],
               outs     |-> [k \in DOMAIN desc.outs |-> With(desc.outs[k], [bound |-> FALSE, needed |-> FALSE])]]
        added == [w EXCEPT !.fgs = Append(@, fg)]
    IN  IF ~AV(desc.ins) THEN Fail(added, "only video and audio filters")
        ELSE IF desc.outs = <<>> THEN Fail(added, "a filtergraph has zero outputs")
        ELSE [added EXCEPT !.sch = AddFiltergraph(@, Len(desc.ins), Len(desc.outs))]

\* fg_create_simple: from one stream to one encoder.
FgCreateSimple(w, f, i, desc, enc) ==
    LET type == Ist(w, f, i).type
        sch  == AddFiltergraph(w.sch, Len(desc.ins), Len(desc.outs))
        n    == Len(sch.filters)
    IN  IF ~AV(desc.ins) THEN Fail(w, "only video and audio filters")
        ELSE IF desc.outs = <<>> THEN Fail(w, "a filtergraph has zero outputs")
        ELSE IF Len(desc.ins) # 1 \/ Len(desc.outs) # 1 THEN Fail(w, "exactly 1 input and 1 output expected")
        ELSE IF desc.outs[1].type # type THEN Fail(w, "filtergraph output of another type")
        ELSE Then(IfilterBindIst([w EXCEPT !.sch = sch], Node("fin", n, 1), desc.ins[1].type, f, i),
                  LAMBDA v : SchConnect(v, Node("fout", n, 1), Node("enc", enc, 1)))

-----------------------------------------------------------------------------
(* fg_finalise_bindings                                                    *)

OutputPads(w) ==
    FlattenSeq([f \in DOMAIN w.fgs |-> [k \in DOMAIN w.fgs[f].outs |-> <<f, k>>]])

\* The first unbound output of another filtergraph: with this label, or any for <<>>.
UnboundOutput(w, f, label) ==
    LET found == Those(OutputPads(w),
                           LAMBDA p : /\ p[1] # f
                                      /\ ~Out(w, p[1], p[2]).bound
                                      /\ label # <<>> => Out(w, p[1], p[2]).label = label)
    IN  IF found = <<>> THEN <<>> ELSE found[1]

\* What a label that names no output stands for: with no number in front it is
\* read as the first file, and what is left after a specifier is not looked at.
NamedStreams(label) == IF label[1] = "file" THEN label ELSE <<"file", 1, AnyStream>>

\* The first stream a label names for an input of this type.
LabelledStream(w, label, type) ==
    LET file == w.files[label[2]]
        found == Those([i \in DOMAIN file.streams |-> i],
                           LAMBDA i : /\ Takes(type, file.streams[i].type)
                                      /\ StreamSpecifierMatch(label[3], file, i))
    IN  IF found = <<>> THEN <<>> ELSE <<label[2], found[1]>>

BindToStream(w, f, k, ist, commit) ==
    IF ~commit THEN w
    ELSE IfilterBindIst([w EXCEPT !.fgs[f].ins[k].bound = TRUE],
                        Node("fin", w.fgs[f].sch, k), In(w, f, k).type, ist[1], ist[2])

\* fg_complex_bind_input: first without commit, to see which outputs are needed.
\* A loopback decoder is bound at once.
FgComplexBindInput(w, f, k, commit) ==
    LET label  == In(w, f, k).label
        output == UnboundOutput(w, f, label)
        named  == NamedStreams(label)
        IsName(kind) == label # <<>> /\ label[1] = kind
    IN  IF IsName("dec")
        THEN IF label[2] \in DOMAIN w.decs THEN IfilterBindDec(w, f, k, label[2])
             ELSE Fail(w, "invalid decoder index")
        ELSE IF output # <<>>
        THEN IF commit THEN IfilterBindFg(w, f, k, output[1], output[2])
             ELSE [w EXCEPT !.fgs[output[1]].outs[output[2]].needed = TRUE]
        ELSE IF label = <<>>
        THEN IF IstFindUnused(w, In(w, f, k).type) = <<>> THEN Fail(w, "no unused input stream")
             ELSE BindToStream(w, f, k, IstFindUnused(w, In(w, f, k).type), commit)
        ELSE IF named[2] \notin DOMAIN w.files THEN Fail(w, "invalid file index or specifier")
        ELSE IF LabelledStream(w, named, In(w, f, k).type) = <<>> THEN Fail(w, "specifier matches no streams")
        ELSE BindToStream(w, f, k, LabelledStream(w, named, In(w, f, k).type), commit)

\* bind_inputs for every filtergraph.
BindInputs(w, commit) ==
    LET One(v, p) == IF In(v, p[1], p[2]).bound THEN v ELSE FgComplexBindInput(v, p[1], p[2], commit)
    IN  ForEach(w, FlattenSeq([f \in DOMAIN w.fgs |-> [k \in DOMAIN w.fgs[f].ins |-> <<f, k>>]]), One)

\* Mutant: unconnected outputs are left alone.
CheckOutputs_Lax(w) ==
    LET One(v, f) ==
            IF \A k \in DOMAIN v.fgs[f].outs : v.fgs[f].outs[k].needed THEN v
            ELSE IF ~v.fgs[f].internal THEN v
            ELSE [v EXCEPT !.sch = RemoveFiltergraph(@, v.fgs[f].sch), !.fgs = RemoveAt(@, f)]
    IN  ForEach(w, Reverse([f \in DOMAIN w.fgs |-> f]), One)

\* An output nobody needs is an error, but a tile grid nobody needs goes away.
CheckOutputs(w) ==
    LET One(v, f) ==
            IF \A k \in DOMAIN v.fgs[f].outs : v.fgs[f].outs[k].needed THEN v
            ELSE IF ~v.fgs[f].internal THEN Fail(v, "filter has an unconnected output")
            ELSE [v EXCEPT !.sch = RemoveFiltergraph(@, v.fgs[f].sch), !.fgs = RemoveAt(@, f)]
    IN  ForEach(w, Reverse([f \in DOMAIN w.fgs |-> f]), One)

FgFinaliseBindings(w) ==
    Then(Then(BindInputs(w, FALSE), CheckOutputs), LAMBDA v : BindInputs(v, TRUE))

-----------------------------------------------------------------------------
\* dec_create: a loopback decoder of what an output stream's encoder makes.
DecCreate(w, arg) ==
    LET sch == AddDec(w.sch)
        v   == [w EXCEPT !.sch = sch, !.decs = Append(@, [sch |-> sch.nb_dec, type |-> "unknown"])]
        ost == w.outs[arg.file].streams[arg.stream]
    IN  IF arg.file \notin DOMAIN w.outs THEN Fail(v, "invalid output file index")
        ELSE IF arg.stream \notin DOMAIN w.outs[arg.file].streams THEN Fail(v, "invalid output stream index")
        ELSE IF ost.enc = 0 THEN Fail(v, "output stream has no encoder")
        ELSE SchConnect([v EXCEPT !.decs[Len(v.decs)].type = ost.type],
                        Node("enc", ost.enc, 1), Node("dec", sch.nb_dec, 1))
=============================================================================
