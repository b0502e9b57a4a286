---------------------------- MODULE SetupProofs -----------------------------
(***************************************************************************)
(* Every step of a run keeps the graph and the tables of files in order,   *)
(* whatever the command lines and the input files are.  So a graph that    *)
(* was built without failure is well formed, each of its encoders sends to *)
(* a muxer (GraphBuilt), and the streams of every output file have the     *)
(* sync queues they need (QueuesSetUp).                                    *)
(***************************************************************************)
EXTENDS Setup, BindingProofs

-----------------------------------------------------------------------------
(* Output files                                                            *)

\* The fields of an output stream; the streams of a file, and a file.
OstFields ==
    {"id", "type", "pic", "usable", "default", "meta", "ist", "sch", "src", "enc", "encoder", "fixed_frame_size",
     "filter", "apad", "vsync", "max_frames", "heartbeat", "kf", "sq_enc", "sq_mux"}

StreamsOk(streams) == IsSeq(streams) /\ \A s \in DOMAIN streams : DOMAIN streams[s] = OstFields
OfOk(of)           == "streams" \in DOMAIN of /\ StreamsOk(of.streams)

\* The file that is written last is number o.
OutsOk(outs, o)    == IsSeq(outs) /\ DOMAIN outs = 1 .. o /\ o \in DOMAIN outs /\ OfOk(outs[o])

\* The files before it are the same.
Others(outs, new, o) == \A p \in 1 .. o : p # o => new[p] = outs[p]

\* What adding to output file o leaves, e being an encoder that is not connected to
\* a muxer yet, or 0.
AddingBut(w, o, e, v) ==
    Fine(v) => Sound(v, e) /\ OutsOk(v.outs, o) /\ Others(w.outs, v.outs, o) /\ Rewired(w.fgs, v.fgs)

Adding(w, o, v) == AddingBut(w, o, 0, v)

Ready(w, o) == Sound(w, 0) /\ OutsOk(w.outs, o)

\* Nothing happens, or it fails.
LEMMA AddingNot ==
    ASSUME NEW w, NEW e, Sound(w, e), NEW o, OutsOk(w.outs, o)
    PROVE  AddingBut(w, o, e, w) /\ \A why : why # "" => \A d : AddingBut(w, o, d, Fail(w, why)) /\ ~Fine(Fail(w, why))
<1>1. "err" \in DOMAIN w
  BY DEF Sound, Usable, Fields
<1>2. AddingBut(w, o, e, w)
  BY RewiredSame DEF AddingBut, Others
<1>3. ASSUME NEW why, why # "", NEW d PROVE AddingBut(w, o, d, Fail(w, why)) /\ ~Fine(Fail(w, why))
  BY <1>1, <1>3, NotFine DEF AddingBut
<1>. QED  BY <1>2, <1>3

\* One thing after the other.
LEMMA AddingTwice ==
    ASSUME NEW w, NEW o, NEW e, NEW d, NEW v, NEW u, AddingBut(w, o, e, v), Fine(v), AddingBut(v, o, d, u)
    PROVE  AddingBut(w, o, d, u)
BY RewiredTwice DEF AddingBut, Others

\* Nothing but the last file has changed.
Rewritten(w, o, e, u) ==
    /\ Sound(u, e) /\ OutsOk(u.outs, o) /\ Others(w.outs, u.outs, o) /\ u.fgs = w.fgs
    /\ u.err = w.err /\ u.src = w.src

\* To change the last file is to add to it.
LEMMA RewrittenAdding ==
    ASSUME NEW w, NEW o, NEW e, NEW u, Rewritten(w, o, e, u)
    PROVE  AddingBut(w, o, e, u) /\ (Fine(w) => Fine(u))
BY RewiredSame DEF Rewritten, AddingBut, Fine

\* Another file, other streams, another stream.
WithOf(w, o, x)      == [w EXCEPT !.outs[o] = x]
WithStreams(w, o, r) == [w EXCEPT !.outs[o].streams = r]
WithOst(w, o, s, y)  == [w EXCEPT !.outs[o].streams[s] = y]

\* Another file in the place of the last one.
LEMMA OfChanged ==
    ASSUME NEW w, NEW e, Sound(w, e), NEW o, OutsOk(w.outs, o), NEW x, OfOk(x), NEW u, u = WithOf(w, o, x)
    PROVE  Rewritten(w, o, e, u) /\ u.outs[o] = x
<1>1. PICK outs : outs = [w.outs EXCEPT ![o] = x]
  OBVIOUS
<1>2. u = [w EXCEPT !.outs = outs]
  BY <1>1 DEF WithOf
<1>3. /\ DOMAIN u = Fields /\ u.outs = outs /\ u.sch = w.sch /\ u.files = w.files /\ u.fgs = w.fgs /\ u.err = w.err
      /\ u.src = w.src
  BY <1>2 DEF Sound, Usable, Fields
<1>4. PICK old : old = w.outs
  OBVIOUS
<1>5. IsSeq(old) /\ DOMAIN old = 1 .. o /\ o \in DOMAIN old /\ outs = [old EXCEPT ![o] = x]
  BY <1>1, <1>4 DEF OutsOk
<1>6. outs = [p \in DOMAIN old |-> outs[p]]
  BY <1>5
<1>7. IsSeq(outs) /\ DOMAIN outs = DOMAIN old
  BY <1>5, <1>6, SameSeq
<1>8. outs[o] = x /\ \A p \in 1 .. o : p # o => outs[p] = old[p]
  BY <1>5
<1>9. OutsOk(outs, o) /\ Others(w.outs, outs, o)
  BY <1>4, <1>5, <1>7, <1>8 DEF OutsOk, Others
<1>10. Usable(u) /\ FedBut(u.sch, e)
  BY <1>3 DEF Sound, Usable
<1>11. Sound(u, e)
  <2>1. FilesOk(u.files) /\ Alike(w.files, u.files) /\ FgsOk(u.fgs) /\ Rewired(w.fgs, u.fgs)
    BY <1>3, RewiredSame DEF Sound, Usable, Alike
  <2>2. Grown(w.sch, u.sch, {})
    BY <1>3, GrownSame DEF Sound, Usable
  <2>3. \A f \in DOMAIN w.fgs : w.fgs[f].internal /\ w.fgs[f].sch \in {} => u.fgs[f].outs[1].needed
    OBVIOUS
  <2>4. DOMAIN u = Fields /\ FedBut(u.sch, e)
    BY <1>3, <1>10
  <2>. QED  BY <2>1, <2>2, <2>3, <2>4, SoundOn
<1>. QED  BY <1>3, <1>8, <1>9, <1>11 DEF Rewritten

\* Other streams of the last file, as many.
LEMMA StreamsChanged ==
    ASSUME NEW w, NEW e, Sound(w, e), NEW o, OutsOk(w.outs, o), NEW r, r = [s \in DOMAIN w.outs[o].streams |-> r[s]],
           \A s \in DOMAIN w.outs[o].streams : DOMAIN r[s] = OstFields,
           NEW u, u = WithStreams(w, o, r)
    PROVE  Rewritten(w, o, e, u) /\ u.outs[o].streams = r
<1>1. PICK x : x = [w.outs[o] EXCEPT !.streams = r]
  OBVIOUS
<1>2. u = WithOf(w, o, x)
  BY <1>1 DEF WithOf, WithStreams
<1>3. PICK of : of = w.outs[o]
  OBVIOUS
<1>4. OfOk(of)
  BY <1>3 DEF OutsOk
<1>5. x.streams = r /\ DOMAIN x = DOMAIN of
  BY <1>1, <1>3, <1>4 DEF OfOk
<1>6. IsSeq(r) /\ DOMAIN r = DOMAIN of.streams
  <2>1. IsSeq(of.streams)
    BY <1>4 DEF OfOk, StreamsOk
  <2>. QED  BY <1>3, <2>1, SameSeq
<1>7. OfOk(x)
  BY <1>3, <1>4, <1>5, <1>6 DEF OfOk, StreamsOk
<1>8. Rewritten(w, o, e, u) /\ u.outs[o] = x
  BY <1>2, <1>7, OfChanged
<1>. QED  BY <1>5, <1>8

\* Another stream in the place of one of the last file.
LEMMA OstChanged ==
    ASSUME NEW w, NEW e, Sound(w, e), NEW o, OutsOk(w.outs, o), NEW s, NEW y,
           s \in DOMAIN w.outs[o].streams => DOMAIN y = OstFields,
           NEW u, u = WithOst(w, o, s, y)
    PROVE  /\ Rewritten(w, o, e, u)
           /\ DOMAIN u.outs[o].streams = DOMAIN w.outs[o].streams
           /\ s \in DOMAIN w.outs[o].streams => u.outs[o].streams[s] = y
<1>1. PICK r : r = [w.outs[o].streams EXCEPT ![s] = y]
  OBVIOUS
<1>2. u = WithStreams(w, o, r)
  BY <1>1 DEF WithStreams, WithOst
<1>3. r = [t \in DOMAIN w.outs[o].streams |-> r[t]]
  BY <1>1
<1>4. /\ DOMAIN r = DOMAIN w.outs[o].streams
      /\ \A t \in DOMAIN w.outs[o].streams : r[t] = IF t = s THEN y ELSE w.outs[o].streams[t]
  BY <1>1
<1>5. \A t \in DOMAIN w.outs[o].streams : DOMAIN r[t] = OstFields
  BY <1>4 DEF OutsOk, OfOk, StreamsOk
<1>6. Rewritten(w, o, e, u) /\ u.outs[o].streams = r
  BY <1>2, <1>3, <1>5, StreamsChanged
<1>. QED  BY <1>4, <1>6

-----------------------------------------------------------------------------
(* A stream of an output file                                              *)

\* The setup fails, for some reason.
Refused(w, u) == \E why : why # "" /\ u = Fail(w, why)

\* What is refused is not fine.
LEMMA RefusedNot ==
    ASSUME NEW w, "err" \in DOMAIN w, NEW u, Refused(w, u)
    PROVE  ~Fine(u)
BY NotFine DEF Refused

\* The graph alone grows.
WithSch(w, g) == [w EXCEPT !.sch = g]

\* Sound stays so when the graph grows.
LEMMA SchGrown ==
    ASSUME NEW w, NEW c, Sound(w, c), NEW g, Grown(w.sch, g, {}), NEW e, FedBut(g, e), NEW u, u = WithSch(w, g)
    PROVE  Sound(u, e) /\ u.err = w.err /\ u.outs = w.outs /\ u.fgs = w.fgs
<1>1. DOMAIN u = Fields /\ u.files = w.files /\ u.fgs = w.fgs /\ u.outs = w.outs /\ u.err = w.err /\ u.sch = g
  BY DEF Sound, Usable, Fields, WithSch
<1>2. FilesOk(u.files) /\ Alike(w.files, u.files) /\ FgsOk(u.fgs) /\ Rewired(w.fgs, u.fgs)
  BY <1>1, RewiredSame DEF Sound, Usable, Alike
<1>3. Grown(w.sch, u.sch, {}) /\ FedBut(u.sch, e)
  BY <1>1
<1>4. \A f \in DOMAIN w.fgs : w.fgs[f].internal /\ w.fgs[f].sch \in {} => u.fgs[f].outs[1].needed
  OBVIOUS
<1>5. DOMAIN u = Fields
  BY <1>1
<1>6. Sound(u, e)
  BY <1>2, <1>3, <1>4, <1>5, SoundOn
<1>. QED  BY <1>1, <1>6

\* A new stream has those fields, and no encoder.
LEMMA NewOstFields ==
    ASSUME NEW type, NEW ist, NEW id, NEW sch
    PROVE  DOMAIN NewOst(type, ist, id, sch) = OstFields /\ NewOst(type, ist, id, sch).enc = 0
<1>1. PICK no : no = ""
  OBVIOUS
<1>2. NewOst(type, ist, id, sch) =
        [id |-> id, type |-> type, pic |-> FALSE, usable |-> TRUE, default |-> FALSE, meta |-> NoTags,
         ist |-> ist, sch |-> sch, src |-> 0, enc |-> 0, encoder |-> no, fixed_frame_size |-> FALSE,
         filter |-> FALSE, apad |-> FALSE, vsync |-> no, max_frames |-> INF, heartbeat |-> FALSE, kf |-> <<>>,
         sq_enc |-> NoQueue, sq_mux |-> NoQueue]
  BY <1>1 DEF NewOst
<1>. QED  BY <1>2 DEF OstFields

\* A stream more, and perhaps a stream of the muxer.
WithMore(w, o, g, ost) == [w EXCEPT !.sch = g, !.outs[o].streams = Append(@, ost)]

\* The last file has a stream more.
LEMMA OstAppended ==
    ASSUME NEW w, NEW o, Ready(w, o), NEW g, g = w.sch \/ g = AddMuxStream(w.sch, o), NEW ost, DOMAIN ost = OstFields,
           NEW s, s = Len(w.outs[o].streams) + 1, NEW u, u = WithMore(w, o, g, ost)
    PROVE  /\ Ready(u, o) /\ Others(w.outs, u.outs, o) /\ u.fgs = w.fgs /\ u.err = w.err
           /\ s \in DOMAIN u.outs[o].streams /\ u.outs[o].streams[s] = ost
<1>1. Sound(w, 0) /\ OutsOk(w.outs, o)
  BY DEF Ready
<1>2. Grown(w.sch, g, {}) /\ FedBut(g, 0)
  <2>1. GraphOk(w.sch) /\ FedBut(w.sch, 0)
    BY <1>1 DEF Sound, Usable
  <2>2. Grown(w.sch, g, {}) /\ g.nb_enc = w.sch.nb_enc
    <3>1. CASE g = w.sch
      BY <2>1, <3>1, GrownSame
    <3>2. CASE g = AddMuxStream(w.sch, o)
      BY <2>1, <3>2, AddedGrown
    <3>. QED  BY <3>1, <3>2
  <2>. QED  BY <2>1, <2>2, FedOn
<1>3. PICK v : v = WithSch(w, g)
  OBVIOUS
<1>4. Sound(v, 0) /\ v.err = w.err /\ v.outs = w.outs /\ v.fgs = w.fgs
  BY <1>1, <1>2, <1>3, SchGrown
<1>5. PICK r : r = Append(w.outs[o].streams, ost)
  OBVIOUS
<1>6. PICK x : x = [w.outs[o] EXCEPT !.streams = r]
  OBVIOUS
<1>7. u = WithOf(v, o, x)
  <2>1. "sch" # "outs"
    OBVIOUS
  <2>. QED  BY <1>3, <1>5, <1>6, <2>1 DEF WithMore, WithOf, WithSch
<1>8. PICK of : of = w.outs[o]
  OBVIOUS
<1>9. OfOk(of)
  BY <1>1, <1>8 DEF OutsOk
<1>10. PICK streams : streams = of.streams
  OBVIOUS
<1>11. IsSeq(streams) /\ (\A t \in DOMAIN streams : DOMAIN streams[t] = OstFields) /\ "streams" \in DOMAIN of
  BY <1>9, <1>10 DEF OfOk, StreamsOk
<1>12. x.streams = r /\ DOMAIN x = DOMAIN of
  BY <1>6, <1>8, <1>11
<1>13. r = Append(streams, ost) /\ s = Len(streams) + 1
  BY <1>5, <1>8, <1>10
<1>14. IsSeq(r) /\ DOMAIN r = 1 .. Len(streams) + 1 /\ (\A t \in DOMAIN streams : r[t] = streams[t]) /\ r[s] = ost
  BY <1>11, <1>13, AppendSeq
<1>15. Len(streams) \in Nat /\ DOMAIN streams = 1 .. Len(streams)
  BY <1>11, SeqDomain
<1>16. \A t \in DOMAIN r : t \in DOMAIN streams \/ t = s
  BY <1>13, <1>14, <1>15
<1>17. OfOk(x)
  BY <1>11, <1>12, <1>14, <1>16 DEF OfOk, StreamsOk
<1>18. s \in DOMAIN r
  BY <1>13, <1>14, <1>15
<1>19. OutsOk(v.outs, o)
  BY <1>1, <1>4
<1>20. Rewritten(v, o, 0, u) /\ u.outs[o] = x
  BY <1>4, <1>7, <1>17, <1>19, OfChanged
<1>21. /\ Sound(u, 0) /\ OutsOk(u.outs, o) /\ Others(w.outs, u.outs, o) /\ u.fgs = w.fgs /\ u.err = w.err
  BY <1>4, <1>20 DEF Rewritten
<1>. QED  BY <1>12, <1>14, <1>18, <1>20, <1>21 DEF Ready

\* What looking after stream s of output file o leaves before it is connected: its
\* encoder, if it has one, does not feed the muxer yet.
Coming(w, o, s, v) ==
    Fine(v) =>
        /\ s \in DOMAIN v.outs[o].streams
        /\ Sound(v, v.outs[o].streams[s].enc)
        /\ OutsOk(v.outs, o) /\ Others(w.outs, v.outs, o) /\ Rewired(w.fgs, v.fgs)
        /\ v.outs[o].streams[s].enc # 0 => v.outs[o].streams[s].type \in AVTypes \cup {"subtitle"}

\* The stream gets encoder n.
Encoding(w, o, s, name, fixed) ==
    LET sch == AddEnc(w.sch)
    IN  [w EXCEPT !.sch = sch,
                  !.outs[o].streams[s] = [@ EXCEPT !.enc = sch.nb_enc, !.encoder = name, !.fixed_frame_size = fixed]]

\* choose_encoder copies the stream, fails or gives it an encoder.
LEMMA ChooseEncoderIs ==
    ASSUME NEW w, NEW o, NEW opts, NEW s, NEW u, u = ChooseEncoder(w, o, opts, s)
    PROVE  \/ u = w
           \/ Refused(w, u)
           \/ /\ w.outs[o].streams[s].type \in AVTypes \cup {"subtitle"}
              /\ \E name, fixed : u = Encoding(w, o, s, name, fixed)
<1> DEFINE type == w.outs[o].streams[s].type
           name == EncoderName(w, o, opts, s)
           fixed == FixedFrameSize(w.outs[o].format, Encoders[name])
<1>1. u = IF OptOf(w, o, opts, s, "c", "") = "copy" \/ (name = "" /\ type \notin AVTypes \cup {"subtitle"}) THEN w
          ELSE IF type \notin AVTypes \cup {"subtitle"} THEN Fail(w, "only -c copy for streams of this type")
          ELSE IF name = "" THEN Fail(w, "automatic encoder selection failed")
          ELSE IF name \notin DOMAIN Encoders THEN Fail(w, "unknown encoder")
          ELSE IF Encoders[name].type # type /\ ~w.global.recast_media THEN Fail(w, "invalid encoder type")
          ELSE Encoding(w, o, s, name, fixed)
  BY DEF ChooseEncoder, Encoding
<1> HIDE DEF type, name, fixed
<1>2. \/ u = w
      \/ Refused(w, u)
      \/ type \in AVTypes \cup {"subtitle"} /\ u = Encoding(w, o, s, name, fixed)
  <2>1. \/ u = w
        \/ \E why : why # "" /\ u = Fail(w, why)
        \/ type \in AVTypes \cup {"subtitle"} /\ u = Encoding(w, o, s, name, fixed)
    BY <1>1
  <2>. QED  BY <2>1 DEF Refused
<1>. QED  BY <1>2 DEF type

\* A stream with an encoder is on its way to the muxer.
LEMMA EncodingComing ==
    ASSUME NEW w, NEW o, Ready(w, o), NEW s, s \in DOMAIN w.outs[o].streams,
           w.outs[o].streams[s].type \in AVTypes \cup {"subtitle"},
           NEW name, NEW fixed, NEW u, u = Encoding(w, o, s, name, fixed)
    PROVE  Coming(w, o, s, u)
<1>1. Sound(w, 0) /\ OutsOk(w.outs, o)
  BY DEF Ready
<1>2. PICK g : g = AddEnc(w.sch)
  OBVIOUS
<1>3. PICK e : e = g.nb_enc
  OBVIOUS
<1>4. Grown(w.sch, g, {}) /\ FedBut(g, e)
  <2>1. GraphOk(w.sch) /\ FedBut(w.sch, 0) /\ w.sch.nb_enc \in Nat
    BY <1>1 DEF Sound, Usable, GraphOk, WellFormed, Sized
  <2>2. Grown(w.sch, g, {}) /\ g.nb_enc = w.sch.nb_enc + 1
    BY <1>2, <2>1, AddedGrown
  <2>3. ASSUME NEW i \in 1 .. g.nb_enc, i # e PROVE i \in 1 .. w.sch.nb_enc /\ i # 0
    BY <1>3, <2>1, <2>2, <2>3
  <2>. QED  BY <2>1, <2>2, <2>3 DEF FedBut, Grown
<1>5. PICK v : v = WithSch(w, g)
  OBVIOUS
<1>6. Sound(v, e) /\ v.outs = w.outs /\ v.fgs = w.fgs
  BY <1>1, <1>4, <1>5, SchGrown
<1>7. PICK ost : ost = w.outs[o].streams[s]
  OBVIOUS
<1>8. DOMAIN ost = OstFields
  BY <1>1, <1>7 DEF OutsOk, OfOk, StreamsOk
<1>9. PICK y : y = [ost EXCEPT !.enc = e, !.encoder = name, !.fixed_frame_size = fixed]
  OBVIOUS
<1>10. DOMAIN y = OstFields /\ y.enc = e /\ y.type = ost.type
  BY <1>8, <1>9 DEF OstFields
<1>11. u = WithOst(v, o, s, y)
  BY <1>2, <1>3, <1>5, <1>7, <1>9 DEF Encoding, WithOst, WithSch
<1>12. OutsOk(v.outs, o) /\ s \in DOMAIN v.outs[o].streams
  BY <1>1, <1>6
<1>13. /\ Rewritten(v, o, e, u)
       /\ DOMAIN u.outs[o].streams = DOMAIN v.outs[o].streams
       /\ u.outs[o].streams[s] = y
  BY <1>6, <1>10, <1>11, <1>12, OstChanged
<1>14. /\ Sound(u, e) /\ OutsOk(u.outs, o) /\ Others(w.outs, u.outs, o) /\ u.fgs = w.fgs
  BY <1>6, <1>13 DEF Rewritten
<1>. QED  BY <1>7, <1>10, <1>12, <1>13, <1>14, RewiredSame DEF Coming

\* So is a stream choose_encoder was called for.
LEMMA ChooseEncoderComing ==
    ASSUME NEW w, NEW o, Ready(w, o), NEW s, s \in DOMAIN w.outs[o].streams, w.outs[o].streams[s].enc = 0,
           NEW opts, NEW u, u = ChooseEncoder(w, o, opts, s)
    PROVE  Coming(w, o, s, u)
<1>1. CASE u = w
  BY <1>1, RewiredSame DEF Coming, Ready, Others
<1>2. CASE Refused(w, u)
  <2>1. "err" \in DOMAIN w
    BY DEF Ready, Sound, Usable, Fields
  <2>. QED  BY <1>2, <2>1, RefusedNot DEF Coming
<1>3. CASE /\ w.outs[o].streams[s].type \in AVTypes \cup {"subtitle"}
           /\ \E name, fixed : u = Encoding(w, o, s, name, fixed)
  BY <1>3, EncodingComing
<1>4. \/ u = w
      \/ Refused(w, u)
      \/ /\ w.outs[o].streams[s].type \in AVTypes \cup {"subtitle"}
         /\ \E name, fixed : u = Encoding(w, o, s, name, fixed)
  BY ChooseEncoderIs
<1>. QED  BY <1>1, <1>2, <1>3, <1>4

\* A connection to a muxer, of the encoder that did not feed one yet or of something
\* else when all of them do.
LEMMA MuxedSound ==
    ASSUME NEW x, NEW e, Sound(x, e), NEW src, NEW dst, dst[1] = "mux",
           \/ src[1] = "enc" /\ src[2] = e
           \/ e = 0 /\ src[1] # "fout",
           NEW u, u = SchConnect(x, src, dst), Fine(u)
    PROVE  Sound(u, 0) /\ u.outs = x.outs /\ u.fgs = x.fgs
<1>1. CASE MayConnect(x.sch, src, dst)
  <2>1. PICK r : r = Connect(x.sch, src, dst)
    OBVIOUS
  <2>2. u = WithSch(x, r)
    BY <1>1, <2>1 DEF SchConnect, WithSch
  <2>3. src[1] # "fout" /\ dst[1] # "fin"
    OBVIOUS
  <2>4. PICK N : N = {}
    OBVIOUS
  <2>5. GraphOk(x.sch) /\ FedBut(x.sch, e)
    BY DEF Sound, Usable
  <2>6. Grown(x.sch, r, N) /\ r.nb_enc = x.sch.nb_enc /\ ((src[1] = "enc" /\ dst[1] = "mux") => FeedsMux(r, src[2]))
    BY <1>1, <2>1, <2>3, <2>5, ConnectGrown
  <2>7. FedBut(r, e)
    BY <2>5, <2>6, FedOn
  <2>8. FedBut(r, 0)
    BY <2>6, <2>7 DEF FedBut
  <2>. QED  BY <2>2, <2>4, <2>6, <2>8, SchGrown
<1>2. CASE ~MayConnect(x.sch, src, dst)
  <2>1. "err" \in DOMAIN x
    BY DEF Sound, Usable, Fields
  <2>2. \E why : why # "" /\ u = Fail(x, why)
    BY <1>2 DEF SchConnect, Assertion
  <2>. QED  BY <2>1, <2>2, NotFine
<1>. QED  BY <1>1, <1>2

\* A connection of a stream to its encoder, which does not feed a muxer yet.
LEMMA EncodedSound ==
    ASSUME NEW x, NEW e, Sound(x, e), NEW src, NEW dst, dst[1] = "enc", src[1] # "fout",
           NEW u, u = SchConnect(x, src, dst), Fine(u)
    PROVE  Sound(u, e) /\ u.outs = x.outs /\ u.fgs = x.fgs
<1>1. Usable(x)
  BY DEF Sound
<1>2. PICK N : N = {}
  OBVIOUS
<1>3. (src[1] = "fout" => src[2] \in N) /\ (dst[1] = "fin" => dst[2] \in N)
  OBVIOUS
<1>4. Moves(x, u, N)
  BY <1>1, <1>3, ConnectMoves
<1>5. Moves(x, u, {})
  BY <1>2, <1>4
<1>6. Sound(u, e)
  BY <1>5, MovesSound
<1>. QED  BY <1>5, <1>6 DEF Moves

\* new_stream_*: what the options of a stream set.
OptionsOf(ost, a, b, c, d) == [ost EXCEPT !.max_frames = a, !.heartbeat = b, !.vsync = c, !.apad = d]

Optioned(w, o, s, u) == \E a, b, c, d : u = WithOst(w, o, s, OptionsOf(w.outs[o].streams[s], a, b, c, d))

\* They fail, or set those fields.
LEMMA StreamOptionsIs ==
    ASSUME NEW w, NEW o, NEW opts, NEW s, NEW u, u = StreamOptions(w, o, opts, s)
    PROVE  \/ Refused(w, u)
           \/ Optioned(w, o, s, u)
<1> DEFINE type == w.outs[o].streams[s].type
           encoded == w.outs[o].streams[s].enc # 0
           bad == \/ type = "video" /\ ~VideoAccepted(w, o, opts, s)
                  \/ type = "subtitle" /\ ~SubtitleAccepted(w, o, s)
           a == OptOf(w, o, opts, s, "frames", INF)
           b == OptOf(w, o, opts, s, "fix_sub_duration_heartbeat", FALSE)
           c == IF type = "video" /\ encoded THEN VsyncMethod(w, o, opts, s) ELSE ""
           d == type = "audio" /\ encoded /\ OptOf(w, o, opts, s, "apad", FALSE)
<1>1. u = IF bad THEN Fail(w, "contradictory options of an output stream")
          ELSE WithOst(w, o, s, OptionsOf(w.outs[o].streams[s], a, b, c, d))
  BY DEF StreamOptions, WithOst, OptionsOf
<1> HIDE DEF bad, a, b, c, d
<1>2. CASE bad
  <2>1. \E why : why # "" /\ u = Fail(w, why)
    BY <1>1, <1>2
  <2>. QED  BY <2>1 DEF Refused
<1>3. CASE ~bad
  BY <1>1, <1>3 DEF Optioned
<1>. QED  BY <1>2, <1>3

\* new_stream_* leaves the stream on its way.
LEMMA StreamOptionsComing ==
    ASSUME NEW w, NEW o, NEW s, NEW v, Coming(w, o, s, v), Fine(v), NEW opts, NEW u, u = StreamOptions(v, o, opts, s)
    PROVE  Coming(w, o, s, u)
<1>1. /\ s \in DOMAIN v.outs[o].streams
      /\ Sound(v, v.outs[o].streams[s].enc)
      /\ OutsOk(v.outs, o) /\ Others(w.outs, v.outs, o) /\ Rewired(w.fgs, v.fgs)
      /\ v.outs[o].streams[s].enc # 0 => v.outs[o].streams[s].type \in AVTypes \cup {"subtitle"}
  BY DEF Coming
<1>2. CASE Refused(v, u)
  <2>1. "err" \in DOMAIN v
    BY <1>1 DEF Sound, Usable, Fields
  <2>. QED  BY <1>2, <2>1, RefusedNot DEF Coming
<1>3. CASE Optioned(v, o, s, u)
  <2>1. PICK ost : ost = v.outs[o].streams[s]
    OBVIOUS
  <2>2. PICK y : u = WithOst(v, o, s, y) /\ \E a, b, c, d : y = OptionsOf(ost, a, b, c, d)
    BY <1>3, <2>1 DEF Optioned
  <2>3. DOMAIN ost = OstFields
    BY <1>1, <2>1 DEF OutsOk, OfOk, StreamsOk
  <2>4. DOMAIN y = OstFields /\ y.enc = ost.enc /\ y.type = ost.type
    BY <2>2, <2>3 DEF OstFields, OptionsOf
  <2>5. PICK e : e = ost.enc
    OBVIOUS
  <2>6. Sound(v, e) /\ OutsOk(v.outs, o)
    BY <1>1, <2>1, <2>5
  <2>7. /\ Rewritten(v, o, e, u)
        /\ DOMAIN u.outs[o].streams = DOMAIN v.outs[o].streams
        /\ s \in DOMAIN v.outs[o].streams => u.outs[o].streams[s] = y
    BY <2>2, <2>4, <2>6, OstChanged
  <2>8. /\ Sound(u, e) /\ OutsOk(u.outs, o) /\ Others(v.outs, u.outs, o) /\ u.fgs = v.fgs
    BY <2>7 DEF Rewritten
  <2>9. Others(w.outs, u.outs, o)
    BY <1>1, <2>8 DEF Others
  <2>10. u.outs[o].streams[s] = y /\ s \in DOMAIN u.outs[o].streams
    BY <1>1, <2>7
  <2>11. Rewired(w.fgs, u.fgs)
    BY <1>1, <2>8
  <2>. QED  BY <1>1, <2>1, <2>4, <2>5, <2>8, <2>9, <2>10, <2>11 DEF Coming
<1>. QED  BY <1>2, <1>3, StreamOptionsIs

-----------------------------------------------------------------------------
(* What the stream comes from                                              *)

\* An output pad that a stream may come from: of a tile grid only the first.
PadOk(fgs, pad) ==
    pad = <<>> \/ (pad[1] \in DOMAIN fgs /\ (fgs[pad[1]].internal => pad[2] = 1))

\* A pad may be taken whatever else was rewired.
LEMMA PadStays ==
    ASSUME NEW fgs, NEW pad, PadOk(fgs, pad), NEW new, Rewired(fgs, new)
    PROVE  PadOk(new, pad)
BY DEF PadOk, Rewired

\* ofilter_bind_enc of a pad that may be bound.
LEMMA PadBound ==
    ASSUME NEW w, NEW e, Sound(w, e), Fine(w), NEW f, f \in DOMAIN w.fgs, NEW k, w.fgs[f].internal => k = 1, NEW enc,
           NEW u, u = OfilterBindEnc(w, f, k, enc), Fine(u)
    PROVE  Sound(u, e) /\ u.outs = w.outs /\ Rewired(w.fgs, u.fgs)
<1>1. Usable(w) /\ Grids(w)
  BY DEF Sound
<1>2. PICK N : N = {w.fgs[f].sch}
  OBVIOUS
<1>3. Binds(w, u, {w.fgs[f].sch}) /\ (Fine(u) => NeededIn(u, f, k))
  BY <1>1, OfilterBindEncBinds
<1>4. Binds(w, u, N) /\ NeededIn(u, f, k)
  BY <1>2, <1>3
<1>5. Rewired(w.fgs, u.fgs) /\ u.outs = w.outs
  BY <1>4 DEF Binds
<1>6. ASSUME NEW g \in DOMAIN w.fgs, w.fgs[g].internal, w.fgs[g].sch \in N PROVE u.fgs[g].outs[1].needed
  <2>1. w.fgs[g].sch = w.fgs[f].sch
    BY <1>2, <1>6
  <2>2. g = f
    BY <1>1, <2>1 DEF Grids
  <2>3. DOMAIN w.fgs[f].outs = {1} /\ k = 1
    BY <1>1, <1>6, <2>2 DEF Grids, Grid
  <2>4. f \in DOMAIN u.fgs /\ DOMAIN u.fgs[f].outs = {1}
    BY <1>5, <2>3 DEF Rewired
  <2>. QED  BY <1>4, <2>2, <2>3, <2>4 DEF NeededIn
<1>7. \A g \in DOMAIN w.fgs : w.fgs[g].internal /\ w.fgs[g].sch \in N => u.fgs[g].outs[1].needed
  BY <1>6
<1>8. Sound(u, e)
  BY <1>4, <1>7, BindsSound
<1>. QED  BY <1>5, <1>8

\* ost_bind_filter
LEMMA OstBindFilterAdding ==
    ASSUME NEW w, NEW o, NEW s, s \in DOMAIN w.outs[o].streams, NEW e, e = w.outs[o].streams[s].enc, Sound(w, e), Fine(w),
           OutsOk(w.outs, o), NEW pad, PadOk(w.fgs, pad), NEW opts, NEW u, u = OstBindFilter(w, o, opts, s, pad)
    PROVE  AddingBut(w, o, e, u)
<1> DEFINE ost == w.outs[o].streams[s]
           filter == OptOf(w, o, opts, s, "filter", <<>>)
           desc == IF filter = <<>> THEN NullFilter(ost.type) ELSE filter
           bound == [w EXCEPT !.outs[o].streams[s].filter = TRUE]
<1>1. u = IF Encoders[ost.encoder].type # ost.type THEN Fail(w, "no formats of this type")
          ELSE IF pad = <<>> THEN FgCreateSimple(bound, ost.ist[1], ost.ist[2], desc, ost.enc)
          ELSE IF filter # <<>> THEN Fail(w, "simple and complex filtering of one stream")
          ELSE OfilterBindEnc(bound, pad[1], pad[2], ost.enc)
  BY DEF OstBindFilter
<1> HIDE DEF filter, desc
<1>2. PICK y : y = [ost EXCEPT !.filter = TRUE]
  OBVIOUS
<1>3. PICK v : v = WithOst(w, o, s, y)
  OBVIOUS
<1>4. bound = v
  BY <1>2, <1>3 DEF WithOst
<1>5. DOMAIN ost = OstFields
  BY DEF OutsOk, OfOk, StreamsOk
<1>6. DOMAIN y = OstFields
  BY <1>2, <1>5
<1>7. Rewritten(w, o, e, v)
  BY <1>3, <1>6, OstChanged
<1>8. /\ Sound(v, e) /\ OutsOk(v.outs, o) /\ Others(w.outs, v.outs, o) /\ v.fgs = w.fgs /\ Fine(v)
  BY <1>7 DEF Rewritten, Fine
<1>9. PICK i1, i2 : i1 = ost.ist[1] /\ i2 = ost.ist[2]
  OBVIOUS
<1>10. \/ u = FgCreateSimple(v, i1, i2, desc, e)
       \/ Refused(w, u)
       \/ pad # <<>> /\ u = OfilterBindEnc(v, pad[1], pad[2], e)
  <2>1. \/ u = FgCreateSimple(v, i1, i2, desc, e)
        \/ \E why : why # "" /\ u = Fail(w, why)
        \/ pad # <<>> /\ u = OfilterBindEnc(v, pad[1], pad[2], e)
    <3>1. u = IF Encoders[ost.encoder].type # ost.type THEN Fail(w, "no formats of this type")
              ELSE IF pad = <<>> THEN FgCreateSimple(v, i1, i2, desc, e)
              ELSE IF filter # <<>> THEN Fail(w, "simple and complex filtering of one stream")
              ELSE OfilterBindEnc(v, pad[1], pad[2], e)
      BY <1>1, <1>4, <1>9
    <3>2. "simple and complex filtering of one stream" # "" /\ "no formats of this type" # ""
      OBVIOUS
    <3>. QED  BY <3>1, <3>2
  <2>. QED  BY <2>1 DEF Refused
<1> HIDE DEF bound, ost
<1>11. CASE u = FgCreateSimple(v, i1, i2, desc, e)
  <2>1. Moves(v, u, {})
    BY <1>8, <1>11, FgCreateSimpleMoves DEF Sound
  <2>2. ASSUME Fine(u) PROVE Sound(u, e) /\ u.outs = v.outs /\ u.fgs = v.fgs
    BY <1>8, <2>1, <2>2, MovesSound DEF Moves
  <2>. QED  BY <1>8, <2>2, RewiredSame DEF AddingBut
<1>12. CASE Refused(w, u)
  <2>1. "err" \in DOMAIN w
    BY DEF Sound, Usable, Fields
  <2>. QED  BY <1>12, <2>1, RefusedNot DEF AddingBut
<1>13. CASE pad # <<>> /\ u = OfilterBindEnc(v, pad[1], pad[2], e)
  <2>1. PICK f, k : f = pad[1] /\ k = pad[2]
    OBVIOUS
  <2>2. f \in DOMAIN v.fgs /\ (v.fgs[f].internal => k = 1) /\ u = OfilterBindEnc(v, f, k, e)
    BY <1>8, <1>13, <2>1 DEF PadOk
  <2>3. ASSUME Fine(u) PROVE Sound(u, e) /\ u.outs = v.outs /\ Rewired(v.fgs, u.fgs)
    BY <1>8, <2>2, <2>3, PadBound
  <2>. QED  BY <1>8, <2>3 DEF AddingBut
<1>. QED  BY <1>10, <1>11, <1>12, <1>13

\* What OstConnect does to the stream and the graph, one thing after the other.
UsedBy(v, o, s)            == [v EXCEPT !.outs[o].streams[s].src = v.src[2]]
UsedOst(v, o, s)           == [v.outs[o].streams[s] EXCEPT !.src = v.src[2]]
EncodedBy(v, e, enc)       == IF e = 0 THEN v ELSE SchConnect(v, v.src, enc)
MuxedBy(v, e, enc, dst)    == SchConnect(v, IF e = 0 THEN v.src ELSE enc, dst)

\* The stream alone changes.
LEMMA UsedWith == ASSUME NEW v, NEW o, NEW s PROVE UsedBy(v, o, s) = WithOst(v, o, s, UsedOst(v, o, s))
BY DEF UsedBy, UsedOst, WithOst

\* u is w with an input stream put to use, for the stream of the output file, and connected to the muxer.
CarriedTo(w, o, s, e, u) ==
    \E f, i, decoding, a1, a2, a3, enc, dst :
        /\ a1 = IstUse(w, f, i, decoding) /\ Fine(a1) /\ a2 = UsedBy(a1, o, s) /\ enc = Node("enc", e, 1)
        /\ a3 = EncodedBy(a2, e, enc) /\ Fine(a3) /\ dst[1] = "mux" /\ u = MuxedBy(a3, e, enc, dst)

\* The stream comes from an input stream, is decoded and encoded or copied.
LEMMA UsedAdding ==
    ASSUME NEW w, NEW o, NEW s, s \in DOMAIN w.outs[o].streams, NEW e, Sound(w, e), Fine(w), OutsOk(w.outs, o),
           NEW u, CarriedTo(w, o, s, e, u)
    PROVE  AddingBut(w, o, 0, u)
<1>0. PICK f, i, decoding, a1, a2, a3, enc, dst :
           /\ a1 = IstUse(w, f, i, decoding) /\ Fine(a1) /\ a2 = UsedBy(a1, o, s) /\ enc = Node("enc", e, 1)
           /\ a3 = EncodedBy(a2, e, enc) /\ Fine(a3) /\ dst[1] = "mux" /\ u = MuxedBy(a3, e, enc, dst)
  BY DEF CarriedTo
<1>1. Moves(w, a1, {}) /\ a1.src[1] # "fout"
  BY <1>0, IstUseMoves DEF Sound
<1>2. Sound(a1, e) /\ a1.outs = w.outs /\ a1.fgs = w.fgs
  BY <1>0, <1>1, MovesSound DEF Moves
<1>3. OutsOk(a1.outs, o) /\ s \in DOMAIN a1.outs[o].streams
  BY <1>2
<1>4. PICK ost, y : ost = a1.outs[o].streams[s] /\ y = UsedOst(a1, o, s)
  OBVIOUS
<1>5. DOMAIN ost = OstFields
  BY <1>3, <1>4 DEF OutsOk, OfOk, StreamsOk
<1>6. DOMAIN y = OstFields
  BY <1>4, <1>5 DEF UsedOst
<1>10. a2 = WithOst(a1, o, s, y)
  BY <1>0, <1>4, UsedWith
<1>7. Rewritten(a1, o, e, a2)
  BY <1>2, <1>3, <1>6, <1>10, OstChanged
<1>8. /\ Sound(a2, e) /\ OutsOk(a2.outs, o) /\ Others(w.outs, a2.outs, o) /\ a2.fgs = w.fgs
      /\ Fine(a2) /\ a2.src[1] # "fout"
  BY <1>0, <1>1, <1>2, <1>7 DEF Rewritten, Fine
<1>9. ASSUME Fine(u) PROVE Sound(u, 0) /\ u.outs = a2.outs /\ u.fgs = w.fgs
  <2>1. PICK c : c = a2.src
    OBVIOUS
  <2>2. CASE e = 0
    <3>1. u = SchConnect(a2, c, dst) /\ c[1] # "fout" /\ Sound(a2, e)
      BY <1>0, <1>8, <2>1, <2>2 DEF EncodedBy, MuxedBy
    <3>2. Sound(u, 0) /\ u.outs = a2.outs /\ u.fgs = a2.fgs
      BY <1>0, <1>9, <2>2, <3>1, MuxedSound
    <3>. QED  BY <1>8, <3>2
  <2>3. CASE e # 0
    <3>1. a3 = SchConnect(a2, c, enc) /\ c[1] # "fout" /\ enc[1] = "enc" /\ enc[2] = e
      BY <1>0, <1>8, <2>1, <2>3 DEF Node, EncodedBy
    <3>2. Sound(a3, e) /\ a3.outs = a2.outs /\ a3.fgs = a2.fgs
      BY <1>0, <1>8, <3>1, EncodedSound
    <3>3. u = SchConnect(a3, enc, dst)
      BY <1>0, <2>3 DEF MuxedBy
    <3>4. Sound(u, 0) /\ u.outs = a3.outs /\ u.fgs = a3.fgs
      BY <1>0, <1>9, <3>1, <3>2, <3>3, MuxedSound
    <3>. QED  BY <1>8, <3>2, <3>4
  <2>. QED  BY <2>2, <2>3
<1>. QED  BY <1>8, <1>9, RewiredSame DEF AddingBut

\* What a stream comes from is connected, and the stream to the muxer.
LEMMA OstConnectAdding ==
    ASSUME NEW w, NEW o, NEW s, s \in DOMAIN w.outs[o].streams, NEW e, e = w.outs[o].streams[s].enc, Sound(w, e), Fine(w),
           OutsOk(w.outs, o), e # 0 => w.outs[o].streams[s].type \in AVTypes \cup {"subtitle"},
           NEW pad, PadOk(w.fgs, pad), NEW opts, NEW u, u = OstConnect(w, o, opts, s, pad)
    PROVE  Adding(w, o, u)
<1> DEFINE ost == w.outs[o].streams[s]
           dst == Node("mux", o, ost.sch)
           enc == Node("enc", ost.enc, 1)
           Used(v) == UsedBy(v, o, s)
           Encoded(v) == EncodedBy(v, ost.enc, enc)
           Muxed(v) == MuxedBy(v, ost.enc, enc, dst)
           x == OstBindFilter(w, o, opts, s, pad)
           a1 == IstUse(w, ost.ist[1], ost.ist[2], ost.enc # 0)
           a2 == Then(a1, Used)
           a3 == Then(a2, Encoded)
<1>1. u = IF ost.enc # 0 /\ ost.type \in AVTypes THEN Then(x, Muxed)
          ELSE IF ost.ist # <<>> THEN Then(a3, Muxed)
          ELSE IF ost.type # "attachment" THEN Fail(w, Assertion)
          ELSE w
  BY DEF OstConnect, UsedBy, EncodedBy, MuxedBy
<1>2. dst[1] = "mux" /\ enc[1] = "enc" /\ enc[2] = e
  BY DEF Node
<1>7. /\ Fine(x) => Then(x, Muxed) = MuxedBy(x, e, enc, dst)
      /\ ~Fine(x) => Then(x, Muxed) = x
      /\ Fine(a1) => a2 = UsedBy(a1, o, s)
      /\ ~Fine(a1) => a2 = a1
      /\ Fine(a2) => a3 = EncodedBy(a2, e, enc)
      /\ ~Fine(a2) => a3 = a2
      /\ Fine(a3) => Then(a3, Muxed) = MuxedBy(a3, e, enc, dst)
      /\ ~Fine(a3) => Then(a3, Muxed) = a3
  <2> HIDE DEF x, a1, dst, enc, ost
  <2>1. /\ Fine(x) => Then(x, Muxed) = MuxedBy(x, ost.enc, enc, dst)
        /\ ~Fine(x) => Then(x, Muxed) = x
    BY DEF Then, Fine
  <2>2. /\ Fine(a1) => a2 = UsedBy(a1, o, s)
        /\ ~Fine(a1) => a2 = a1
    BY DEF Then, Fine
  <2> HIDE DEF a2
  <2>3. /\ Fine(a2) => a3 = EncodedBy(a2, ost.enc, enc)
        /\ ~Fine(a2) => a3 = a2
    BY DEF Then, Fine
  <2> HIDE DEF a3
  <2>4. /\ Fine(a3) => Then(a3, Muxed) = MuxedBy(a3, ost.enc, enc, dst)
        /\ ~Fine(a3) => Then(a3, Muxed) = a3
    BY DEF Then, Fine
  <2>5. ost.enc = e
    BY DEF ost
  <2>. QED  BY <2>1, <2>2, <2>3, <2>4, <2>5
<1>8. PICK m : m = Then(x, Muxed)
  OBVIOUS
<1>9. PICK n : n = Then(a3, Muxed)
  OBVIOUS
<1>10. PICK f, i, decoding : f = ost.ist[1] /\ i = ost.ist[2] /\ decoding = (ost.enc # 0)
  OBVIOUS
<1>11. a1 = IstUse(w, f, i, decoding) /\ enc = Node("enc", e, 1) /\ (ost.enc = 0 <=> e = 0)
  BY <1>10
<1>12. \/ ost.enc # 0 /\ u = m
       \/ u = n
       \/ \E why : why # "" /\ u = Fail(w, why)
       \/ u = w /\ ~(ost.enc # 0 /\ ost.type \in AVTypes) /\ ost.type = "attachment"
  <2>1. u = IF ost.enc # 0 /\ ost.type \in AVTypes THEN m
          ELSE IF ost.ist # <<>> THEN n
          ELSE IF ost.type # "attachment" THEN Fail(w, Assertion)
          ELSE w
    BY <1>1, <1>8, <1>9
  <2>2. Assertion # ""
    BY DEF Assertion
  <2>. QED  BY <2>1, <2>2
<1>13. AddingBut(w, o, e, x)
  BY OstBindFilterAdding
<1> HIDE DEF x, a1, a2, a3, enc, dst, Muxed, Used, Encoded
<1>3. CASE ost.enc # 0 /\ u = m
  <2>1. CASE Fine(x) /\ Fine(u)
    <3>1. u = SchConnect(x, enc, dst)
      BY <1>3, <1>7, <1>8, <1>11, <2>1 DEF MuxedBy
    <3>2. Sound(x, e) /\ OutsOk(x.outs, o) /\ Others(w.outs, x.outs, o) /\ Rewired(w.fgs, x.fgs)
      BY <1>13, <2>1 DEF AddingBut
    <3>3. Sound(u, 0) /\ u.outs = x.outs /\ u.fgs = x.fgs
      BY <1>2, <2>1, <3>1, <3>2, MuxedSound
    <3>. QED  BY <3>2, <3>3 DEF Adding, AddingBut
  <2>2. CASE ~Fine(u)
    BY <2>2 DEF Adding, AddingBut
  <2>3. CASE ~Fine(x)
    BY <1>3, <1>7, <1>8, <2>3 DEF Adding, AddingBut
  <2>. QED  BY <2>1, <2>2, <2>3
<1>4. CASE u = n
  <2>1. CASE Fine(a3)
    <3>1. Fine(a2) /\ Fine(a1)
      BY <1>7, <2>1
    <3>2. a2 = UsedBy(a1, o, s) /\ a3 = EncodedBy(a2, e, enc) /\ u = MuxedBy(a3, e, enc, dst)
      BY <1>4, <1>7, <1>9, <2>1, <3>1
    <3>3. CarriedTo(w, o, s, e, u)
      BY <1>2, <1>11, <2>1, <3>1, <3>2 DEF CarriedTo
    <3>5. AddingBut(w, o, 0, u)
      BY <3>3, UsedAdding
    <3>. QED  BY <3>5 DEF Adding
  <2>2. CASE ~Fine(a3)
    BY <1>4, <1>7, <1>9, <2>2 DEF Adding, AddingBut
  <2>. QED  BY <2>1, <2>2
<1>5. CASE \E why : why # "" /\ u = Fail(w, why)
  <2>1. "err" \in DOMAIN w
    BY DEF Sound, Usable, Fields
  <2>2. ~Fine(u)
    BY <1>5, <2>1, NotFine
  <2>. QED  BY <2>2 DEF Adding, AddingBut
<1>6. CASE u = w /\ ~(ost.enc # 0 /\ ost.type \in AVTypes) /\ ost.type = "attachment"
  <2>1. e = 0
    BY <1>6 DEF AVTypes
  <2>. QED  BY <1>6, <2>1, AddingNot DEF Adding
<1>. QED  BY <1>3, <1>4, <1>5, <1>6, <1>12

\* Nothing happens, or it fails, before the stream is connected,
LEMMA ComingOn ==
    ASSUME NEW w, NEW o, NEW s, NEW v, Coming(w, o, s, v), Fine(v), NEW u, u = v \/ Refused(v, u)
    PROVE  Coming(w, o, s, u)
<1>1. CASE u = v
  BY <1>1
<1>2. CASE Refused(v, u)
  <2>1. "err" \in DOMAIN v
    BY DEF Coming, Sound, Usable, Fields
  <2>. QED  BY <1>2, <2>1, RefusedNot DEF Coming
<1>. QED  BY <1>1, <1>2

\* and after it is.
LEMMA AddingOn ==
    ASSUME NEW w, NEW o, NEW v, Adding(w, o, v), Fine(v), NEW u, u = v \/ Refused(v, u)
    PROVE  Adding(w, o, u)
<1>1. CASE u = v
  BY <1>1
<1>2. CASE Refused(v, u)
  <2>1. "err" \in DOMAIN v
    BY DEF Adding, AddingBut, Sound, Usable, Fields
  <2>. QED  BY <1>2, <2>1, RefusedNot DEF Adding, AddingBut
<1>. QED  BY <1>1, <1>2

\* A stream that is there, from its encoder on.
LEMMA OstSetUp ==
    ASSUME NEW w, NEW o, NEW s, NEW c1, Coming(w, o, s, c1), NEW pad, PadOk(w.fgs, pad), NEW opts,
           NEW c2, IF Fine(c1) THEN c2 = c1 \/ Refused(c1, c2) ELSE c2 = c1,
           NEW c3, c3 = IF Fine(c2) THEN StreamOptions(c2, o, opts, s) ELSE c2,
           NEW c4, c4 = IF Fine(c3) THEN OstConnect(c3, o, opts, s, pad) ELSE c3,
           NEW u, IF Fine(c4) THEN u = c4 \/ Refused(c4, u) ELSE u = c4
    PROVE  Adding(w, o, u)
<1>1. Coming(w, o, s, c2)
  BY ComingOn DEF Coming
<1>2. Coming(w, o, s, c3)
  BY <1>1, StreamOptionsComing DEF Coming
<1>3. Adding(w, o, c4)
  <2>1. CASE Fine(c3)
    <3>1. PICK e : e = c3.outs[o].streams[s].enc
      OBVIOUS
    <3>2. /\ s \in DOMAIN c3.outs[o].streams
          /\ Sound(c3, e)
          /\ OutsOk(c3.outs, o) /\ Others(w.outs, c3.outs, o) /\ Rewired(w.fgs, c3.fgs)
          /\ e # 0 => c3.outs[o].streams[s].type \in AVTypes \cup {"subtitle"}
      BY <1>2, <2>1, <3>1 DEF Coming
    <3>3. PadOk(c3.fgs, pad)
      BY <3>2, PadStays
    <3>4. c4 = OstConnect(c3, o, opts, s, pad)
      BY <2>1
    <3>5. Adding(c3, o, c4)
      BY <2>1, <3>1, <3>2, <3>3, <3>4, OstConnectAdding
    <3>6. AddingBut(w, o, e, c3)
      BY <3>2 DEF AddingBut
    <3>. QED  BY <2>1, <3>5, <3>6, AddingTwice DEF Adding
  <2>2. CASE ~Fine(c3)
    BY <2>2 DEF Adding, AddingBut
  <2>. QED  BY <2>1, <2>2
<1>. QED  BY <1>3, AddingOn DEF Adding, AddingBut

\* ost_add: the stream is added, encoded and connected, or it fails.
LEMMA OstAddAdding ==
    ASSUME NEW w, NEW o, Ready(w, o), NEW opts, NEW type, NEW ist, NEW pad, PadOk(w.fgs, pad), Fine(w),
           NEW u, u = OstAdd(w, o, opts, type, ist, pad)
    PROVE  Adding(w, o, u)
<1> DEFINE sch == IF ist # <<>> \/ pad # <<>> THEN AddMuxStream(w.sch, o) ELSE w.sch
           s == Len(w.outs[o].streams) + 1
           ost == NewOst(type, ist, s, IF ist # <<>> \/ pad # <<>> THEN sch.mux[o] ELSE 0)
           added == [w EXCEPT !.sch = sch, !.outs[o].streams = Append(@, ost)]
           NotCopied(v) == IF pad # <<>> /\ v.outs[o].streams[s].enc = 0
                           THEN Fail(v, "streamcopy of the output of a filtergraph") ELSE v
           Copied(v)    == IF ist = <<>> \/ CopyAccepted(v, o, opts, s) THEN v
                           ELSE Fail(v, "filtering and streamcopy of one stream")
           Optioned_(v) == StreamOptions(v, o, opts, s)
           Connected(v) == OstConnect(v, o, opts, s, pad)
           c1 == ChooseEncoder(added, o, opts, s)
           c2 == Then(c1, NotCopied)
           c3 == Then(c2, Optioned_)
           c4 == Then(c3, Connected)
<1>1. u = Then(c4, Copied)
  BY DEF OstAdd
<1>2. \A v : NotCopied(v) = v \/ Refused(v, NotCopied(v))
  <2>1. "streamcopy of the output of a filtergraph" # ""
    OBVIOUS
  <2>2. ASSUME NEW v PROVE NotCopied(v) = v \/ \E why : why # "" /\ NotCopied(v) = Fail(v, why)
    BY <2>1
  <2> HIDE DEF NotCopied
  <2>. QED  BY <2>2 DEF Refused
<1>3. \A v : Copied(v) = v \/ Refused(v, Copied(v))
  <2>1. "filtering and streamcopy of one stream" # ""
    OBVIOUS
  <2>2. ASSUME NEW v PROVE Copied(v) = v \/ \E why : why # "" /\ Copied(v) = Fail(v, why)
    BY <2>1
  <2> HIDE DEF Copied
  <2>. QED  BY <2>2 DEF Refused
<1>4. added = WithMore(w, o, sch, ost)
  BY DEF WithMore
<1>5. sch = w.sch \/ sch = AddMuxStream(w.sch, o)
  OBVIOUS
<1>6. DOMAIN ost = OstFields /\ ost.enc = 0
  BY NewOstFields
<1>7. s = Len(w.outs[o].streams) + 1
  OBVIOUS
<1> HIDE DEF sch, s, ost, added, NotCopied, Copied
<1>8. /\ Ready(added, o) /\ Others(w.outs, added.outs, o) /\ added.fgs = w.fgs /\ added.err = w.err
      /\ s \in DOMAIN added.outs[o].streams /\ added.outs[o].streams[s] = ost
  BY <1>4, <1>5, <1>6, <1>7, OstAppended
<1>9. Coming(added, o, s, c1)
  BY <1>6, <1>8, ChooseEncoderComing
<1>10. Coming(w, o, s, c1)
  BY <1>8, <1>9 DEF Coming, Others
<1> HIDE DEF c1
<1>11. IF Fine(c1) THEN c2 = c1 \/ Refused(c1, c2) ELSE c2 = c1
  <2>1. IF Fine(c1) THEN c2 = NotCopied(c1) ELSE c2 = c1
    BY DEF Then, Fine
  <2> HIDE DEF c2
  <2>. QED  BY <1>2, <2>1
<1> HIDE DEF c2
<1>12. c3 = IF Fine(c2) THEN StreamOptions(c2, o, opts, s) ELSE c2
  BY DEF Then, Fine
<1> HIDE DEF c3
<1>13. c4 = IF Fine(c3) THEN OstConnect(c3, o, opts, s, pad) ELSE c3
  BY DEF Then, Fine
<1> HIDE DEF c4
<1>14. IF Fine(c4) THEN u = c4 \/ Refused(c4, u) ELSE u = c4
  <2>1. IF Fine(c4) THEN u = Copied(c4) ELSE u = c4
    BY <1>1 DEF Then, Fine
  <2>. QED  BY <1>3, <2>1
<1>. QED  BY <1>10, <1>11, <1>12, <1>13, <1>14, OstSetUp

-----------------------------------------------------------------------------
(* Streams, one after the other                                            *)

\* What was added to may be added to,
LEMMA AddingReady ==
    ASSUME NEW w, NEW o, NEW v, Adding(w, o, v), Fine(v)
    PROVE  Ready(v, o) /\ Rewired(w.fgs, v.fgs)
BY DEF Adding, AddingBut, Ready

\* and nothing need be added.
LEMMA ReadyAdding ==
    ASSUME NEW w, NEW o, Ready(w, o)
    PROVE  Adding(w, o, w)
BY AddingNot DEF Ready, Adding

\* A stream need not come from a pad.
LEMMA NoPad == ASSUME NEW fgs PROVE PadOk(fgs, <<>>)
BY DEF PadOk

\* One step after others.
LEMMA AddingStep ==
    ASSUME NEW w, NEW o, NEW v, Adding(w, o, v), NEW x, Fine(v) => Adding(v, o, x)
    PROVE  Adding(w, o, IF Fine(v) THEN x ELSE v)
<1>1. CASE Fine(v)
  BY <1>1, AddingTwice DEF Adding
<1>2. CASE ~Fine(v)
  BY <1>2
<1>. QED  BY <1>1, <1>2

\* Streams of data, one by one.
AddData(w, o, opts, s) == ForEach(w, s, LAMBDA v, p : OstAdd(v, o, opts, "data", p, <<>>))

\* Over all of them.
FData == INSTANCE Folding WITH
    Op   <- LAMBDA a, b, c, v, p : IF Fine(v) THEN OstAdd(v, a, b, "data", p, <<>>) ELSE v,
    Good <- LAMBDA a, b, c, w, n, v : Adding(w, a, v)

\* The streams of data that are mapped by themselves.
LEMMA DataAdding ==
    ASSUME NEW w, NEW o, Ready(w, o), NEW opts, NEW s, IsSeq(s),
           NEW u, u = AddData(w, o, opts, s)
    PROVE  Adding(w, o, u)
<1>1. PICK n \in Nat : DOMAIN s = 1 .. n
  BY SeqDomain
<1>2. u = FData!Fold(o, opts, 0, w, s)
  BY DEF AddData, ForEach, FoldLeft, MapThenFoldSet, Max, FData!Fold, FData!Last, Fine
<1>3. ASSUME NEW i \in 1 .. n, NEW v, Adding(w, o, v)
      PROVE  Adding(w, o, IF Fine(v) THEN OstAdd(v, o, opts, "data", s[i], <<>>) ELSE v)
  <2>1. PICK x, p : x = OstAdd(v, o, opts, "data", p, <<>>) /\ p = s[i]
    OBVIOUS
  <2>2. Fine(v) => Adding(v, o, x)
    BY <1>3, <2>1, AddingReady, NoPad, OstAddAdding
  <2>. QED  BY <1>3, <2>1, <2>2, AddingStep
<1>4. \A i \in 1 .. n : \A v :
         Adding(w, o, v) => Adding(w, o, IF Fine(v) THEN OstAdd(v, o, opts, "data", s[i], <<>>) ELSE v)
  BY <1>3
<1>5. Adding(w, o, w)
  BY ReadyAdding
<1>ind. FData!Inductive(n)
  BY Induct DEF FData!Inductive
<1>6. Adding(w, o, FData!Fold(o, opts, 0, w, s))
  BY <1>ind, <1>1, <1>4, <1>5, FData!FoldGood
<1>. QED  BY <1>2, <1>6

\* What filtergraphs leave open, one by one.
AddOpen(w, o, opts, s) == ForEach(w, s, LAMBDA v, p : OstAdd(v, o, opts, Out(v, p[1], p[2]).type, <<>>, p))

\* Output pads that may be taken when file o has its streams added.
PadsOk(fgs, s) == IsSeq(s) /\ \A i \in DOMAIN s : PadOk(fgs, s[i])

\* Over all of them.
FOpen == INSTANCE Folding WITH
    Op   <- LAMBDA a, b, c, v, p : IF Fine(v) THEN OstAdd(v, a, b, Out(v, p[1], p[2]).type, <<>>, p) ELSE v,
    Good <- LAMBDA a, b, c, w, n, v : Adding(w, a, v)

\* The outputs of filtergraphs that no label maps.
LEMMA OpenAdding ==
    ASSUME NEW w, NEW o, Ready(w, o), NEW opts, NEW s, PadsOk(w.fgs, s),
           NEW u, u = AddOpen(w, o, opts, s)
    PROVE  Adding(w, o, u)
<1>1. PICK n \in Nat : DOMAIN s = 1 .. n
  BY SeqDomain DEF PadsOk
<1>2. u = FOpen!Fold(o, opts, 0, w, s)
  BY DEF AddOpen, ForEach, FoldLeft, MapThenFoldSet, Max, FOpen!Fold, FOpen!Last, Fine
<1>3. ASSUME NEW i \in 1 .. n, NEW v, Adding(w, o, v)
      PROVE  Adding(w, o, IF Fine(v) THEN OstAdd(v, o, opts, Out(v, s[i][1], s[i][2]).type, <<>>, s[i]) ELSE v)
  <2>1. PICK x, p, type : x = OstAdd(v, o, opts, type, <<>>, p) /\ p = s[i] /\ type = Out(v, s[i][1], s[i][2]).type
    OBVIOUS
  <2>2. ASSUME Fine(v) PROVE Adding(v, o, x)
    <3>1. Ready(v, o) /\ Rewired(w.fgs, v.fgs)
      BY <1>3, <2>2, AddingReady
    <3>2. PadOk(w.fgs, p)
      BY <1>1, <2>1 DEF PadsOk
    <3>3. PadOk(v.fgs, p)
      BY <3>1, <3>2, PadStays
    <3>. QED  BY <2>1, <2>2, <3>1, <3>3, OstAddAdding
  <2>3. Adding(w, o, IF Fine(v) THEN x ELSE v)
    BY <1>3, <2>2, AddingStep
  <2>. QED  BY <2>1, <2>3
<1>4. \A i \in 1 .. n : \A v :
         Adding(w, o, v) =>
            Adding(w, o, IF Fine(v) THEN OstAdd(v, o, opts, Out(v, s[i][1], s[i][2]).type, <<>>, s[i]) ELSE v)
  BY <1>3
<1>5. Adding(w, o, w)
  BY ReadyAdding
<1>ind. FOpen!Inductive(n)
  BY Induct DEF FOpen!Inductive
<1>6. Adding(w, o, FOpen!Fold(o, opts, 0, w, s))
  BY <1>ind, <1>1, <1>4, <1>5, FOpen!FoldGood
<1>. QED  BY <1>2, <1>6

\* Over all attachments.
FAttach == INSTANCE Folding WITH
    Op   <- LAMBDA a, b, c, v, readable : IF Fine(v) THEN
                (IF readable THEN OstAdd(v, a, b, "attachment", <<>>, <<>>)
                 ELSE Fail(v, "could not open attachment file")) ELSE v,
    Good <- LAMBDA a, b, c, w, n, v : Adding(w, a, v)

\* of_add_attachments
LEMMA AttachAdding ==
    ASSUME NEW w, NEW o, Ready(w, o), NEW opts, IsSeq(OptAll(opts, "attach")),
           NEW u, u = OfAddAttachments(w, o, opts)
    PROVE  Adding(w, o, u)
<1> DEFINE Step(v, readable) == IF readable THEN OstAdd(v, o, opts, "attachment", <<>>, <<>>)
                                ELSE Fail(v, "could not open attachment file")
<1>0. PICK s : s = OptAll(opts, "attach")
  OBVIOUS
<1>1. PICK n \in Nat : DOMAIN s = 1 .. n
  BY <1>0, SeqDomain
<1>2. u = FAttach!Fold(o, opts, 0, w, s)
  BY <1>0 DEF OfAddAttachments, ForEach, FoldLeft, MapThenFoldSet, Max,
              FAttach!Fold, FAttach!Last, Fine
<1>3. ASSUME NEW i \in 1 .. n, NEW v, Adding(w, o, v) PROVE Adding(w, o, IF Fine(v) THEN Step(v, s[i]) ELSE v)
  <2>1. PICK x, readable : x = Step(v, readable) /\ readable = s[i]
    OBVIOUS
  <2>2. x = OstAdd(v, o, opts, "attachment", <<>>, <<>>) \/ Refused(v, x)
    <3>1. "could not open attachment file" # ""
      OBVIOUS
    <3>2. x = OstAdd(v, o, opts, "attachment", <<>>, <<>>) \/ \E why : why # "" /\ x = Fail(v, why)
      BY <2>1, <3>1
    <3> HIDE DEF Step
    <3>. QED  BY <3>2 DEF Refused
  <2> HIDE DEF Step
  <2>3. ASSUME Fine(v) PROVE Adding(v, o, x)
    <3>1. Ready(v, o)
      BY <1>3, <2>3, AddingReady
    <3>2. CASE x = OstAdd(v, o, opts, "attachment", <<>>, <<>>)
      BY <2>3, <3>1, <3>2, NoPad, OstAddAdding
    <3>3. CASE Refused(v, x)
      BY <2>3, <3>1, <3>3, ReadyAdding, AddingOn
    <3>. QED  BY <2>2, <3>2, <3>3
  <2>4. Adding(w, o, IF Fine(v) THEN x ELSE v)
    BY <1>3, <2>3, AddingStep
  <2>. QED  BY <2>1, <2>4
<1>4. \A i \in 1 .. n : \A v : Adding(w, o, v) => Adding(w, o, IF Fine(v) THEN Step(v, s[i]) ELSE v)
  BY <1>3
<1>5. Adding(w, o, w)
  BY ReadyAdding
<1>ind. FAttach!Inductive(n)
  BY Induct DEF FAttach!Inductive
<1>6. Adding(w, o, FAttach!Fold(o, opts, 0, w, s))
  BY <1>ind, <1>1, <1>4, <1>5, FAttach!FoldGood
<1>. QED  BY <1>2, <1>6

\* The items that are kept are items.
LEMMA KeptItems ==
    ASSUME NEW s, IsSeq(s), NEW keep, NEW r, r = Kept(s, keep)
    PROVE  IsSeq(r) /\ \A i \in DOMAIN r : \E j \in DOMAIN s : j \in keep /\ r[i] = s[j]
<1>1. IsSeq(r) /\ Chosen(s, keep, r) # {}
  BY KeptSeq
<1>2. PICK p : p \in Chosen(s, keep, r)
  BY <1>1
<1>. QED  BY <1>1, <1>2 DEF Chosen

\* The output pads that an output file finds open.
LEMMA OpenPads ==
    ASSUME NEW w, Sound(w, 0), NEW keep, NEW s, s = Kept(OutputPads(w), keep)
    PROVE  PadsOk(w.fgs, s)
<1>1. PICK all : all = OutputPads(w)
  OBVIOUS
<1>2. IsSeq(all) /\ \A i \in DOMAIN all : all[i][1] \in DOMAIN w.fgs /\ all[i][2] \in DOMAIN w.fgs[all[i][1]].outs
  BY <1>1, OutPads DEF OutputPads, Sound, Usable
<1>3. ASSUME NEW i \in DOMAIN all PROVE PadOk(w.fgs, all[i])
  <2>1. PICK f : f = all[i][1]
    OBVIOUS
  <2>2. w.fgs[f].internal => DOMAIN w.fgs[f].outs = {1}
    BY <1>2, <2>1 DEF Sound, Grids, Grid
  <2>. QED  BY <1>2, <2>1, <2>2 DEF PadOk
<1>4. IsSeq(s) /\ \A i \in DOMAIN s : \E j \in DOMAIN all : s[i] = all[j]
  BY <1>1, <1>2, KeptItems
<1>. QED  BY <1>3, <1>4 DEF PadsOk

-----------------------------------------------------------------------------
(* The best of its type                                                    *)

\* A candidate whose pad may be taken, and candidates.
CandOk(fgs, c)   == "pad" \in DOMAIN c /\ PadOk(fgs, c.pad)
CandsOk(fgs, cs) == IsSeq(cs) /\ \A i \in DOMAIN cs : CandOk(fgs, cs[i])

\* Candidate makes one.
LEMMA CandidateOk ==
    ASSUME NEW fgs, NEW pad, PadOk(fgs, pad), NEW score, NEW bonus, NEW ist
    PROVE  CandOk(fgs, Candidate(score, bonus, ist, pad))
BY DEF CandOk, Candidate

\* Over all candidates.
FBest == INSTANCE Folding WITH
    Op   <- LAMBDA a, b, c, v, x : IF x.score > v.score THEN x ELSE v,
    Good <- LAMBDA a, b, c, w, n, v : CandOk(a, v)

\* The best one is one of them, or the one there is without any.
LEMMA BestOk ==
    ASSUME NEW fgs, NEW cs, CandsOk(fgs, cs)
    PROVE  CandOk(fgs, Best(cs))
<1>1. PICK n \in Nat : DOMAIN cs = 1 .. n
  BY SeqDomain DEF CandsOk
<1>2. Best(cs) = FBest!Fold(fgs, 0, 0, Nobody, cs)
  BY DEF Best, FoldLeft, MapThenFoldSet, Max, FBest!Fold, FBest!Last
<1>3. CandOk(fgs, Nobody)
  BY CandidateOk, NoPad DEF Nobody
<1>4. \A i \in 1 .. n : \A v : CandOk(fgs, v) => CandOk(fgs, IF cs[i].score > v.score THEN cs[i] ELSE v)
  BY <1>1 DEF CandsOk
<1>ind. FBest!Inductive(n)
  BY Induct DEF FBest!Inductive
<1>5. CandOk(fgs, FBest!Fold(fgs, 0, 0, Nobody, cs))
  BY <1>ind, <1>1, <1>3, <1>4, FBest!FoldGood
<1>. QED  BY <1>2, <1>5

\* A pad is found among those of the grids, or there is none.
LEMMA GridCands ==
    ASSUME NEW w, Sound(w, 0), NEW f \in DOMAIN w.files, NEW keep, NEW grids, grids = Kept(w.files[f].groups, keep),
           \A k \in keep : w.files[f].groups[k].fg # 0,
           NEW cs, cs = [k \in DOMAIN grids |-> Candidate(grids[k].size + Active(grids[k]) + Bonus(grids[k]),
                                                          Bonus(grids[k]), <<>>, <<grids[k].fg, 1>>)]
    PROVE  CandsOk(w.fgs, cs)
<1>1. PICK groups : groups = w.files[f].groups
  OBVIOUS
<1>2. IsSeq(groups) /\ \A k \in DOMAIN groups : groups[k].fg \in {0} \cup DOMAIN w.fgs
  BY <1>1 DEF Sound, Usable, FilesOk, FileOk, Grids
<1>3. IsSeq(grids) /\ \A i \in DOMAIN grids : \E j \in DOMAIN groups : j \in keep /\ grids[i] = groups[j]
  BY <1>1, <1>2, KeptItems
<1>4. IsSeq(cs) /\ DOMAIN cs = DOMAIN grids
  BY <1>3, SameSeq
<1>5. ASSUME NEW k \in DOMAIN cs PROVE CandOk(w.fgs, cs[k])
  <2>1. grids[k].fg \in DOMAIN w.fgs
    BY <1>1, <1>2, <1>3, <1>4
  <2>2. PICK pad : pad = <<grids[k].fg, 1>>
    OBVIOUS
  <2>3. PadOk(w.fgs, pad)
    BY <2>1, <2>2 DEF PadOk
  <2>4. PICK score, bonus : cs[k] = Candidate(score, bonus, <<>>, pad)
    BY <1>4, <2>2
  <2>. QED  BY <2>3, <2>4, CandidateOk
<1>. QED  BY <1>4, <1>5 DEF CandsOk

\* Streams come from no pad.
LEMMA StreamCands ==
    ASSUME NEW fgs, NEW usable, IsSeq(usable), NEW cs, cs = [k \in DOMAIN usable |-> cs[k]],
           \A k \in DOMAIN usable : \E score, bonus, ist : cs[k] = Candidate(score, bonus, ist, <<>>)
    PROVE  CandsOk(fgs, cs)
<1>1. IsSeq(cs) /\ DOMAIN cs = DOMAIN usable
  BY SameSeq
<1>. QED  BY <1>1, CandidateOk, NoPad DEF CandsOk

\* Some of the candidates are candidates,
LEMMA KeptCands ==
    ASSUME NEW fgs, NEW cs, CandsOk(fgs, cs), NEW keep, NEW r, r = Kept(cs, keep)
    PROVE  CandsOk(fgs, r)
BY KeptItems DEF CandsOk

\* and so are two lists of them.
LEMMA BothCands ==
    ASSUME NEW fgs, NEW s, CandsOk(fgs, s), NEW r, CandsOk(fgs, r)
    PROVE  CandsOk(fgs, s \o r)
<1>1. IsSeq(s) /\ IsSeq(r)
  BY DEF CandsOk
<1>2. PICK q : q = s \o r
  OBVIOUS
<1>3. /\ IsSeq(q)
      /\ \A i \in DOMAIN s : q[i] = s[i]
      /\ \A i \in DOMAIN r : q[Len(s) + i] = r[i]
      /\ \A i \in DOMAIN q : i \in DOMAIN s \/ i - Len(s) \in DOMAIN r
      /\ DOMAIN q = 1 .. Len(s) + Len(r)
  BY <1>1, <1>2, ConcatSeq
<1>4. Len(s) \in Nat /\ Len(r) \in Nat
  BY <1>1, SeqDomain
<1>5. ASSUME NEW i \in DOMAIN q PROVE CandOk(fgs, q[i])
  <2>1. CASE i \in DOMAIN s
    BY <1>3, <2>1 DEF CandsOk
  <2>2. CASE i - Len(s) \in DOMAIN r
    <3>1. PICK j : j = i - Len(s)
      OBVIOUS
    <3>2. Len(s) + j = i
      BY <1>3, <1>4, <3>1
    <3>. QED  BY <1>3, <2>2, <3>1, <3>2 DEF CandsOk
  <2>. QED  BY <1>3, <2>1, <2>2
<1>. QED  BY <1>2, <1>3, <1>5 DEF CandsOk

\* The best of the best of each file.
LEMMA BestOfFilesOk ==
    ASSUME NEW w, FilesOk(w.files), NEW cs, cs = [f \in DOMAIN w.files |-> cs[f]],
           \A f \in DOMAIN w.files : CandsOk(w.fgs, cs[f]),
           NEW b, b = Best([f \in DOMAIN w.files |-> [Best(cs[f]) EXCEPT !.score = @ - Best(cs[f]).bonus]])
    PROVE  CandOk(w.fgs, b)
<1>1. PICK bs : bs = [f \in DOMAIN w.files |-> [Best(cs[f]) EXCEPT !.score = @ - Best(cs[f]).bonus]]
  OBVIOUS
<1>2. IsSeq(bs) /\ DOMAIN bs = DOMAIN w.files
  BY <1>1, SameSeq DEF FilesOk
<1>3. ASSUME NEW f \in DOMAIN bs PROVE CandOk(w.fgs, bs[f])
  <2>1. PICK best : best = Best(cs[f])
    OBVIOUS
  <2>2. CandOk(w.fgs, best)
    BY <1>2, <2>1, BestOk
  <2>3. bs[f] = [best EXCEPT !.score = @ - best.bonus]
    BY <1>1, <1>2, <2>1
  <2>. QED  BY <2>2, <2>3 DEF CandOk
<1>4. CandsOk(w.fgs, bs)
  BY <1>2, <1>3 DEF CandsOk
<1>. QED  BY <1>1, <1>4, BestOk

\* map_auto_video
LEMMA MapAutoVideoAdding ==
    ASSUME NEW w, NEW o, Ready(w, o), Fine(w), NEW opts, NEW u, u = MapAutoVideo(w, o, opts)
    PROVE  Adding(w, o, u)
<1> DEFINE covers == w.outs[o].format.covers
           Tiles(f) == Those(w.files[f].groups, LAMBDA g : g.fg # 0 /\ g.type = "tile")
           OfGrids(f) == LET grids == Tiles(f)
                         IN  [k \in DOMAIN grids |-> Candidate(grids[k].size + Active(grids[k]) + Bonus(grids[k]),
                                                          Bonus(grids[k]), <<>>, <<grids[k].fg, 1>>)]
           Singles(f) == StreamCandidates(w, f, "video", LAMBDA st : covers \/ ~st.pic)
           Pictures(f) == Those(Singles(f), LAMBDA c : covers => Ist(w, c.ist[1], c.ist[2]).pic)
           cs == [f \in DOMAIN w.files |-> OfGrids(f) \o Pictures(f)]
           best == BestOfFiles(w, LAMBDA f : OfGrids(f) \o Pictures(f))
<1>1. u = w \/ u = OstAdd(w, o, opts, "video", best.ist, best.pad)
  BY DEF MapAutoVideo
<1>2. Sound(w, 0) /\ FilesOk(w.files)
  BY DEF Ready, Sound, Usable
<1>3. ASSUME NEW f \in DOMAIN w.files PROVE CandsOk(w.fgs, OfGrids(f))
  <2>1. PICK keep : keep = {i \in DOMAIN w.files[f].groups : w.files[f].groups[i].fg # 0 /\ w.files[f].groups[i].type = "tile"}
    OBVIOUS
  <2>2. PICK grids : grids = Tiles(f)
    OBVIOUS
  <2>3. grids = Kept(w.files[f].groups, keep)
    BY <2>1, <2>2 DEF Those
  <2>4. \A k \in keep : w.files[f].groups[k].fg # 0
    BY <2>1
  <2>5. PICK r : r = OfGrids(f)
    OBVIOUS
  <2>6. r = [k \in DOMAIN grids |-> Candidate(grids[k].size + Active(grids[k]) + Bonus(grids[k]),
                                              Bonus(grids[k]), <<>>, <<grids[k].fg, 1>>)]
    BY <2>2, <2>5
  <2> HIDE DEF OfGrids, Tiles
  <2>7. CandsOk(w.fgs, r)
    BY <1>2, <2>3, <2>4, <2>6, GridCands
  <2>. QED  BY <2>5, <2>7
<1>4. ASSUME NEW f \in DOMAIN w.files PROVE CandsOk(w.fgs, Singles(f))
  <2> DEFINE streams == w.files[f].streams
             WithBonus(st) == covers \/ ~st.pic
             keep == {j \in DOMAIN [i \in DOMAIN streams |-> i] :
                         /\ streams[[i \in DOMAIN streams |-> i][j]].user_set_discard # "all"
                         /\ streams[[i \in DOMAIN streams |-> i][j]].type = "video"
                         /\ ~streams[[i \in DOMAIN streams |-> i][j]].enhancement}
             usable == Kept([i \in DOMAIN streams |-> i], keep)
             Cand(k) == LET st == streams[usable[k]]
                        IN  IF WithBonus(st) THEN Candidate(st.size + Active(st) + Bonus(st), Bonus(st), <<f, usable[k]>>, <<>>)
                            ELSE Candidate(1, 0, <<f, usable[k]>>, <<>>)
  <2>1. Singles(f) = [k \in DOMAIN usable |-> Cand(k)]
    BY DEF StreamCandidates, Those
  <2>2. PICK all : all = [i \in DOMAIN streams |-> i]
    OBVIOUS
  <2>3. IsSeq(streams)
    BY <1>2 DEF FilesOk, FileOk
  <2>4. IsSeq(all)
    BY <2>2, <2>3, SameSeq
  <2>5. IsSeq(usable)
    <3>1. PICK K : K = keep
      OBVIOUS
    <3>2. usable = Kept(all, K)
      BY <2>2, <3>1
    <3>. QED  BY <2>4, <3>2, KeptItems
  <2>6. \A k : \E score, bonus, ist : Cand(k) = Candidate(score, bonus, ist, <<>>)
    OBVIOUS
  <2> HIDE DEF usable, keep, Cand, streams
  <2>7. PICK r, us : r = Singles(f) /\ us = usable
    OBVIOUS
  <2> HIDE DEF Singles
  <2>8. r = [k \in DOMAIN us |-> r[k]] /\ \A k \in DOMAIN us : \E score, bonus, ist : r[k] = Candidate(score, bonus, ist, <<>>)
    BY <2>1, <2>6, <2>7
  <2>9. CandsOk(w.fgs, r)
    BY <2>5, <2>7, <2>8, StreamCands
  <2>. QED  BY <2>7, <2>9
<1> HIDE DEF OfGrids, Singles
<1>5. ASSUME NEW f \in DOMAIN w.files PROVE CandsOk(w.fgs, OfGrids(f) \o Pictures(f))
  <2>1. PICK c : c = Singles(f)
    OBVIOUS
  <2>2. PICK keep : keep = {i \in DOMAIN c : covers => Ist(w, c[i].ist[1], c[i].ist[2]).pic}
    OBVIOUS
  <2>3. PICK p : p = Pictures(f)
    OBVIOUS
  <2>4. p = Kept(c, keep)
    BY <2>1, <2>2, <2>3 DEF Those
  <2> HIDE DEF Pictures, covers
  <2>5. CandsOk(w.fgs, c)
    BY <1>4, <2>1
  <2>6. CandsOk(w.fgs, p)
    BY <2>4, <2>5, KeptCands
  <2>7. PICK g : g = OfGrids(f)
    OBVIOUS
  <2>8. CandsOk(w.fgs, g)
    BY <1>3, <2>7
  <2>9. CandsOk(w.fgs, g \o p)
    BY <2>6, <2>8, BothCands
  <2>. QED  BY <2>3, <2>7, <2>9
<1> HIDE DEF Pictures
<1>6. PICK l : l = cs
  OBVIOUS
<1>7. PICK b : b = best
  OBVIOUS
<1>8. b = Best([f \in DOMAIN w.files |-> [Best(l[f]) EXCEPT !.score = @ - Best(l[f]).bonus]])
  <2>1. best = Best([f \in DOMAIN w.files |-> [Best(OfGrids(f) \o Pictures(f)) EXCEPT
                                                  !.score = @ - Best(OfGrids(f) \o Pictures(f)).bonus]])
    BY DEF BestOfFiles
  <2>2. \A f \in DOMAIN w.files : l[f] = OfGrids(f) \o Pictures(f)
    BY <1>6
  <2> HIDE DEF best, cs
  <2>3. [f \in DOMAIN w.files |-> [Best(OfGrids(f) \o Pictures(f)) EXCEPT
                                      !.score = @ - Best(OfGrids(f) \o Pictures(f)).bonus]] =
        [f \in DOMAIN w.files |-> [Best(l[f]) EXCEPT !.score = @ - Best(l[f]).bonus]]
    BY <2>2
  <2>. QED  BY <1>7, <2>1, <2>3
<1>9. l = [f \in DOMAIN w.files |-> l[f]] /\ \A f \in DOMAIN w.files : CandsOk(w.fgs, l[f])
  BY <1>5, <1>6
<1> HIDE DEF best, cs
<1>10. CandOk(w.fgs, b)
  BY <1>2, <1>8, <1>9, BestOfFilesOk
<1>11. PICK ist, pad : ist = b.ist /\ pad = b.pad
  OBVIOUS
<1>12. PadOk(w.fgs, pad)
  BY <1>10, <1>11 DEF CandOk
<1>13. u = w \/ u = OstAdd(w, o, opts, "video", ist, pad)
  BY <1>1, <1>7, <1>11
<1>. QED  BY <1>12, <1>13, OstAddAdding, ReadyAdding

-----------------------------------------------------------------------------
(* Streams that options ask for                                            *)

\* The values of an option are a sequence.
LEMMA OptAllSeq ==
    ASSUME NEW opts, IsSeq(opts), NEW name
    PROVE  IsSeq(OptAll(opts, name))
<1>1. PICK keep : keep = {i \in DOMAIN opts : opts[i].name = name}
  OBVIOUS
<1>2. PICK given : given = Kept(opts, keep)
  OBVIOUS
<1>3. OptAll(opts, name) = [i \in DOMAIN given |-> given[i].val]
  BY <1>1, <1>2 DEF OptAll, Those
<1>4. IsSeq(given)
  BY <1>2, KeptItems
<1>. QED  BY <1>3, <1>4, SameSeq

\* The input streams are a sequence.
LEMMA InputStreamsSeq ==
    ASSUME NEW w, FilesOk(w.files)
    PROVE  IsSeq(InputStreams(w))
<1>1. PICK ss : ss = [f \in DOMAIN w.files |-> [i \in DOMAIN w.files[f].streams |-> <<f, i>>]]
  OBVIOUS
<1>2. IsSeq(ss) /\ DOMAIN ss = DOMAIN w.files
  BY <1>1, SameSeq DEF FilesOk
<1>3. ASSUME NEW f \in DOMAIN ss PROVE IsSeq(ss[f])
  <2>1. PICK streams, r : streams = w.files[f].streams /\ r = ss[f]
    OBVIOUS
  <2>2. IsSeq(streams) /\ r = [i \in DOMAIN streams |-> r[i]]
    BY <1>1, <1>2, <2>1 DEF FilesOk, FileOk
  <2>. QED  BY <2>1, <2>2, SameSeq
<1>4. IsSeq(FlattenSeq(ss))
  BY <1>2, <1>3, FlatSeq
<1>. QED  BY <1>1, <1>4 DEF InputStreams

\* map_auto_audio, map_auto_subtitle
LEMMA MapAutoAdding ==
    ASSUME NEW w, NEW o, Ready(w, o), Fine(w), NEW opts,
           NEW type, type \in {"video", "audio", "data", "subtitle"}, NEW u, u = MapAuto(w, o, opts, type)
    PROVE  Adding(w, o, u)
<1>1. CASE type = "video"
  <2>1. u = MapAutoVideo(w, o, opts)
    BY <1>1 DEF MapAuto
  <2>. QED  BY <2>1, MapAutoVideoAdding
<1>2. CASE type = "audio"
  <2> DEFINE best == BestOfFiles(w, LAMBDA f : StreamCandidates(w, f, "audio", LAMBDA st : TRUE))
  <2>1. u = MapAutoAudio(w, o, opts)
    BY <1>2 DEF MapAuto
  <2>2. u = w \/ u = OstAdd(w, o, opts, "audio", best.ist, <<>>)
    BY <2>1 DEF MapAutoAudio
  <2> HIDE DEF best
  <2>3. PICK ist : ist = best.ist
    OBVIOUS
  <2>4. u = w \/ u = OstAdd(w, o, opts, "audio", ist, <<>>)
    BY <2>2, <2>3
  <2>. QED  BY <2>4, OstAddAdding, ReadyAdding, NoPad
<1>3. CASE type = "subtitle"
  <2>1. u = MapAutoSubtitle(w, o, opts)
    BY <1>3 DEF MapAuto
  <2>2. u = w \/ \E ist : u = OstAdd(w, o, opts, "subtitle", ist, <<>>)
    BY <2>1 DEF MapAutoSubtitle
  <2>. QED  BY <2>2, OstAddAdding, ReadyAdding, NoPad
<1>4. CASE type = "data"
  <2> DEFINE codec == w.outs[o].format.data
             Is(p) == LET ist == Ist(w, p[1], p[2])
                      IN  ist.type = "data" /\ ist.user_set_discard # "all" /\ ist.codec = codec
             found == Those(InputStreams(w), Is)
  <2>1. u = MapAutoData(w, o, opts)
    BY <1>4 DEF MapAuto
  <2>2. u = w \/ u = AddData(w, o, opts, found)
    BY <2>1 DEF MapAutoData, AddData
  <2>3. PICK all, keep, s : /\ all = InputStreams(w)
                            /\ keep = {i \in DOMAIN InputStreams(w) : Is(InputStreams(w)[i])}
                            /\ s = found
    OBVIOUS
  <2>4. s = Kept(all, keep)
    BY <2>3 DEF Those
  <2> HIDE DEF found, Is
  <2>5. IsSeq(all)
    BY <2>3, InputStreamsSeq DEF Ready, Sound, Usable
  <2>6. IsSeq(s)
    BY <2>4, <2>5, KeptItems
  <2>7. u = w \/ u = AddData(w, o, opts, s)
    BY <2>2, <2>3
  <2>. QED  BY <2>6, <2>7, DataAdding, ReadyAdding
<1>. QED  BY <1>1, <1>2, <1>3, <1>4

\* map_manual
LEMMA MapManualAdding ==
    ASSUME NEW w, NEW o, Ready(w, o), Fine(w), NEW opts, NEW map, NEW u, u = MapManual(w, o, opts, map)
    PROVE  Adding(w, o, u)
<1> DEFINE pads == Those(OutputPads(w), LAMBDA p : Out(w, p[1], p[2]).label = map.label)
           ist  == Ist(w, map.file, map.stream)
<1>1. \/ u = w
      \/ Refused(w, u)
      \/ \E type : pads # <<>> /\ u = OstAdd(w, o, opts, type, <<>>, pads[1])
      \/ \E type, p : u = OstAdd(w, o, opts, type, p, <<>>)
  <2>1. u = IF map.disabled THEN w
        ELSE IF map.label # <<>>
        THEN IF pads = <<>> THEN Fail(w, "no filtergraph output with this label")
             ELSE OstAdd(w, o, opts, Out(w, pads[1][1], pads[1][2]).type, <<>>, pads[1])
        ELSE IF ist.user_set_discard = "all" THEN Fail(w, "stream is disabled and cannot be mapped")
        ELSE IF Opt(opts, "disable_" \o ist.type, FALSE) THEN w
        ELSE IF ist.type = "unknown" /\ ~w.global.copy_unknown
        THEN IF w.global.ignore_unknown THEN w ELSE Fail(w, "unsupported type")
        ELSE IF map.view /\ ist.type # "video" THEN Fail(w, "view specifier for another type than video")
        ELSE OstAdd(w, o, opts, ist.type, <<map.file, map.stream>>, <<>>)
    BY DEF MapManual
  <2> HIDE DEF pads, ist
  <2>2. /\ "no filtergraph output with this label" # "" /\ "stream is disabled and cannot be mapped" # ""
        /\ "unsupported type" # "" /\ "view specifier for another type than video" # ""
    OBVIOUS
  <2>3. \/ u = w
        \/ \E why : why # "" /\ u = Fail(w, why)
        \/ \E type : pads # <<>> /\ u = OstAdd(w, o, opts, type, <<>>, pads[1])
        \/ \E type, p : u = OstAdd(w, o, opts, type, p, <<>>)
    BY <2>1, <2>2
  <2>. QED  BY <2>3 DEF Refused
<1>2. CASE Refused(w, u)
  BY <1>2, ReadyAdding, AddingOn
<1>3. ASSUME NEW type, pads # <<>>, u = OstAdd(w, o, opts, type, <<>>, pads[1])
      PROVE  Adding(w, o, u)
  <2>1. PICK all, keep, s : /\ all = OutputPads(w)
                            /\ keep = {i \in DOMAIN OutputPads(w) :
                                          Out(w, OutputPads(w)[i][1], OutputPads(w)[i][2]).label = map.label}
                            /\ s = pads
    OBVIOUS
  <2>2. s = Kept(OutputPads(w), keep)
    BY <2>1 DEF Those
  <2> HIDE DEF pads
  <2>3. PadsOk(w.fgs, s)
    BY <2>2, OpenPads DEF Ready
  <2>4. IsSeq(s) /\ s # <<>>
    BY <1>3, <2>1, <2>3 DEF PadsOk
  <2>5. 1 \in DOMAIN s
    BY <2>4, TailSeq
  <2>6. PICK pad : pad = s[1]
    OBVIOUS
  <2>7. PadOk(w.fgs, pad) /\ u = OstAdd(w, o, opts, type, <<>>, pad)
    BY <1>3, <2>1, <2>3, <2>5, <2>6 DEF PadsOk
  <2>. QED  BY <2>7, OstAddAdding
<1>4. ASSUME NEW type, NEW p, u = OstAdd(w, o, opts, type, p, <<>>) PROVE Adding(w, o, u)
  BY <1>4, OstAddAdding, NoPad
<1> HIDE DEF pads, ist
<1>. QED  BY <1>1, <1>2, <1>3, <1>4, ReadyAdding

\* The types that are mapped by themselves.
AutoTypes == {"video", "audio", "data", "subtitle"}

\* The best of each of some types.
AddAuto(w, o, opts, s) == ForEach(w, s, LAMBDA v, type : MapAuto(v, o, opts, type))

\* Over all of them.
FAuto == INSTANCE Folding WITH
    Op   <- LAMBDA a, b, c, v, type : IF Fine(v) THEN MapAuto(v, a, b, type) ELSE v,
    Good <- LAMBDA a, b, c, w, n, v : Adding(w, a, v)

\* The streams that are mapped by themselves.
LEMMA AutoAdding ==
    ASSUME NEW w, NEW o, Ready(w, o), NEW opts, NEW s, IsSeq(s), \A i \in DOMAIN s : s[i] \in AutoTypes,
           NEW u, u = AddAuto(w, o, opts, s)
    PROVE  Adding(w, o, u)
<1>1. PICK n \in Nat : DOMAIN s = 1 .. n
  BY SeqDomain
<1>2. u = FAuto!Fold(o, opts, 0, w, s)
  BY DEF AddAuto, ForEach, FoldLeft, MapThenFoldSet, Max, FAuto!Fold, FAuto!Last, Fine
<1>3. ASSUME NEW i \in 1 .. n, NEW v, Adding(w, o, v)
      PROVE  Adding(w, o, IF Fine(v) THEN MapAuto(v, o, opts, s[i]) ELSE v)
  <2>1. PICK x, type : x = MapAuto(v, o, opts, type) /\ type = s[i]
    OBVIOUS
  <2>2. type \in {"video", "audio", "data", "subtitle"}
    BY <1>1, <2>1 DEF AutoTypes
  <2>3. Fine(v) => Adding(v, o, x)
    BY <1>3, <2>1, <2>2, AddingReady, MapAutoAdding
  <2>. QED  BY <1>3, <2>1, <2>3, AddingStep
<1>4. \A i \in 1 .. n : \A v : Adding(w, o, v) => Adding(w, o, IF Fine(v) THEN MapAuto(v, o, opts, s[i]) ELSE v)
  BY <1>3
<1>5. Adding(w, o, w)
  BY ReadyAdding
<1>ind. FAuto!Inductive(n)
  BY Induct DEF FAuto!Inductive
<1>6. Adding(w, o, FAuto!Fold(o, opts, 0, w, s))
  BY <1>ind, <1>1, <1>4, <1>5, FAuto!FoldGood
<1>. QED  BY <1>2, <1>6

\* What was mapped, one by one.
AddMaps(w, o, opts, s) == ForEach(w, s, LAMBDA v, map : MapManual(v, o, opts, map))

\* Over all maps.
FMaps == INSTANCE Folding WITH
    Op   <- LAMBDA a, b, c, v, map : IF Fine(v) THEN MapManual(v, a, b, map) ELSE v,
    Good <- LAMBDA a, b, c, w, n, v : Adding(w, a, v)

\* The streams that -map asks for.
LEMMA MapsAdding ==
    ASSUME NEW w, NEW o, Ready(w, o), NEW opts, NEW s, IsSeq(s), NEW u, u = AddMaps(w, o, opts, s)
    PROVE  Adding(w, o, u)
<1>1. PICK n \in Nat : DOMAIN s = 1 .. n
  BY SeqDomain
<1>2. u = FMaps!Fold(o, opts, 0, w, s)
  BY DEF AddMaps, ForEach, FoldLeft, MapThenFoldSet, Max, FMaps!Fold, FMaps!Last, Fine
<1>3. ASSUME NEW i \in 1 .. n, NEW v, Adding(w, o, v)
      PROVE  Adding(w, o, IF Fine(v) THEN MapManual(v, o, opts, s[i]) ELSE v)
  <2>1. PICK x, map : x = MapManual(v, o, opts, map) /\ map = s[i]
    OBVIOUS
  <2>2. Fine(v) => Adding(v, o, x)
    BY <1>3, <2>1, AddingReady, MapManualAdding
  <2>. QED  BY <1>3, <2>1, <2>2, AddingStep
<1>4. \A i \in 1 .. n : \A v : Adding(w, o, v) => Adding(w, o, IF Fine(v) THEN MapManual(v, o, opts, s[i]) ELSE v)
  BY <1>3
<1>5. Adding(w, o, w)
  BY ReadyAdding
<1>ind. FMaps!Inductive(n)
  BY Induct DEF FMaps!Inductive
<1>6. Adding(w, o, FMaps!Fold(o, opts, 0, w, s))
  BY <1>ind, <1>1, <1>4, <1>5, FMaps!FoldGood
<1>. QED  BY <1>2, <1>6

\* The maps of -map are a sequence.
MapsOk(st) == DOMAIN st = {"maps", "err"} /\ IsSeq(st.maps)

\* opt_map appends to them, takes from them or fails.
LEMMA OptMapOk ==
    ASSUME NEW w, FilesOk(w.files), NEW st, MapsOk(st), NEW m
    PROVE  MapsOk(OptMap(w, st, m))
<1> DEFINE file     == w.files[m.file]
           matching == Those([i \in DOMAIN file.streams |-> i], LAMBDA i : StreamSpecifierMatch(m.spec, file, i))
           enabled  == Those(matching, LAMBDA i : file.streams[i].user_set_discard # "all")
           Off(x)   == x.label = <<>> /\ x.file = m.file /\ x.stream \in Range(matching)
           less     == [k \in DOMAIN st.maps |-> [st.maps[k] EXCEPT !.disabled = @ \/ Off(st.maps[k])]]
           more     == [k \in DOMAIN enabled |-> StreamMap(<<>>, m.file, enabled[k], m.view)]
           new      == Append(st.maps, StreamMap(m.label, 0, 0, FALSE))
<1>1. \/ OptMap(w, st, m) = [st EXCEPT !.maps = new]
      \/ \E why : OptMap(w, st, m) = [st EXCEPT !.err = why]
      \/ OptMap(w, st, m) = [st EXCEPT !.maps = less]
      \/ m.file \in DOMAIN w.files /\ OptMap(w, st, m) = [st EXCEPT !.maps = st.maps \o more]
  BY DEF OptMap
<1>2. IsSeq(new)
  BY AppendSeq DEF MapsOk
<1>3. IsSeq(less)
  <2>1. PICK maps, r : maps = st.maps /\ r = less
    OBVIOUS
  <2>2. IsSeq(maps) /\ r = [k \in DOMAIN maps |-> r[k]]
    BY <2>1 DEF MapsOk
  <2>. QED  BY <2>1, <2>2, SameSeq
<1>4. ASSUME m.file \in DOMAIN w.files PROVE IsSeq(st.maps \o more)
  <2>1. PICK all : all = [i \in DOMAIN file.streams |-> i]
    OBVIOUS
  <2>2. IsSeq(file.streams)
    BY <1>4 DEF FilesOk, FileOk
  <2>3. IsSeq(all)
    BY <2>1, <2>2, SameSeq
  <2>4. PICK K : K = {i \in DOMAIN all : StreamSpecifierMatch(m.spec, file, all[i])}
    OBVIOUS
  <2>5. PICK mm : mm = matching
    OBVIOUS
  <2>6. mm = Kept(all, K)
    BY <2>1, <2>4, <2>5 DEF Those
  <2> HIDE DEF matching
  <2>7. IsSeq(mm)
    BY <2>3, <2>6, KeptItems
  <2>8. PICK L : L = {i \in DOMAIN mm : file.streams[mm[i]].user_set_discard # "all"}
    OBVIOUS
  <2>9. PICK e : e = enabled
    OBVIOUS
  <2>10. e = Kept(mm, L)
    BY <2>5, <2>8, <2>9 DEF Those
  <2> HIDE DEF enabled
  <2>11. IsSeq(e)
    BY <2>7, <2>10, KeptItems
  <2>12. PICK r : r = more
    OBVIOUS
  <2>13. r = [k \in DOMAIN e |-> r[k]]
    BY <2>9, <2>12
  <2> HIDE DEF more
  <2>14. IsSeq(r)
    BY <2>11, <2>13, SameSeq
  <2>. QED  BY <2>12, <2>14, ConcatSeq DEF MapsOk
<1>5. PICK n1, n2, n3 : n1 = new /\ n2 = less /\ n3 = st.maps \o more
  OBVIOUS
<1>6. \/ OptMap(w, st, m) = [st EXCEPT !.maps = n1]
      \/ \E why : OptMap(w, st, m) = [st EXCEPT !.err = why]
      \/ OptMap(w, st, m) = [st EXCEPT !.maps = n2]
      \/ m.file \in DOMAIN w.files /\ OptMap(w, st, m) = [st EXCEPT !.maps = n3]
  BY <1>1, <1>5
<1>7. IsSeq(n1) /\ IsSeq(n2) /\ (m.file \in DOMAIN w.files => IsSeq(n3))
  BY <1>2, <1>3, <1>4, <1>5
<1>8. PICK u : u = OptMap(w, st, m)
  OBVIOUS
<1>9. \/ \E n : IsSeq(n) /\ u = [st EXCEPT !.maps = n]
      \/ \E why : u = [st EXCEPT !.err = why]
  BY <1>6, <1>7, <1>8
<1> HIDE DEF new, less, more
<1>10. MapsOk(u)
  BY <1>9 DEF MapsOk
<1>. QED  BY <1>8, <1>10

\* Over all options -map.
FMap == INSTANCE Folding WITH
    Op   <- LAMBDA a, b, c, v, m : IF Fine(v) THEN OptMap(a, v, m) ELSE v,
    Good <- LAMBDA a, b, c, w, n, v : MapsOk(v)

\* What they leave is a sequence.
LEMMA StreamMapsSeq ==
    ASSUME NEW w, FilesOk(w.files), NEW opts, IsSeq(opts)
    PROVE  IsSeq(StreamMaps(w, opts).maps)
<1>0. PICK s : s = OptAll(opts, "map")
  OBVIOUS
<1>1. PICK n \in Nat : DOMAIN s = 1 .. n
  BY <1>0, OptAllSeq, SeqDomain
<1>2. PICK st : st = [maps |-> <<>>, err |-> ""]
  OBVIOUS
<1>3. StreamMaps(w, opts) = FMap!Fold(w, 0, 0, st, s)
  <2>1. StreamMaps(w, opts) = ForEach(st, s, LAMBDA v, m : OptMap(w, v, m))
    BY <1>0, <1>2 DEF StreamMaps
  <2>. QED  BY <2>1 DEF ForEach, FoldLeft, MapThenFoldSet, Max, FMap!Fold, FMap!Last, Fine
<1>4. \A i \in 1 .. n : \A v : MapsOk(v) => MapsOk(IF Fine(v) THEN OptMap(w, v, s[i]) ELSE v)
  BY OptMapOk
<1>5. MapsOk(st)
  <2>1. PICK no : no = ""
    OBVIOUS
  <2>2. st = [maps |-> <<>>, err |-> no]
    BY <1>2, <2>1
  <2>3. DOMAIN st = {"maps", "err"} /\ st.maps = <<>>
    BY <2>2
  <2>. QED  BY <2>3, NoSeq DEF MapsOk
<1>ind. FMap!Inductive(n)
  BY Induct DEF FMap!Inductive
<1>6. MapsOk(FMap!Fold(w, 0, 0, st, s))
  BY <1>ind, <1>1, <1>4, <1>5, FMap!FoldGood
<1>. QED  BY <1>3, <1>6 DEF MapsOk

\* Another record in the place of the last file's, with the same streams.
LEMMA SameStreams ==
    ASSUME NEW w, NEW e, Sound(w, e), NEW o, OutsOk(w.outs, o), NEW x, DOMAIN x = DOMAIN w.outs[o],
           x.streams = w.outs[o].streams, NEW u, u = WithOf(w, o, x)
    PROVE  Rewritten(w, o, e, u) /\ u.outs[o] = x
<1>1. OfOk(x)
  BY DEF OutsOk, OfOk
<1>. QED  BY <1>1, OfChanged

\* Heartbeats of subtitles are set in the streams.
LEMMA HeartbeatsAdding ==
    ASSUME NEW w, NEW o, Ready(w, o), Fine(w), NEW u, u = Heartbeats(w, o)
    PROVE  Adding(w, o, u)
<1> DEFINE streams == w.outs[o].streams
           Told(s, d) == /\ d # s /\ streams[s].heartbeat
                         /\ streams[d].type = "subtitle" /\ streams[d].enc # 0 /\ streams[d].ist # <<>>
                         /\ Ist(w, streams[d].ist[1], streams[d].ist[2]).fix_sub_duration
           told == {p \in (DOMAIN streams) \X (DOMAIN streams) : Told(p[1], p[2])}
           beats == {<<streams[p[1]].sch, streams[p[2]].src>> : p \in told}
<1>1. u = Fail(w, Assertion) \/ u = [w EXCEPT !.outs[o].beats = beats]
  BY DEF Heartbeats
<1> HIDE DEF beats
<1>2. CASE u = Fail(w, Assertion)
  <2>1. Refused(w, u)
    BY <1>2 DEF Refused, Assertion
  <2>. QED  BY <2>1, ReadyAdding, AddingOn
<1>3. CASE u = [w EXCEPT !.outs[o].beats = beats]
  <2>1. PICK of : of = w.outs[o]
    OBVIOUS
  <2>2. PICK x : x = [of EXCEPT !.beats = beats]
    OBVIOUS
  <2>3. u = WithOf(w, o, x)
    BY <1>3, <2>1, <2>2 DEF WithOf
  <2>4. "streams" \in DOMAIN of
    BY <2>1 DEF Ready, OutsOk, OfOk
  <2>5. DOMAIN x = DOMAIN of /\ x.streams = of.streams
    BY <2>2, <2>4
  <2>6. Sound(w, 0) /\ OutsOk(w.outs, o)
    BY DEF Ready
  <2>7. Rewritten(w, o, 0, u)
    BY <2>1, <2>3, <2>5, <2>6, SameStreams
  <2>. QED  BY <2>7, RewrittenAdding DEF Adding
<1>. QED  BY <1>1, <1>2, <1>3

\* Each stream of the last file with something else in it.
LEMMA EachRewritten ==
    ASSUME NEW w, NEW o, Ready(w, o), NEW streams, streams = w.outs[o].streams,
           NEW q, q = [s \in DOMAIN streams |-> q[s]],
           \A s \in DOMAIN streams : DOMAIN q[s] = DOMAIN streams[s],
           NEW u, u = WithStreams(w, o, q)
    PROVE  Adding(w, o, u) /\ Ready(u, o) /\ u.err = w.err /\ u.outs[o].streams = q /\ u.fgs = w.fgs
<1>1. Sound(w, 0) /\ OutsOk(w.outs, o)
  BY DEF Ready
<1>2. \A s \in DOMAIN streams : DOMAIN q[s] = OstFields
  BY <1>1 DEF OutsOk, OfOk, StreamsOk
<1>3. Rewritten(w, o, 0, u) /\ u.outs[o].streams = q
  BY <1>1, <1>2, StreamsChanged
<1>. QED  BY <1>3, RewrittenAdding DEF Adding, Rewritten, Ready

\* -apad is looked up for each stream.
LEMMA ApadAdding ==
    ASSUME NEW w, NEW o, Ready(w, o), NEW opts, NEW u, u = Apad(w, o, opts)
    PROVE  Adding(w, o, u) /\ (Fine(w) => Fine(u))
<1> DEFINE padded == /\ Opt(opts, "shortest", FALSE)
                     /\ \E s \in DOMAIN w.outs[o].streams : w.outs[o].streams[s].type = "video"
           streams == w.outs[o].streams
           r == [s \in DOMAIN streams |-> [streams[s] EXCEPT !.apad = @ /\ padded]]
<1>1. u = WithStreams(w, o, r)
  BY DEF Apad, EachOst, WithStreams
<1> HIDE DEF padded
<1>2. PICK t : t = streams
  OBVIOUS
<1>3. PICK q : q = r
  OBVIOUS
<1>4. q = [s \in DOMAIN t |-> q[s]] /\ \A s \in DOMAIN t : DOMAIN q[s] = DOMAIN t[s]
  BY <1>2, <1>3
<1>5. t = w.outs[o].streams
  BY <1>2
<1>6. u = WithStreams(w, o, q)
  BY <1>1, <1>3
<1> HIDE DEF r, streams
<1>7. Adding(w, o, u) /\ u.err = w.err
  BY <1>4, <1>5, <1>6, EachRewritten
<1>. QED  BY <1>7 DEF Fine

\* create_streams
LEMMA CreateStreamsAdding ==
    ASSUME NEW w, NEW o, Ready(w, o), Fine(w), NEW opts, IsSeq(opts), NEW maps, IsSeq(maps),
           NEW u, u = CreateStreams(w, o, opts, maps)
    PROVE  Adding(w, o, u)
<1> DEFINE open == Those(OutputPads(w), LAMBDA p : Out(w, p[1], p[2]).label = <<>> /\ ~Out(w, p[1], p[2]).bound)
           made == {Out(w, open[k][1], open[k][2]).type : k \in DOMAIN open}
           auto == Those(MapTypes, LAMBDA type : type \notin made /\ ~Opt(opts, "disable_" \o type, FALSE))
           Mapped(v) == IF maps = <<>> THEN AddAuto(v, o, opts, auto) ELSE AddMaps(v, o, opts, maps)
           Attached(v) == OfAddAttachments(v, o, opts)
           Beaten(v) == Heartbeats(v, o)
           Checked(v) == IF v.outs[o].streams = <<>> /\ ~v.outs[o].format.nostreams
                         THEN Fail(v, "output file does not contain any stream") ELSE v
           Padded(v) == Checked(Apad(v, o, opts))
           c1 == AddOpen(w, o, opts, open)
           c2 == Then(c1, Mapped)
           c3 == Then(c2, Attached)
           c4 == Then(c3, Beaten)
<1>1. u = Then(c4, Padded)
  BY DEF CreateStreams, AddOpen, AddAuto, AddMaps
<1>2. PadsOk(w.fgs, open)
  <2>1. PICK keep : keep = {i \in DOMAIN OutputPads(w) :
                               /\ Out(w, OutputPads(w)[i][1], OutputPads(w)[i][2]).label = <<>>
                               /\ ~Out(w, OutputPads(w)[i][1], OutputPads(w)[i][2]).bound}
    OBVIOUS
  <2>2. PICK s : s = open
    OBVIOUS
  <2>3. s = Kept(OutputPads(w), keep)
    BY <2>1, <2>2 DEF Those
  <2> HIDE DEF open
  <2>4. PadsOk(w.fgs, s)
    BY <2>3, OpenPads DEF Ready
  <2>. QED  BY <2>2, <2>4
<1>3. PICK types : types = auto
  OBVIOUS
<1>4. IsSeq(types) /\ \A i \in DOMAIN types : types[i] \in AutoTypes
  <2>1. PICK all, keep : all = MapTypes /\ keep = {i \in DOMAIN MapTypes : MapTypes[i] \notin made /\ ~Opt(opts, "disable_" \o MapTypes[i], FALSE)}
    OBVIOUS
  <2>2. types = Kept(all, keep)
    BY <1>3, <2>1 DEF Those
  <2> HIDE DEF made, auto
  <2>3. all = <<"video", "audio", "data", "subtitle">>
    BY <2>1 DEF MapTypes
  <2>4. all = [i \in 1 .. 4 |-> all[i]] /\ \A i \in 1 .. 4 : all[i] \in AutoTypes
    BY <2>3 DEF AutoTypes
  <2>5. IsSeq(all) /\ DOMAIN all = 1 .. 4
    <3>1. 4 \in Nat
      OBVIOUS
    <3>. QED  BY <2>4, <3>1, ListSeq
  <2>. QED  BY <2>2, <2>4, <2>5, KeptItems
<1>5. \A v : Mapped(v) = IF maps = <<>> THEN AddAuto(v, o, opts, types) ELSE AddMaps(v, o, opts, maps)
  BY <1>3
<1>6. \A v : Checked(v) = v \/ Refused(v, Checked(v))
  <2>1. "output file does not contain any stream" # ""
    OBVIOUS
  <2>2. \A v : Checked(v) = v \/ \E why : why # "" /\ Checked(v) = Fail(v, why)
    BY <2>1
  <2> HIDE DEF Checked
  <2>. QED  BY <2>2 DEF Refused
<1> HIDE DEF open, auto, made, Mapped, Checked
<1>7. Adding(w, o, c1)
  BY <1>2, OpenAdding
<1> HIDE DEF c1
<1>8. Adding(w, o, c2)
  <2>1. c2 = IF Fine(c1) THEN Mapped(c1) ELSE c1
    BY DEF Then, Fine
  <2> HIDE DEF c2
  <2>2. ASSUME Fine(c1) PROVE Adding(c1, o, Mapped(c1))
    <3>1. Ready(c1, o)
      BY <1>7, <2>2, AddingReady
    <3>2. PICK x : x = Mapped(c1)
      OBVIOUS
    <3>3. x = AddAuto(c1, o, opts, types) \/ x = AddMaps(c1, o, opts, maps)
      BY <1>5, <3>2
    <3>4. Adding(c1, o, x)
      BY <1>4, <3>1, <3>3, AutoAdding, MapsAdding
    <3>. QED  BY <3>2, <3>4
  <2>3. PICK x : x = Mapped(c1)
    OBVIOUS
  <2>4. Fine(c1) => Adding(c1, o, x)
    BY <2>2, <2>3
  <2>. QED  BY <1>7, <2>1, <2>3, <2>4, AddingStep
<1> HIDE DEF c2
<1>9. Adding(w, o, c3)
  <2>1. PICK x : x = OfAddAttachments(c2, o, opts)
    OBVIOUS
  <2>2. c3 = IF Fine(c2) THEN x ELSE c2
    BY <2>1 DEF Then, Fine
  <2> HIDE DEF c3
  <2>3. Fine(c2) => Adding(c2, o, x)
    BY <1>8, <2>1, AddingReady, OptAllSeq, AttachAdding
  <2>. QED  BY <1>8, <2>2, <2>3, AddingStep
<1> HIDE DEF c3
<1>10. Adding(w, o, c4)
  <2>1. PICK x : x = Heartbeats(c3, o)
    OBVIOUS
  <2>2. c4 = IF Fine(c3) THEN x ELSE c3
    BY <2>1 DEF Then, Fine
  <2> HIDE DEF c4
  <2>3. Fine(c3) => Adding(c3, o, x)
    BY <1>9, <2>1, AddingReady, HeartbeatsAdding
  <2>. QED  BY <1>9, <2>2, <2>3, AddingStep
<1> HIDE DEF c4
<1>11. PICK a : a = Apad(c4, o, opts)
  OBVIOUS
<1>12. PICK x : x = Checked(a)
  OBVIOUS
<1>13. u = IF Fine(c4) THEN x ELSE c4
  BY <1>1, <1>11, <1>12 DEF Then, Fine
<1>14. ASSUME Fine(c4) PROVE Adding(c4, o, x)
  <2>1. Ready(c4, o)
    BY <1>10, <1>14, AddingReady
  <2>2. Adding(c4, o, a)
    BY <1>11, <2>1, ApadAdding
  <2>3. CASE Fine(a)
    BY <1>6, <1>12, <2>2, <2>3, AddingOn
  <2>4. CASE ~Fine(a)
    <3>1. Fine(a)
      BY <1>11, <1>14, <2>1, ApadAdding
    <3>. QED  BY <2>4, <3>1
  <2>. QED  BY <2>3, <2>4
<1>15. Fine(c4) => Adding(c4, o, x)
  BY <1>14
<1>. QED  BY <1>10, <1>13, <1>15, AddingStep

-----------------------------------------------------------------------------
(* Metadata, programs and groups                                           *)

\* Something else of the last file than its streams.
WithPart(w, o, part, y) == [w EXCEPT !.outs[o][part] = y]

\* It is as if nothing had happened to the streams.
LEMMA PartRewritten ==
    ASSUME NEW w, NEW o, Ready(w, o), NEW part, part # "streams", NEW y, NEW u, u = WithPart(w, o, part, y)
    PROVE  Adding(w, o, u) /\ Ready(u, o) /\ u.err = w.err /\ u.outs[o].streams = w.outs[o].streams /\ u.fgs = w.fgs
<1>1. PICK of : of = w.outs[o]
  OBVIOUS
<1>2. PICK x : x = [of EXCEPT ![part] = y]
  OBVIOUS
<1>3. u = WithOf(w, o, x)
  BY <1>1, <1>2 DEF WithOf, WithPart
<1>4. "streams" \in DOMAIN of
  BY <1>1 DEF Ready, OutsOk, OfOk
<1>5. DOMAIN x = DOMAIN of /\ x.streams = of.streams
  BY <1>2, <1>4
<1>6. Sound(w, 0) /\ OutsOk(w.outs, o)
  BY DEF Ready
<1>7. Rewritten(w, o, 0, u) /\ u.outs[o] = x
  BY <1>1, <1>3, <1>5, <1>6, SameStreams
<1>. QED  BY <1>1, <1>5, <1>7, RewrittenAdding DEF Adding, Rewritten, Ready

\* A chapter and a program with other metadata.
WithChapter(w, o, k, y) == [w EXCEPT !.outs[o].chapters[k].meta = y]
WithProgram(w, o, k, y) == [w EXCEPT !.outs[o].programsMeta[k] = y]

\* They are parts of the file.
LEMMA PartOfPart ==
    ASSUME NEW w, NEW o, NEW k, NEW y
    PROVE  /\ \E z : WithChapter(w, o, k, y) = WithPart(w, o, "chapters", z)
           /\ \E z : WithProgram(w, o, k, y) = WithPart(w, o, "programsMeta", z)
<1>1. WithChapter(w, o, k, y) = WithPart(w, o, "chapters", [w.outs[o].chapters EXCEPT ![k].meta = y])
  BY DEF WithPart, WithChapter
<1>2. WithProgram(w, o, k, y) = WithPart(w, o, "programsMeta", [w.outs[o].programsMeta EXCEPT ![k] = y])
  BY DEF WithPart, WithProgram
<1>. QED  BY <1>1, <1>2

\* Part of the last file, each of its streams, or nothing is changed, or it is an error.
Touched(w, o, u) ==
    \/ u = w
    \/ Refused(w, u)
    \/ \E part, y : part # "streams" /\ u = WithPart(w, o, part, y)
    \/ \E q : /\ q = [s \in DOMAIN w.outs[o].streams |-> q[s]]
              /\ \A s \in DOMAIN w.outs[o].streams : DOMAIN q[s] = DOMAIN w.outs[o].streams[s]
              /\ u = WithStreams(w, o, q)

\* All of that is adding to the file.
LEMMA TouchedAdding ==
    ASSUME NEW w, NEW o, Ready(w, o), Fine(w), NEW u, Touched(w, o, u)
    PROVE  Adding(w, o, u)
<1>1. CASE u = w
  BY <1>1, ReadyAdding
<1>2. CASE Refused(w, u)
  BY <1>2, ReadyAdding, AddingOn
<1>3. CASE \E part, y : part # "streams" /\ u = WithPart(w, o, part, y)
  <2>1. PICK part, y : part # "streams" /\ u = WithPart(w, o, part, y)
    BY <1>3
  <2>. QED  BY <2>1, PartRewritten
<1>4. ASSUME NEW q, q = [s \in DOMAIN w.outs[o].streams |-> q[s]],
             \A s \in DOMAIN w.outs[o].streams : DOMAIN q[s] = DOMAIN w.outs[o].streams[s],
             u = WithStreams(w, o, q)
      PROVE  Adding(w, o, u)
  <2>1. PICK streams : streams = w.outs[o].streams
    OBVIOUS
  <2>2. q = [s \in DOMAIN streams |-> q[s]] /\ \A s \in DOMAIN streams : DOMAIN q[s] = DOMAIN streams[s]
    BY <1>4, <2>1
  <2>. QED  BY <1>4, <2>1, <2>2, EachRewritten
<1>. QED  BY <1>1, <1>2, <1>3, <1>4 DEF Touched

\* A map of metadata of another file.
LEMMA CopyMetadataTouched ==
    ASSUME NEW w, NEW o, NEW map, NEW u, u = CopyMetadata(w, o, map)
    PROVE  Touched(w, o, u)
<1> DEFINE file == w.files[map.file]
           of   == w.outs[o]
           streams == of.streams
           out == map.out.kind
           k  == map.out.idx
           ok == {map.in.kind, map.out.kind} \subseteq MetaKinds
           bad == map.file \notin DOMAIN w.files \/ ~PartKnown(file, map.in) \/ ~PartKnown(of, map.out)
                  \/ (map.in.kind = "s" /\ MetaStreams(file, map.in) = {})
           in == MetaIn(file, map.in)
           meant == MetaStreams(of, map.out)
           q == [s \in DOMAIN streams |-> IF s \in meant THEN [streams[s] EXCEPT !.meta = @ @@ in] ELSE streams[s]]
           u1 == [w EXCEPT !.outs[o].meta = @ @@ in]
           u2 == [w EXCEPT !.outs[o].chapters[k].meta = @ @@ in]
           u3 == [w EXCEPT !.outs[o].programsMeta[k] = @ @@ in]
           u4 == EachOst(w, o, LAMBDA s, ost : IF s \in meant THEN [ost EXCEPT !.meta = @ @@ in] ELSE ost)
<1>1. u = IF ~ok THEN Fail(w, "invalid metadata type")
          ELSE IF map.file = 0 THEN w
          ELSE IF bad THEN Fail(w, "invalid metadata map")
          ELSE CASE out \in {"", "g"} -> u1 [] out = "c" -> u2 [] out = "p" -> u3 [] out = "s" -> u4
  BY DEF CopyMetadata
<1>2. ok => out \in {"", "g"} \/ out = "s" \/ out = "c" \/ out = "p"
  BY DEF MetaKinds
<1>3. u4 = WithStreams(w, o, q)
  BY DEF EachOst, WithStreams
<1> HIDE DEF ok, bad, out, u1, u2, u3, u4
<1>4. u = Fail(w, "invalid metadata type") \/ u = w \/ u = Fail(w, "invalid metadata map") \/ u = u1 \/ u = u2 \/ u = u3 \/ u = u4
  BY <1>1, <1>2
<1>5. u = Fail(w, "invalid metadata type") \/ u = Fail(w, "invalid metadata map") => Refused(w, u)
  <2>1. "invalid metadata type" # ""
    OBVIOUS
  <2>2. "invalid metadata map" # ""
    OBVIOUS
  <2>. QED  BY <2>1, <2>2 DEF Refused
<1>6. \E y : u1 = WithPart(w, o, "meta", y)
  BY DEF u1, WithPart
<1>7. (\E y : u2 = WithPart(w, o, "chapters", y)) /\ \E y : u3 = WithPart(w, o, "programsMeta", y)
  <2>1. PICK y : y = w.outs[o].chapters[k].meta @@ in
    OBVIOUS
  <2>2. u2 = WithChapter(w, o, k, y)
    BY <2>1 DEF u2, WithChapter
  <2>3. PICK z : z = w.outs[o].programsMeta[k] @@ in
    OBVIOUS
  <2>4. u3 = WithProgram(w, o, k, z)
    BY <2>3 DEF u3, WithProgram
  <2> HIDE DEF in, k
  <2>5. \E x : u2 = WithPart(w, o, "chapters", x)
    BY <2>2, PartOfPart
  <2>6. \E x : u3 = WithPart(w, o, "programsMeta", x)
    BY <2>4, PartOfPart
  <2>. QED  BY <2>5, <2>6
<1>8. PICK t : t = streams
  OBVIOUS
<1>9. PICK r : r = q
  OBVIOUS
<1>10. r = [s \in DOMAIN t |-> r[s]] /\ \A s \in DOMAIN t : DOMAIN r[s] = DOMAIN t[s]
  BY <1>8, <1>9
<1>11. u4 = WithStreams(w, o, r) /\ t = w.outs[o].streams
  BY <1>3, <1>8, <1>9
<1> HIDE DEF q, streams, of, in, k, file, meant
<1>12. CASE u = u4
  BY <1>10, <1>11, <1>12 DEF Touched
<1>13. CASE u = u1 \/ u = u2 \/ u = u3
  <2>1. "meta" # "streams" /\ "chapters" # "streams" /\ "programsMeta" # "streams"
    OBVIOUS
  <2>. QED  BY <1>6, <1>7, <1>13, <2>1 DEF Touched
<1>14. CASE u = w \/ Refused(w, u)
  BY <1>14 DEF Touched
<1>. QED  BY <1>4, <1>5, <1>12, <1>13, <1>14

\* The last file has changed, and nothing failed.
Edited(w, o, u) == Adding(w, o, u) /\ Ready(u, o) /\ u.err = w.err

\* Nothing was edited.
LEMMA EditedSame ==
    ASSUME NEW w, NEW o, Ready(w, o)
    PROVE  Edited(w, o, w)
BY ReadyAdding DEF Edited

\* One thing after the other.
LEMMA EditedTwice ==
    ASSUME NEW w, NEW o, NEW v, NEW u, Edited(w, o, v), Edited(v, o, u)
    PROVE  Edited(w, o, u)
<1>1. CASE Fine(v)
  BY <1>1, AddingTwice DEF Edited, Adding
<1>2. CASE ~Fine(v)
  BY <1>2 DEF Edited, Adding, AddingBut, Fine
<1>. QED  BY <1>1, <1>2

\* A part that is not the streams.
LEMMA PartEdited ==
    ASSUME NEW w, NEW o, Ready(w, o), NEW part, part # "streams", NEW y, NEW u, u = WithPart(w, o, part, y)
    PROVE  Edited(w, o, u)
BY PartRewritten DEF Edited

\* Each of the streams.
LEMMA EachEdited ==
    ASSUME NEW w, NEW o, Ready(w, o), NEW t, t = w.outs[o].streams, NEW r, r = [s \in DOMAIN t |-> r[s]],
           \A s \in DOMAIN t : DOMAIN r[s] = DOMAIN t[s],
           NEW u, u = WithStreams(w, o, r)
    PROVE  Edited(w, o, u)
BY EachRewritten DEF Edited

\* copy_meta and what it calls.
LEMMA PruneFileEdited ==
    ASSUME NEW w, NEW o, Ready(w, o), NEW opts, NEW u, u = PruneFile(w, o, opts)
    PROVE  Edited(w, o, u)
<1>1. \E y : u = WithPart(w, o, "meta", y)
  BY DEF PruneFile, WithPart
<1>2. "meta" # "streams"
  OBVIOUS
<1>. QED  BY <1>1, <1>2, PartEdited

\* copy_meta, the tags of streams that are encoded
LEMMA PruneStreamsEdited ==
    ASSUME NEW w, NEW o, Ready(w, o), NEW opts, NEW u, u = PruneStreams(w, o, opts)
    PROVE  Edited(w, o, u)
<1> DEFINE streams == w.outs[o].streams
           q == [s \in DOMAIN streams |->
                   [streams[s] EXCEPT !.meta = WithoutStale(w.outs[o], s, opts, @, EncodedTypes(w.outs[o], {s}))]]
<1>1. PICK t : t = w.outs[o].streams
  OBVIOUS
<1>2. PICK r : r = q
  OBVIOUS
<1>3. u = WithStreams(w, o, r)
  BY <1>2 DEF PruneStreams, EachOst, WithStreams
<1>4. r = [s \in DOMAIN t |-> r[s]] /\ \A s \in DOMAIN t : DOMAIN r[s] = DOMAIN t[s]
  BY <1>1, <1>2
<1> HIDE DEF q, streams
<1>. QED  BY <1>1, <1>3, <1>4, EachEdited

\* copy_meta, the tags of streams
LEMMA CopyStreamMetaEdited ==
    ASSUME NEW w, NEW o, Ready(w, o), NEW u, u = CopyStreamMeta(w, o)
    PROVE  Edited(w, o, u)
<1> DEFINE streams == w.outs[o].streams
           q == [s \in DOMAIN streams |->
                   IF streams[s].ist = <<>> THEN streams[s]
                   ELSE [streams[s] EXCEPT !.meta = @ @@ Ist(w, streams[s].ist[1], streams[s].ist[2]).meta]]
<1>1. PICK t : t = w.outs[o].streams
  OBVIOUS
<1>2. PICK r : r = q
  OBVIOUS
<1>3. u = WithStreams(w, o, r)
  BY <1>2 DEF CopyStreamMeta, EachOst, WithStreams
<1>4. r = [s \in DOMAIN t |-> r[s]] /\ \A s \in DOMAIN t : DOMAIN r[s] = DOMAIN t[s]
  BY <1>1, <1>2
<1> HIDE DEF q, streams
<1>. QED  BY <1>1, <1>3, <1>4, EachEdited

\* copy_meta, all that concerns streams
LEMMA StreamTagsEdited ==
    ASSUME NEW w, NEW o, Ready(w, o), NEW opts, NEW manual, NEW u, u = StreamTags(w, o, opts, manual)
    PROVE  Edited(w, o, u)
<1>1. PICK v : v = IF manual THEN w ELSE CopyStreamMeta(w, o)
  OBVIOUS
<1>2. u = PruneStreams(v, o, opts)
  BY <1>1 DEF StreamTags
<1>3. Edited(w, o, v)
  <2>1. CASE manual
    BY <1>1, <2>1, EditedSame
  <2>2. CASE ~manual
    BY <1>1, <2>2, CopyStreamMetaEdited
  <2>. QED  BY <2>1, <2>2
<1>4. Edited(v, o, u)
  <2>1. Ready(v, o)
    BY <1>3 DEF Edited
  <2>. QED  BY <1>2, <2>1, PruneStreamsEdited
<1>. QED  BY <1>3, <1>4, EditedTwice

\* of_add_programs
LEMMA OfAddProgramsEdited ==
    ASSUME NEW w, NEW o, Ready(w, o), NEW opts, NEW u, u = OfAddPrograms(w, o, opts)
    PROVE  Edited(w, o, u)
<1>1. PICK p : p = OptAll(opts, "program")
  OBVIOUS
<1>2. PICK m : m = [i \in DOMAIN p |-> NoTags]
  OBVIOUS
<1>3. PICK v : v = WithPart(w, o, "programs", p)
  OBVIOUS
<1>4. u = WithPart(v, o, "programsMeta", m)
  <2>1. u = [w EXCEPT !.outs[o].programs = p, !.outs[o].programsMeta = m]
    BY <1>1, <1>2 DEF OfAddPrograms
  <2>. QED  BY <1>3, <2>1 DEF WithPart
<1>5. "programs" # "streams" /\ "programsMeta" # "streams"
  OBVIOUS
<1>6. Edited(w, o, v)
  BY <1>3, <1>5, PartEdited
<1>7. Edited(v, o, u)
  <2>1. Ready(v, o)
    BY <1>6 DEF Edited
  <2>. QED  BY <1>4, <1>5, <2>1, PartEdited
<1>. QED  BY <1>6, <1>7, EditedTwice

\* set_dispositions
LEMMA SetDispositionsEdited ==
    ASSUME NEW w, NEW o, Ready(w, o), NEW opts, NEW u, u = SetDispositions(w, o, opts)
    PROVE  Edited(w, o, u)
<1>1. PICK t : t = w.outs[o].streams
  OBVIOUS
<1>2. \E d, p : u = WithStreams(w, o, [s \in DOMAIN t |-> [t[s] EXCEPT !.default = d[s], !.pic = p[s]]])
  <2> DEFINE of == w.outs[o]
             Given(s) == OptFor(opts, "disposition", of, s, "")
             Copied(s) == of.streams[s].ist # <<>> /\ Ist(w, of.streams[s].ist[1], of.streams[s].ist[2]).default
             OfType(s) == {i \in DOMAIN of.streams : of.streams[i].type = of.streams[s].type}
             Pic(s)    == of.streams[s].ist # <<>> /\ Ist(w, of.streams[s].ist[1], of.streams[s].ist[2]).pic
             First(s)  == s = Least({i \in OfType(s) : ~Pic(i)} \cup {Len(of.streams) + 1})
             Default(s) ==
                IF \E i \in DOMAIN of.streams : Given(i) # ""
                THEN IF Given(s) = "" THEN Copied(s) ELSE Given(s) = "default"
                ELSE \/ Copied(s)
                     \/ Cardinality(OfType(s)) > 1 /\ First(s) /\ \A i \in OfType(s) : ~Copied(i)
             d == [s \in DOMAIN of.streams |-> Default(s)]
             p == [s \in DOMAIN of.streams |-> Given(s) = "" /\ Pic(s)]
  <2>1. u = EachOst(w, o, LAMBDA s, ost : [ost EXCEPT !.default = Default(s), !.pic = Given(s) = "" /\ Pic(s)])
    BY DEF SetDispositions
  <2>2. u = WithStreams(w, o, [s \in DOMAIN t |-> [t[s] EXCEPT !.default = Default(s), !.pic = Given(s) = "" /\ Pic(s)]])
    BY <1>1, <2>1 DEF EachOst, WithStreams
  <2> HIDE DEF Default, Pic, Given
  <2>3. \A s \in DOMAIN t : d[s] = Default(s) /\ p[s] = (Given(s) = "" /\ Pic(s))
    BY <1>1
  <2> HIDE DEF d, p
  <2>4. u = WithStreams(w, o, [s \in DOMAIN t |-> [t[s] EXCEPT !.default = d[s], !.pic = p[s]]])
    BY <2>2, <2>3
  <2>. QED  BY <2>4
<1>3. PICK d, p : u = WithStreams(w, o, [s \in DOMAIN t |-> [t[s] EXCEPT !.default = d[s], !.pic = p[s]]])
  BY <1>2
<1>4. PICK r : r = [s \in DOMAIN t |-> [t[s] EXCEPT !.default = d[s], !.pic = p[s]]]
  OBVIOUS
<1>5. u = WithStreams(w, o, r)
  BY <1>3, <1>4
<1>6. r = [s \in DOMAIN t |-> r[s]] /\ \A s \in DOMAIN t : DOMAIN r[s] = DOMAIN t[s]
  BY <1>4
<1>. QED  BY <1>1, <1>5, <1>6, EachEdited

\* process_forced_keyframes
LEMMA ForcedKeyframesEdited ==
    ASSUME NEW w, NEW o, Ready(w, o), NEW opts, NEW u, u = ForcedKeyframes(w, o, opts)
    PROVE  Edited(w, o, u)
<1> DEFINE of == w.outs[o]
           Times(items) == FlattenSeq([i \in DOMAIN items |->
               IF items[i] = <<>> THEN [c \in DOMAIN of.chapters |-> of.chapters[c].start] ELSE items[i]])
           Forced(s) ==
               LET items == OptFor(opts, "force_key_frames", of, s, <<>>)
               IN  IF of.streams[s].type = "video" /\ of.streams[s].enc # 0
                   THEN SortSeq(Times(items), LAMBDA a, b : a < b)
                   ELSE <<>>
<1>1. u = EachOst(w, o, LAMBDA s, ost : [ost EXCEPT !.kf = Forced(s)])
  BY DEF ForcedKeyframes
<1>2. PICK t : t = w.outs[o].streams
  OBVIOUS
<1> HIDE DEF Forced
<1>3. PICK r : r = [s \in DOMAIN t |-> [t[s] EXCEPT !.kf = Forced(s)]]
  OBVIOUS
<1>4. u = WithStreams(w, o, r)
  BY <1>1, <1>2, <1>3 DEF EachOst, WithStreams
<1>5. r = [s \in DOMAIN t |-> r[s]] /\ \A s \in DOMAIN t : DOMAIN r[s] = DOMAIN t[s]
  BY <1>3
<1>. QED  BY <1>2, <1>4, <1>5, EachEdited

\* One option of of_add_metadata.
LEMMA AddMetadataTouched ==
    ASSUME NEW w, NEW o, NEW m, NEW u, u = AddMetadata(w, o, m)
    PROVE  Touched(w, o, u)
<1> DEFINE streams == w.outs[o].streams
           kind == m.ms.kind
           k == m.ms.idx
           known == PartKnown(w.outs[o], m.ms)
           New(dict) == DictSet(dict, m.tag, m.val)
           meant == MetaStreams(w.outs[o], m.ms)
           q == [s \in DOMAIN streams |-> IF s \in meant THEN [streams[s] EXCEPT !.meta = New(@)] ELSE streams[s]]
           u1 == [w EXCEPT !.outs[o].meta = New(@)]
           u2 == [w EXCEPT !.outs[o].chapters[k].meta = New(@)]
           u3 == [w EXCEPT !.outs[o].programsMeta[k] = New(@)]
           u4 == EachOst(w, o, LAMBDA s, ost : IF s \in meant THEN [ost EXCEPT !.meta = New(@)] ELSE ost)
<1>1. u = CASE kind \in {"", "g"} -> u1
            [] kind \in {"c", "p"} /\ ~known -> Fail(w, "invalid index in metadata specifier")
            [] kind = "c" /\ known -> u2
            [] kind = "p" /\ known -> u3
            [] kind = "s" -> u4
            [] OTHER -> Fail(w, "invalid metadata type")
  BY DEF AddMetadata
<1> HIDE DEF New
<1>2. u4 = WithStreams(w, o, q)
  BY DEF EachOst, WithStreams
<1> HIDE DEF kind, known, u1, u2, u3, u4
<1>3. \/ u = Fail(w, "invalid index in metadata specifier") \/ u = Fail(w, "invalid metadata type")
      \/ u = u1 \/ u = u2 \/ u = u3 \/ u = u4
  BY <1>1
<1>4. u = Fail(w, "invalid index in metadata specifier") \/ u = Fail(w, "invalid metadata type") => Refused(w, u)
  <2>1. "invalid metadata type" # ""
    OBVIOUS
  <2>2. "invalid index in metadata specifier" # ""
    OBVIOUS
  <2>. QED  BY <2>1, <2>2 DEF Refused
<1>5. \E y : u1 = WithPart(w, o, "meta", y)
  BY DEF u1, WithPart
<1>6. (\E y : u2 = WithPart(w, o, "chapters", y)) /\ \E y : u3 = WithPart(w, o, "programsMeta", y)
  <2>1. PICK y : y = New(w.outs[o].chapters[k].meta)
    OBVIOUS
  <2>2. u2 = WithChapter(w, o, k, y)
    BY <2>1 DEF u2, WithChapter
  <2>3. PICK z : z = New(w.outs[o].programsMeta[k])
    OBVIOUS
  <2>4. u3 = WithProgram(w, o, k, z)
    BY <2>3 DEF u3, WithProgram
  <2> HIDE DEF k
  <2>5. \E x : u2 = WithPart(w, o, "chapters", x)
    BY <2>2, PartOfPart
  <2>6. \E x : u3 = WithPart(w, o, "programsMeta", x)
    BY <2>4, PartOfPart
  <2>. QED  BY <2>5, <2>6
<1>7. PICK t : t = streams
  OBVIOUS
<1>8. PICK r : r = q
  OBVIOUS
<1>9. r = [s \in DOMAIN t |-> r[s]] /\ \A s \in DOMAIN t : DOMAIN r[s] = DOMAIN t[s]
  BY <1>7, <1>8
<1>10. u4 = WithStreams(w, o, r) /\ t = w.outs[o].streams
  BY <1>2, <1>7, <1>8
<1> HIDE DEF q, streams, k, meant
<1>11. CASE u = u4
  BY <1>9, <1>10, <1>11 DEF Touched
<1>12. CASE u = u1 \/ u = u2 \/ u = u3
  <2>1. "meta" # "streams" /\ "chapters" # "streams" /\ "programsMeta" # "streams"
    OBVIOUS
  <2>. QED  BY <1>5, <1>6, <1>12, <2>1 DEF Touched
<1>13. CASE Refused(w, u)
  BY <1>13 DEF Touched
<1>. QED  BY <1>3, <1>4, <1>11, <1>12, <1>13

\* Over all options -metadata.
FMeta == INSTANCE Folding WITH
    Op   <- LAMBDA a, b, c, v, m : IF Fine(v) THEN AddMetadata(v, a, m) ELSE v,
    Good <- LAMBDA a, b, c, w, n, v : Adding(w, a, v)

\* The options -metadata, one by one.
AddAllMeta(w, o, s) == ForEach(w, s, LAMBDA v, m : AddMetadata(v, o, m))

\* of_add_metadata
LEMMA OfAddMetadataAdding ==
    ASSUME NEW w, NEW o, Ready(w, o), NEW opts, IsSeq(opts), NEW u, u = OfAddMetadata(w, o, opts)
    PROVE  Adding(w, o, u)
<1>1. PICK s : s = OptAll(opts, "metadata")
  OBVIOUS
<1>2. PICK n \in Nat : DOMAIN s = 1 .. n
  BY <1>1, OptAllSeq, SeqDomain
<1>0. u = AddAllMeta(w, o, s)
  BY <1>1 DEF OfAddMetadata, AddAllMeta
<1>3. u = FMeta!Fold(o, 0, 0, w, s)
  BY <1>0 DEF AddAllMeta, ForEach, FoldLeft, MapThenFoldSet, Max, FMeta!Fold, FMeta!Last, Fine
<1>4. ASSUME NEW i \in 1 .. n, NEW v, Adding(w, o, v)
      PROVE  Adding(w, o, IF Fine(v) THEN AddMetadata(v, o, s[i]) ELSE v)
  <2>1. PICK x, p : x = AddMetadata(v, o, p) /\ p = s[i]
    OBVIOUS
  <2>2. Fine(v) => Adding(v, o, x)
    BY <1>4, <2>1, AddingReady, AddMetadataTouched, TouchedAdding
  <2>. QED  BY <1>4, <2>1, <2>2, AddingStep
<1>5. \A i \in 1 .. n : \A v :
         Adding(w, o, v) => Adding(w, o, IF Fine(v) THEN AddMetadata(v, o, s[i]) ELSE v)
  BY <1>4
<1>6. Adding(w, o, w)
  BY ReadyAdding
<1>ind. FMeta!Inductive(n)
  BY Induct DEF FMeta!Inductive
<1>7. Adding(w, o, FMeta!Fold(o, 0, 0, w, s))
  BY <1>ind, <1>2, <1>5, <1>6, FMeta!FoldGood
<1>. QED  BY <1>3, <1>7

\* The maps of -map_metadata, one by one.
CopyAll(w, o, maps) == ForEach(w, maps, LAMBDA u, map : CopyMetadata(u, o, map))

\* Over all maps.
FCopy == INSTANCE Folding WITH
    Op   <- LAMBDA a, b, c, v, m : IF Fine(v) THEN CopyMetadata(v, a, m) ELSE v,
    Good <- LAMBDA a, b, c, w, n, v : Adding(w, a, v)

\* They are copied, or it fails.
LEMMA CopyAllAdding ==
    ASSUME NEW w, NEW o, Ready(w, o), NEW s, IsSeq(s), NEW u, u = CopyAll(w, o, s)
    PROVE  Adding(w, o, u)
<1>2. PICK n \in Nat : DOMAIN s = 1 .. n
  BY SeqDomain
<1>3. u = FCopy!Fold(o, 0, 0, w, s)
  BY DEF CopyAll, ForEach, FoldLeft, MapThenFoldSet, Max, FCopy!Fold, FCopy!Last, Fine
<1>4. ASSUME NEW i \in 1 .. n, NEW v, Adding(w, o, v)
      PROVE  Adding(w, o, IF Fine(v) THEN CopyMetadata(v, o, s[i]) ELSE v)
  <2>1. PICK x, p : x = CopyMetadata(v, o, p) /\ p = s[i]
    OBVIOUS
  <2>2. Fine(v) => Adding(v, o, x)
    BY <1>4, <2>1, AddingReady, CopyMetadataTouched, TouchedAdding
  <2>. QED  BY <1>4, <2>1, <2>2, AddingStep
<1>5. \A i \in 1 .. n : \A v :
         Adding(w, o, v) => Adding(w, o, IF Fine(v) THEN CopyMetadata(v, o, s[i]) ELSE v)
  BY <1>4
<1>6. Adding(w, o, w)
  BY ReadyAdding
<1>ind. FCopy!Inductive(n)
  BY Induct DEF FCopy!Inductive
<1>7. Adding(w, o, FCopy!Fold(o, 0, 0, w, s))
  BY <1>ind, <1>2, <1>5, <1>6, FCopy!FoldGood
<1>. QED  BY <1>3, <1>7

\* copy_meta
LEMMA CopyMetaAdding ==
    ASSUME NEW w, NEW o, Ready(w, o), Fine(w), NEW opts, IsSeq(opts), NEW u, u = CopyMeta(w, o, opts)
    PROVE  Adding(w, o, u)
<1> DEFINE maps == OptAll(opts, "map_metadata")
           chapters == ChaptersFile(w, Opt(opts, "map_chapters", INF))
           Chapters(v) ==
               IF chapters \notin DOMAIN v.files THEN v
               ELSE [v EXCEPT !.outs[o].chapters =
                        @ \o CopyChapters(v.files[chapters], v.outs[o].start_time, v.outs[o].recording_time,
                                          ~Manual(maps, "c"))]
           FileMeta(v) ==
               IF Manual(maps, "g") \/ v.files = <<>> THEN v
               ELSE [v EXCEPT !.outs[o].meta =
                        Without(@ @@ v.files[1].meta,
                                {<<"creation_time", "">>, <<"company_name", "">>, <<"product_name", "">>,
                                 <<"product_version", "">>}
                                \cup IF v.outs[o].recording_time # INF THEN {<<"duration", "">>} ELSE {})]
           Rest(v) == StreamTags(PruneFile(FileMeta(Chapters(v)), o, opts), o, opts, Manual(maps, "s"))
           c1 == CopyAll(w, o, maps)
<1>1. u = IF chapters \notin DOMAIN w.files \cup {0} THEN Fail(w, "invalid file for chapters") ELSE Then(c1, Rest)
  BY DEF CopyMeta, CopyAll
<1>2. \A v : Chapters(v) = v \/ \E y : Chapters(v) = WithPart(v, o, "chapters", y)
  BY DEF WithPart
<1>3. \A v : FileMeta(v) = v \/ \E y : FileMeta(v) = WithPart(v, o, "meta", y)
  BY DEF WithPart
<1>4. PICK s : s = maps
  OBVIOUS
<1>5. IsSeq(s)
  BY <1>4, OptAllSeq
<1> HIDE DEF Chapters, FileMeta
<1>6. ASSUME NEW v, Ready(v, o), NEW x, x = Rest(v) PROVE Edited(v, o, x)
  <2>1. PICK a, b, c : a = Chapters(v) /\ b = FileMeta(a) /\ c = PruneFile(b, o, opts)
    OBVIOUS
  <2>2. x = StreamTags(c, o, opts, Manual(maps, "s"))
    BY <1>6, <2>1
  <2>0. "chapters" # "streams" /\ "meta" # "streams"
    OBVIOUS
  <2>3. Edited(v, o, a)
    <3>1. a = v \/ \E y : a = WithPart(v, o, "chapters", y)
      BY <1>2, <2>1
    <3>. QED  BY <1>6, <2>0, <3>1, EditedSame, PartEdited
  <2>4. Ready(a, o)
    BY <2>3 DEF Edited
  <2>5. Edited(a, o, b)
    <3>1. b = a \/ \E y : b = WithPart(a, o, "meta", y)
      BY <1>3, <2>1
    <3>. QED  BY <2>0, <2>4, <3>1, EditedSame, PartEdited
  <2>6. Ready(b, o)
    BY <2>5 DEF Edited
  <2>7. Edited(b, o, c)
    BY <2>1, <2>6, PruneFileEdited
  <2>8. Ready(c, o)
    BY <2>7 DEF Edited
  <2>9. PICK manual : manual = Manual(maps, "s")
    OBVIOUS
  <2>10. x = StreamTags(c, o, opts, manual)
    BY <2>2, <2>9
  <2> HIDE DEF Rest, maps
  <2>11. Edited(c, o, x)
    BY <2>8, <2>10, StreamTagsEdited
  <2>. QED  BY <2>3, <2>5, <2>7, <2>11, EditedTwice
<1>7. CASE u = Fail(w, "invalid file for chapters")
  <2>1. "invalid file for chapters" # ""
    OBVIOUS
  <2>2. Refused(w, u)
    BY <1>7, <2>1 DEF Refused
  <2>. QED  BY <2>2, ReadyAdding, AddingOn
<1>8. CASE u = Then(c1, Rest)
  <2>1. PICK v, x : v = CopyAll(w, o, s) /\ x = Rest(v)
    OBVIOUS
  <2>2. u = IF Fine(v) THEN x ELSE v
    BY <1>4, <1>8, <2>1 DEF Then, Fine
  <2> HIDE DEF Rest, maps, c1
  <2>3. Adding(w, o, v)
    BY <1>5, <2>1, CopyAllAdding
  <2>4. Fine(v) => Adding(v, o, x)
    BY <1>6, <2>1, <2>3, AddingReady DEF Edited
  <2>. QED  BY <2>2, <2>3, <2>4, AddingStep
<1>. QED  BY <1>1, <1>7, <1>8

\* of_parse_group_token
LEMMA AddGroupAdding ==
    ASSUME NEW w, NEW o, Ready(w, o), Fine(w), NEW g, NEW u, u = AddGroup(w, o, g)
    PROVE  Adding(w, o, u)
<1> DEFINE v == [w EXCEPT !.outs[o].groups = Append(@, g)]
           Framed(s, ost) == [ost EXCEPT !.fixed_frame_size = @ \/ (g.type = "iamf" /\ s \in Range(g.streams) /\ ost.enc # 0)]
           x == EachOst(v, o, Framed)
<1>1. u = Fail(w, "invalid stream index") \/ u = x
  BY DEF AddGroup
<1> HIDE DEF x
<1>2. CASE u = Fail(w, "invalid stream index")
  <2>1. "invalid stream index" # ""
    OBVIOUS
  <2>2. Refused(w, u)
    BY <1>2, <2>1 DEF Refused
  <2>. QED  BY <2>2, ReadyAdding, AddingOn
<1>3. CASE u = x
  <2>1. PICK y : y = v
    OBVIOUS
  <2>2. PICK t : t = y.outs[o].streams
    OBVIOUS
  <2>3. PICK r : r = [s \in DOMAIN t |-> [t[s] EXCEPT !.fixed_frame_size = @ \/ (g.type = "iamf" /\ s \in Range(g.streams) /\ t[s].enc # 0)]]
    OBVIOUS
  <2>4. x = WithStreams(y, o, r)
    <3>1. x = EachOst(y, o, Framed)
      BY <2>1 DEF x
    <3>. QED  BY <2>2, <2>3, <3>1 DEF EachOst, WithStreams
  <2>5. r = [s \in DOMAIN t |-> r[s]] /\ \A s \in DOMAIN t : DOMAIN r[s] = DOMAIN t[s]
    BY <2>3
  <2>6. \E z : y = WithPart(w, o, "groups", z)
    BY <2>1 DEF WithPart
  <2>7. "groups" # "streams"
    OBVIOUS
  <2> HIDE DEF v
  <2>8. Edited(w, o, y)
    BY <2>6, <2>7, PartEdited
  <2>9. Ready(y, o)
    BY <2>8 DEF Edited
  <2>10. Edited(y, o, u)
    BY <1>3, <2>2, <2>4, <2>5, <2>9, EachEdited
  <2>. QED  BY <2>8, <2>10, EditedTwice DEF Edited
<1>. QED  BY <1>1, <1>2, <1>3

\* The options -stream_group, one by one.
AddAllGroups(w, o, s) == ForEach(w, s, LAMBDA v, g : AddGroup(v, o, g))

\* Over all of them.
FGroup == INSTANCE Folding WITH
    Op   <- LAMBDA a, b, c, v, m : IF Fine(v) THEN AddGroup(v, a, m) ELSE v,
    Good <- LAMBDA a, b, c, w, n, v : Adding(w, a, v)

\* of_add_groups
LEMMA OfAddGroupsAdding ==
    ASSUME NEW w, NEW o, Ready(w, o), NEW opts, IsSeq(opts), NEW u, u = OfAddGroups(w, o, opts)
    PROVE  Adding(w, o, u)
<1>1. PICK s : s = OptAll(opts, "stream_group")
  OBVIOUS
<1>2. PICK n \in Nat : DOMAIN s = 1 .. n
  BY <1>1, OptAllSeq, SeqDomain
<1>0. u = AddAllGroups(w, o, s)
  BY <1>1 DEF OfAddGroups, AddAllGroups
<1>3. u = FGroup!Fold(o, 0, 0, w, s)
  BY <1>0 DEF AddAllGroups, ForEach, FoldLeft, MapThenFoldSet, Max, FGroup!Fold, FGroup!Last, Fine
<1>4. ASSUME NEW i \in 1 .. n, NEW v, Adding(w, o, v)
      PROVE  Adding(w, o, IF Fine(v) THEN AddGroup(v, o, s[i]) ELSE v)
  <2>1. PICK x, p : x = AddGroup(v, o, p) /\ p = s[i]
    OBVIOUS
  <2>2. Fine(v) => Adding(v, o, x)
    BY <1>4, <2>1, AddingReady, AddGroupAdding
  <2>. QED  BY <1>4, <2>1, <2>2, AddingStep
<1>5. \A i \in 1 .. n : \A v :
         Adding(w, o, v) => Adding(w, o, IF Fine(v) THEN AddGroup(v, o, s[i]) ELSE v)
  BY <1>4
<1>6. Adding(w, o, w)
  BY ReadyAdding
<1>ind. FGroup!Inductive(n)
  BY Induct DEF FGroup!Inductive
<1>7. Adding(w, o, FGroup!Fold(o, 0, 0, w, s))
  BY <1>ind, <1>2, <1>5, <1>6, FGroup!FoldGood
<1>. QED  BY <1>3, <1>7

\* What QueuesAsNeeded asks of the streams of a file.
InterleavedIn(streams) == {s \in DOMAIN streams : Interleaved(streams[s])}
\* A sync queue holds the stream to its limit.
Served(ost, q) == q # NoQueue /\ q.limiting /\ q.frames = ost.max_frames
\* The streams of a file have the sync queues they need.
QueuesOk(streams, shortest) ==
    \A s \in InterleavedIn(streams) :
        /\ Limited(streams[s]) => Served(streams[s], streams[s].sq_enc) \/ Served(streams[s], streams[s].sq_mux)
        /\ OneFrameSize(streams[s]) => streams[s].sq_enc # NoQueue
        /\ shortest /\ Cardinality(InterleavedIn(streams)) > 1 =>
              \/ \A t \in InterleavedIn(streams) : streams[t].sq_enc # NoQueue /\ streams[t].sq_enc.limiting
              \/ \A t \in InterleavedIn(streams) : streams[t].sq_mux # NoQueue /\ streams[t].sq_mux.limiting

\* A stream after its queues are set up.
PlacedIn(o, shortest, ost) == [queue |-> o, limiting |-> shortest \/ Limited(ost), frames |-> ost.max_frames]
\* A stream after setup_sync_queues.
Queued(o, shortest, encoding, muxing, ost) ==
    [ost EXCEPT !.sq_enc = IF encoding /\ AVEncoded(ost) THEN PlacedIn(o, shortest, ost) ELSE @,
                !.sq_mux = IF muxing /\ Interleaved(ost) THEN PlacedIn(o, shortest, ost) ELSE @]

\* What that makes of the stream.
LEMMA QueuedIs ==
    ASSUME NEW o, o # 0, NEW shortest \in BOOLEAN, NEW encoding \in BOOLEAN, NEW muxing \in BOOLEAN, NEW ost, DOMAIN ost = OstFields,
           NEW x, x = Queued(o, shortest, encoding, muxing, ost)
    PROVE  /\ DOMAIN x = OstFields
           /\ x.type = ost.type /\ x.enc = ost.enc /\ x.max_frames = ost.max_frames
           /\ x.fixed_frame_size = ost.fixed_frame_size
           /\ encoding /\ AVEncoded(ost) => /\ x.sq_enc # NoQueue /\ (shortest => x.sq_enc.limiting)
                                            /\ Limited(ost) => Served(ost, x.sq_enc)
           /\ muxing /\ Interleaved(ost) => /\ x.sq_mux # NoQueue /\ (shortest => x.sq_mux.limiting)
                                            /\ Limited(ost) => Served(ost, x.sq_mux)
<1>1. PICK p : p = PlacedIn(o, shortest, ost)
  OBVIOUS
<1>2. p.queue = o /\ (p.limiting <=> shortest \/ Limited(ost)) /\ p.frames = ost.max_frames
  BY <1>1 DEF PlacedIn
<1>3. NoQueue.queue = 0
  BY DEF NoQueue
<1>4. p # NoQueue
  BY <1>2, <1>3
<1>5. x = [ost EXCEPT !.sq_enc = IF encoding /\ AVEncoded(ost) THEN p ELSE @,
                      !.sq_mux = IF muxing /\ Interleaved(ost) THEN p ELSE @]
  BY <1>1 DEF Queued
<1>6. /\ DOMAIN x = OstFields
      /\ x.type = ost.type /\ x.enc = ost.enc /\ x.max_frames = ost.max_frames
      /\ x.fixed_frame_size = ost.fixed_frame_size
      /\ x.sq_enc = IF encoding /\ AVEncoded(ost) THEN p ELSE ost.sq_enc
      /\ x.sq_mux = IF muxing /\ Interleaved(ost) THEN p ELSE ost.sq_mux
  BY <1>5 DEF OstFields
<1>7. Limited(ost) => Served(ost, p)
  BY <1>2, <1>4 DEF Served
<1>. QED  BY <1>2, <1>4, <1>6, <1>7

\* The streams that are encoded.
EncodedIn(streams) == {s \in DOMAIN streams : AVEncoded(streams[s])}

\* Whether there are sync queues, and whether before encoders and muxers.
Decided(streams, shortest, needed, encoding, muxing) ==
    /\ needed <=> \/ shortest /\ Cardinality(InterleavedIn(streams)) > 1
                  \/ /\ \E s \in DOMAIN streams : Interleaved(streams[s])
                     /\ \E s \in DOMAIN streams : Limited(streams[s])
                  \/ \E s \in DOMAIN streams : OneFrameSize(streams[s])
    /\ encoding <=> \/ shortest /\ Cardinality(EncodedIn(streams)) > 1
                    \/ \E s \in DOMAIN streams : AVEncoded(streams[s]) /\ Limited(streams[s])
                    \/ \E s \in DOMAIN streams : OneFrameSize(streams[s])
    /\ muxing <=> \E s \in DOMAIN streams : Interleaved(streams[s]) /\ ~AVEncoded(streams[s])

\* All streams of the file after that.
AllQueued(o, shortest, encoding, muxing, streams) ==
    [s \in DOMAIN streams |-> Queued(o, shortest, encoding, muxing, streams[s])]

\* Streams placed in queues as setup_sync_queues decides are served.
LEMMA PlacedOk ==
    ASSUME NEW o, o # 0, NEW shortest \in BOOLEAN, NEW streams, \A s \in DOMAIN streams : DOMAIN streams[s] = OstFields,
           NEW needed \in BOOLEAN, NEW encoding \in BOOLEAN, NEW muxing \in BOOLEAN,
           Decided(streams, shortest, needed, encoding, muxing),
           NEW r, r = IF ~needed THEN streams ELSE AllQueued(o, shortest, encoding, muxing, streams)
    PROVE  QueuesOk(r, shortest)
<1>0. DOMAIN r = DOMAIN streams
  BY DEF AllQueued
<1>d. /\ needed <=> \/ shortest /\ Cardinality(InterleavedIn(streams)) > 1
                    \/ /\ \E s \in DOMAIN streams : Interleaved(streams[s])
                       /\ \E s \in DOMAIN streams : Limited(streams[s])
                    \/ \E s \in DOMAIN streams : OneFrameSize(streams[s])
      /\ encoding <=> \/ shortest /\ Cardinality(EncodedIn(streams)) > 1
                      \/ \E s \in DOMAIN streams : AVEncoded(streams[s]) /\ Limited(streams[s])
                      \/ \E s \in DOMAIN streams : OneFrameSize(streams[s])
      /\ muxing <=> \E s \in DOMAIN streams : Interleaved(streams[s]) /\ ~AVEncoded(streams[s])
  BY DEF Decided
<1>1. \A s \in DOMAIN streams : AVEncoded(streams[s]) => Interleaved(streams[s])
  BY DEF AVEncoded, Interleaved, AVTypes
<1>2. \A s \in DOMAIN streams : OneFrameSize(streams[s]) => AVEncoded(streams[s])
  BY DEF AVEncoded, OneFrameSize, AVTypes
<1>3. \A s \in DOMAIN streams : /\ Interleaved(r[s]) <=> Interleaved(streams[s])
                                /\ Limited(r[s]) <=> Limited(streams[s])
                                /\ OneFrameSize(r[s]) <=> OneFrameSize(streams[s])
                                /\ r[s].max_frames = streams[s].max_frames
  <2>1. CASE ~needed
    BY <2>1
  <2>2. CASE needed
    <3>1. ASSUME NEW s \in DOMAIN streams
          PROVE  /\ r[s].type = streams[s].type /\ r[s].enc = streams[s].enc /\ r[s].max_frames = streams[s].max_frames
                 /\ r[s].fixed_frame_size = streams[s].fixed_frame_size
      <4>1. r[s] = Queued(o, shortest, encoding, muxing, streams[s])
        BY <2>2 DEF AllQueued
      <4>. QED  BY <4>1, QueuedIs
    <3>. QED  BY <3>1 DEF Interleaved, Limited, OneFrameSize
  <2>. QED  BY <2>1, <2>2
<1>4. InterleavedIn(r) = InterleavedIn(streams)
  BY <1>0, <1>3 DEF InterleavedIn
<1>5. ~needed => /\ ~shortest \/ ~(Cardinality(InterleavedIn(streams)) > 1)
                 /\ \A s \in InterleavedIn(streams) : ~Limited(streams[s]) /\ ~OneFrameSize(streams[s])
  BY <1>d DEF InterleavedIn
<1>6. CASE ~needed
  BY <1>3, <1>4, <1>5, <1>6 DEF QueuesOk, InterleavedIn
<1>7. CASE needed
  <2>1. \A s \in DOMAIN streams :
           /\ encoding /\ AVEncoded(streams[s]) =>
                 /\ r[s].sq_enc # NoQueue /\ (shortest => r[s].sq_enc.limiting)
                 /\ Limited(streams[s]) => Served(streams[s], r[s].sq_enc)
           /\ muxing /\ Interleaved(streams[s]) =>
                 /\ r[s].sq_mux # NoQueue /\ (shortest => r[s].sq_mux.limiting)
                 /\ Limited(streams[s]) => Served(streams[s], r[s].sq_mux)
    <3>1. ASSUME NEW s \in DOMAIN streams
          PROVE  r[s] = Queued(o, shortest, encoding, muxing, streams[s])
      BY <1>7 DEF AllQueued
    <3>. QED  BY <3>1, QueuedIs
  <2>2. \A s \in DOMAIN streams : AVEncoded(streams[s]) /\ (Limited(streams[s]) \/ OneFrameSize(streams[s])) => encoding
    BY <1>d
  <2>3. \A s \in DOMAIN streams : Interleaved(streams[s]) /\ ~AVEncoded(streams[s]) => muxing
    BY <1>d
  <2>4. ~muxing /\ shortest /\ Cardinality(InterleavedIn(streams)) > 1 => encoding
    <3>1. ASSUME ~muxing PROVE InterleavedIn(streams) = EncodedIn(streams)
      BY <1>1, <2>3, <3>1 DEF InterleavedIn, EncodedIn
    <3>. QED  BY <1>d, <3>1
  <2>5. \A s \in DOMAIN streams : Served(r[s], r[s].sq_enc) <=> Served(streams[s], r[s].sq_enc)
    BY <1>3 DEF Served
  <2>6. \A s \in DOMAIN streams : Served(r[s], r[s].sq_mux) <=> Served(streams[s], r[s].sq_mux)
    BY <1>3 DEF Served
  <2>7. ASSUME NEW s \in InterleavedIn(streams)
        PROVE  /\ Limited(r[s]) => Served(r[s], r[s].sq_enc) \/ Served(r[s], r[s].sq_mux)
               /\ OneFrameSize(r[s]) => r[s].sq_enc # NoQueue
    <3>1. s \in DOMAIN streams /\ Interleaved(streams[s])
      BY DEF InterleavedIn
    <3>2. Limited(r[s]) => Served(r[s], r[s].sq_enc) \/ Served(r[s], r[s].sq_mux)
      BY <1>3, <2>1, <2>2, <2>3, <2>5, <2>6, <3>1
    <3>3. OneFrameSize(r[s]) => r[s].sq_enc # NoQueue
      BY <1>2, <1>3, <2>1, <2>2, <3>1
    <3>. QED  BY <3>2, <3>3
  <2>8. ASSUME shortest, Cardinality(InterleavedIn(streams)) > 1
        PROVE  \/ \A t \in InterleavedIn(streams) : r[t].sq_enc # NoQueue /\ r[t].sq_enc.limiting
               \/ \A t \in InterleavedIn(streams) : r[t].sq_mux # NoQueue /\ r[t].sq_mux.limiting
    <3>1. CASE muxing
      BY <2>1, <2>8, <3>1 DEF InterleavedIn
    <3>2. CASE ~muxing
      BY <2>1, <2>3, <2>4, <2>8, <3>2 DEF InterleavedIn
    <3>. QED  BY <3>1, <3>2
  <2>. QED  BY <1>4, <2>7, <2>8 DEF QueuesOk
<1>. QED  BY <1>6, <1>7

\* setup_sync_queues
LEMMA SetupSyncQueuesOk ==
    ASSUME NEW w, NEW o, o # 0, Ready(w, o), NEW opts, NEW u, u = SetupSyncQueues(w, o, opts)
    PROVE  Edited(w, o, u) /\ QueuesOk(u.outs[o].streams, Opt(opts, "shortest", FALSE))
<1> DEFINE streams  == w.outs[o].streams
           shortest == Opt(opts, "shortest", FALSE)
           needed   == \/ shortest /\ Several(streams, Interleaved)
                       \/ Some(streams, Interleaved) /\ Some(streams, Limited)
                       \/ Some(streams, OneFrameSize)
           encoding == \/ shortest /\ Several(streams, AVEncoded)
                       \/ Some(streams, LAMBDA ost : AVEncoded(ost) /\ Limited(ost))
                       \/ Some(streams, OneFrameSize)
           muxing   == Some(streams, LAMBDA ost : Interleaved(ost) /\ ~AVEncoded(ost))
           Place(ost) == [queue |-> o, limiting |-> shortest \/ Limited(ost), frames |-> ost.max_frames]
<1>1. u = IF ~needed THEN w
          ELSE EachOst(w, o, LAMBDA s, ost :
                 [ost EXCEPT !.sq_enc = IF encoding /\ AVEncoded(ost) THEN Place(ost) ELSE @,
                             !.sq_mux = IF muxing /\ Interleaved(ost) THEN Place(ost) ELSE @])
  BY DEF SetupSyncQueues
<1>2. PICK t : t = streams
  OBVIOUS
<1>3. PICK b \in BOOLEAN : b <=> shortest
  OBVIOUS
<1>4. PICK n \in BOOLEAN : n <=> needed
  OBVIOUS
<1>5. PICK e \in BOOLEAN : e <=> encoding
  OBVIOUS
<1>6. PICK m \in BOOLEAN : m <=> muxing
  OBVIOUS
<1>7. PICK each : each = AllQueued(o, b, e, m, t)
  OBVIOUS
<1>8. u = IF ~n THEN w ELSE WithStreams(w, o, each)
  <2>1. \A ost : PlacedIn(o, b, ost) = Place(ost)
    BY <1>3 DEF PlacedIn
  <2>2. u = IF ~n THEN w ELSE EachOst(w, o, LAMBDA s, ost :
                 [ost EXCEPT !.sq_enc = IF e /\ AVEncoded(ost) THEN PlacedIn(o, b, ost) ELSE @,
                             !.sq_mux = IF m /\ Interleaved(ost) THEN PlacedIn(o, b, ost) ELSE @])
    BY <1>1, <1>4, <1>5, <1>6, <2>1 DEF EachOst
  <2>. QED  BY <1>2, <1>7, <2>2 DEF EachOst, WithStreams, Queued, AllQueued
<1>9. n <=> \/ b /\ Cardinality(InterleavedIn(t)) > 1
            \/ /\ \E s \in DOMAIN t : Interleaved(t[s])
               /\ \E s \in DOMAIN t : Limited(t[s])
            \/ \E s \in DOMAIN t : OneFrameSize(t[s])
  BY <1>2, <1>3, <1>4 DEF Several, Some, InterleavedIn
<1>10. e <=> \/ b /\ Cardinality(EncodedIn(t)) > 1
             \/ \E s \in DOMAIN t : AVEncoded(t[s]) /\ Limited(t[s])
             \/ \E s \in DOMAIN t : OneFrameSize(t[s])
  BY <1>2, <1>3, <1>5 DEF Several, Some, EncodedIn
<1>11. m <=> \E s \in DOMAIN t : Interleaved(t[s]) /\ ~AVEncoded(t[s])
  BY <1>2, <1>6 DEF Some
<1>d. Decided(t, b, n, e, m)
  BY <1>9, <1>10, <1>11 DEF Decided
<1>12. PICK r : r = IF ~n THEN t ELSE AllQueued(o, b, e, m, t)
  OBVIOUS
<1>13. t = w.outs[o].streams
  BY <1>2
<1>14. QueuesOk(r, b) <=> QueuesOk(r, shortest)
  BY <1>3 DEF QueuesOk
<1> HIDE DEF streams, needed, encoding, muxing, Place, shortest
<1>15. \A s \in DOMAIN t : DOMAIN t[s] = OstFields
  BY <1>13 DEF Ready, OutsOk, OfOk, StreamsOk
<1>16. QueuesOk(r, b)
  BY <1>d, <1>12, <1>15, PlacedOk
<1>17. Edited(w, o, u) /\ u.outs[o].streams = r
  <2>1. CASE ~n
    BY <1>8, <1>12, <1>13, <2>1, EditedSame
  <2>2. CASE n
    <3>1. u = WithStreams(w, o, each) /\ r = each
      BY <1>7, <1>8, <1>12, <2>2
    <3>2. each = [s \in DOMAIN t |-> each[s]] /\ \A s \in DOMAIN t : DOMAIN each[s] = DOMAIN t[s]
      BY <1>7 DEF Queued, AllQueued
    <3>. QED  BY <1>13, <3>1, <3>2, EachRewritten DEF Edited
  <2>. QED  BY <2>1, <2>2
<1>. QED  BY <1>14, <1>16, <1>17 DEF shortest

-----------------------------------------------------------------------------
(* An output file                                                          *)

\* of_open, once the streams are there.
LEMMA OfFinishAdding ==
    ASSUME NEW w, NEW o, o # 0, Ready(w, o), Fine(w), NEW opts, IsSeq(opts), NEW u, u = OfFinish(w, o, opts)
    PROVE  Adding(w, o, u) /\ (Fine(u) => QueuesOk(u.outs[o].streams, Opt(opts, "shortest", FALSE)))
<1>1. PICK c1 : c1 = CopyMeta(w, o, opts)
  OBVIOUS
<1>2. PICK x2 : x2 = OfAddGroups(c1, o, opts)
  OBVIOUS
<1>3. PICK c2 : c2 = IF Fine(c1) THEN x2 ELSE c1
  OBVIOUS
<1>4. PICK p : p = OfAddPrograms(c2, o, opts)
  OBVIOUS
<1>5. PICK x3 : x3 = OfAddMetadata(p, o, opts)
  OBVIOUS
<1>6. PICK c3 : c3 = IF Fine(c2) THEN x3 ELSE c2
  OBVIOUS
<1>7. PICK d : d = SetDispositions(c3, o, opts)
  OBVIOUS
<1>8. PICK k : k = ForcedKeyframes(d, o, opts)
  OBVIOUS
<1>9. PICK x4 : x4 = SetupSyncQueues(k, o, opts)
  OBVIOUS
<1>10. u = IF Fine(c3) THEN x4 ELSE c3
  BY <1>1, <1>2, <1>3, <1>4, <1>5, <1>6, <1>7, <1>8, <1>9 DEF OfFinish, Then, Fine
<1>11. Adding(w, o, c1)
  BY <1>1, CopyMetaAdding
<1>12. Adding(w, o, c2)
  <2>1. Fine(c1) => Adding(c1, o, x2)
    BY <1>2, <1>11, AddingReady, OfAddGroupsAdding
  <2>. QED  BY <1>3, <1>11, <2>1, AddingStep
<1>13. Adding(w, o, c3)
  <2>1. ASSUME Fine(c2) PROVE Adding(c2, o, x3)
    <3>1. Ready(c2, o)
      BY <1>12, <2>1, AddingReady
    <3>2. Edited(c2, o, p)
      BY <1>4, <3>1, OfAddProgramsEdited
    <3>3. Ready(p, o) /\ Adding(c2, o, p) /\ Fine(p)
      BY <2>1, <3>2 DEF Edited, Fine
    <3>4. Adding(p, o, x3)
      BY <1>5, <3>3, OfAddMetadataAdding
    <3>. QED  BY <3>3, <3>4, AddingTwice DEF Adding
  <2>. QED  BY <1>6, <1>12, <2>1, AddingStep
<1>14. ASSUME Fine(c3) PROVE Edited(c3, o, x4) /\ QueuesOk(x4.outs[o].streams, Opt(opts, "shortest", FALSE))
  <2>1. Ready(c3, o)
    BY <1>13, <1>14, AddingReady
  <2>2. Edited(c3, o, d)
    BY <1>7, <2>1, SetDispositionsEdited
  <2>3. Ready(d, o)
    BY <2>2 DEF Edited
  <2>4. Edited(d, o, k)
    BY <1>8, <2>3, ForcedKeyframesEdited
  <2>5. Ready(k, o)
    BY <2>4 DEF Edited
  <2>6. Edited(k, o, x4) /\ QueuesOk(x4.outs[o].streams, Opt(opts, "shortest", FALSE))
    BY <1>9, <2>5, SetupSyncQueuesOk
  <2>. QED  BY <2>2, <2>4, <2>6, EditedTwice
<1>15. Fine(c3) => Adding(c3, o, x4)
  BY <1>14 DEF Edited
<1>. QED  BY <1>10, <1>13, <1>14, <1>15, AddingStep

\* What is there once the output file is open that is number n + 1, if nothing failed.
OutOpened(w, n, shortest, v) ==
    Fine(v) =>
        /\ Sound(v, 0)
        /\ IsSeq(v.outs) /\ DOMAIN v.outs = 1 .. n + 1
        /\ \A p \in 1 .. n : v.outs[p] = w.outs[p]
        /\ QueuesOk(v.outs[n + 1].streams, shortest)

\* A file more.
WithNew(w, new) == [w EXCEPT !.sch = AddMux(@), !.outs = Append(@, new)]

\* A file without streams yet.
LEMMA NewReady ==
    ASSUME NEW w, Sound(w, 0), IsSeq(w.outs), NEW n \in Nat, DOMAIN w.outs = 1 .. n,
           NEW new, "streams" \in DOMAIN new, new.streams = <<>>,
           NEW v, v = WithNew(w, new)
    PROVE  /\ Ready(v, n + 1) /\ v.err = w.err
           /\ \A p \in 1 .. n : v.outs[p] = w.outs[p]
<1>1. PICK g : g = AddMux(w.sch)
  OBVIOUS
<1>2. PICK outs : outs = Append(w.outs, new)
  OBVIOUS
<1>3. Len(w.outs) = n
  BY SeqDomain
<1>4. IsSeq(outs) /\ DOMAIN outs = 1 .. n + 1 /\ outs[n + 1] = new /\ \A p \in 1 .. n : outs[p] = w.outs[p]
  BY <1>2, <1>3, AppendSeq
<1>5. OutsOk(outs, n + 1)
  <2>1. \A s \in DOMAIN new.streams : DOMAIN new.streams[s] = OstFields
    BY NoSeq
  <2>2. OfOk(new)
    BY <2>1, NoSeq DEF OfOk, StreamsOk
  <2>. QED  BY <1>4, <2>2 DEF OutsOk
<1>6. PICK x : x = WithSch(w, g)
  OBVIOUS
<1>7. GraphOk(w.sch) /\ DOMAIN w = Fields
  BY DEF Sound, Usable
<1>8. Grown(w.sch, g, {}) /\ g.nb_enc = w.sch.nb_enc
  BY <1>1, <1>7, AddedGrown
<1>9. FedBut(g, 0)
  BY <1>7, <1>8, FedOn DEF Sound
<1>10. Sound(x, 0) /\ x.err = w.err /\ x.outs = w.outs
  BY <1>6, <1>8, <1>9, SchGrown
<1>11. v = [x EXCEPT !.outs = outs]
  BY <1>1, <1>2, <1>6 DEF WithNew, WithSch
<1>12. DOMAIN x = Fields
  BY <1>10 DEF Sound, Usable
<1>13. DOMAIN v = Fields /\ v.outs = outs /\ v.err = x.err /\ v.sch = x.sch /\ v.fgs = x.fgs /\ v.files = x.files
  BY <1>11, <1>12 DEF Fields
<1>14. Sound(v, 0)
  BY <1>10, <1>13 DEF Sound, Usable, Grids
<1>. QED  BY <1>4, <1>5, <1>10, <1>13, <1>14 DEF Ready

\* of_open: the file and its streams are there, with the queues they need.
LEMMA OfOpenOpened ==
    ASSUME NEW w, Sound(w, 0), IsSeq(w.outs), NEW n \in Nat, DOMAIN w.outs = 1 .. n, Fine(w),
           NEW opts, IsSeq(opts), NEW name, NEW u, u = OfOpen(w, opts, name)
    PROVE  OutOpened(w, n, Opt(opts, "shortest", FALSE), u)
<1> DEFINE o == Len(w.outs) + 1
           maps == StreamMaps(w, opts)
           new == [name |-> name, format |-> OutputFormats[name], streams |-> <<>>, programs |-> <<>>, groups |-> <<>>,
                   start_time |-> Opt(opts, "ss", NOPTS), recording_time |-> RecordingTime(opts),
                   meta |-> NoTags, chapters |-> <<>>, programsMeta |-> <<>>, beats |-> {}]
           Writable(v) == IF v.outs[o].format.exists /\ ~v.global.overwrite THEN Fail(v, "not overwriting") ELSE v
           c1 == CreateStreams([w EXCEPT !.sch = AddMux(@), !.outs = Append(@, new)], o, opts, maps.maps)
           c2 == Then(c1, Writable)
           Finish(v) == OfFinish(v, o, opts)
<1>1. u = IF maps.err # "" THEN Fail(w, maps.err)
          ELSE IF ~StopAccepted(opts) THEN Fail(w, "-to value smaller than -ss")
          ELSE IF name \notin DOMAIN OutputFormats THEN Fail(w, "error initializing the muxer")
          ELSE Then(c2, Finish)
  BY DEF OfOpen
<1>2. "streams" \in DOMAIN new /\ new.streams = <<>>
  OBVIOUS
<1>3. PICK x : x = new
  OBVIOUS
<1>4. PICK v : v = WithNew(w, x)
  OBVIOUS
<1>5. o = n + 1 /\ o # 0
  <2>1. Len(w.outs) = n
    BY SeqDomain
  <2>. QED  BY <2>1
<1>6. PICK ms : ms = maps.maps
  OBVIOUS
<1>7. IsSeq(ms)
  BY <1>6, StreamMapsSeq DEF Sound, Usable
<1>8. c1 = CreateStreams(v, o, opts, ms)
  BY <1>3, <1>4, <1>6 DEF WithNew
<1>9. "streams" \in DOMAIN x /\ x.streams = <<>>
  BY <1>2, <1>3
<1>10. \A y : Writable(y) = y \/ Refused(y, Writable(y))
  <2>1. "not overwriting" # ""
    OBVIOUS
  <2>2. \A y : Writable(y) = y \/ \E why : why # "" /\ Writable(y) = Fail(y, why)
    BY <2>1
  <2> HIDE DEF Writable
  <2>. QED  BY <2>2 DEF Refused
<1>11. Refused(w, u) \/ u = Then(c2, Finish)
  <2>1. "-to value smaller than -ss" # ""
    OBVIOUS
  <2>2. "error initializing the muxer" # ""
    OBVIOUS
  <2> HIDE DEF maps, c2, Finish
  <2>. QED  BY <1>1, <2>1, <2>2 DEF Refused
<1>12. PICK a : a = c1
  OBVIOUS
<1>13. PICK b : b = Writable(a)
  OBVIOUS
<1>14. PICK c : c = IF Fine(a) THEN b ELSE a
  OBVIOUS
<1>15. PICK f : f = Finish(c)
  OBVIOUS
<1>16. Then(c2, Finish) = IF Fine(c) THEN f ELSE c
  BY <1>12, <1>13, <1>14, <1>15 DEF Then, Fine
<1>17. a = CreateStreams(v, o, opts, ms) /\ f = OfFinish(c, o, opts) /\ (b = a \/ Refused(a, b))
  BY <1>8, <1>10, <1>12, <1>13, <1>15
<1>18. PICK m : m = o
  OBVIOUS
<1>19. a = CreateStreams(v, m, opts, ms) /\ f = OfFinish(c, m, opts) /\ m = n + 1 /\ m # 0
  BY <1>5, <1>17, <1>18
<1> HIDE DEF o, maps, new, Writable, c1, c2, Finish
<1>20. Ready(v, m) /\ v.err = w.err /\ \A p \in 1 .. n : v.outs[p] = w.outs[p]
  BY <1>4, <1>9, <1>19, NewReady
<1>21. Fine(v)
  BY <1>20 DEF Fine
<1>22. Adding(v, m, a)
  BY <1>7, <1>19, <1>20, <1>21, CreateStreamsAdding
<1>23. Adding(v, m, c)
  <2>1. Fine(a) => Adding(v, m, b)
    BY <1>17, <1>22, AddingOn
  <2>. QED  BY <1>14, <1>22, <2>1
<1>24. Fine(c) => Adding(c, m, f) /\ (Fine(f) => QueuesOk(f.outs[m].streams, Opt(opts, "shortest", FALSE)))
  <2>1. Fine(c) => Ready(c, m)
    BY <1>23, AddingReady
  <2>. QED  BY <1>19, <2>1, OfFinishAdding
<1>25. PICK e : e = IF Fine(c) THEN f ELSE c
  OBVIOUS
<1>26. Adding(v, m, e)
  BY <1>23, <1>24, <1>25, AddingStep
<1>27. Fine(e) => QueuesOk(e.outs[m].streams, Opt(opts, "shortest", FALSE))
  BY <1>24, <1>25
<1>28. OutOpened(w, n, Opt(opts, "shortest", FALSE), e)
  <2>1. ASSUME Fine(e) PROVE \A p \in 1 .. n : e.outs[p] = w.outs[p]
    <3>1. \A p \in 1 .. m : p # m => e.outs[p] = v.outs[p]
      BY <1>26, <2>1 DEF Adding, AddingBut, Others
    <3>2. \A p \in 1 .. n : p \in 1 .. m /\ p # m
      BY <1>19
    <3>. QED  BY <1>20, <3>1, <3>2
  <2>. QED  BY <1>19, <1>26, <1>27, <2>1 DEF OutOpened, Adding, AddingBut, OutsOk
<1>29. CASE Refused(w, u)
  <2>1. ~Fine(u)
    BY <1>29, RefusedNot DEF Sound, Usable, Fields
  <2>. QED  BY <2>1 DEF OutOpened
<1>30. CASE u = Then(c2, Finish)
  <2>1. u = e
    BY <1>16, <1>25, <1>30
  <2>. QED  BY <1>28, <2>1
<1>. QED  BY <1>11, <1>29, <1>30

-----------------------------------------------------------------------------
(* The command line                                                        *)

\* The options of a command line are in lists, and those of each file.
SplitFields == {"global", "output", "input", "dec", "cur", "err"}
\* Groups of options, and what a command line is split into.
GroupsOk(groups) == IsSeq(groups) /\ \A i \in DOMAIN groups : IsSeq(groups[i].opts)
SplitOk(x) ==
    /\ DOMAIN x = SplitFields
    /\ IsSeq(x.global) /\ IsSeq(x.cur)
    /\ \A kind \in {"output", "input", "dec"} : GroupsOk(x[kind])

\* What a word adds to them.
SplitStep(x, y) ==
    \/ y = x
    \/ \E kind \in {"output", "input", "dec"} : \E arg : y = FinishGroup(x, kind, arg)
    \/ \E def, val : y = AddOpt(x, def, val)
    \/ \E why : y = [x EXCEPT !.err = why]

\* A group ends.
LEMMA FinishGroupOk ==
    ASSUME NEW x, SplitOk(x), NEW kind \in {"output", "input", "dec"}, NEW arg, NEW y, y = FinishGroup(x, kind, arg)
    PROVE  SplitOk(y)
<1>1. PICK g : g = [arg |-> arg, opts |-> x.cur]
  OBVIOUS
<1>2. PICK gs : gs = Append(x[kind], g)
  OBVIOUS
<1>3. y = [x EXCEPT ![kind] = gs, !.cur = <<>>]
  BY <1>1, <1>2 DEF FinishGroup
<1>4. GroupsOk(gs)
  <2>1. GroupsOk(x[kind]) /\ IsSeq(g.opts)
    BY <1>1 DEF SplitOk
  <2>2. PICK s : s = x[kind]
    OBVIOUS
  <2>3. IsSeq(s) /\ \A i \in DOMAIN s : IsSeq(s[i].opts)
    BY <2>1, <2>2 DEF GroupsOk
  <2>4. PICK n \in Nat : n = Len(s) /\ DOMAIN s = 1 .. n
    BY <2>3, SeqDomain
  <2>5. IsSeq(gs) /\ DOMAIN gs = 1 .. n + 1 /\ (\A i \in DOMAIN s : gs[i] = s[i]) /\ gs[n + 1] = g
    BY <1>2, <2>2, <2>3, <2>4, AppendSeq
  <2>6. \A i \in 1 .. n + 1 : i \in 1 .. n \/ i = n + 1
    OBVIOUS
  <2>. QED  BY <2>1, <2>3, <2>4, <2>5, <2>6 DEF GroupsOk
<1>5. DOMAIN x = SplitFields
  BY DEF SplitOk
<1>6. /\ DOMAIN y = SplitFields /\ y.global = x.global /\ y.cur = <<>> /\ y[kind] = gs
      /\ \A k \in {"output", "input", "dec"} : k # kind => y[k] = x[k]
  BY <1>3, <1>5 DEF SplitFields
<1>. QED  BY <1>4, <1>6, NoSeq DEF SplitOk

\* An option is added to the group.
LEMMA AddOptOk ==
    ASSUME NEW x, SplitOk(x), NEW def, NEW val, NEW y, y = AddOpt(x, def, val)
    PROVE  SplitOk(y)
<1>1. PICK to \in {"global", "cur"} : to = IF def.files = {} THEN "global" ELSE "cur"
  OBVIOUS
<1>2. PICK opt : opt = [name |-> def.name, spec |-> def.spec, val |-> val, files |-> def.files]
  OBVIOUS
<1>3. PICK r : r = Append(x[to], opt)
  OBVIOUS
<1>4. y = [x EXCEPT ![to] = r]
  BY <1>1, <1>2, <1>3 DEF AddOpt
<1>5. IsSeq(r)
  BY <1>3, AppendSeq DEF SplitOk
<1>6. DOMAIN x = SplitFields
  BY DEF SplitOk
<1>7. /\ DOMAIN y = SplitFields /\ y[to] = r /\ \A k \in SplitFields : k # to => y[k] = x[k]
  BY <1>4, <1>6 DEF SplitFields
<1>. QED  BY <1>5, <1>7 DEF SplitOk, SplitFields

\* Either, or nothing.
LEMMA SplitStepOk ==
    ASSUME NEW x, SplitOk(x), NEW y, SplitStep(x, y)
    PROVE  SplitOk(y)
<1>1. ASSUME NEW why, y = [x EXCEPT !.err = why] PROVE SplitOk(y)
  <2>1. DOMAIN x = SplitFields
    BY DEF SplitOk
  <2>2. /\ DOMAIN y = SplitFields /\ y.global = x.global /\ y.cur = x.cur
        /\ \A k \in {"output", "input", "dec"} : y[k] = x[k]
    BY <1>1, <2>1 DEF SplitFields
  <2>. QED  BY <2>2 DEF SplitOk
<1>. QED  BY <1>1, FinishGroupOk, AddOptOk DEF SplitStep

\* A state of the splitting.
StateOk(st) == DOMAIN st = {"wants", "dashed", "octx"} /\ SplitOk(st.octx)

\* A word is taken.
LEMMA StateNext ==
    ASSUME NEW st, StateOk(st), NEW a, NEW d, NEW y, SplitStep(st.octx, y),
           NEW u, u = [st EXCEPT !.wants = a, !.dashed = d, !.octx = y]
    PROVE  StateOk(u)
<1>1. DOMAIN u = {"wants", "dashed", "octx"} /\ u.octx = y
  BY DEF StateOk
<1>. QED  BY <1>1, SplitStepOk DEF StateOk

\* split_commandline, of one word
LEMMA SplitWordOk ==
    ASSUME NEW Defs, NEW Files, NEW st, StateOk(st), NEW w, NEW u, u = SplitWord(Defs, Files, st, w)
    PROVE  StateOk(u)
<1>1. PICK no : no = ""
  OBVIOUS
<1>2. PICK bad : bad = "unrecognized option"
  OBVIOUS
<1> DEFINE v1 == [st EXCEPT !.wants = no, !.octx = FinishGroup(@, Separators[st.wants], w)]
           v2 == [st EXCEPT !.wants = no, !.octx = AddOpt(@, Defs[st.wants], w)]
           v3 == [st EXCEPT !.dashed = TRUE]
           v4 == [st EXCEPT !.dashed = FALSE, !.octx = FinishGroup(@, "output", w)]
           v5 == [st EXCEPT !.wants = w]
           v6 == [st EXCEPT !.octx = AddOpt(@, Defs[w], Defs[w].val)]
           v7 == [st EXCEPT !.octx.err = bad]
           fine == st.octx.err = no
           dash == w = "--"
<1>3. u = CASE ~fine -> st
              [] fine /\ st.wants \in DOMAIN Separators -> v1
              [] fine /\ st.wants \in DOMAIN Defs -> v2
              [] OTHER ->
                   CASE dash -> v3
                     [] ~dash /\ (st.dashed \/ w \in Files) -> v4
                     [] ~st.dashed /\ w \in DOMAIN Separators -> v5
                     [] ~st.dashed /\ w \in DOMAIN Defs /\ Defs[w].arg -> v5
                     [] ~st.dashed /\ w \in DOMAIN Defs /\ ~Defs[w].arg -> v6
                     [] OTHER -> v7
  BY <1>1, <1>2 DEF SplitWord
<1> HIDE DEF v1, v2, v3, v4, v5, v6, v7, fine, dash
<1>4. u = st \/ (u = v1 /\ st.wants \in DOMAIN Separators) \/ u = v2 \/ u = v3 \/ u = v4 \/ u = v5 \/ u = v6 \/ u = v7
  BY <1>3
<1>5. DOMAIN st = {"wants", "dashed", "octx"}
  BY DEF StateOk
<1>6. CASE u = st
  BY <1>6
<1>7. CASE u = v1 /\ st.wants \in DOMAIN Separators
  <2>1. PICK kind \in {"output", "input", "dec"} : kind = Separators[st.wants]
    BY <1>7 DEF Separators
  <2>2. PICK y : y = FinishGroup(st.octx, kind, w)
    OBVIOUS
  <2>3. u = [st EXCEPT !.wants = no, !.dashed = st.dashed, !.octx = y]
    BY <1>5, <1>7, <2>1, <2>2 DEF v1
  <2>4. SplitStep(st.octx, y)
    BY <2>2 DEF SplitStep
  <2>. QED  BY <2>3, <2>4, StateNext
<1>8. CASE u = v2
  <2>1. PICK y : y = AddOpt(st.octx, Defs[st.wants], w)
    OBVIOUS
  <2>2. u = [st EXCEPT !.wants = no, !.dashed = st.dashed, !.octx = y]
    BY <1>5, <1>8, <2>1 DEF v2
  <2>3. SplitStep(st.octx, y)
    BY <2>1 DEF SplitStep
  <2>. QED  BY <2>2, <2>3, StateNext
<1>9. CASE u = v3 \/ u = v5
  BY <1>5, <1>9 DEF v3, v5, StateOk
<1>10. CASE u = v4
  <2>1. PICK y : y = FinishGroup(st.octx, "output", w)
    OBVIOUS
  <2>2. u = [st EXCEPT !.wants = st.wants, !.dashed = FALSE, !.octx = y]
    BY <1>5, <1>10, <2>1 DEF v4
  <2>3. SplitStep(st.octx, y)
    BY <2>1 DEF SplitStep
  <2>. QED  BY <2>2, <2>3, StateNext
<1>11. CASE u = v6
  <2>1. PICK y : y = AddOpt(st.octx, Defs[w], Defs[w].val)
    OBVIOUS
  <2>0. PICK a, d : a = st.wants /\ d = st.dashed
    OBVIOUS
  <2>2. u = [st EXCEPT !.wants = a, !.dashed = d, !.octx = y]
    BY <1>5, <1>11, <2>0, <2>1 DEF v6
  <2>3. SplitStep(st.octx, y)
    BY <2>1 DEF SplitStep
  <2>. QED  BY <2>2, <2>3, StateNext
<1>12. CASE u = v7
  <2>1. PICK y : y = [st.octx EXCEPT !.err = bad]
    OBVIOUS
  <2>0. PICK a, d : a = st.wants /\ d = st.dashed
    OBVIOUS
  <2>2. u = [st EXCEPT !.wants = a, !.dashed = d, !.octx = y]
    BY <1>5, <1>12, <2>0, <2>1 DEF v7
  <2>3. SplitStep(st.octx, y)
    BY <2>1 DEF SplitStep
  <2>. QED  BY <2>2, <2>3, StateNext
<1>. QED  BY <1>4, <1>6, <1>7, <1>8, <1>9, <1>10, <1>11, <1>12

\* Over all words.
FWord == INSTANCE Folding WITH
    Op   <- LAMBDA a, b, c, st, w : SplitWord(a, b, st, w),
    Good <- LAMBDA a, b, c, w, n, st : StateOk(st)

\* At first there are no options.
LEMMA EmptySplitOk == SplitOk(EmptySplit)
<1>1. PICK no : no = ""
  OBVIOUS
<1>2. EmptySplit = [global |-> <<>>, output |-> <<>>, input |-> <<>>, dec |-> <<>>, cur |-> <<>>, err |-> no]
  BY <1>1 DEF EmptySplit
<1>3. DOMAIN EmptySplit = SplitFields /\ \A k \in {"global", "output", "input", "dec", "cur"} : EmptySplit[k] = <<>>
  BY <1>2 DEF SplitFields
<1>4. GroupsOk(<<>>)
  BY NoSeq DEF GroupsOk
<1>. QED  BY <1>3, <1>4, NoSeq DEF SplitOk

\* split_commandline
LEMMA SplitCommandlineOk ==
    ASSUME NEW Defs, NEW Files, NEW argv, IsList(argv), NEW u, u = SplitCommandline(Defs, Files, argv)
    PROVE  SplitOk(u)
<1>1. PICK n \in Nat : n = Len(argv) /\ argv = [i \in 1 .. n |-> argv[i]]
  BY DEF IsList
<1>2. DOMAIN argv = 1 .. n
  BY <1>1
<1>3. PICK st : st = [wants |-> "", dashed |-> FALSE, octx |-> EmptySplit]
  OBVIOUS
<1>4. StateOk(st)
  <2>1. PICK no : no = ""
    OBVIOUS
  <2>2. st = [wants |-> no, dashed |-> FALSE, octx |-> EmptySplit]
    BY <1>3, <2>1
  <2>3. DOMAIN st = {"wants", "dashed", "octx"} /\ st.octx = EmptySplit
    BY <2>2
  <2>. QED  BY <2>3, EmptySplitOk DEF StateOk
<1>5. PICK end : end = FWord!Fold(Defs, Files, 0, st, argv)
  OBVIOUS
<1>6. StateOk(end)
  <2>1. \A i \in 1 .. n : \A v : StateOk(v) => StateOk(SplitWord(Defs, Files, v, argv[i]))
    BY SplitWordOk
  <2>ind. FWord!Inductive(n)
    BY Induct DEF FWord!Inductive
  <2>. QED  BY <2>ind, <1>2, <1>4, <1>5, <2>1, FWord!FoldGood
<1>7. u = IF end.wants # "" /\ end.octx.err = "" THEN [end.octx EXCEPT !.err = "missing argument"] ELSE end.octx
  <2>1. FoldLeft(LAMBDA v, w : SplitWord(Defs, Files, v, w), st, argv) = end
    BY <1>5 DEF FoldLeft, MapThenFoldSet, Max, FWord!Fold, FWord!Last
  <2>2. u = LET e == FoldLeft(LAMBDA v, w : SplitWord(Defs, Files, v, w), st, argv)
            IN  IF e.wants # "" /\ e.octx.err = "" THEN [e.octx EXCEPT !.err = "missing argument"] ELSE e.octx
    BY <1>3 DEF SplitCommandline
  <2>. QED  BY <2>1, <2>2
<1>8. u = end.octx \/ \E why : u = [end.octx EXCEPT !.err = why]
  BY <1>7
<1>9. SplitStep(end.octx, u)
  BY <1>8 DEF SplitStep
<1>. QED  BY <1>6, <1>9, SplitStepOk DEF StateOk

\* A run starts without anything.
LEMMA CleanedSound ==
    ASSUME NEW global, NEW v, v = Cleaned(global)
    PROVE  Sound(v, 0) /\ v.outs = <<>> /\ Fine(v) /\ v.global = global
<1>1. PICK no : no = ""
  OBVIOUS
<1>2. v = [err |-> no, sch |-> NoGraph, files |-> <<>>, fgs |-> <<>>, outs |-> <<>>, decs |-> <<>>,
           global |-> global, src |-> NoNode]
  BY <1>1 DEF Cleaned
<1>3. /\ DOMAIN v = Fields /\ v.sch = NoGraph /\ v.files = <<>> /\ v.fgs = <<>> /\ v.outs = <<>> /\ v.err = no
      /\ v.global = global
  BY <1>2 DEF Fields
<1>4. Fine(v)
  BY <1>1, <1>3 DEF Fine
<1>5. NoGraph.nb_enc = 0 /\ GraphOk(NoGraph)
  <2>1. PICK g : g = [demux |-> <<>>, nb_dec |-> 0, nb_enc |-> 0, filters |-> <<>>, mux |-> <<>>]
    OBVIOUS
  <2>2. Sources(g) = {} /\ Sinks(g) = {}
    <3>1. g.demux = <<>> /\ g.nb_dec = 0 /\ g.nb_enc = 0 /\ g.filters = <<>> /\ g.mux = <<>>
      BY <2>1
    <3>2. DOMAIN g.demux = {} /\ DOMAIN g.filters = {} /\ DOMAIN g.mux = {}
      BY <3>1, NoSeq
    <3>3. 1 .. 0 = {}
      OBVIOUS
    <3>. QED  BY <3>1, <3>2, <3>3 DEF Sources, Sinks, Streams
  <2>3. PICK m : m = [dst |-> [n \in Sources(g) |-> <<>>], src |-> [n \in Sinks(g) |-> NoNode]]
    OBVIOUS
  <2>4. PICK h : h = NoGraph
    OBVIOUS
  <2>5. h = With(g, m)
    BY <2>1, <2>3, <2>4 DEF NoGraph, Shape
  <2>6. DOMAIN g = {"demux", "nb_dec", "nb_enc", "filters", "mux"} /\ DOMAIN m = {"dst", "src"}
    BY <2>1, <2>3
  <2>7. /\ DOMAIN h = GraphFields
        /\ h.demux = <<>> /\ h.nb_dec = 0 /\ h.nb_enc = 0 /\ h.filters = <<>> /\ h.mux = <<>>
        /\ h.dst = m.dst /\ h.src = m.src
    BY <2>1, <2>5, <2>6 DEF With, GraphFields
  <2>8. DOMAIN h.demux = {} /\ DOMAIN h.filters = {} /\ DOMAIN h.mux = {}
    BY <2>7, NoSeq
  <2>9. Sources(h) = {} /\ Sinks(h) = {}
    BY <2>7, <2>8 DEF Sources, Sinks, Streams
  <2>10. DOMAIN h.dst = {} /\ h.dst = [n \in {} |-> <<>>] /\ h.src = [n \in {} |-> NoNode]
    BY <2>2, <2>3, <2>7
  <2>11. h.demux \in Seq(Nat) /\ h.mux \in Seq(Nat) /\ h.filters = <<>> /\ Len(h.filters) = 0 /\ DOMAIN h.filters = 1 .. 0
    BY <2>7
  <2>12. Sized(h)
    BY <2>7, <2>8, <2>11 DEF Sized
  <2>13. h.dst \in [Sources(h) -> Seq(Sinks(h))] /\ h.src \in [Sinks(h) -> Sources(h) \cup {NoNode}]
    BY <2>9, <2>10
  <2>14. Streams(h, "fout") = {}
    BY <2>9 DEF Sources
  <2>15. WellFormed(h)
    BY <2>9, <2>12, <2>13, <2>14 DEF WellFormed
  <2>. QED  BY <2>4, <2>7, <2>15, NoSeq DEF GraphOk
<1>6. Usable(v)
  BY <1>3, <1>5, NoSeq DEF Usable, FilesOk, FgsOk
<1>7. Grids(v)
  BY <1>3, NoSeq DEF Grids
<1>8. FedBut(v.sch, 0)
  BY <1>3, <1>5 DEF FedBut
<1>. QED  BY <1>3, <1>4, <1>6, <1>7, <1>8 DEF Sound

-----------------------------------------------------------------------------
(* The invariant                                                           *)

\* The command lines still to come, and the options of this one.
ArgvOk(argv) ==
    /\ IsList(argv)
    /\ \A desc \in Range(OptAll(Split(argv).global, "filter_complex")) : IsList(desc.ins) /\ IsList(desc.outs)
\* The command lines to come, and the options of one.
Pending(argvs) == IsSeq(argvs) /\ \A i \in DOMAIN argvs : ArgvOk(argvs[i])
OptionsOk(x) ==
    /\ SplitOk(x)
    /\ \A desc \in Range(OptAll(x.global, "filter_complex")) : IsSeq(desc.ins) /\ IsSeq(desc.outs)

\* The queues of the first n output files are as needed.
QueuedTo(n, outs, x) == \A p \in 1 .. n : QueuesOk(outs[p].streams, Opt(x.output[p].opts, "shortest", FALSE))
\* The queues of all of them.
QueuedAll(outs, x)   == \A p \in DOMAIN outs : QueuesOk(outs[p].streams, Opt(x.output[p].opts, "shortest", FALSE))

\* What is there before a step, unless something failed.
Before(here, n, v, x) ==
    /\ here \in {"idle", "options", "filtergraphs", "inputs"} => Sound(v, 0) /\ v.outs = <<>>
    /\ here = "outputs" => Sound(v, 0) /\ IsSeq(v.outs) /\ DOMAIN v.outs = 1 .. n - 1 /\ QueuedTo(n - 1, v.outs, x)
    /\ here \in {"decoders", "bindings"} => Sound(v, 0) /\ QueuedAll(v.outs, x)
    /\ here \in {"offsets", "parsed", "running"} => Plain(v) /\ QueuedAll(v.outs, x)

\* The same, and what holds even if something failed.
StepOk(here, n, v, x) ==
    /\ n \in Nat \ {0}
    /\ IF here = "idle" THEN Fine(v) ELSE OptionsOk(x)
    /\ Fine(v) => Before(here, n, v, x)
    /\ here \in {"decoders", "parsed", "running"} => QueuedAll(v.outs, x)

\* The invariant of the setup.
SetupInv == Pending(todo) /\ StepOk(pc, next, prog, octx)

\* The options of a command line are as they should be.
LEMMA SplitOptionsOk ==
    ASSUME NEW argv, ArgvOk(argv), NEW x, x = Split(argv)
    PROVE  OptionsOk(x)
<1>1. SplitOk(x)
  BY SplitCommandlineOk DEF ArgvOk, Split
<1>2. \A desc \in Range(OptAll(x.global, "filter_complex")) : IsSeq(desc.ins) /\ IsSeq(desc.outs)
  BY ListIsSeq DEF ArgvOk
<1>. QED  BY <1>1, <1>2 DEF OptionsOk

\* It holds at first.
LEMMA InitOk == Init => SetupInv
<1> SUFFICES ASSUME Init PROVE SetupInv
  OBVIOUS
<1>1. todo \in Sessions
  BY DEF Init
<1>2. IsSeq(todo) /\ \A i \in DOMAIN todo : ArgvOk(todo[i])
  <2>1. /\ IsList(todo)
        /\ \A argv \in Range(todo) :
              /\ IsList(argv)
              /\ \A desc \in Range(OptAll(Split(argv).global, "filter_complex")) :
                    IsList(desc.ins) /\ IsList(desc.outs)
    BY <1>1, SessionsAssumption
  <2>2. \A argv \in Range(todo) : ArgvOk(argv)
    BY <2>1 DEF ArgvOk
  <2>3. \A i \in DOMAIN todo : todo[i] \in Range(todo)
    BY DEF Range
  <2>. QED  BY <2>1, <2>2, <2>3, ListIsSeq
<1>3. pc = "idle" /\ next = 1 /\ prog = Cleaned(DefaultOptions)
  BY DEF Init
<1>4. Sound(prog, 0) /\ prog.outs = <<>> /\ Fine(prog)
  BY <1>3, CleanedSound
<1>6. StepOk(pc, next, prog, octx)
  BY <1>3, <1>4 DEF StepOk, Before
<1>. QED  BY <1>2, <1>6 DEF SetupInv, Pending

\* A run begins.
LEMMA RunFFmpegOk ==
    ASSUME SetupInv, RunFFmpeg
    PROVE  SetupInv'
<1>1. pc = "idle" /\ todo # <<>> /\ octx' = Split(Head(todo)) /\ todo' = Tail(todo) /\ pc' = "options" /\ next' = next
  BY DEF RunFFmpeg
<1>2. prog' = prog \/ Refused(prog, prog')
  BY DEF RunFFmpeg, Refused
<1>3. Pending(todo')
  BY <1>1, TailSeq DEF SetupInv, Pending
<1>4. PICK argv : argv = Head(todo)
  OBVIOUS
<1>5. ArgvOk(argv)
  BY <1>1, <1>4, TailSeq DEF SetupInv, Pending
<1>6. OptionsOk(octx')
  BY <1>1, <1>4, <1>5, SplitOptionsOk
<1>7. Fine(prog) /\ Sound(prog, 0) /\ prog.outs = <<>> /\ next \in Nat \ {0}
  BY <1>1 DEF SetupInv, StepOk, Before
<1>8. CASE prog' = prog
  BY <1>1, <1>3, <1>6, <1>7, <1>8 DEF SetupInv, StepOk, Before
<1>9. CASE Refused(prog, prog')
  <2>1. ~Fine(prog')
    BY <1>7, <1>9, RefusedNot DEF Sound, Usable, Fields
  <2>. QED  BY <1>1, <1>3, <1>6, <1>7, <2>1 DEF SetupInv, StepOk
<1>. QED  BY <1>2, <1>8, <1>9

-----------------------------------------------------------------------------
(* The steps                                                               *)

\* The global options alone change.
LEMMA WithGlobal ==
    ASSUME NEW v, Sound(v, 0), NEW global, NEW u, u = [v EXCEPT !.global = global]
    PROVE  Sound(u, 0) /\ u.outs = v.outs /\ DOMAIN u = Fields
<1>1. DOMAIN u = Fields /\ u.sch = v.sch /\ u.fgs = v.fgs /\ u.files = v.files /\ u.outs = v.outs
  BY DEF Sound, Usable, Fields
<1>. QED  BY <1>1 DEF Sound, Usable, Grids

\* The global options are applied.
LEMMA ParseGlobalOptionsOk ==
    ASSUME SetupInv, ParseGlobalOptions
    PROVE  SetupInv'
<1>1. /\ pc = "options" /\ Fine(prog) /\ pc' = "filtergraphs"
      /\ todo' = todo /\ octx' = octx /\ next' = next
      /\ \E global : prog' = [prog EXCEPT !.global = global]
  BY DEF ParseGlobalOptions, Fine
<1>2. Sound(prog, 0) /\ prog.outs = <<>> /\ OptionsOk(octx) /\ next \in Nat \ {0} /\ Pending(todo)
  BY <1>1 DEF SetupInv, StepOk, Before
<1>3. Sound(prog', 0) /\ prog'.outs = <<>>
  BY <1>1, <1>2, WithGlobal
<1>4. Pending(todo')
  BY <1>1, <1>2
<1>5. StepOk(pc', next', prog', octx')
  BY <1>1, <1>2, <1>3 DEF StepOk, Before
<1>. QED  BY <1>4, <1>5 DEF SetupInv

\* A step over a list: an item is handled, or there are no more.
Handled(here, there, items, u) ==
    /\ pc = here /\ Fine(prog) /\ todo' = todo /\ octx' = octx
    /\ \/ next \in DOMAIN items /\ next' = next + 1 /\ pc' = pc /\ prog' = u
       \/ next \notin DOMAIN items /\ next' = 1 /\ pc' = there /\ prog' = prog

\* A step that fails leaves the output files.
LEMMA FailedOk ==
    ASSUME NEW v, DOMAIN v = Fields, NEW u, Refused(v, u)
    PROVE  ~Fine(u) /\ u.outs = v.outs
<1>1. ~Fine(u)
  BY RefusedNot DEF Fields
<1>. QED  BY <1>1 DEF Refused, Fail, Fields

\* The invariant holds after a step over a list if it does in either case.
LEMMA HandledOk ==
    ASSUME SetupInv, NEW here, NEW there, NEW items, NEW u, Handled(here, there, items, u),
           next \in DOMAIN items => StepOk(here, next + 1, u, octx),
           next \notin DOMAIN items => StepOk(there, 1, prog, octx)
    PROVE  SetupInv'
<1>1. Pending(todo')
  BY DEF SetupInv, Handled
<1>2. StepOk(pc', next', prog', octx')
  BY DEF Handled
<1>. QED  BY <1>1, <1>2 DEF SetupInv

\* A filtergraph of the command line is created.
LEMMA CreateFiltergraphsOk ==
    ASSUME SetupInv, CreateFiltergraphs
    PROVE  SetupInv'
<1>1. PICK items : items = OptAll(octx.global, "filter_complex")
  OBVIOUS
<1>2. PICK u : u = FgCreate(prog, items[next], FALSE)
  OBVIOUS
<1>3. Handled("filtergraphs", "inputs", items, u)
  BY <1>1, <1>2 DEF CreateFiltergraphs, Each, Handled, Fine
<1>4. /\ Fine(prog) /\ Sound(prog, 0) /\ prog.outs = <<>> /\ OptionsOk(octx) /\ next \in Nat \ {0} /\ next + 1 \in Nat \ {0}
  BY <1>3 DEF SetupInv, StepOk, Before, Handled
<1>5. ASSUME next \in DOMAIN items PROVE StepOk("filtergraphs", next + 1, u, octx)
  <2>1. PICK desc : desc = items[next]
    OBVIOUS
  <2>2. IsSeq(desc.ins) /\ IsSeq(desc.outs)
    <3>1. desc \in Range(items)
      BY <1>5, <2>1 DEF Range
    <3>. QED  BY <1>1, <1>4, <3>1 DEF OptionsOk
  <2>3. u = FgCreate(prog, desc, FALSE)
    BY <1>2, <2>1
  <2>4. Opening(prog, u)
    BY <1>4, <2>2, <2>3, FgCreateOpening
  <2>. QED  BY <1>4, <2>4 DEF StepOk, Before, Opening
<1>6. next \notin DOMAIN items => StepOk("inputs", 1, prog, octx)
  BY <1>4 DEF StepOk, Before
<1>. QED  BY <1>3, <1>5, <1>6, HandledOk

\* An input file is opened.
LEMMA OpenInputsOk ==
    ASSUME SetupInv, OpenInputs
    PROVE  SetupInv'
<1>1. PICK items : items = octx.input
  OBVIOUS
<1>2. PICK g : g = items[next]
  OBVIOUS
<1>3. PICK u : u = Opened("input", prog, g, IfileOpen)
  OBVIOUS
<1>4. Handled("inputs", "outputs", items, u)
  BY <1>1, <1>2, <1>3 DEF OpenInputs, Each, Handled, Fine
<1>5. u = IfileOpen(prog, g.opts, g.arg) \/ Refused(prog, u)
  <2>1. "option cannot be applied to this kind of file" # ""
    OBVIOUS
  <2>. QED  BY <1>3, <2>1 DEF Opened, Refused
<1>6. /\ Fine(prog) /\ Sound(prog, 0) /\ prog.outs = <<>> /\ OptionsOk(octx) /\ next + 1 \in Nat \ {0}
      /\ DOMAIN prog = Fields
  BY <1>4 DEF SetupInv, StepOk, Before, Handled, Sound, Usable
<1>7. StepOk("inputs", next + 1, u, octx)
  <2>1. CASE Refused(prog, u)
    BY <1>6, <2>1, FailedOk DEF StepOk
  <2>2. CASE u = IfileOpen(prog, g.opts, g.arg)
    <3>1. Opening(prog, u)
      BY <1>6, <2>2, IfileOpenOpening
    <3>. QED  BY <1>6, <3>1 DEF StepOk, Before, Opening
  <2>. QED  BY <1>5, <2>1, <2>2
<1>8. StepOk("outputs", 1, prog, octx)
  <2>1. 1 .. 1 - 1 = {} /\ 1 \in Nat \ {0}
    OBVIOUS
  <2>2. QueuedTo(1 - 1, prog.outs, octx)
    BY <2>1 DEF QueuedTo
  <2>. QED  BY <1>6, <2>1, <2>2, NoSeq DEF StepOk, Before
<1>. QED  BY <1>4, <1>7, <1>8, HandledOk

\* An output file is opened.
LEMMA OpenOutputsOk ==
    ASSUME SetupInv, OpenOutputs
    PROVE  SetupInv'
<1>1. PICK items : items = octx.output
  OBVIOUS
<1>2. PICK g : g = items[next]
  OBVIOUS
<1>3. PICK u : u = Opened("output", prog, g, OfOpen)
  OBVIOUS
<1>4. Handled("outputs", "decoders", items, u)
  BY <1>1, <1>2, <1>3 DEF OpenOutputs, Each, Handled, Fine
<1>5. u = OfOpen(prog, g.opts, g.arg) \/ Refused(prog, u)
  <2>1. "option cannot be applied to this kind of file" # ""
    OBVIOUS
  <2>. QED  BY <1>3, <2>1 DEF Opened, Refused
<1>6. PICK n \in Nat : n = next - 1
  BY <1>4 DEF SetupInv, StepOk
<1>7. /\ Fine(prog) /\ Sound(prog, 0) /\ IsSeq(prog.outs) /\ DOMAIN prog.outs = 1 .. n /\ QueuedTo(n, prog.outs, octx)
      /\ OptionsOk(octx) /\ next \in Nat \ {0} /\ DOMAIN prog = Fields
  BY <1>4, <1>6 DEF SetupInv, StepOk, Before, Handled, Sound, Usable
<1>8. next = n + 1 /\ next + 1 \in Nat \ {0} /\ (next + 1) - 1 = n + 1
  BY <1>6, <1>7
<1>9. next \in DOMAIN items => StepOk("outputs", next + 1, u, octx)
  <2>1. CASE Refused(prog, u)
    BY <1>7, <1>8, <2>1, FailedOk DEF StepOk
  <2>2. ASSUME next \in DOMAIN items, u = OfOpen(prog, g.opts, g.arg) PROVE StepOk("outputs", next + 1, u, octx)
    <3>1. IsSeq(g.opts)
      BY <1>1, <1>2, <1>7, <2>2 DEF OptionsOk, SplitOk, GroupsOk
    <3>2. OutOpened(prog, n, Opt(g.opts, "shortest", FALSE), u)
      BY <1>7, <2>2, <3>1, OfOpenOpened
    <3>3. ASSUME Fine(u) PROVE /\ Sound(u, 0) /\ IsSeq(u.outs) /\ DOMAIN u.outs = 1 .. n + 1
                               /\ QueuedTo(n + 1, u.outs, octx)
      <4>1. /\ Sound(u, 0) /\ IsSeq(u.outs) /\ DOMAIN u.outs = 1 .. n + 1
            /\ \A p \in 1 .. n : u.outs[p] = prog.outs[p]
            /\ QueuesOk(u.outs[n + 1].streams, Opt(g.opts, "shortest", FALSE))
        BY <3>2, <3>3 DEF OutOpened
      <4>2. g = octx.output[n + 1]
        BY <1>1, <1>2, <1>8
      <4>3. \A p \in 1 .. n + 1 : p \in 1 .. n \/ p = n + 1
        OBVIOUS
      <4>4. \A p \in 1 .. n : QueuesOk(u.outs[p].streams, Opt(octx.output[p].opts, "shortest", FALSE))
        BY <1>7, <4>1 DEF QueuedTo
      <4>5. QueuedTo(n + 1, u.outs, octx)
        BY <4>1, <4>2, <4>3, <4>4 DEF QueuedTo
      <4>. QED  BY <4>1, <4>5
    <3>. QED  BY <1>7, <1>8, <3>3 DEF StepOk, Before
  <2>. QED  BY <1>5, <2>1, <2>2
<1>10. StepOk("decoders", 1, prog, octx)
  <2>1. QueuedAll(prog.outs, octx)
    BY <1>7 DEF QueuedTo, QueuedAll
  <2>2. 1 \in Nat \ {0}
    OBVIOUS
  <2>. QED  BY <1>7, <2>1, <2>2 DEF StepOk, Before
<1>. QED  BY <1>4, <1>9, <1>10, HandledOk

\* A loopback decoder is made.
LEMMA CreateDecodersOk ==
    ASSUME SetupInv, CreateDecoders
    PROVE  SetupInv'
<1>1. PICK items : items = octx.dec
  OBVIOUS
<1>2. PICK g : g = items[next]
  OBVIOUS
<1>3. PICK u : u = Opened("dec", prog, g, LAMBDA v, opts, arg : DecCreate(v, arg))
  OBVIOUS
<1>4. Handled("decoders", "bindings", items, u)
  BY <1>1, <1>2, <1>3 DEF CreateDecoders, Each, Handled, Fine
<1>5. u = DecCreate(prog, g.arg) \/ Refused(prog, u)
  <2>1. "option cannot be applied to this kind of file" # ""
    OBVIOUS
  <2>. QED  BY <1>3, <2>1 DEF Opened, Refused
<1>6. /\ Fine(prog) /\ Sound(prog, 0) /\ QueuedAll(prog.outs, octx) /\ OptionsOk(octx) /\ next + 1 \in Nat \ {0}
      /\ DOMAIN prog = Fields
  BY <1>4 DEF SetupInv, StepOk, Before, Handled, Sound, Usable
<1>7. StepOk("decoders", next + 1, u, octx)
  <2>1. CASE Refused(prog, u)
    BY <1>6, <2>1, FailedOk DEF StepOk
  <2>2. CASE u = DecCreate(prog, g.arg)
    <3>1. Opening(prog, u) /\ u.outs = prog.outs
      BY <1>6, <2>2, DecCreateOpening
    <3>. QED  BY <1>6, <3>1 DEF StepOk, Before, Opening
  <2>. QED  BY <1>5, <2>1, <2>2
<1>8. StepOk("bindings", 1, prog, octx)
  <2>1. 1 \in Nat \ {0}
    OBVIOUS
  <2>. QED  BY <1>6, <2>1 DEF StepOk, Before
<1>. QED  BY <1>4, <1>7, <1>8, HandledOk

\* What filtergraphs read is bound.
LEMMA FinaliseBindingsOk ==
    ASSUME SetupInv, FinaliseBindings
    PROVE  SetupInv'
<1>1. /\ pc = "bindings" /\ Fine(prog) /\ pc' = "offsets" /\ prog' = FgFinaliseBindings(prog)
      /\ todo' = todo /\ octx' = octx /\ next' = next
  BY DEF FinaliseBindings, Fine
<1>2. Sound(prog, 0) /\ QueuedAll(prog.outs, octx) /\ OptionsOk(octx) /\ next \in Nat \ {0} /\ Pending(todo)
  BY <1>1 DEF SetupInv, StepOk, Before
<1>3. PICK u : u = FgFinaliseBindings(prog)
  OBVIOUS
<1>4. Fine(u) => Plain(u) /\ u.outs = prog.outs
  BY <1>2, <1>3, FgFinaliseBindingsPlain
<1>5. StepOk("offsets", next, u, octx)
  BY <1>2, <1>4 DEF StepOk, Before
<1>. QED  BY <1>1, <1>2, <1>3, <1>5 DEF SetupInv

\* Offsets of input files are set.
LEMMA SetOffsetsOk ==
    ASSUME SetupInv, SetOffsets
    PROVE  SetupInv'
<1>1. /\ pc = "offsets" /\ Fine(prog) /\ pc' = "parsed" /\ prog' = ApplySyncOffsets(CorrectInputStartTimes(prog))
      /\ todo' = todo /\ octx' = octx /\ next' = next
  BY DEF SetOffsets, Fine
<1>2. Plain(prog) /\ QueuedAll(prog.outs, octx) /\ OptionsOk(octx) /\ next \in Nat \ {0} /\ Pending(todo)
  BY <1>1 DEF SetupInv, StepOk, Before
<1>3. PICK v : v = CorrectInputStartTimes(prog)
  OBVIOUS
<1>4. PICK u : u = ApplySyncOffsets(v)
  OBVIOUS
<1>5. Plain(v) /\ v.outs = prog.outs
  BY <1>2, <1>3, CorrectedOffset DEF Offset
<1>6. Offset(v, u)
  BY <1>4, <1>5, ApplySyncOffsetsOffset
<1>7. u.outs = prog.outs /\ (Fine(u) => Plain(u))
  BY <1>5, <1>6 DEF Offset
<1>8. StepOk("parsed", next, u, octx)
  BY <1>2, <1>7 DEF StepOk, Before
<1>. QED  BY <1>1, <1>2, <1>3, <1>4, <1>8 DEF SetupInv

\* The run begins to transcode, or has failed.
LEMMA TranscodeOk ==
    ASSUME SetupInv, Transcode
    PROVE  SetupInv'
<1>1. /\ pc = "parsed" /\ Fine(prog) /\ todo' = todo /\ octx' = octx /\ next' = next
      /\ \/ pc' = "running" /\ prog' = prog
         \/ pc' = "parsed" /\ Refused(prog, prog')
  <2>1. "not started" # ""
    OBVIOUS
  <2>. QED  BY <2>1 DEF Transcode, Fine, Refused
<1>2. Plain(prog) /\ QueuedAll(prog.outs, octx) /\ OptionsOk(octx) /\ next \in Nat \ {0} /\ Pending(todo)
  BY <1>1 DEF SetupInv, StepOk, Before
<1>3. CASE pc' = "running" /\ prog' = prog
  BY <1>1, <1>2, <1>3 DEF SetupInv, StepOk, Before
<1>4. CASE pc' = "parsed" /\ Refused(prog, prog')
  <2>1. ~Fine(prog') /\ prog'.outs = prog.outs
    BY <1>2, <1>4, FailedOk DEF Plain, Usable
  <2>. QED  BY <1>1, <1>2, <1>4, <2>1 DEF SetupInv, StepOk
<1>. QED  BY <1>1, <1>3, <1>4

\* The run ends, and with it the process or not.
LEMMA CleanupOk ==
    ASSUME SetupInv, Cleanup
    PROVE  SetupInv'
<1>1. prog' = Cleaned(prog.global) /\ pc' = "idle" /\ next' = 1 /\ todo' = todo
  BY DEF Cleanup
<1>2. Sound(prog', 0) /\ prog'.outs = <<>> /\ Fine(prog')
  BY <1>1, CleanedSound
<1>3. 1 \in Nat \ {0}
  OBVIOUS
<1>4. StepOk(pc', next', prog', octx')
  BY <1>1, <1>2, <1>3 DEF StepOk, Before
<1>. QED  BY <1>1, <1>4 DEF SetupInv

\* Every step keeps the invariant.
LEMMA NextOk == SetupInv /\ [Next]_vars => SetupInv'
<1> SUFFICES ASSUME SetupInv, [Next]_vars PROVE SetupInv'
  OBVIOUS
<1>1. CASE UNCHANGED vars
  BY <1>1 DEF SetupInv, vars
<1>2. CASE Next
  BY <1>2, RunFFmpegOk, ParseGlobalOptionsOk, CreateFiltergraphsOk, OpenInputsOk, OpenOutputsOk, CreateDecodersOk,
     FinaliseBindingsOk, SetOffsetsOk, TranscodeOk, CleanupOk DEF Next
<1>. QED  BY <1>1, <1>2

\* Every run sets up the queues its streams need.
LEMMA QueuedIsNeeded == SetupInv => QueuesAsNeeded
<1> SUFFICES ASSUME SetupInv, pc \in {"decoders", "parsed", "running"}, NEW o \in DOMAIN prog.outs,
                    NEW s \in Streams_(prog.outs[o])
             PROVE  LET of == prog.outs[o]
                        Queues(x) == {of.streams[x].sq_enc, of.streams[x].sq_mux} \ {NoQueue}
                        shortest == Opt(octx.output[o].opts, "shortest", FALSE)
                    IN  /\ Limited(of.streams[s]) =>
                             \E q \in Queues(s) : q.limiting /\ q.frames = of.streams[s].max_frames
                        /\ OneFrameSize(of.streams[s]) => of.streams[s].sq_enc # NoQueue
                        /\ shortest /\ Cardinality(Streams_(of)) > 1 =>
                             \/ \A t \in Streams_(of) : of.streams[t].sq_enc # NoQueue /\ of.streams[t].sq_enc.limiting
                             \/ \A t \in Streams_(of) : of.streams[t].sq_mux # NoQueue /\ of.streams[t].sq_mux.limiting
  BY DEF QueuesAsNeeded
<1>1. PICK streams : streams = prog.outs[o].streams
  OBVIOUS
<1>2. QueuesOk(streams, Opt(octx.output[o].opts, "shortest", FALSE))
  BY <1>1 DEF SetupInv, StepOk, QueuedAll
<1>3. Streams_(prog.outs[o]) = InterleavedIn(streams)
  BY <1>1 DEF Streams_, InterleavedIn
<1>. QED  BY <1>1, <1>2, <1>3 DEF QueuesOk, Served

\* Of every run: streams that are limited, that end with the shortest or that want
\* frames of one size are in the sync queues that see to it (setup_sync_queues).
THEOREM QueuesSetUp == Spec => []QueuesAsNeeded
<1>1. Spec => []SetupInv
  BY InitOk, NextOk, PTL DEF Spec
<1>. QED  BY <1>1, QueuedIsNeeded, PTL

-----------------------------------------------------------------------------
(* The graph                                                               *)

\* The steps of a run.
Steps == {"idle", "options", "filtergraphs", "inputs", "outputs", "decoders", "bindings", "offsets", "parsed", "running"}

\* There are no other steps.
LEMMA StepsNext ==
    ASSUME pc \in Steps, [Next]_vars
    PROVE  pc' \in Steps
<1>1. CASE UNCHANGED vars
  BY <1>1 DEF vars
<1>2. CASE RunFFmpeg
  <2>1. pc' = "options"
    BY <1>2 DEF RunFFmpeg
  <2>. QED  BY <2>1 DEF Steps
<1>3. CASE ParseGlobalOptions
  <2>1. pc' = "filtergraphs"
    BY <1>3 DEF ParseGlobalOptions
  <2>. QED  BY <2>1 DEF Steps
<1>4. CASE CreateFiltergraphs
  <2>1. pc' = pc \/ pc' = "inputs"
    BY <1>4 DEF CreateFiltergraphs, Each
  <2>. QED  BY <2>1 DEF Steps
<1>5. CASE OpenInputs
  <2>1. pc' = pc \/ pc' = "outputs"
    BY <1>5 DEF OpenInputs, Each
  <2>. QED  BY <2>1 DEF Steps
<1>6. CASE OpenOutputs
  <2>1. pc' = pc \/ pc' = "decoders"
    BY <1>6 DEF OpenOutputs, Each
  <2>. QED  BY <2>1 DEF Steps
<1>7. CASE CreateDecoders
  <2>1. pc' = pc \/ pc' = "bindings"
    BY <1>7 DEF CreateDecoders, Each
  <2>. QED  BY <2>1 DEF Steps
<1>8. CASE FinaliseBindings
  <2>1. pc' = "offsets"
    BY <1>8 DEF FinaliseBindings
  <2>. QED  BY <2>1 DEF Steps
<1>9. CASE SetOffsets
  <2>1. pc' = "parsed"
    BY <1>9 DEF SetOffsets
  <2>. QED  BY <2>1 DEF Steps
<1>10. CASE Transcode
  <2>1. pc' = pc \/ pc' = "running"
    BY <1>10 DEF Transcode
  <2>. QED  BY <2>1 DEF Steps
<1>11. CASE Cleanup
  <2>1. pc' = "idle"
    BY <1>11 DEF Cleanup
  <2>. QED  BY <2>1 DEF Steps
<1>. QED  BY <1>1, <1>2, <1>3, <1>4, <1>5, <1>6, <1>7, <1>8, <1>9, <1>10, <1>11 DEF Next

\* As long as nothing failed the two sides of every connection agree, and every
\* encoder there is sends to a muxer.
GraphAgrees == prog.err = "" => WellFormed(prog.sch) /\ \A e \in 1 .. prog.sch.nb_enc : FeedsMux(prog.sch, e)

\* The invariant says so at every step.
LEMMA GraphIsAgreed == SetupInv /\ pc \in Steps => GraphAgrees
<1> SUFFICES ASSUME SetupInv, pc \in Steps PROVE GraphAgrees
  OBVIOUS
<1>1. Fine(prog) => Plain(prog)
  BY DEF SetupInv, StepOk, Before, Steps, Sound, Plain
<1>2. Plain(prog) => WellFormed(prog.sch) /\ \A e \in 1 .. prog.sch.nb_enc : FeedsMux(prog.sch, e)
  <2>1. \A e \in 1 .. prog.sch.nb_enc : e # 0
    OBVIOUS
  <2>. QED  BY <2>1 DEF Plain, Usable, GraphOk, FedBut
<1>. QED  BY <1>1, <1>2 DEF GraphAgrees, Fine

\* Of every run: a graph that was built without failure is well formed, and none of
\* its encoders is left without a muxer.
THEOREM GraphBuilt == Spec => []GraphAgrees
<1>1. Init => SetupInv /\ pc \in Steps
  <2>1. Init => pc \in Steps
    BY DEF Init, Steps
  <2>. QED  BY <2>1, InitOk
<1>2. (SetupInv /\ pc \in Steps) /\ [Next]_vars => (SetupInv /\ pc \in Steps)'
  BY NextOk, StepsNext
<1>3. Spec => [](SetupInv /\ pc \in Steps)
  BY <1>1, <1>2, PTL DEF Spec
<1>. QED  BY <1>3, GraphIsAgreed, PTL
=============================================================================
