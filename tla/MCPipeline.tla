---------------------------- MODULE MCPipeline ----------------------------
(***************************************************************************)
(* Small transcoding graphs for Pipeline.                                  *)
(***************************************************************************)
EXTENDS Pipeline

Never == 99

D(i, s) == Node("demux", i, s)
C(i)    == Node("dec", i, 1)
E(i)    == Node("enc", i, 1)
I(f, k) == Node("fin", f, k)
O(f, k) == Node("fout", f, k)
M(m, k) == Node("mux", m, k)

F(in, out, limit, rate) == [in |-> in, out |-> out, limit |-> limit, rate |-> rate, dry |-> {}]

Linked(shape, links) == FoldLeft(LAMBDA g, l : Connect(g, l[1], l[2]), shape, links)

\* The fields a run adds to a connected graph; those not given have no effect.
Run(g, script, expect) ==
    g @@
    [script |-> script, loops |-> 0, period |-> 2, end_ts |-> {}, standalone |-> {},
     enc_end |-> [j \in 1 .. g.nb_enc |-> Never],
     copy_end |-> [n \in Streams(g, "mux") |-> Never],
     file_end |-> [m \in DOMAIN g.mux |-> Never],
     expect |-> expect, slack |-> Never, may_quit |-> FALSE, may_fail |-> {},
     synced |-> {}, limiting |-> {}]

P(s, ts) == <<s, <<ts>>>>
Only(n, ts) == n :> ts

\* A stream is transcoded; told to stop at any time.
T1 == Linked(Shape(<<1>>, 1, 1, <<F(1, 1, Never, 1)>>, <<1>>),
             <<<<D(1, 1), C(1)>>, <<C(1), I(1, 1)>>, <<O(1, 1), E(1)>>, <<E(1), M(1, 1)>>>>)
Transcode == [Run(T1, <<<<P(1, 1), P(1, 2)>>>>, Only(M(1, 1), <<1, 2>>)) EXCEPT !.may_quit = TRUE]

\* The same in a loop, with end timestamps.
Loop == [Run(T1, <<<<P(1, 1), P(1, 2)>>>>, Only(M(1, 1), <<1, 2, 3, 4>>)) EXCEPT
            !.loops = 1, !.end_ts = {1}]

Single == Run(T1, <<<<P(1, 1)>>>>, Only(M(1, 1), <<1>>))
LoopOne == [Run(T1, <<<<P(1, 1)>>>>, Only(M(1, 1), <<1, 3>>)) EXCEPT !.loops = 1, !.end_ts = {1}]

\* The encoder ends early, the filtergraph makes two frames of one.
Short == [Run([T1 EXCEPT !.filters[1].rate = 2], <<<<P(1, 1), P(1, 2), P(1, 3)>>>>,
              Only(M(1, 1), <<1, 1>>)) EXCEPT !.enc_end[1] = 2]

\* A stream copied and a stream transcoded from one file to another.
T2 == Linked(Shape(<<2>>, 1, 1, <<F(1, 1, Never, 1)>>, <<2>>),
             <<<<D(1, 1), C(1)>>, <<C(1), I(1, 1)>>, <<O(1, 1), E(1)>>, <<E(1), M(1, 1)>>,
               <<D(1, 2), M(1, 2)>>>>)
CopyAndTranscode == Run(T2, <<<<P(1, 1), P(2, 1), P(2, 2)>>>>,
                        Only(M(1, 1), <<1>>) @@ Only(M(1, 2), <<1, 2>>))

\* Two files copied into one: the faster one has to wait.
T3 == Linked(Shape(<<1, 1>>, 0, 0, <<>>, <<2>>), <<<<D(1, 1), M(1, 1)>>, <<D(2, 1), M(1, 2)>>>>)
TwoFiles == [Run(T3, <<[i \in 1 .. 6 |-> P(1, i)], [i \in 1 .. 6 |-> P(1, i)]>>,
                 Only(M(1, 1), <<1, 2, 3, 4, 5, 6>>) @@ Only(M(1, 2), <<1, 2, 3, 4, 5, 6>>))
                EXCEPT !.slack = 2]

\* Two streams of a file are decoded and overlaid.
T4 == Linked(Shape(<<2>>, 2, 1, <<F(2, 1, Never, 1)>>, <<1>>),
             <<<<D(1, 1), C(1)>>, <<D(1, 2), C(2)>>, <<C(1), I(1, 1)>>, <<C(2), I(1, 2)>>,
               <<O(1, 1), E(1)>>, <<E(1), M(1, 1)>>>>)
Overlay == Run(T4, <<<<P(1, 1), P(2, 1)>>>>, Only(M(1, 1), <<1>>))

\* A generated stream beside a copied one, to two files.
T5 == Linked(Shape(<<1>>, 0, 1, <<F(0, 1, 3, 1)>>, <<1, 1>>),
             <<<<O(1, 1), E(1)>>, <<E(1), M(1, 1)>>, <<D(1, 1), M(2, 1)>>>>)
Generate == [Run(T5, <<<<P(1, 1), P(1, 2), P(1, 3)>>>>,
                 Only(M(1, 1), <<1, 2, 3>>) @@ Only(M(2, 1), <<1, 2, 3>>)) EXCEPT !.slack = 3]

\* A generated stream: what was encoded is decoded again and encoded into a second file.
T6 == Linked(Shape(<<>>, 1, 2, <<F(0, 1, 2, 1), F(1, 1, Never, 1)>>, <<1, 1>>),
             <<<<O(1, 1), E(1)>>, <<E(1), M(1, 1)>>, <<E(1), C(1)>>,
               <<C(1), I(2, 1)>>, <<O(2, 1), E(2)>>, <<E(2), M(2, 1)>>>>)
Loopback == [Run(T6, <<>>, Only(M(1, 1), <<1, 2>>) @@ Only(M(2, 1), <<1, 2>>)) EXCEPT !.standalone = {1}]

\* A stream is copied until the recording time is over, and transcoded to the end.
T7 == Linked(Shape(<<1>>, 1, 1, <<F(1, 1, Never, 1)>>, <<1, 1>>),
             <<<<D(1, 1), M(2, 1)>>, <<D(1, 1), C(1)>>, <<C(1), I(1, 1)>>, <<O(1, 1), E(1)>>,
               <<E(1), M(1, 1)>>>>)
CopyEnds == [Run(T7, <<<<P(1, 1), P(1, 2)>>>>, Only(M(1, 1), <<1, 2>>) @@ Only(M(2, 1), <<1>>))
                EXCEPT !.copy_end[M(2, 1)] = 2]

\* One filtergraph feeds two encoders; the first stops early.
T8 == Linked(Shape(<<1>>, 1, 2, <<F(1, 2, Never, 1)>>, <<1, 1>>),
             <<<<D(1, 1), C(1)>>, <<C(1), I(1, 1)>>, <<O(1, 1), E(1)>>, <<O(1, 2), E(2)>>,
               <<E(1), M(1, 1)>>, <<E(2), M(2, 1)>>>>)
Split == [Run(T8, <<<<P(1, 1), P(1, 2)>>>>, Only(M(1, 1), <<1>>) @@ Only(M(2, 1), <<1, 2>>))
             EXCEPT !.enc_end[1] = 2]

\* A filtergraph that is done after one frame closes its input.
Trim == Run([T1 EXCEPT !.filters[1].limit = 1], <<[i \in 1 .. 2 |-> P(1, i)]>>, Only(M(1, 1), <<1>>))

\* The file is full after one packet.
Full == [Run(T1, <<[i \in 1 .. 3 |-> P(1, i)]>>, Only(M(1, 1), <<1>>)) EXCEPT !.file_end[1] = 2]

\* The second output of a filtergraph gets no frame, which its encoder waits for.
Dry == Run([T8 EXCEPT !.filters[1].dry = {2}], <<<<P(1, 1)>>>>, Only(M(1, 1), <<1>>) @@ Only(M(2, 1), <<>>))

\* A file without packets: the encoder is opened with an empty frame.
Empty == Run(T1, <<<<>>>>, Only(M(1, 1), <<>>))

\* The task may fail.
Failing(g, t) == [g EXCEPT !.may_fail = {t}]

\* Two generated streams behind a sync queue, with -shortest.
T10 == Linked(Shape(<<>>, 0, 2, <<F(0, 1, 1, 1), F(0, 1, 2, 1)>>, <<2>>),
              <<<<O(1, 1), E(1)>>, <<O(2, 1), E(2)>>, <<E(1), M(1, 1)>>, <<E(2), M(1, 2)>>>>)
Shortest == [Run(T10, <<>>, Only(M(1, 1), <<1>>) @@ Only(M(1, 2), <<1>>)) EXCEPT
                !.synced = {1, 2}, !.limiting = {1, 2}]

\* What sch_start refuses: an overlay on what it has encoded itself, two filtergraphs that
\* feed one another, a stream nobody reads.
Feedback == Run(Linked(Shape(<<1>>, 2, 1, <<F(2, 1, Never, 1)>>, <<1>>),
                       <<<<D(1, 1), C(1)>>, <<C(1), I(1, 1)>>, <<C(2), I(1, 2)>>, <<O(1, 1), E(1)>>,
                         <<E(1), M(1, 1)>>, <<E(1), C(2)>>>>),
                <<<<P(1, 1)>>>>, Only(M(1, 1), <<1>>))
Mutual == Run(Linked(Shape(<<1>>, 1, 1, <<F(2, 1, Never, 1), F(1, 2, Never, 1)>>, <<1>>),
                     <<<<D(1, 1), C(1)>>, <<C(1), I(1, 1)>>, <<O(2, 1), I(1, 2)>>, <<O(1, 1), I(2, 1)>>,
                       <<O(2, 2), E(1)>>, <<E(1), M(1, 1)>>>>),
              <<<<P(1, 1)>>>>, Only(M(1, 1), <<1>>))
Unread == Run(Linked(Shape(<<2>>, 0, 0, <<>>, <<1>>), <<<<D(1, 1), M(1, 1)>>>>),
              <<<<P(1, 1)>>>>, Only(M(1, 1), <<1>>))

MCGraphs == {Loop, Short, CopyAndTranscode, TwoFiles, Overlay, Generate, Loopback, Split, Shortest, Empty,
             Feedback, Mutual, Unread}

DryGraphs == {Dry}

StopGraphs == {Transcode, TwoFiles, CopyEnds, Trim, Full, Failing(LoopOne, <<"dec", 1>>),
               Failing([Transcode EXCEPT !.may_quit = FALSE], <<"filter", 1>>), Failing(Single, <<"mux", 1>>)}
              \cup {Failing(Empty, <<type, 1>>) : type \in {"demux", "enc"}}

-----------------------------------------------------------------------------
\* Steps that neither read nor write what another thread does: their place among the
\* steps of others makes no difference, so that they are taken first.
Local(t) ==
    \/ Doing(t, "close_output")
    \/ /\ task[t].todo = <<>>
       /\ \/ t[1] = "demux" /\ task[t].pc \in {"next", "flushed", "over"}
          \/ t[1] = "dec" /\ task[t].pc = "over"
          \/ t[1] = "dec" /\ task[t].pc = "receive" /\ dec[t[2]].overflow = <<>> /\ ~ dec[t[2]].expect_end_ts
          \/ t[1] = "filter" /\ task[t].pc \in {"read", "request", "over"}

LocalFirst ==
    LET local == {t \in DOMAIN task : Local(t)}
    IN  main.pc # "refused" /\ local # {} =>
            \E t \in local : /\ task'[t] # task[t]
                             /\ \A u \in local : t[1] = u[1] => t[2] <= u[2]
                             /\ \A u \in local : t[1] # u[1] =>
                                  <<t[1], u[1]>> \notin {<<"dec", "demux">>, <<"filter", "demux">>, <<"filter", "dec">>}
=============================================================================
