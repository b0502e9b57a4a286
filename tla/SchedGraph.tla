---------------------------- MODULE SchedGraph ----------------------------
(***************************************************************************)
(* The transcoding graph of ffmpeg_sched.c: what sch_add_*() and           *)
(* sch_connect() build, and what start_prepare() checks of it before any   *)
(* thread is started.                                                      *)
(*                                                                         *)
(* A node is a triple <<type, idx, idx_stream>> as SchedulerNode is.  The  *)
(* graph keeps, beside the numbers of nodes, the dst array of each source  *)
(* and the src field of each destination.                                  *)
(***************************************************************************)
EXTENDS Lists

Node(type, idx, stream) == <<type, idx, stream>>
NoNode == Node("none", 0, 0)

Streams(g, type) ==
    CASE type = "demux"  -> UNION {{Node("demux", i, s) : s \in 1 .. g.demux[i]}
                                   : i \in DOMAIN g.demux}
      [] type = "dec"    -> {Node("dec", i, 1) : i \in 1 .. g.nb_dec}
      [] type = "enc"    -> {Node("enc", i, 1) : i \in 1 .. g.nb_enc}
      [] type = "fin"    -> UNION {{Node("fin", i, s) : s \in 1 .. g.filters[i].in}
                                   : i \in DOMAIN g.filters}
      [] type = "fout"   -> UNION {{Node("fout", i, s) : s \in 1 .. g.filters[i].out}
                                   : i \in DOMAIN g.filters}
      [] type = "mux"    -> UNION {{Node("mux", i, s) : s \in 1 .. g.mux[i]}
                                   : i \in DOMAIN g.mux}

Sources(g) == Streams(g, "demux") \cup Streams(g, "dec") \cup Streams(g, "enc") \cup Streams(g, "fout")
Sinks(g)   == Streams(g, "dec") \cup Streams(g, "enc") \cup Streams(g, "fin") \cup Streams(g, "mux")

\* A graph without connections.  demux and mux: the numbers of streams of each;
\* filters: the numbers of inputs and outputs of each.
Shape(demux, nb_dec, nb_enc, filters, mux) ==
    LET g == [demux |-> demux, nb_dec |-> nb_dec, nb_enc |-> nb_enc, filters |-> filters, mux |-> mux]
    IN  With(g, [dst |-> [n \in Sources(g) |-> <<>>], src |-> [n \in Sinks(g) |-> NoNode]])

Dsts(g, src)  == g.dst[src]
SrcOf(g, dst) == g.src[dst]

\* The destination takes what the source makes: packets or frames.
Compatible(src, dst) ==
    <<src[1], dst[1]>> \in {"demux", "enc"} \X {"dec", "mux"} \cup {"dec", "fout"} \X {"fin", "enc"}

\* What sch_connect() asserts: the nodes exist, the destination takes what the
\* source makes and has no source yet, a filtergraph output has one destination.
MayConnect(g, src, dst) ==
    /\ src \in Sources(g)
    /\ dst \in Sinks(g)
    /\ Compatible(src, dst)
    /\ SrcOf(g, dst) = NoNode
    /\ src[1] = "fout" => Dsts(g, src) = <<>>

Connect(g, src, dst) ==
    CASE MayConnect(g, src, dst) -> [g EXCEPT !.dst[src] = Append(@, dst), !.src[dst] = src]

\* What holds of every graph they build: the dst arrays and the src fields agree.
Sized(g) ==
    /\ g.demux \in Seq(Nat) /\ g.mux \in Seq(Nat)
    /\ g.nb_dec \in Nat /\ g.nb_enc \in Nat
    /\ DOMAIN g.filters = 1 .. Len(g.filters) /\ Len(g.filters) \in Nat
    /\ \A f \in DOMAIN g.filters : g.filters[f].in \in Nat /\ g.filters[f].out \in Nat

WellFormed(g) ==
    /\ Sized(g)
    /\ g.dst \in [Sources(g) -> Seq(Sinks(g))]
    /\ g.src \in [Sinks(g) -> Sources(g) \cup {NoNode}]
    /\ \A src \in Sources(g) : \A k \in DOMAIN g.dst[src] :
          g.src[g.dst[src][k]] = src /\ Compatible(src, g.dst[src][k])
    /\ \A dst \in Sinks(g) : g.src[dst] # NoNode => \E k \in DOMAIN g.dst[g.src[dst]] : g.dst[g.src[dst]][k] = dst
    /\ \A src \in Streams(g, "fout") : Len(g.dst[src]) <= 1

-----------------------------------------------------------------------------
(* check_acyclic                                                           *)

\* The filtergraph output or demuxer stream upstream of a source.
SrcFiltergraph(g, src) ==
    LET up[n \in Sources(g)] == IF n[1] \in {"demux", "fout"} THEN n ELSE up[SrcOf(g, n)]
    IN  up[src]

\* Mutant: only the first input of each filtergraph is followed.
AcyclicForOutput_FirstInput(g, f) ==
    LET Filters == DOMAIN g.filters
        step[st \in [at : Filters \X Nat, visited : [Filters -> {"new", "started", "done"}],
                     stack : Seq(Filters \X Nat)]] ==
            LET i   == st.at[1]
                k   == st.at[2] + 1
                now == [st.visited EXCEPT ![i] = "started"]
                up  == SrcFiltergraph(g, SrcOf(g, Node("fin", i, k)))
                Pop == [at      |-> Last(st.stack),
                        visited |-> [now EXCEPT ![i] = "done"],
                        stack   |-> Front(st.stack)]
            IN  IF k > Min({1, g.filters[i].in})
                THEN st.stack = <<>> \/ step[Pop]
                ELSE IF up[1] = "demux"
                THEN step[[st EXCEPT !.at = <<i, k>>, !.visited = now]]
                ELSE /\ now[up[2]] # "started"
                     /\ step[[at      |-> <<up[2], 0>>,
                              visited |-> now,
                              stack   |-> Append(st.stack, <<i, k>>)]]
    IN  step[[at |-> <<f, 0>>, visited |-> [x \in Filters |-> "new"], stack |-> <<>>]]

\* check_acyclic_for_output: a depth-first search from filtergraph f with an
\* explicit stack of positions <<filtergraph, inputs looked at>>.
AcyclicForOutput(g, f) ==
    LET Filters == DOMAIN g.filters
        step[st \in [at : Filters \X Nat, visited : [Filters -> {"new", "started", "done"}],
                     stack : Seq(Filters \X Nat)]] ==
            LET i   == st.at[1]
                k   == st.at[2] + 1
                now == [st.visited EXCEPT ![i] = "started"]
                up  == SrcFiltergraph(g, SrcOf(g, Node("fin", i, k)))
                Pop == [at      |-> Last(st.stack),
                        visited |-> [now EXCEPT ![i] = "done"],
                        stack   |-> Front(st.stack)]
            IN  IF k > g.filters[i].in
                THEN st.stack = <<>> \/ step[Pop]
                ELSE IF up[1] = "demux"
                THEN step[[st EXCEPT !.at = <<i, k>>, !.visited = now]]
                ELSE /\ now[up[2]] # "started"
                     /\ step[[at      |-> <<up[2], 0>>,
                              visited |-> now,
                              stack   |-> Append(st.stack, <<i, k>>)]]
    IN  step[[at |-> <<f, 0>>, visited |-> [x \in Filters |-> "new"], stack |-> <<>>]]

CheckAcyclic(g) == \A f \in DOMAIN g.filters : AcyclicForOutput(g, f)

\* start_prepare: every source has a destination, every destination a source,
\* and there is no cycle.
StartPrepare(g) ==
    /\ \A src \in Sources(g) : Dsts(g, src) # <<>>
    /\ \A dst \in Sinks(g) : SrcOf(g, dst) # NoNode
    /\ CheckAcyclic(g)

-----------------------------------------------------------------------------
\* What the search is for: some filtergraphs all fed by one another.
Upstream(g, f) ==
    {SrcFiltergraph(g, SrcOf(g, Node("fin", f, k)))[2] :
        k \in {j \in 1 .. g.filters[f].in :
                 SrcFiltergraph(g, SrcOf(g, Node("fin", f, j)))[1] = "fout"}}

HasCycle(g) ==
    \E C \in SUBSET DOMAIN g.filters \ {{}} : \A f \in C : Upstream(g, f) \cap C # {}
=============================================================================
