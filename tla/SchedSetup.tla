----------------------------- MODULE SchedSetup -----------------------------
(***************************************************************************)
(* ffmpeg_sched.c: how the transcoding graph of SchedGraph grows while the *)
(* options are read.  A node is known by the number it gets when it is     *)
(* added, and keeps it.                                                    *)
(***************************************************************************)
EXTENDS SchedGraph

NoGraph == Shape(<<>>, 0, 0, <<>>, <<>>)

\* h is g with other numbers of nodes: what is new has no connections.
Regrown(g, h) ==
    [h EXCEPT !.dst = [n \in Sources(h) |-> IF n \in DOMAIN g.dst THEN g.dst[n] ELSE <<>>],
              !.src = [n \in Sinks(h) |-> IF n \in DOMAIN g.src THEN g.src[n] ELSE NoNode]]

AddDemux(g)          == Regrown(g, [g EXCEPT !.demux = Append(@, 0)])
AddDemuxStream(g, i) == Regrown(g, [g EXCEPT !.demux[i] = @ + 1])
AddDec(g)            == Regrown(g, [g EXCEPT !.nb_dec = @ + 1])
AddEnc(g)            == Regrown(g, [g EXCEPT !.nb_enc = @ + 1])
AddFiltergraph(g, nb_inputs, nb_outputs) ==
    Regrown(g, [g EXCEPT !.filters = Append(@, [in |-> nb_inputs, out |-> nb_outputs])])
AddMux(g)            == Regrown(g, [g EXCEPT !.mux = Append(@, 0)])
AddMuxStream(g, i)   == Regrown(g, [g EXCEPT !.mux[i] = @ + 1])

\* sch_remove_filtergraph: the filtergraph stays, without inputs and outputs.
RemoveFiltergraph(g, i) == Regrown(g, [g EXCEPT !.filters[i] = [in |-> 0, out |-> 0]])
=============================================================================
