--------------------------- MODULE BindingProofs ----------------------------
(***************************************************************************)
(* The graph that a command line makes, until its output files are opened: *)
(* what sch_add functions and sch_connect make of it, the streams that are *)
(* put to use, the pads of filtergraphs that are bound, and the input      *)
(* files.  The two sides of every connection agree, filtergraphs have      *)
(* numbers of their own, and the filtergraph of a tile grid is connected   *)
(* to nothing as long as nobody needs its output, so that it may be taken  *)
(* away.                                                                   *)
(***************************************************************************)
EXTENDS InputSetup, ListProofs

-----------------------------------------------------------------------------
(* The transcoding graph                                                   *)

\* The fields of a graph, and a graph that is one and whose two sides agree.
GraphFields == {"demux", "nb_dec", "nb_enc", "filters", "mux", "dst", "src"}

GraphOk(g) == DOMAIN g = GraphFields /\ IsSeq(g.filters) /\ WellFormed(g)

\* Nothing is connected to the inputs and outputs of filtergraph n.
Quiet(g, n) ==
    /\ \A d \in Sinks(g) : d[1] = "fin" /\ d[2] = n => g.src[d] = NoNode
    /\ \A s \in Sources(g) : s[1] = "fout" /\ s[2] = n => g.dst[s] = <<>>

\* Encoder e sends to a muxer.
FeedsMux(g, e) ==
    \E k \in DOMAIN g.dst[Node("enc", e, 1)] : g.dst[Node("enc", e, 1)][k][1] = "mux"

\* h is g with more in it: no filtergraph is lost, nor an encoder's muxer, and
\* filtergraphs that were left alone still are, but for those in N.
Grown(g, h, N) ==
    /\ GraphOk(h)
    /\ \A n \in DOMAIN g.filters : n \in DOMAIN h.filters /\ h.filters[n] = g.filters[n]
    /\ g.nb_enc <= h.nb_enc
    /\ \A n \in DOMAIN g.filters \ N : Quiet(g, n) => Quiet(h, n)
    /\ \A e \in 1 .. g.nb_enc : FeedsMux(g, e) => FeedsMux(h, e)

\* The sources and sinks of a graph, one by one.
LEMMA SourceIs ==
    ASSUME NEW g, NEW n
    PROVE  n \in Sources(g) <=>
              \/ \E i \in DOMAIN g.demux : \E s \in 1 .. g.demux[i] : n = Node("demux", i, s)
              \/ \E i \in 1 .. g.nb_dec : n = Node("dec", i, 1)
              \/ \E i \in 1 .. g.nb_enc : n = Node("enc", i, 1)
              \/ \E i \in DOMAIN g.filters : \E s \in 1 .. g.filters[i].out : n = Node("fout", i, s)
<1>1. Streams(g, "demux") = UNION {{Node("demux", i, s) : s \in 1 .. g.demux[i]} : i \in DOMAIN g.demux}
  BY DEF Streams
<1>2. Streams(g, "dec") = {Node("dec", i, 1) : i \in 1 .. g.nb_dec}
  BY DEF Streams
<1>3. Streams(g, "enc") = {Node("enc", i, 1) : i \in 1 .. g.nb_enc}
  BY DEF Streams
<1>4. Streams(g, "fout") = UNION {{Node("fout", i, s) : s \in 1 .. g.filters[i].out} : i \in DOMAIN g.filters}
  BY DEF Streams
<1>. QED  BY <1>1, <1>2, <1>3, <1>4 DEF Sources

\* The same of the sinks.
LEMMA SinkIs ==
    ASSUME NEW g, NEW n
    PROVE  n \in Sinks(g) <=>
              \/ \E i \in 1 .. g.nb_dec : n = Node("dec", i, 1)
              \/ \E i \in 1 .. g.nb_enc : n = Node("enc", i, 1)
              \/ \E i \in DOMAIN g.filters : \E s \in 1 .. g.filters[i].in : n = Node("fin", i, s)
              \/ \E i \in DOMAIN g.mux : \E s \in 1 .. g.mux[i] : n = Node("mux", i, s)
<1>1. Streams(g, "fin") = UNION {{Node("fin", i, s) : s \in 1 .. g.filters[i].in} : i \in DOMAIN g.filters}
  BY DEF Streams
<1>2. Streams(g, "dec") = {Node("dec", i, 1) : i \in 1 .. g.nb_dec}
  BY DEF Streams
<1>3. Streams(g, "enc") = {Node("enc", i, 1) : i \in 1 .. g.nb_enc}
  BY DEF Streams
<1>4. Streams(g, "mux") = UNION {{Node("mux", i, s) : s \in 1 .. g.mux[i]} : i \in DOMAIN g.mux}
  BY DEF Streams
<1>. QED  BY <1>1, <1>2, <1>3, <1>4 DEF Sinks

\* h has the nodes of g, and perhaps more.
More(g, h) ==
    /\ \A i \in DOMAIN g.demux : i \in DOMAIN h.demux /\ g.demux[i] <= h.demux[i]
    /\ \A i \in DOMAIN g.mux : i \in DOMAIN h.mux /\ g.mux[i] <= h.mux[i]
    /\ g.nb_dec <= h.nb_dec /\ g.nb_enc <= h.nb_enc
    /\ \A i \in DOMAIN g.filters : i \in DOMAIN h.filters /\ h.filters[i] = g.filters[i]

\* The items of a sequence of numbers are numbers.
LEMMA NatSeq ==
    ASSUME NEW s \in Seq(Nat)
    PROVE  \A i \in DOMAIN s : s[i] \in Nat
OBVIOUS

\* A graph with more of everything has the nodes of the other one.
LEMMA MoreNodes ==
    ASSUME NEW g, NEW h, Sized(g), Sized(h), More(g, h)
    PROVE  Sources(g) \subseteq Sources(h) /\ Sinks(g) \subseteq Sinks(h)
<1>0. /\ \A i \in DOMAIN g.demux : g.demux[i] \in Nat
      /\ \A i \in DOMAIN g.mux : g.mux[i] \in Nat
      /\ \A i \in DOMAIN h.demux : h.demux[i] \in Nat
      /\ \A i \in DOMAIN h.mux : h.mux[i] \in Nat
  BY NatSeq DEF Sized
<1>1. ASSUME NEW n \in Sources(g) PROVE n \in Sources(h)
  <2>1. CASE \E i \in DOMAIN g.demux : \E s \in 1 .. g.demux[i] : n = Node("demux", i, s)
    <3>1. \E i \in DOMAIN h.demux : \E s \in 1 .. h.demux[i] : n = Node("demux", i, s)
      BY <1>0, <2>1 DEF More
    <3>. QED  BY <3>1, SourceIs
  <2>2. CASE \E i \in 1 .. g.nb_dec : n = Node("dec", i, 1)
    <3>1. \E i \in 1 .. h.nb_dec : n = Node("dec", i, 1)
      BY <2>2 DEF More, Sized
    <3>. QED  BY <3>1, SourceIs
  <2>3. CASE \E i \in 1 .. g.nb_enc : n = Node("enc", i, 1)
    <3>1. \E i \in 1 .. h.nb_enc : n = Node("enc", i, 1)
      BY <2>3 DEF More, Sized
    <3>. QED  BY <3>1, SourceIs
  <2>4. CASE \E i \in DOMAIN g.filters : \E s \in 1 .. g.filters[i].out : n = Node("fout", i, s)
    <3>1. \E i \in DOMAIN h.filters : \E s \in 1 .. h.filters[i].out : n = Node("fout", i, s)
      BY <2>4 DEF More, Sized
    <3>. QED  BY <3>1, SourceIs
  <2>. QED  BY <2>1, <2>2, <2>3, <2>4, SourceIs
<1>2. ASSUME NEW n \in Sinks(g) PROVE n \in Sinks(h)
  <2>1. CASE \E i \in DOMAIN g.mux : \E s \in 1 .. g.mux[i] : n = Node("mux", i, s)
    <3>1. \E i \in DOMAIN h.mux : \E s \in 1 .. h.mux[i] : n = Node("mux", i, s)
      BY <1>0, <2>1 DEF More
    <3>. QED  BY <3>1, SinkIs
  <2>2. CASE \E i \in 1 .. g.nb_dec : n = Node("dec", i, 1)
    <3>1. \E i \in 1 .. h.nb_dec : n = Node("dec", i, 1)
      BY <2>2 DEF More, Sized
    <3>. QED  BY <3>1, SinkIs
  <2>3. CASE \E i \in 1 .. g.nb_enc : n = Node("enc", i, 1)
    <3>1. \E i \in 1 .. h.nb_enc : n = Node("enc", i, 1)
      BY <2>3 DEF More, Sized
    <3>. QED  BY <3>1, SinkIs
  <2>4. CASE \E i \in DOMAIN g.filters : \E s \in 1 .. g.filters[i].in : n = Node("fin", i, s)
    <3>1. \E i \in DOMAIN h.filters : \E s \in 1 .. h.filters[i].in : n = Node("fin", i, s)
      BY <2>4 DEF More, Sized
    <3>. QED  BY <3>1, SinkIs
  <2>. QED  BY <2>1, <2>2, <2>3, <2>4, SinkIs
<1>. QED  BY <1>1, <1>2

\* The nodes depend on the numbers only.
LEMMA SameNodes ==
    ASSUME NEW g, NEW h, h.demux = g.demux, h.mux = g.mux, h.nb_dec = g.nb_dec, h.nb_enc = g.nb_enc,
           h.filters = g.filters
    PROVE  /\ Sources(h) = Sources(g) /\ Sinks(h) = Sinks(g)
           /\ Streams(h, "fout") = Streams(g, "fout")
           /\ (Sized(g) => Sized(h))
BY DEF Sources, Sinks, Streams, Sized

\* The outputs of filtergraphs are sources.
LEMMA FoutIs ==
    ASSUME NEW g, NEW n
    PROVE  n \in Streams(g, "fout") <=> n \in Sources(g) /\ n[1] = "fout"
<1>1. Streams(g, "fout") = UNION {{Node("fout", i, s) : s \in 1 .. g.filters[i].out} : i \in DOMAIN g.filters}
  BY DEF Streams
<1>2. n \in Streams(g, "fout") <=> \E i \in DOMAIN g.filters : \E s \in 1 .. g.filters[i].out : n = Node("fout", i, s)
  BY <1>1
<1>. QED  BY <1>2, SourceIs DEF Node

\* What Regrown makes: old nodes keep their connections, new ones have none.
LEMMA RegrownIs ==
    ASSUME NEW g, NEW h, DOMAIN h = GraphFields, NEW r, r = Regrown(g, h)
    PROVE  /\ DOMAIN r = GraphFields
           /\ r.demux = h.demux /\ r.mux = h.mux /\ r.nb_dec = h.nb_dec /\ r.nb_enc = h.nb_enc
           /\ r.filters = h.filters
           /\ Sources(r) = Sources(h) /\ Sinks(r) = Sinks(h) /\ Streams(r, "fout") = Streams(h, "fout")
           /\ r.dst = [n \in Sources(h) |-> IF n \in DOMAIN g.dst THEN g.dst[n] ELSE <<>>]
           /\ r.src = [n \in Sinks(h) |-> IF n \in DOMAIN g.src THEN g.src[n] ELSE NoNode]
<1>1. /\ DOMAIN r = GraphFields
      /\ r.demux = h.demux /\ r.mux = h.mux /\ r.nb_dec = h.nb_dec /\ r.nb_enc = h.nb_enc
      /\ r.filters = h.filters
      /\ r.dst = [n \in Sources(h) |-> IF n \in DOMAIN g.dst THEN g.dst[n] ELSE <<>>]
      /\ r.src = [n \in Sinks(h) |-> IF n \in DOMAIN g.src THEN g.src[n] ELSE NoNode]
  BY DEF Regrown, GraphFields
<1>. QED  BY <1>1, SameNodes

\* So a graph that is regrown for more nodes is the old one with more in it.
LEMMA RegrownGrown ==
    ASSUME NEW g, GraphOk(g), NEW h, DOMAIN h = GraphFields, IsSeq(h.filters), Sized(h), More(g, h),
           NEW r, r = Regrown(g, h)
    PROVE  Grown(g, r, {})
<1>1. /\ DOMAIN r = GraphFields
      /\ r.demux = h.demux /\ r.mux = h.mux /\ r.nb_dec = h.nb_dec /\ r.nb_enc = h.nb_enc
      /\ r.filters = h.filters
      /\ Sources(r) = Sources(h) /\ Sinks(r) = Sinks(h) /\ Streams(r, "fout") = Streams(h, "fout")
      /\ r.dst = [n \in Sources(h) |-> IF n \in DOMAIN g.dst THEN g.dst[n] ELSE <<>>]
      /\ r.src = [n \in Sinks(h) |-> IF n \in DOMAIN g.src THEN g.src[n] ELSE NoNode]
  BY RegrownIs
<1>2. /\ Sized(g)
      /\ g.dst \in [Sources(g) -> Seq(Sinks(g))]
      /\ g.src \in [Sinks(g) -> Sources(g) \cup {NoNode}]
      /\ \A src \in Sources(g) : \A k \in DOMAIN g.dst[src] :
            g.src[g.dst[src][k]] = src /\ Compatible(src, g.dst[src][k])
      /\ \A dst \in Sinks(g) : g.src[dst] # NoNode => \E k \in DOMAIN g.dst[g.src[dst]] : g.dst[g.src[dst]][k] = dst
      /\ \A src \in Streams(g, "fout") : Len(g.dst[src]) <= 1
  BY DEF GraphOk, WellFormed
<1>3. Sources(g) \subseteq Sources(r) /\ Sinks(g) \subseteq Sinks(r)
  BY <1>1, <1>2, MoreNodes
<1>4. \A n \in Sources(g) : r.dst[n] = g.dst[n] /\ g.dst[n] \in Seq(Sinks(g))
  BY <1>1, <1>2, <1>3
<1>5. \A n \in Sources(r) : n \notin Sources(g) => r.dst[n] = <<>>
  BY <1>1, <1>2
<1>6. \A n \in Sinks(g) : r.src[n] = g.src[n] /\ g.src[n] \in Sources(g) \cup {NoNode}
  BY <1>1, <1>2, <1>3
<1>7. \A n \in Sinks(r) : n \notin Sinks(g) => r.src[n] = NoNode
  BY <1>1, <1>2
<1>8. Sized(r)
  BY <1>1, SameNodes
<1>9. \A n \in Sources(r) : r.dst[n] \in Seq(Sinks(r))
  <2>1. ASSUME NEW n \in Sources(g) PROVE g.dst[n] \in Seq(Sinks(r))
    <3>1. PICK s \in Seq(Sinks(g)) : s = g.dst[n]
      BY <1>4
    <3>2. \A k \in 1 .. Len(s) : s[k] \in Sinks(r)
      BY <1>3
    <3>. QED  BY <3>1, <3>2
  <2>2. <<>> \in Seq(Sinks(r))
    OBVIOUS
  <2>3. ASSUME NEW n \in Sources(r) PROVE r.dst[n] \in Seq(Sinks(r))
    <3>1. CASE n \in Sources(g)
      <4>1. r.dst[n] = g.dst[n]
        BY <3>1, <1>4
      <4>. QED  BY <3>1, <4>1, <2>1
    <3>2. CASE n \notin Sources(g)
      <4>1. r.dst[n] = <<>>
        BY <3>2, <1>5
      <4>. QED  BY <4>1, <2>2
    <3>. QED  BY <3>1, <3>2
  <2>. QED  BY <2>3
<1>10. r.dst \in [Sources(r) -> Seq(Sinks(r))]
  BY <1>1, <1>9
<1>11. r.src \in [Sinks(r) -> Sources(r) \cup {NoNode}]
  BY <1>1, <1>3, <1>6, <1>7
<1>12. ASSUME NEW src \in Sources(r), NEW k \in DOMAIN r.dst[src]
       PROVE  r.src[r.dst[src][k]] = src /\ Compatible(src, r.dst[src][k])
  <2>1. src \in Sources(g)
    BY <1>5
  <2>2. k \in DOMAIN g.dst[src] /\ r.dst[src] = g.dst[src] /\ g.dst[src][k] \in Sinks(g)
    BY <2>1, <1>4
  <2>. QED  BY <2>1, <2>2, <1>2, <1>6
<1>13. ASSUME NEW dst \in Sinks(r), r.src[dst] # NoNode
       PROVE  \E k \in DOMAIN r.dst[r.src[dst]] : r.dst[r.src[dst]][k] = dst
  <2>1. dst \in Sinks(g) /\ r.src[dst] = g.src[dst] /\ g.src[dst] \in Sources(g)
    BY <1>6, <1>7, <1>13
  <2>. QED  BY <2>1, <1>2, <1>4, <1>13
<1>14. ASSUME NEW src \in Streams(r, "fout") PROVE Len(r.dst[src]) <= 1
  <2>1. src \in Sources(r) /\ src[1] = "fout"
    BY FoutIs
  <2>2. CASE src \in Sources(g)
    BY <2>1, <2>2, <1>2, <1>4, FoutIs
  <2>3. CASE src \notin Sources(g)
    BY <2>1, <2>3, <1>5
  <2>. QED  BY <2>2, <2>3
<1>15. GraphOk(r)
  BY <1>1, <1>8, <1>10, <1>11, <1>12, <1>13, <1>14 DEF GraphOk, WellFormed
<1>16. \A n \in DOMAIN g.filters : n \in DOMAIN r.filters /\ r.filters[n] = g.filters[n]
  BY <1>1 DEF More
<1>17. ASSUME NEW n \in DOMAIN g.filters, Quiet(g, n) PROVE Quiet(r, n)
  BY <1>5, <1>7, <1>4, <1>6, <1>17 DEF Quiet
<1>18. ASSUME NEW e \in 1 .. g.nb_enc, FeedsMux(g, e) PROVE FeedsMux(r, e)
  <2>1. Node("enc", e, 1) \in Sources(g)
    BY SourceIs
  <2>2. r.dst[Node("enc", e, 1)] = g.dst[Node("enc", e, 1)]
    BY <2>1, <1>4
  <2>. QED  BY <2>2, <1>18 DEF FeedsMux
<1>19. g.nb_enc <= r.nb_enc
  BY <1>1 DEF More
<1>. QED  BY <1>15, <1>16, <1>17, <1>18, <1>19 DEF Grown

\* Numbers of nodes but for those of filtergraphs.
Counted(demux, mux, nb_dec, nb_enc) ==
    demux \in Seq(Nat) /\ mux \in Seq(Nat) /\ nb_dec \in Nat /\ nb_enc \in Nat

\* A sequence of numbers with one more, or one of them raised.
LEMMA MoreNats ==
    ASSUME NEW s \in Seq(Nat)
    PROVE  /\ Append(s, 0) \in Seq(Nat)
           /\ \A i \in DOMAIN s : i \in DOMAIN Append(s, 0) /\ s[i] <= Append(s, 0)[i]
           /\ \A i : [s EXCEPT ![i] = @ + 1] \in Seq(Nat)
           /\ \A i : \A j \in DOMAIN s : j \in DOMAIN [s EXCEPT ![i] = @ + 1] /\ s[j] <= [s EXCEPT ![i] = @ + 1][j]
<1>1. \A j \in DOMAIN s : s[j] \in Nat
  BY NatSeq
<1>2. /\ Append(s, 0) \in Seq(Nat)
      /\ \A i \in DOMAIN s : i \in DOMAIN Append(s, 0) /\ s[i] <= Append(s, 0)[i]
  BY <1>1
<1>3. ASSUME NEW i
      PROVE  /\ [s EXCEPT ![i] = @ + 1] \in Seq(Nat)
             /\ \A j \in DOMAIN s : j \in DOMAIN [s EXCEPT ![i] = @ + 1] /\ s[j] <= [s EXCEPT ![i] = @ + 1][j]
  <2> DEFINE r == [s EXCEPT ![i] = @ + 1]
  <2>1. DOMAIN r = DOMAIN s /\ \A j \in DOMAIN s : r[j] = IF j = i THEN s[j] + 1 ELSE s[j]
    OBVIOUS
  <2>2. r = [j \in 1 .. Len(s) |-> r[j]]
    OBVIOUS
  <2> HIDE DEF r
  <2>3. \A j \in DOMAIN s : r[j] \in Nat /\ s[j] <= r[j]
    BY <1>1, <2>1
  <2>4. DOMAIN s = 1 .. Len(s) /\ Len(s) \in Nat
    OBVIOUS
  <2>5. r \in [1 .. Len(s) -> Nat]
    BY <2>2, <2>3, <2>4
  <2>6. r \in Seq(Nat)
    BY <2>4, <2>5
  <2>. QED  BY <2>1, <2>3, <2>6 DEF r
<1>. QED  BY <1>2, <1>3

\* A graph with more nodes, but with the same filtergraphs.
LEMMA CountsGrown ==
    ASSUME NEW g, GraphOk(g), NEW h, DOMAIN h = GraphFields, Counted(h.demux, h.mux, h.nb_dec, h.nb_enc),
           h.filters = g.filters, More(g, h), NEW r, r = Regrown(g, h)
    PROVE  Grown(g, r, {}) /\ r.nb_enc = h.nb_enc
<1>1. Sized(h)
  BY DEF Sized, GraphOk, WellFormed, Counted
<1>2. Grown(g, r, {})
  BY <1>1, RegrownGrown DEF GraphOk
<1>3. r.nb_enc = h.nb_enc
  BY DEF Regrown, GraphFields
<1>. QED  BY <1>2, <1>3

\* What is added to a graph.
LEMMA AddedGrown ==
    ASSUME NEW g, GraphOk(g)
    PROVE  /\ Grown(g, AddDemux(g), {}) /\ AddDemux(g).nb_enc = g.nb_enc
           /\ \A i : Grown(g, AddDemuxStream(g, i), {}) /\ AddDemuxStream(g, i).nb_enc = g.nb_enc
           /\ Grown(g, AddDec(g), {}) /\ AddDec(g).nb_enc = g.nb_enc
           /\ Grown(g, AddEnc(g), {}) /\ AddEnc(g).nb_enc = g.nb_enc + 1
           /\ Grown(g, AddMux(g), {}) /\ AddMux(g).nb_enc = g.nb_enc
           /\ \A i : Grown(g, AddMuxStream(g, i), {}) /\ AddMuxStream(g, i).nb_enc = g.nb_enc
<1>1. /\ DOMAIN g = GraphFields /\ Sized(g)
      /\ g.demux \in Seq(Nat) /\ g.mux \in Seq(Nat) /\ g.nb_dec \in Nat /\ g.nb_enc \in Nat
  BY DEF GraphOk, WellFormed, Sized
<1>2. /\ \A i \in DOMAIN g.demux : g.demux[i] \in Nat
      /\ \A i \in DOMAIN g.mux : g.mux[i] \in Nat
  BY <1>1, NatSeq
<1>3. Grown(g, AddDemux(g), {}) /\ AddDemux(g).nb_enc = g.nb_enc
  <2>1. PICK d : d = Append(g.demux, 0)
    OBVIOUS
  <2>2. PICK h : h = [g EXCEPT !.demux = d]
    OBVIOUS
  <2>3. /\ DOMAIN h = GraphFields /\ h.nb_enc = g.nb_enc /\ h.demux = d /\ h.mux = g.mux
        /\ h.nb_dec = g.nb_dec /\ h.filters = g.filters
    BY <1>1, <2>2 DEF GraphFields
  <2>4. Counted(h.demux, h.mux, h.nb_dec, h.nb_enc)
    BY <1>1, <2>1, <2>3, MoreNats DEF Counted
  <2>7. \A j \in DOMAIN g.demux : j \in DOMAIN d /\ g.demux[j] <= d[j]
    BY <1>1, <2>1, MoreNats
  <2>5. More(g, h)
    BY <1>1, <1>2, <2>3, <2>7 DEF More
  <2>6. AddDemux(g) = Regrown(g, h)
    BY <2>1, <2>2 DEF AddDemux
  <2>. QED  BY <2>3, <2>4, <2>5, <2>6, CountsGrown
<1>4. ASSUME NEW i PROVE Grown(g, AddDemuxStream(g, i), {}) /\ AddDemuxStream(g, i).nb_enc = g.nb_enc
  <2>1. PICK d : d = [g.demux EXCEPT ![i] = @ + 1]
    OBVIOUS
  <2>2. PICK h : h = [g EXCEPT !.demux = d]
    OBVIOUS
  <2>3. /\ DOMAIN h = GraphFields /\ h.nb_enc = g.nb_enc /\ h.demux = d /\ h.mux = g.mux
        /\ h.nb_dec = g.nb_dec /\ h.filters = g.filters
    BY <1>1, <2>2 DEF GraphFields
  <2>4. Counted(h.demux, h.mux, h.nb_dec, h.nb_enc)
    BY <1>1, <2>1, <2>3, MoreNats DEF Counted
  <2>7. \A j \in DOMAIN g.demux : j \in DOMAIN d /\ g.demux[j] <= d[j]
    BY <1>1, <2>1, MoreNats
  <2>5. More(g, h)
    BY <1>1, <1>2, <2>3, <2>7 DEF More
  <2>6. AddDemuxStream(g, i) = Regrown(g, h)
    BY <2>1, <2>2 DEF AddDemuxStream
  <2>. QED  BY <2>3, <2>4, <2>5, <2>6, CountsGrown
<1>5. Grown(g, AddDec(g), {}) /\ AddDec(g).nb_enc = g.nb_enc
  <2>1. PICK h : h = [g EXCEPT !.nb_dec = @ + 1]
    OBVIOUS
  <2>3. /\ DOMAIN h = GraphFields /\ h.nb_enc = g.nb_enc /\ h.demux = g.demux /\ h.mux = g.mux
        /\ h.nb_dec = g.nb_dec + 1 /\ h.filters = g.filters
    BY <1>1, <2>1 DEF GraphFields
  <2>4. Counted(h.demux, h.mux, h.nb_dec, h.nb_enc)
    BY <1>1, <2>3 DEF Counted
  <2>5. More(g, h)
    BY <1>1, <1>2, <2>3 DEF More
  <2>6. AddDec(g) = Regrown(g, h)
    BY <2>1 DEF AddDec
  <2>. QED  BY <2>3, <2>4, <2>5, <2>6, CountsGrown
<1>6. Grown(g, AddEnc(g), {}) /\ AddEnc(g).nb_enc = g.nb_enc + 1
  <2>1. PICK h : h = [g EXCEPT !.nb_enc = @ + 1]
    OBVIOUS
  <2>3. /\ DOMAIN h = GraphFields /\ h.nb_enc = g.nb_enc + 1 /\ h.demux = g.demux /\ h.mux = g.mux
        /\ h.nb_dec = g.nb_dec /\ h.filters = g.filters
    BY <1>1, <2>1 DEF GraphFields
  <2>4. Counted(h.demux, h.mux, h.nb_dec, h.nb_enc)
    BY <1>1, <2>3 DEF Counted
  <2>5. More(g, h)
    BY <1>1, <1>2, <2>3 DEF More
  <2>6. AddEnc(g) = Regrown(g, h)
    BY <2>1 DEF AddEnc
  <2>. QED  BY <2>3, <2>4, <2>5, <2>6, CountsGrown
<1>7. Grown(g, AddMux(g), {}) /\ AddMux(g).nb_enc = g.nb_enc
  <2>1. PICK d : d = Append(g.mux, 0)
    OBVIOUS
  <2>2. PICK h : h = [g EXCEPT !.mux = d]
    OBVIOUS
  <2>3. /\ DOMAIN h = GraphFields /\ h.nb_enc = g.nb_enc /\ h.mux = d /\ h.demux = g.demux
        /\ h.nb_dec = g.nb_dec /\ h.filters = g.filters
    BY <1>1, <2>2 DEF GraphFields
  <2>4. Counted(h.demux, h.mux, h.nb_dec, h.nb_enc)
    BY <1>1, <2>1, <2>3, MoreNats DEF Counted
  <2>7. \A j \in DOMAIN g.mux : j \in DOMAIN d /\ g.mux[j] <= d[j]
    BY <1>1, <2>1, MoreNats
  <2>5. More(g, h)
    BY <1>1, <1>2, <2>3, <2>7 DEF More
  <2>6. AddMux(g) = Regrown(g, h)
    BY <2>1, <2>2 DEF AddMux
  <2>. QED  BY <2>3, <2>4, <2>5, <2>6, CountsGrown
<1>8. ASSUME NEW i PROVE Grown(g, AddMuxStream(g, i), {}) /\ AddMuxStream(g, i).nb_enc = g.nb_enc
  <2>1. PICK d : d = [g.mux EXCEPT ![i] = @ + 1]
    OBVIOUS
  <2>2. PICK h : h = [g EXCEPT !.mux = d]
    OBVIOUS
  <2>3. /\ DOMAIN h = GraphFields /\ h.nb_enc = g.nb_enc /\ h.mux = d /\ h.demux = g.demux
        /\ h.nb_dec = g.nb_dec /\ h.filters = g.filters
    BY <1>1, <2>2 DEF GraphFields
  <2>4. Counted(h.demux, h.mux, h.nb_dec, h.nb_enc)
    BY <1>1, <2>1, <2>3, MoreNats DEF Counted
  <2>7. \A j \in DOMAIN g.mux : j \in DOMAIN d /\ g.mux[j] <= d[j]
    BY <1>1, <2>1, MoreNats
  <2>5. More(g, h)
    BY <1>1, <1>2, <2>3, <2>7 DEF More
  <2>6. AddMuxStream(g, i) = Regrown(g, h)
    BY <2>1, <2>2 DEF AddMuxStream
  <2>. QED  BY <2>3, <2>4, <2>5, <2>6, CountsGrown
<1>. QED  BY <1>3, <1>4, <1>5, <1>6, <1>7, <1>8

\* h has one filtergraph more than g: the last one, with nothing connected to it.
Lengthened(g, h, x) ==
    \E n \in Nat : /\ n = Len(g.filters) /\ DOMAIN g.filters = 1 .. n
                  /\ Len(h.filters) = n + 1 /\ DOMAIN h.filters = 1 .. n + 1
                  /\ h.filters[n + 1] = x
                  /\ Quiet(h, n + 1)

\* A filtergraph more.
LEMMA FiltergraphGrown ==
    ASSUME NEW g, GraphOk(g), NEW in \in Nat, NEW out \in Nat, NEW r, r = AddFiltergraph(g, in, out)
    PROVE  Grown(g, r, {}) /\ r.nb_enc = g.nb_enc /\ Lengthened(g, r, [in |-> in, out |-> out])
<1>1. /\ DOMAIN g = GraphFields /\ Sized(g) /\ WellFormed(g)
      /\ g.demux \in Seq(Nat) /\ g.mux \in Seq(Nat) /\ g.nb_dec \in Nat /\ g.nb_enc \in Nat
      /\ DOMAIN g.filters = 1 .. Len(g.filters) /\ Len(g.filters) \in Nat
      /\ \A f \in DOMAIN g.filters : g.filters[f].in \in Nat /\ g.filters[f].out \in Nat
  BY DEF GraphOk, WellFormed, Sized
<1>2. PICK n \in Nat : n = Len(g.filters) /\ DOMAIN g.filters = 1 .. n
  BY <1>1
<1>3. PICK x : x = [in |-> in, out |-> out]
  OBVIOUS
<1>4. PICK F : F = Append(g.filters, x)
  OBVIOUS
<1>5. IsSeq(g.filters)
  BY DEF GraphOk
<1>6. IsSeq(F) /\ Len(F) = n + 1 /\ DOMAIN F = 1 .. n + 1 /\ F[n + 1] = x /\ \A k \in 1 .. n : F[k] = g.filters[k]
  <2>1. IsSeq(F) /\ DOMAIN F = 1 .. n + 1 /\ F[n + 1] = x /\ \A k \in 1 .. n : F[k] = g.filters[k]
    BY <1>2, <1>4, <1>5, AppendSeq
  <2>2. Len(F) = n + 1
    BY <2>1, SeqDomain
  <2>. QED  BY <2>1, <2>2
<1>7. PICK h : h = [g EXCEPT !.filters = F]
  OBVIOUS
<1>8. /\ DOMAIN h = GraphFields /\ h.nb_enc = g.nb_enc /\ h.mux = g.mux /\ h.demux = g.demux
      /\ h.nb_dec = g.nb_dec /\ h.filters = F
  BY <1>1, <1>7 DEF GraphFields
<1>9. Sized(h)
  <2>1. ASSUME NEW k \in DOMAIN F PROVE F[k].in \in Nat /\ F[k].out \in Nat
    <3>1. x.in \in Nat /\ x.out \in Nat
      BY <1>3
    <3>2. k \in 1 .. n \/ k = n + 1
      BY <1>6
    <3>3. CASE k \in 1 .. n
      BY <1>1, <1>2, <1>6, <3>3
    <3>4. CASE k = n + 1
      BY <1>6, <3>1, <3>4
    <3>. QED  BY <3>2, <3>3, <3>4
  <2>. QED  BY <1>1, <1>6, <1>8, <2>1 DEF Sized
<1>10. More(g, h)
  <2>1. /\ \A i \in DOMAIN g.demux : g.demux[i] \in Nat
        /\ \A i \in DOMAIN g.mux : g.mux[i] \in Nat
    BY <1>1, NatSeq
  <2>. QED  BY <1>1, <1>2, <1>6, <1>8, <2>1 DEF More
<1>11. r = Regrown(g, h)
  BY <1>3, <1>4, <1>7 DEF AddFiltergraph
<1>12. Grown(g, r, {})
  BY <1>6, <1>8, <1>9, <1>10, <1>11, RegrownGrown
<1>13. /\ r.filters = F /\ r.nb_enc = g.nb_enc
       /\ r.dst = [k \in Sources(h) |-> IF k \in DOMAIN g.dst THEN g.dst[k] ELSE <<>>]
       /\ r.src = [k \in Sinks(h) |-> IF k \in DOMAIN g.src THEN g.src[k] ELSE NoNode]
       /\ Sources(r) = Sources(h) /\ Sinks(r) = Sinks(h)
  BY <1>8, <1>11, RegrownIs
<1>14. Quiet(r, n + 1)
  <2>1. ASSUME NEW d \in Sinks(r), d[1] = "fin", d[2] = n + 1 PROVE r.src[d] = NoNode
    <3>1. d \notin Sinks(g)
      <4>1. \A i \in DOMAIN g.filters : i # n + 1
        BY <1>2
      <4>. QED  BY <2>1, <4>1, SinkIs DEF Node
    <3>. QED  BY <1>1, <1>13, <3>1 DEF WellFormed
  <2>2. ASSUME NEW s \in Sources(r), s[1] = "fout", s[2] = n + 1 PROVE r.dst[s] = <<>>
    <3>1. s \notin Sources(g)
      <4>1. \A i \in DOMAIN g.filters : i # n + 1
        BY <1>2
      <4>. QED  BY <2>2, <4>1, SourceIs DEF Node
    <3>. QED  BY <1>1, <1>13, <3>1 DEF WellFormed
  <2>. QED  BY <2>1, <2>2 DEF Quiet
<1>15. Lengthened(g, r, x)
  BY <1>2, <1>6, <1>13, <1>14 DEF Lengthened
<1>. QED  BY <1>3, <1>12, <1>13, <1>15

\* What may be connected is, and touches the filtergraphs at its ends only.
LEMMA ConnectGrown ==
    ASSUME NEW g, GraphOk(g), NEW src, NEW dst, MayConnect(g, src, dst), NEW r, r = Connect(g, src, dst),
           NEW N, src[1] = "fout" => src[2] \in N, dst[1] = "fin" => dst[2] \in N
    PROVE  /\ Grown(g, r, N) /\ r.nb_enc = g.nb_enc
           /\ r.filters = g.filters /\ Sources(r) = Sources(g) /\ Sinks(r) = Sinks(g)
           /\ (src[1] = "enc" /\ dst[1] = "mux") => FeedsMux(r, src[2])
<1>1. /\ DOMAIN g = GraphFields /\ Sized(g)
      /\ g.dst \in [Sources(g) -> Seq(Sinks(g))]
      /\ g.src \in [Sinks(g) -> Sources(g) \cup {NoNode}]
      /\ \A s \in Sources(g) : \A k \in DOMAIN g.dst[s] :
            g.src[g.dst[s][k]] = s /\ Compatible(s, g.dst[s][k])
      /\ \A d \in Sinks(g) : g.src[d] # NoNode => \E k \in DOMAIN g.dst[g.src[d]] : g.dst[g.src[d]][k] = d
      /\ \A s \in Streams(g, "fout") : Len(g.dst[s]) <= 1
  BY DEF GraphOk, WellFormed
<1>2. /\ src \in Sources(g) /\ dst \in Sinks(g) /\ Compatible(src, dst) /\ g.src[dst] = NoNode
      /\ src[1] = "fout" => g.dst[src] = <<>>
  BY DEF MayConnect, SrcOf, Dsts
<1>3. r = [g EXCEPT !.dst[src] = Append(@, dst), !.src[dst] = src]
  BY DEF Connect
<1>4. PICK D : D = [g.dst EXCEPT ![src] = Append(@, dst)]
  OBVIOUS
<1>5. PICK S : S = [g.src EXCEPT ![dst] = src]
  OBVIOUS
<1>6. /\ DOMAIN r = GraphFields /\ r.demux = g.demux /\ r.mux = g.mux /\ r.nb_dec = g.nb_dec
      /\ r.nb_enc = g.nb_enc /\ r.filters = g.filters /\ r.dst = D /\ r.src = S
  BY <1>1, <1>3, <1>4, <1>5 DEF GraphFields
<1>7. /\ Sources(r) = Sources(g) /\ Sinks(r) = Sinks(g) /\ Streams(r, "fout") = Streams(g, "fout") /\ Sized(r)
  BY <1>1, <1>6, SameNodes
<1>8. PICK l : l = g.dst[src]
  OBVIOUS
<1>9. l \in Seq(Sinks(g)) /\ DOMAIN l = 1 .. Len(l) /\ Len(l) \in Nat
  BY <1>1, <1>2, <1>8
<1>10. PICK m : m = Append(l, dst)
  OBVIOUS
<1>11. m \in Seq(Sinks(g)) /\ Len(m) = Len(l) + 1 /\ DOMAIN m = 1 .. Len(l) + 1
       /\ m[Len(l) + 1] = dst /\ \A k \in DOMAIN l : m[k] = l[k]
  BY <1>2, <1>9, <1>10
<1>12. D[src] = m /\ \A s \in Sources(g) : s # src => D[s] = g.dst[s]
  BY <1>1, <1>2, <1>4, <1>8, <1>10
<1>13. S[dst] = src /\ \A d \in Sinks(g) : d # dst => S[d] = g.src[d]
  BY <1>1, <1>2, <1>5
<1>14. D \in [Sources(g) -> Seq(Sinks(g))]
  BY <1>1, <1>2, <1>4, <1>8, <1>10, <1>11
<1>15. S \in [Sinks(g) -> Sources(g) \cup {NoNode}]
  BY <1>1, <1>2, <1>5
<1>16. ASSUME NEW s \in Sources(g), NEW k \in DOMAIN D[s]
       PROVE  S[D[s][k]] = s /\ Compatible(s, D[s][k])
  <2>1. CASE s # src
    <3>1. D[s] = g.dst[s] /\ g.dst[s] \in Seq(Sinks(g))
      BY <2>1, <1>1, <1>12
    <3>2. PICK d : d = g.dst[s][k]
      OBVIOUS
    <3>3. d \in Sinks(g) /\ g.src[d] = s /\ Compatible(s, d)
      BY <1>1, <3>1, <3>2
    <3>4. d # dst
      BY <3>3, <1>2, <2>1, SourceIs DEF NoNode, Node
    <3>. QED  BY <3>1, <3>2, <3>3, <3>4, <1>13
  <2>2. CASE s = src /\ k \in DOMAIN l
    <3>1. PICK d : d = l[k]
      OBVIOUS
    <3>2. D[s][k] = d /\ d \in Sinks(g)
      BY <2>2, <1>9, <1>11, <1>12, <3>1
    <3>3. g.src[d] = s /\ Compatible(s, d)
      BY <1>1, <1>8, <2>2, <3>1
    <3>. QED  BY <3>2, <3>3, <1>13, <2>2
  <2>3. CASE s = src /\ k \notin DOMAIN l
    <3>1. k = Len(l) + 1
      BY <2>3, <1>9, <1>11, <1>12
    <3>. QED  BY <3>1, <2>3, <1>2, <1>11, <1>12, <1>13
  <2>. QED  BY <2>1, <2>2, <2>3
<1>17. ASSUME NEW d \in Sinks(g), S[d] # NoNode
       PROVE  \E k \in DOMAIN D[S[d]] : D[S[d]][k] = d
  <2>1. CASE d = dst
    BY <2>1, <1>9, <1>11, <1>12, <1>13
  <2>2. CASE d # dst
    <3>1. PICK s : s = g.src[d]
      OBVIOUS
    <3>2. S[d] = s /\ s \in Sources(g)
      BY <2>2, <3>1, <1>1, <1>13, <1>17
    <3>3. PICK k \in DOMAIN g.dst[s] : g.dst[s][k] = d
      BY <3>1, <3>2, <1>1, <1>17
    <3>4. CASE s = src
      <4>1. k \in DOMAIN l /\ l[k] = d
        BY <3>3, <3>4, <1>8
      <4>2. k \in DOMAIN m /\ m[k] = d
        BY <4>1, <1>9, <1>11
      <4>. QED  BY <4>2, <3>2, <3>4, <1>12
    <3>5. CASE s # src
      BY <3>2, <3>3, <3>5, <1>12
    <3>. QED  BY <3>4, <3>5
  <2>. QED  BY <2>1, <2>2
<1>18. ASSUME NEW s \in Streams(g, "fout") PROVE Len(D[s]) <= 1
  <2>1. s \in Sources(g) /\ s[1] = "fout"
    BY FoutIs
  <2>2. CASE s # src
    BY <2>1, <2>2, <1>1, <1>12
  <2>3. CASE s = src
    <3>1. l = <<>>
      BY <2>1, <2>3, <1>2, <1>8
    <3>2. Len(l) = 0
      BY <3>1
    <3>3. Len(m) = 1
      BY <3>2, <1>11
    <3>4. D[s] = m
      BY <2>3, <1>12
    <3>5. Len(D[s]) = 1
      BY <3>3, <3>4
    <3>. QED  BY <3>5
  <2>. QED  BY <2>2, <2>3
<1>19. GraphOk(r)
  BY <1>6, <1>7, <1>14, <1>15, <1>16, <1>17, <1>18 DEF GraphOk, WellFormed
<1>20. ASSUME NEW n \in DOMAIN g.filters \ N, Quiet(g, n) PROVE Quiet(r, n)
  BY <1>6, <1>7, <1>12, <1>13, <1>20 DEF Quiet
<1>21. ASSUME NEW e, Node("enc", e, 1) \in Sources(g), FeedsMux(g, e) PROVE FeedsMux(r, e)
  <2>1. PICK s : s = Node("enc", e, 1)
    OBVIOUS
  <2>2. PICK k \in DOMAIN g.dst[s] : g.dst[s][k][1] = "mux"
    BY <1>21, <2>1 DEF FeedsMux
  <2>3. CASE s = src
    <3>1. k \in DOMAIN m /\ m[k] = g.dst[s][k]
      BY <2>2, <2>3, <1>8, <1>9, <1>11
    <3>. QED  BY <2>1, <2>2, <2>3, <3>1, <1>6, <1>12 DEF FeedsMux
  <2>4. CASE s # src
    BY <2>1, <2>2, <2>4, <1>6, <1>12, <1>21 DEF FeedsMux
  <2>. QED  BY <2>3, <2>4
<1>22. ASSUME NEW e \in 1 .. g.nb_enc, FeedsMux(g, e) PROVE FeedsMux(r, e)
  <2>1. Node("enc", e, 1) \in Sources(g)
    BY SourceIs
  <2>. QED  BY <1>21, <1>22, <2>1
<1>23. Grown(g, r, N)
  <2>1. g.nb_enc <= r.nb_enc
    BY <1>1, <1>6 DEF Sized
  <2>. QED  BY <1>6, <1>19, <1>20, <1>22, <2>1 DEF Grown
<1>24. ASSUME src[1] = "enc", dst[1] = "mux" PROVE FeedsMux(r, src[2])
  <2>1. src = Node("enc", src[2], 1)
    BY <1>2, <1>24, SourceIs DEF Node
  <2>2. Len(l) + 1 \in DOMAIN m /\ m[Len(l) + 1] = dst
    BY <1>9, <1>11
  <2>3. PICK s : s = src
    OBVIOUS
  <2>4. r.dst[s] = m
    BY <2>3, <1>6, <1>12
  <2>5. s = Node("enc", s[2], 1)
    BY <2>1, <2>3
  <2>6. FeedsMux(r, s[2])
    BY <2>2, <2>4, <2>5, <1>24 DEF FeedsMux
  <2>. QED  BY <2>3, <2>6
<1>. QED  BY <1>6, <1>7, <1>23, <1>24

-----------------------------------------------------------------------------
(* Streams that are put to use                                             *)

\* The fields of w, and what its tables hold.
Fields == {"err", "sch", "files", "fgs", "outs", "decs", "global", "src"}

FileOk(file) == {"streams", "groups"} \subseteq DOMAIN file /\ IsSeq(file.streams) /\ IsSeq(file.groups)
FgOk(fg)     == /\ DOMAIN fg = {"index", "sch", "internal", "ins", "outs"} /\ IsSeq(fg.ins) /\ IsSeq(fg.outs)
                /\ \A k \in DOMAIN fg.outs : "needed" \in DOMAIN fg.outs[k]

FilesOk(files) == IsSeq(files) /\ \A f \in DOMAIN files : FileOk(files[f])
FgsOk(fgs)     == IsSeq(fgs) /\ \A f \in DOMAIN fgs : FgOk(fgs[f])

\* Nothing has failed.
Fine(w) == w.err = ""

\* The tables are there, and the graph is in order.
Usable(w) == DOMAIN w = Fields /\ FilesOk(w.files) /\ FgsOk(w.fgs) /\ GraphOk(w.sch)

\* The files are the same, but for what is known of their streams.
Alike(files, new) ==
    DOMAIN new = DOMAIN files /\ \A f \in DOMAIN files : new[f].groups = files[f].groups

\* v is what w becomes, if nothing fails, when filtergraphs in N are connected.
Moves(w, v, N) ==
    Fine(v) =>
        /\ Usable(v)
        /\ Alike(w.files, v.files) /\ v.fgs = w.fgs /\ v.outs = w.outs
        /\ Grown(w.sch, v.sch, N) /\ v.sch.nb_enc = w.sch.nb_enc

\* A function on the domain of a sequence is a sequence.
LEMMA SameSeq ==
    ASSUME NEW s, IsSeq(s), NEW r, r = [i \in DOMAIN s |-> r[i]]
    PROVE  IsSeq(r) /\ DOMAIN r = DOMAIN s
<1>1. PICK n \in Nat : n = Len(s) /\ DOMAIN s = 1 .. n
  BY SeqDomain
<1>2. r = [i \in 1 .. n |-> r[i]]
  BY <1>1
<1>. QED  BY <1>1, <1>2, ListSeq

\* A graph is itself with nothing more in it.
LEMMA GrownSame == ASSUME NEW g, GraphOk(g), NEW N PROVE Grown(g, g, N)
<1>1. g.nb_enc <= g.nb_enc
  BY DEF GraphOk, WellFormed, Sized
<1>. QED  BY <1>1 DEF Grown

\* What grows twice has grown, if the second time touches no other filtergraphs.
LEMMA GrownTwice ==
    ASSUME NEW g, GraphOk(g), NEW h, NEW k, NEW M, NEW N, Grown(g, h, M), Grown(h, k, N),
           N \cap DOMAIN g.filters \subseteq M
    PROVE  Grown(g, k, M)
<1>1. g.nb_enc \in Nat /\ h.nb_enc \in Nat /\ k.nb_enc \in Nat
  BY DEF Grown, GraphOk, WellFormed, Sized
<1>2. g.nb_enc <= h.nb_enc /\ h.nb_enc <= k.nb_enc
  BY DEF Grown
<1>3. \A e \in 1 .. g.nb_enc : e \in 1 .. h.nb_enc
  BY <1>1, <1>2
<1>4. \A n \in DOMAIN g.filters : n \in DOMAIN k.filters /\ k.filters[n] = g.filters[n]
  BY DEF Grown
<1>5. ASSUME NEW n \in DOMAIN g.filters \ M, Quiet(g, n) PROVE Quiet(k, n)
  BY <1>5 DEF Grown
<1>6. \A e \in 1 .. g.nb_enc : FeedsMux(g, e) => FeedsMux(k, e)
  BY <1>3 DEF Grown
<1>7. g.nb_enc <= k.nb_enc
  BY <1>1, <1>2
<1>. QED  BY <1>4, <1>5, <1>6, <1>7 DEF Grown

\* Nothing happens, or it fails.
LEMMA MovesNot ==
    ASSUME NEW w, Usable(w), NEW N
    PROVE  Moves(w, w, N) /\ \A why : why # "" => Moves(w, Fail(w, why), N)
<1>1. Moves(w, w, N)
  BY GrownSame DEF Fine, Moves, Usable, Alike
<1>2. ASSUME NEW why, why # "" PROVE Moves(w, Fail(w, why), N)
  BY <1>2 DEF Fine, Moves, Fail, Usable, Fields
<1>. QED  BY <1>1, <1>2

\* One thing after the other.
LEMMA MovesTwice ==
    ASSUME NEW w, Usable(w), NEW v, NEW u, NEW M, NEW N, Moves(w, v, M), Fine(v), Moves(v, u, N),
           N \cap DOMAIN w.sch.filters \subseteq M
    PROVE  Moves(w, u, M)
<1>1. SUFFICES ASSUME Fine(u) PROVE Moves(w, u, M)
  BY DEF Fine, Moves
<1>2. /\ Usable(u) /\ u.fgs = w.fgs /\ u.outs = w.outs /\ u.sch.nb_enc = w.sch.nb_enc
      /\ Alike(w.files, u.files)
  BY <1>1 DEF Fine, Moves, Alike
<1>3. Grown(w.sch, u.sch, M)
  <2>1. Grown(w.sch, v.sch, M) /\ Grown(v.sch, u.sch, N) /\ GraphOk(w.sch)
    BY <1>1 DEF Fine, Moves, Usable
  <2>. QED  BY <2>1, GrownTwice
<1>. QED  BY <1>2, <1>3 DEF Fine, Moves

\* Other files, alike, and another graph, grown.
LEMMA MovesTo ==
    ASSUME NEW w, Usable(w), NEW g, NEW files, NEW N, Grown(w.sch, g, N), g.nb_enc = w.sch.nb_enc,
           FilesOk(files), Alike(w.files, files), NEW v, v = [w EXCEPT !.sch = g, !.files = files]
    PROVE  Moves(w, v, N)
<1>1. DOMAIN v = Fields /\ v.sch = g /\ v.files = files /\ v.fgs = w.fgs /\ v.outs = w.outs
  BY DEF Usable, Fields
<1>2. GraphOk(g)
  BY DEF Grown
<1>. QED  BY <1>1, <1>2 DEF Fine, Moves, Usable

\* sch_connect touches the filtergraphs at the two ends.
LEMMA ConnectMoves ==
    ASSUME NEW w, Usable(w), NEW src, NEW dst, NEW N,
           src[1] = "fout" => src[2] \in N, dst[1] = "fin" => dst[2] \in N
    PROVE  Moves(w, SchConnect(w, src, dst), N)
<1>1. CASE MayConnect(w.sch, src, dst)
  <2>1. PICK g : g = Connect(w.sch, src, dst)
    OBVIOUS
  <2>2. Grown(w.sch, g, N) /\ g.nb_enc = w.sch.nb_enc
    BY <1>1, <2>1, ConnectGrown DEF Usable
  <2>3. SchConnect(w, src, dst) = [w EXCEPT !.sch = g]
    BY <1>1, <2>1 DEF Fine, SchConnect
  <2>4. FilesOk(w.files) /\ Alike(w.files, w.files)
    BY DEF Usable, Alike
  <2>5. SchConnect(w, src, dst) = [w EXCEPT !.sch = g, !.files = w.files]
    BY <2>3 DEF Usable, Fields
  <2>. QED  BY <2>2, <2>4, <2>5, MovesTo
<1>2. CASE ~MayConnect(w.sch, src, dst)
  BY <1>2, MovesNot DEF Fine, SchConnect, Assertion
<1>. QED  BY <1>1, <1>2

\* Files whose streams are other ones, but as many.
LEMMA FilesAlike ==
    ASSUME NEW files, FilesOk(files), NEW new, new = [f \in DOMAIN files |-> new[f]],
           \A f \in DOMAIN files :
              /\ DOMAIN new[f] = DOMAIN files[f] /\ new[f].groups = files[f].groups
              /\ new[f].streams = [i \in DOMAIN files[f].streams |-> new[f].streams[i]]
    PROVE  FilesOk(new) /\ Alike(files, new)
<1>1. IsSeq(new) /\ DOMAIN new = DOMAIN files
  BY SameSeq DEF FilesOk
<1>2. ASSUME NEW f \in DOMAIN files PROVE FileOk(new[f])
  <2>1. {"streams", "groups"} \subseteq DOMAIN files[f] /\ IsSeq(files[f].streams) /\ IsSeq(files[f].groups)
    BY DEF FilesOk, FileOk
  <2>2. PICK r : r = new[f].streams
    OBVIOUS
  <2>3. IsSeq(r)
    BY <2>1, <2>2, SameSeq
  <2>. QED  BY <2>1, <2>2, <2>3 DEF FileOk
<1>. QED  BY <1>1, <1>2 DEF FilesOk, Alike

\* A change of one stream of a file.
LEMMA StreamChanged ==
    ASSUME NEW files, FilesOk(files), NEW f, NEW i, NEW x
    PROVE  LET new == [files EXCEPT ![f].streams[i] = x] IN FilesOk(new) /\ Alike(files, new)
<1> DEFINE r == [files[f].streams EXCEPT ![i] = x]
           new == [files EXCEPT ![f].streams = r]
<1>1. new = [g \in DOMAIN files |-> new[g]]
  OBVIOUS
<1>2. r = [k \in DOMAIN files[f].streams |-> r[k]]
  OBVIOUS
<1> HIDE DEF r
<1>3. ASSUME NEW g \in DOMAIN files
      PROVE  /\ DOMAIN new[g] = DOMAIN files[g] /\ new[g].groups = files[g].groups
             /\ new[g].streams = [k \in DOMAIN files[g].streams |-> new[g].streams[k]]
  <2>1. {"streams", "groups"} \subseteq DOMAIN files[g] /\ IsSeq(files[g].streams)
    BY DEF FilesOk, FileOk
  <2>2. CASE g # f
    <3>1. new[g] = files[g]
      BY <2>2
    <3>2. PICK q : q = files[g].streams
      OBVIOUS
    <3>3. q = [k \in DOMAIN q |-> q[k]]
      BY <2>1, <3>2 DEF IsSeq
    <3>. QED  BY <3>1, <3>2, <3>3
  <2>3. CASE g = f
    <3>1. new[g] = [files[g] EXCEPT !.streams = r]
      BY <2>3
    <3>2. DOMAIN new[g] = DOMAIN files[g] /\ new[g].groups = files[g].groups /\ new[g].streams = r
      BY <2>1, <3>1
    <3>. QED  BY <1>2, <2>3, <3>2
  <2>. QED  BY <2>2, <2>3
<1>4. [files EXCEPT ![f].streams[i] = x] = new
  BY DEF r
<1> HIDE DEF new
<1>5. FilesOk(new) /\ Alike(files, new)
  BY <1>1, <1>3, FilesAlike
<1>. QED  BY <1>4, <1>5

\* ist_use, first part: the stream is added to its demuxer.
LEMMA DemuxedMoves ==
    ASSUME NEW w, Usable(w), NEW f, NEW i
    PROVE  Moves(w, Demuxed(w, f, i), {})
<1>1. PICK g, x : /\ Demuxed(w, f, i) = [w EXCEPT !.sch = g, !.files[f].streams[i] = x]
                  /\ g = AddDemuxStream(w.sch, f) \/ g = w.sch
  BY DEF Fine, Demuxed
<1>2. Grown(w.sch, g, {}) /\ g.nb_enc = w.sch.nb_enc
  <2>1. GraphOk(w.sch)
    BY DEF Usable
  <2>2. CASE g = AddDemuxStream(w.sch, f)
    BY <2>1, <2>2, AddedGrown
  <2>3. CASE g = w.sch
    BY <2>1, <2>3, GrownSame
  <2>. QED  BY <1>1, <2>2, <2>3
<1>3. PICK files : files = [w.files EXCEPT ![f].streams[i] = x]
  OBVIOUS
<1>4. FilesOk(files) /\ Alike(w.files, files)
  BY <1>3, StreamChanged DEF Usable
<1>5. Demuxed(w, f, i) = [w EXCEPT !.sch = g, !.files = files]
  BY <1>1, <1>3
<1>. QED  BY <1>2, <1>4, <1>5, MovesTo

\* ist_use, second part: the file's other layers are looked for.
LEMMA EnhancedMoves ==
    ASSUME NEW w, Usable(w), NEW f, NEW i
    PROVE  Moves(w, Enhanced(w, f, i), {}) /\ Enhanced(w, f, i).err = w.err
<1> DEFINE pairs == Those(w.files[f].groups,
                          LAMBDA g : g.type = "lcevc" /\ Len(g.streams) = 2 /\ i \in Range(g.streams))
           els == IF pairs = <<>> THEN {} ELSE {pairs[1].el}
           r == [s \in DOMAIN w.files[f].streams |->
                    IF s \in els \ {i} THEN [w.files[f].streams[s] EXCEPT !.st_discard = "none"]
                    ELSE w.files[f].streams[s]]
           new == [w.files EXCEPT ![f].streams = r]
<1>1. Enhanced(w, f, i) = [w EXCEPT !.files = new]
  BY DEF Fine, Enhanced
<1>2. FilesOk(new) /\ Alike(w.files, new)
  <2>1. new = [g \in DOMAIN w.files |-> new[g]]
    OBVIOUS
  <2>2. r = [s \in DOMAIN w.files[f].streams |-> r[s]]
    OBVIOUS
  <2> HIDE DEF r
  <2>3. ASSUME NEW g \in DOMAIN w.files
        PROVE  /\ DOMAIN new[g] = DOMAIN w.files[g] /\ new[g].groups = w.files[g].groups
               /\ new[g].streams = [s \in DOMAIN w.files[g].streams |-> new[g].streams[s]]
    <3>1. {"streams", "groups"} \subseteq DOMAIN w.files[g] /\ IsSeq(w.files[g].streams)
      BY DEF Usable, FilesOk, FileOk
    <3>2. CASE g # f
      <4>1. new[g] = w.files[g]
        BY <3>2
      <4>2. PICK q : q = w.files[g].streams
        OBVIOUS
      <4>3. q = [s \in DOMAIN q |-> q[s]]
        BY <3>1, <4>2 DEF IsSeq
      <4>. QED  BY <4>1, <4>2, <4>3
    <3>3. CASE g = f
      <4>1. new[g] = [w.files[g] EXCEPT !.streams = r]
        BY <3>3
      <4>2. DOMAIN new[g] = DOMAIN w.files[g] /\ new[g].groups = w.files[g].groups /\ new[g].streams = r
        BY <3>1, <4>1
      <4>. QED  BY <2>2, <3>3, <4>2
    <3>. QED  BY <3>2, <3>3
  <2> HIDE DEF new
  <2>. QED  BY <2>1, <2>3, FilesAlike DEF Usable
<1> HIDE DEF new
<1>3. Enhanced(w, f, i) = [w EXCEPT !.sch = w.sch, !.files = new] /\ Enhanced(w, f, i).err = w.err
  BY <1>1 DEF Usable, Fields
<1>4. Grown(w.sch, w.sch, {})
  BY GrownSame DEF Usable
<1>. QED  BY <1>2, <1>3, <1>4, MovesTo

\* ist_use, third part: the stream gets a decoder.
LEMMA DecodedMoves ==
    ASSUME NEW w, Usable(w), NEW f, NEW i, Fine(w)
    PROVE  Moves(w, Decoded(w, f, i), {})
<1>1. CASE Ist(w, f, i).decoder # 0
  BY <1>1, MovesNot DEF Fine, Decoded
<1>2. CASE Ist(w, f, i).decoder = 0
  <2>1. PICK g : g = AddDec(w.sch)
    OBVIOUS
  <2>2. Grown(w.sch, g, {}) /\ g.nb_enc = w.sch.nb_enc
    BY <2>1, AddedGrown DEF Usable
  <2>3. PICK v : v = [w EXCEPT !.sch = g, !.files[f].streams[i].decoder = g.nb_dec]
    OBVIOUS
  <2>4. PICK x : x = [w.files[f].streams[i] EXCEPT !.decoder = g.nb_dec]
    OBVIOUS
  <2>5. PICK files : files = [w.files EXCEPT ![f].streams[i] = x]
    OBVIOUS
  <2>6. FilesOk(files) /\ Alike(w.files, files)
    BY <2>5, StreamChanged DEF Usable
  <2>7. v = [w EXCEPT !.sch = g, !.files = files]
    BY <2>3, <2>4, <2>5
  <2>8. Moves(w, v, {}) /\ v.err = w.err
    BY <2>2, <2>6, <2>7, MovesTo DEF Usable, Fields
  <2>9. PICK src, dst : src = Node("demux", f, Ist(w, f, i).sch) /\ dst = Node("dec", g.nb_dec, 1)
    OBVIOUS
  <2>10. Decoded(w, f, i) = SchConnect(v, src, dst)
    BY <1>2, <2>1, <2>3, <2>9 DEF Fine, Decoded
  <2>11. src[1] # "fout" /\ dst[1] # "fin"
    BY <2>9 DEF Node
  <2>12. Moves(v, Decoded(w, f, i), {})
    <3>1. Usable(v)
      BY <2>8 DEF Fine, Moves
    <3>2. Moves(v, SchConnect(v, src, dst), {})
      BY <3>1, <2>11, ConnectMoves
    <3>. QED  BY <2>10, <3>2
  <2>. QED  BY <2>8, <2>12, MovesTwice DEF Fine
<1>. QED  BY <1>1, <1>2

\* Another node is handed back.
LEMMA HandedMoves ==
    ASSUME NEW w, Usable(w), NEW n, NEW N
    PROVE  Moves(w, [w EXCEPT !.src = n], N)
<1>1. PICK v : v = [w EXCEPT !.src = n]
  OBVIOUS
<1>2. /\ DOMAIN v = Fields /\ v.sch = w.sch /\ v.files = w.files /\ v.fgs = w.fgs /\ v.outs = w.outs
  BY <1>1 DEF Usable, Fields
<1>3. Moves(w, w, N)
  BY MovesNot
<1>4. Grown(w.sch, v.sch, N)
  BY <1>2, GrownSame DEF Usable
<1>. QED  BY <1>1, <1>2, <1>4 DEF Fine, Moves, Usable, Alike

\* What fails says why.
LEMMA Failed ==
    ASSUME NEW w, Usable(w), NEW why
    PROVE  Fail(w, why).err = why
BY DEF Fail, Usable, Fields

\* ist_use puts a stream to use without touching a filtergraph.
LEMMA IstUseMoves ==
    ASSUME NEW w, Usable(w), Fine(w), NEW f, NEW i, NEW decoding, NEW u, u = IstUse(w, f, i, decoding)
    PROVE  Moves(w, u, {}) /\ (Fine(u) => u.src[1] # "fout")
<1>1. CASE Ist(w, f, i).user_set_discard = "all"
  BY <1>1, MovesNot, Failed DEF Fine, IstUse
<1>2. CASE Ist(w, f, i).user_set_discard # "all" /\ decoding /\ ~Ist(w, f, i).dec
  BY <1>2, MovesNot, Failed DEF Fine, IstUse
<1>3. CASE Ist(w, f, i).user_set_discard # "all" /\ ~(decoding /\ ~Ist(w, f, i).dec)
  <2>1. PICK x : x = Demuxed(w, f, i)
    OBVIOUS
  <2>2. Moves(w, x, {}) /\ Fine(x) /\ Usable(x)
    <3>1. x.err = w.err
      BY <2>1 DEF Fine, Demuxed, Usable, Fields
    <3>. QED  BY <2>1, <3>1, DemuxedMoves DEF Fine, Moves
  <2>3. PICK v : v = Enhanced(x, f, i)
    OBVIOUS
  <2>4. Moves(x, v, {}) /\ Fine(v) /\ Usable(v)
    <3>1. Moves(x, v, {}) /\ Fine(v)
      BY <2>2, <2>3, EnhancedMoves DEF Fine
    <3>. QED  BY <3>1 DEF Fine, Moves
  <2>5. Moves(w, v, {})
    BY <2>2, <2>4, MovesTwice
  <2>6. PICK d : d = IF decoding THEN Decoded(v, f, i) ELSE v
    OBVIOUS
  <2>7. Moves(v, d, {})
    <3>1. CASE decoding
      BY <2>4, <2>6, <3>1, DecodedMoves
    <3>2. CASE ~decoding
      BY <2>4, <2>6, <3>2, MovesNot
    <3>. QED  BY <3>1, <3>2
  <2>8. Moves(w, d, {})
    BY <2>4, <2>5, <2>7, MovesTwice
  <2>9. CASE ~Fine(d)
    BY <1>3, <2>1, <2>3, <2>6, <2>8, <2>9 DEF Fine, IstUse, Then
  <2>10. CASE Fine(d)
    <3>1. PICK n : u = [d EXCEPT !.src = n] /\ n[1] # "fout"
      <4>1. PICK n : /\ u = [d EXCEPT !.src = n]
                     /\ n = IF decoding THEN Node("dec", Ist(d, f, i).decoder, 1) ELSE Node("demux", f, Ist(d, f, i).sch)
        BY <1>3, <2>1, <2>3, <2>6, <2>10 DEF Fine, IstUse, Then
      <4>2. n[1] # "fout"
        BY <4>1 DEF Node
      <4>. QED  BY <4>1, <4>2
    <3>2. Usable(d)
      BY <2>8, <2>10 DEF Fine, Moves
    <3>3. Moves(d, [d EXCEPT !.src = n], {})
      BY <3>2, HandedMoves
    <3>4. [d EXCEPT !.src = n].src = n
      BY <3>2 DEF Usable, Fields
    <3>. QED  BY <2>8, <2>10, <3>1, <3>3, <3>4, MovesTwice
  <2>. QED  BY <2>9, <2>10
<1>. QED  BY <1>1, <1>2, <1>3

\* ist_filter_add does not, either.
LEMMA IstFilterAddMoves ==
    ASSUME NEW w, Usable(w), Fine(w), NEW f, NEW i, NEW u, u = IstFilterAdd(w, f, i)
    PROVE  Moves(w, u, {}) /\ (Fine(u) => u.src[1] # "fout")
<1>1. PICK v : v = IstUse(w, f, i, TRUE)
  OBVIOUS
<1>2. Moves(w, v, {}) /\ (Fine(v) => v.src[1] # "fout")
  BY <1>1, IstUseMoves
<1>3. CASE ~Fine(v)
  BY <1>1, <1>2, <1>3 DEF Fine, IstFilterAdd, Then
<1>4. CASE Fine(v)
  <2>1. PICK b : u = [v EXCEPT !.files[f].streams[i].sub2video = b]
    BY <1>1, <1>4 DEF Fine, IstFilterAdd, Then
  <2>2. Usable(v)
    BY <1>2, <1>4 DEF Fine, Moves
  <2>3. PICK x : x = [v.files[f].streams[i] EXCEPT !.sub2video = b]
    OBVIOUS
  <2>4. PICK files : files = [v.files EXCEPT ![f].streams[i] = x]
    OBVIOUS
  <2>5. FilesOk(files) /\ Alike(v.files, files)
    BY <2>2, <2>4, StreamChanged DEF Usable
  <2>6. u = [v EXCEPT !.files = files]
    BY <2>1, <2>3, <2>4
  <2>7. u = [v EXCEPT !.sch = v.sch, !.files = files] /\ u.src = v.src
    BY <2>2, <2>6 DEF Usable, Fields
  <2>8. Grown(v.sch, v.sch, {})
    BY <2>2, GrownSame DEF Usable
  <2>9. Moves(v, u, {})
    BY <2>2, <2>5, <2>7, <2>8, MovesTo
  <2>. QED  BY <1>2, <1>4, <2>7, <2>9, MovesTwice
<1>. QED  BY <1>3, <1>4

\* An input of filtergraph n is connected.
LEMMA IfilterBindIstMoves ==
    ASSUME NEW w, Usable(w), Fine(w), NEW n, NEW k, NEW type, NEW f, NEW i
    PROVE  Moves(w, IfilterBindIst(w, Node("fin", n, k), type, f, i), {n})
<1>1. CASE ~Takes(type, Ist(w, f, i).type)
  BY <1>1, MovesNot DEF Fine, IfilterBindIst
<1>2. CASE Takes(type, Ist(w, f, i).type)
  <2>1. PICK v : v = IstFilterAdd(w, f, i)
    OBVIOUS
  <2>2. Moves(w, v, {}) /\ (Fine(v) => v.src[1] # "fout")
    BY <2>1, IstFilterAddMoves
  <2>3. Moves(w, v, {n})
    <3>1. Moves(w, w, {n}) /\ {} \cap DOMAIN w.sch.filters \subseteq {n}
      BY MovesNot
    <3>. QED  BY <2>2, <3>1, MovesTwice
  <2>4. CASE ~Fine(v)
    BY <1>2, <2>1, <2>3, <2>4 DEF Fine, IfilterBindIst, Then
  <2>5. CASE Fine(v)
    <3>1. PICK src, dst : src = v.src /\ dst = Node("fin", n, k)
      OBVIOUS
    <3>2. IfilterBindIst(w, Node("fin", n, k), type, f, i) = SchConnect(v, src, dst)
      BY <1>2, <2>1, <2>5, <3>1 DEF Fine, IfilterBindIst, Then
    <3>3. Usable(v)
      BY <2>2, <2>5 DEF Fine, Moves
    <3>4. src[1] # "fout" /\ dst[2] = n
      BY <2>2, <2>5, <3>1 DEF Node
    <3>5. Moves(v, SchConnect(v, src, dst), {n})
      BY <3>3, <3>4, ConnectMoves
    <3>. QED  BY <2>3, <2>5, <3>2, <3>5, MovesTwice
  <2>. QED  BY <2>4, <2>5
<1>. QED  BY <1>1, <1>2

\* A filtergraph of one stream: those that were there before are left alone.
LEMMA FgCreateSimpleMoves ==
    ASSUME NEW w, Usable(w), Fine(w), NEW f, NEW i, NEW desc, NEW enc
    PROVE  Moves(w, FgCreateSimple(w, f, i, desc, enc), {})
<1> DEFINE made == FgCreateSimple(w, f, i, desc, enc)
           bad == \/ ~AV(desc.ins) \/ desc.outs = <<>> \/ Len(desc.ins) # 1 \/ Len(desc.outs) # 1
                  \/ desc.outs[1].type # Ist(w, f, i).type
<1>1. CASE bad
  BY <1>1, MovesNot DEF Fine, FgCreateSimple
<1>2. CASE ~bad
  <2>1. PICK g : g = AddFiltergraph(w.sch, 1, 1)
    OBVIOUS
  <2>2. PICK n : n = Len(g.filters)
    OBVIOUS
  <2>3. Grown(w.sch, g, {}) /\ g.nb_enc = w.sch.nb_enc /\ n \notin DOMAIN w.sch.filters
    <3>1. PICK sch : sch = w.sch
      OBVIOUS
    <3>2. GraphOk(sch) /\ 1 \in Nat /\ g = AddFiltergraph(sch, 1, 1)
      BY <2>1, <3>1 DEF Usable
    <3>3. Grown(sch, g, {}) /\ g.nb_enc = sch.nb_enc /\ Lengthened(sch, g, [in |-> 1, out |-> 1])
      BY <3>2, FiltergraphGrown
    <3>4. n \notin DOMAIN sch.filters
      BY <2>2, <3>3 DEF Lengthened
    <3>. QED  BY <3>1, <3>3, <3>4
  <2>4. PICK u : u = [w EXCEPT !.sch = g]
    OBVIOUS
  <2>5. u = [w EXCEPT !.sch = g, !.files = w.files] /\ Fine(u)
    BY <2>4 DEF Usable, Fields, Fine
  <2>6. FilesOk(w.files) /\ Alike(w.files, w.files)
    BY DEF Usable, Alike
  <2>7. Moves(w, u, {})
    BY <2>3, <2>5, <2>6, MovesTo
  <2>8. Usable(u)
    BY <2>5, <2>7 DEF Fine, Moves
  <2>9. PICK v : v = IfilterBindIst(u, Node("fin", n, 1), desc.ins[1].type, f, i)
    OBVIOUS
  <2>10. Moves(u, v, {n})
    BY <2>5, <2>8, <2>9, IfilterBindIstMoves
  <2>11. Moves(w, v, {})
    <3>1. {n} \cap DOMAIN w.sch.filters \subseteq {} /\ Fine(u)
      BY <2>3, <2>5
    <3>. QED  BY <2>7, <2>10, <3>1, MovesTwice
  <2>12. Len(desc.ins) = 1 /\ Len(desc.outs) = 1 /\ AddFiltergraph(w.sch, Len(desc.ins), Len(desc.outs)) = g
    BY <1>2, <2>1
  <2>13. made = IF Fine(v) THEN SchConnect(v, Node("fout", n, 1), Node("enc", enc, 1)) ELSE v
    BY <1>2, <2>2, <2>4, <2>9, <2>12 DEF Fine, FgCreateSimple, Then
  <2>14. CASE ~Fine(v)
    BY <2>11, <2>13, <2>14
  <2>15. CASE Fine(v)
    <3>1. PICK src, dst : src = Node("fout", n, 1) /\ dst = Node("enc", enc, 1)
      OBVIOUS
    <3>2. src[2] \in {n} /\ dst[1] # "fin"
      BY <3>1 DEF Node
    <3>3. Usable(v)
      BY <2>11, <2>15 DEF Fine, Moves
    <3>4. Moves(v, SchConnect(v, src, dst), {n})
      BY <3>2, <3>3, ConnectMoves
    <3>5. {n} \cap DOMAIN w.sch.filters \subseteq {} /\ made = SchConnect(v, src, dst)
      BY <2>3, <2>13, <2>15, <3>1
    <3>. QED  BY <2>11, <2>15, <3>4, <3>5, MovesTwice
  <2>. QED  BY <2>14, <2>15
<1>. QED  BY <1>1, <1>2

-----------------------------------------------------------------------------
(* Filtergraphs of tile grids                                              *)

\* The filtergraph of a tile grid reads no decoder of ours, and as long as nobody
\* needs its output it is not connected to anything.
Grid(g, fg) ==
    /\ \A k \in DOMAIN fg.ins : fg.ins[k].label[1] # "dec"
    /\ DOMAIN fg.outs = {1}
    /\ g.filters[fg.sch].out = 1
    /\ fg.outs[1].needed \/ Quiet(g, fg.sch)

\* Filtergraphs have numbers of their own in the graph.
Grids(w) ==
    /\ \A f \in DOMAIN w.fgs :
          w.fgs[f].sch \in DOMAIN w.sch.filters /\ (w.fgs[f].internal => Grid(w.sch, w.fgs[f]))
    /\ \A f, h \in DOMAIN w.fgs : f # h => w.fgs[f].sch # w.fgs[h].sch
    /\ \A f \in DOMAIN w.files : \A k \in DOMAIN w.files[f].groups :
          w.files[f].groups[k].fg \in {0} \cup DOMAIN w.fgs

\* Every encoder feeds a muxer, but perhaps number e.
FedBut(g, e) == \A x \in 1 .. g.nb_enc : x # e => FeedsMux(g, x)

\* What holds between two steps, while encoder e may not feed a muxer yet.
Sound(w, e) == Usable(w) /\ Grids(w) /\ FedBut(w.sch, e)

\* The pads of filtergraphs are bound, or needed, and have other labels.
Rewired(fgs, new) ==
    /\ DOMAIN new = DOMAIN fgs
    /\ \A f \in DOMAIN fgs :
          /\ new[f].sch = fgs[f].sch /\ new[f].internal = fgs[f].internal
          /\ DOMAIN new[f].ins = DOMAIN fgs[f].ins /\ DOMAIN new[f].outs = DOMAIN fgs[f].outs
          /\ \A k \in DOMAIN fgs[f].ins : new[f].ins[k].label = fgs[f].ins[k].label
          /\ \A k \in DOMAIN fgs[f].outs :
                /\ DOMAIN new[f].outs[k] = DOMAIN fgs[f].outs[k]
                /\ fgs[f].outs[k].needed => new[f].outs[k].needed

\* Encoders feed muxers in a graph that has grown by no encoder.
LEMMA FedOn ==
    ASSUME NEW g, NEW h, NEW N, NEW e, GraphOk(g), FedBut(g, e), Grown(g, h, N), h.nb_enc = g.nb_enc
    PROVE  FedBut(h, e)
BY DEF FedBut, Grown

\* Sound stays so when the graph grows, and the grids it touches are needed.
LEMMA SoundOn ==
    ASSUME NEW w, NEW e, Sound(w, e), NEW v, DOMAIN v = Fields, FilesOk(v.files), Alike(w.files, v.files),
           FgsOk(v.fgs), Rewired(w.fgs, v.fgs), NEW N, Grown(w.sch, v.sch, N), NEW d, FedBut(v.sch, d),
           \A f \in DOMAIN w.fgs : w.fgs[f].internal /\ w.fgs[f].sch \in N => v.fgs[f].outs[1].needed
    PROVE  Sound(v, d)
<1>1. Usable(v)
  BY DEF Usable, Grown
<1>2. DOMAIN v.fgs = DOMAIN w.fgs /\ DOMAIN v.files = DOMAIN w.files
  BY DEF Rewired, Alike
<1>3. ASSUME NEW f \in DOMAIN w.fgs PROVE v.fgs[f].sch \in DOMAIN v.sch.filters
  BY DEF Rewired, Sound, Grids, Grown
<1>4. ASSUME NEW f \in DOMAIN w.fgs, v.fgs[f].internal PROVE Grid(v.sch, v.fgs[f])
  <2>1. Grid(w.sch, w.fgs[f]) /\ w.fgs[f].sch \in DOMAIN w.sch.filters /\ w.fgs[f].internal
    BY <1>4 DEF Rewired, Sound, Grids
  <2>2. \A k \in DOMAIN v.fgs[f].ins : v.fgs[f].ins[k].label[1] # "dec"
    BY <2>1 DEF Rewired, Grid
  <2>3. DOMAIN v.fgs[f].outs = {1}
    BY <2>1 DEF Rewired, Grid
  <2>4. v.sch.filters[v.fgs[f].sch].out = 1
    BY <2>1 DEF Rewired, Grid, Grown
  <2>5. v.fgs[f].outs[1].needed \/ Quiet(v.sch, v.fgs[f].sch)
    <3>1. v.fgs[f].sch = w.fgs[f].sch
      BY DEF Rewired
    <3>2. CASE w.fgs[f].outs[1].needed
      BY <2>1, <3>2 DEF Rewired, Grid
    <3>3. CASE w.fgs[f].sch \in N
      BY <2>1, <3>3
    <3>4. CASE Quiet(w.sch, w.fgs[f].sch) /\ w.fgs[f].sch \notin N
      BY <2>1, <3>1, <3>4 DEF Grown
    <3>. QED  BY <2>1, <3>2, <3>3, <3>4 DEF Grid
  <2>. QED  BY <2>2, <2>3, <2>4, <2>5 DEF Grid
<1>5. \A f, h \in DOMAIN v.fgs : f # h => v.fgs[f].sch # v.fgs[h].sch
  BY <1>2 DEF Rewired, Sound, Grids
<1>6. \A f \in DOMAIN v.files : \A k \in DOMAIN v.files[f].groups :
          v.files[f].groups[k].fg \in {0} \cup DOMAIN v.fgs
  BY <1>2 DEF Alike, Sound, Grids
<1>. QED  BY <1>1, <1>2, <1>3, <1>4, <1>5, <1>6 DEF Sound, Grids

\* Nothing is rewired.
LEMMA RewiredSame == ASSUME NEW fgs PROVE Rewired(fgs, fgs)
BY DEF Rewired

\* What moves is as sound as before.
LEMMA MovesSound ==
    ASSUME NEW w, NEW e, Sound(w, e), NEW v, Moves(w, v, {}), Fine(v)
    PROVE  Sound(v, e)
<1>1. /\ Usable(v) /\ Alike(w.files, v.files) /\ v.fgs = w.fgs /\ Grown(w.sch, v.sch, {})
      /\ v.sch.nb_enc = w.sch.nb_enc
  BY DEF Moves
<1>2. FedBut(v.sch, e)
  BY <1>1, FedOn DEF Sound, Usable
<1>3. DOMAIN v = Fields /\ FilesOk(v.files) /\ FgsOk(v.fgs) /\ Rewired(w.fgs, v.fgs)
  BY <1>1, RewiredSame DEF Usable
<1>4. \A f \in DOMAIN w.fgs : w.fgs[f].internal /\ w.fgs[f].sch \in {} => v.fgs[f].outs[1].needed
  OBVIOUS
<1>. QED  BY <1>1, <1>2, <1>3, <1>4, SoundOn

\* A change of an input pad that leaves its label.
LEMMA InChanged ==
    ASSUME NEW fgs, FgsOk(fgs), NEW f, NEW k, NEW b, NEW new, new = [fgs EXCEPT ![f].ins[k].bound = b]
    PROVE  FgsOk(new) /\ Rewired(fgs, new)
<1> DEFINE r == [fgs[f].ins EXCEPT ![k].bound = b]
<1>1. new = [fgs EXCEPT ![f].ins = r]
  OBVIOUS
<1>2. new = [g \in DOMAIN fgs |-> new[g]]
  BY <1>1
<1>3. IsSeq(new) /\ DOMAIN new = DOMAIN fgs
  BY <1>2, SameSeq DEF FgsOk
<1>4. r = [j \in DOMAIN fgs[f].ins |-> r[j]]
  OBVIOUS
<1>5. ASSUME NEW j \in DOMAIN fgs[f].ins PROVE r[j].label = fgs[f].ins[j].label
  BY <1>5
<1> HIDE DEF r
<1>6. ASSUME NEW g \in DOMAIN fgs
      PROVE  /\ FgOk(new[g])
             /\ new[g].sch = fgs[g].sch /\ new[g].internal = fgs[g].internal
             /\ DOMAIN new[g].ins = DOMAIN fgs[g].ins /\ new[g].outs = fgs[g].outs
             /\ \A j \in DOMAIN fgs[g].ins : new[g].ins[j].label = fgs[g].ins[j].label
  <2>1. CASE g # f
    <3>1. new[g] = fgs[g]
      BY <1>1, <2>1
    <3>. QED  BY <3>1 DEF FgsOk
  <2>2. CASE g = f
    <3>1. FgOk(fgs[f])
      BY <2>2 DEF FgsOk
    <3>2. new[g] = [fgs[f] EXCEPT !.ins = r]
      BY <1>1, <2>2
    <3>3. /\ DOMAIN new[g] = DOMAIN fgs[f] /\ new[g].ins = r /\ new[g].outs = fgs[f].outs
          /\ new[g].sch = fgs[f].sch /\ new[g].internal = fgs[f].internal
      BY <3>1, <3>2 DEF FgOk
    <3>4. IsSeq(r) /\ DOMAIN r = DOMAIN fgs[f].ins
      BY <1>4, <3>1, SameSeq DEF FgOk
    <3>5. FgOk(new[g])
      BY <3>1, <3>3, <3>4 DEF FgOk
    <3>. QED  BY <1>5, <2>2, <3>3, <3>4, <3>5
  <2>. QED  BY <2>1, <2>2
<1>. QED  BY <1>3, <1>6 DEF FgsOk, Rewired

\* A change of an output pad that is needed at least as it was.
LEMMA OutChanged ==
    ASSUME NEW fgs, FgsOk(fgs), NEW f, NEW k, NEW x, NEW new, new = [fgs EXCEPT ![f].outs[k] = x],
           f \in DOMAIN fgs /\ k \in DOMAIN fgs[f].outs =>
              DOMAIN x = DOMAIN fgs[f].outs[k] /\ (fgs[f].outs[k].needed => x.needed)
    PROVE  /\ FgsOk(new) /\ Rewired(fgs, new)
           /\ f \in DOMAIN fgs /\ k \in DOMAIN fgs[f].outs => new[f].outs[k] = x
<1> DEFINE r == [fgs[f].outs EXCEPT ![k] = x]
<1>1. new = [fgs EXCEPT ![f].outs = r]
  OBVIOUS
<1>2. new = [g \in DOMAIN fgs |-> new[g]]
  BY <1>1
<1>3. IsSeq(new) /\ DOMAIN new = DOMAIN fgs
  BY <1>2, SameSeq DEF FgsOk
<1>4. r = [j \in DOMAIN fgs[f].outs |-> r[j]]
  OBVIOUS
<1>5. /\ \A j \in DOMAIN fgs[f].outs : r[j] = IF j = k THEN x ELSE fgs[f].outs[j]
  OBVIOUS
<1> HIDE DEF r
<1>6. ASSUME NEW g \in DOMAIN fgs
      PROVE  /\ FgOk(new[g])
             /\ new[g].sch = fgs[g].sch /\ new[g].internal = fgs[g].internal
             /\ new[g].ins = fgs[g].ins /\ DOMAIN new[g].outs = DOMAIN fgs[g].outs
             /\ \A j \in DOMAIN fgs[g].outs : new[g].outs[j] = IF g = f /\ j = k THEN x ELSE fgs[g].outs[j]
  <2>1. CASE g # f
    <3>1. new[g] = fgs[g]
      BY <1>1, <2>1
    <3>. QED  BY <2>1, <3>1 DEF FgsOk
  <2>2. CASE g = f
    <3>1. FgOk(fgs[f])
      BY <2>2 DEF FgsOk
    <3>2. new[g] = [fgs[f] EXCEPT !.outs = r]
      BY <1>1, <2>2
    <3>3. /\ DOMAIN new[g] = DOMAIN fgs[f] /\ new[g].outs = r /\ new[g].ins = fgs[f].ins
          /\ new[g].sch = fgs[f].sch /\ new[g].internal = fgs[f].internal
      BY <3>1, <3>2 DEF FgOk
    <3>4. IsSeq(r) /\ DOMAIN r = DOMAIN fgs[f].outs
      BY <1>4, <3>1, SameSeq DEF FgOk
    <3>5. \A j \in DOMAIN r : "needed" \in DOMAIN r[j]
      <4>1. ASSUME NEW j \in DOMAIN fgs[f].outs PROVE "needed" \in DOMAIN r[j]
        <5>1. "needed" \in DOMAIN fgs[f].outs[j]
          BY <3>1 DEF FgOk
        <5>2. CASE j = k
          BY <1>5, <2>2, <5>1, <5>2
        <5>3. CASE j # k
          BY <1>5, <5>1, <5>3
        <5>. QED  BY <5>2, <5>3
      <4>. QED  BY <3>4, <4>1
    <3>6. FgOk(new[g])
      BY <3>1, <3>3, <3>4, <3>5 DEF FgOk
    <3>. QED  BY <1>5, <2>2, <3>3, <3>4, <3>6
  <2>. QED  BY <2>1, <2>2
<1>7. FgsOk(new)
  BY <1>3, <1>6 DEF FgsOk
<1>8. Rewired(fgs, new)
  <2>1. ASSUME NEW g \in DOMAIN fgs, NEW j \in DOMAIN fgs[g].outs
        PROVE  DOMAIN new[g].outs[j] = DOMAIN fgs[g].outs[j] /\ (fgs[g].outs[j].needed => new[g].outs[j].needed)
    <3>1. CASE g = f /\ j = k
      <4>1. new[g].outs[j] = x
        BY <1>6, <3>1
      <4>2. DOMAIN x = DOMAIN fgs[g].outs[j] /\ (fgs[g].outs[j].needed => x.needed)
        BY <3>1
      <4>. QED  BY <4>1, <4>2
    <3>2. CASE ~(g = f /\ j = k)
      BY <1>6, <3>2
    <3>. QED  BY <3>1, <3>2
  <2>. QED  BY <1>3, <1>6, <2>1 DEF Rewired
<1>. QED  BY <1>6, <1>7, <1>8

-----------------------------------------------------------------------------
(* Pads that are bound                                                     *)

\* As Moves, but pads of filtergraphs may be bound as well.
Binds(w, v, N) ==
    Fine(v) =>
        /\ Usable(v)
        /\ Alike(w.files, v.files) /\ Rewired(w.fgs, v.fgs) /\ v.outs = w.outs
        /\ Grown(w.sch, v.sch, N) /\ v.sch.nb_enc = w.sch.nb_enc

\* What is left of Sound when grids are taken away.
Plain(w) == Usable(w) /\ FedBut(w.sch, 0)

\* What moves, binds nothing.
LEMMA MovesBinds ==
    ASSUME NEW w, NEW v, NEW N, Moves(w, v, N)
    PROVE  Binds(w, v, N)
BY RewiredSame DEF Moves, Binds

\* Nothing happens, or it fails.
LEMMA BindsNot ==
    ASSUME NEW w, Usable(w), NEW N
    PROVE  Binds(w, w, N) /\ \A why : why # "" => Binds(w, Fail(w, why), N)
BY MovesNot, MovesBinds

\* Rewired twice is rewired.
LEMMA RewiredTwice ==
    ASSUME NEW f, NEW g, NEW h, Rewired(f, g), Rewired(g, h)
    PROVE  Rewired(f, h)
<1>1. DOMAIN h = DOMAIN f
  BY DEF Rewired
<1>2. ASSUME NEW i \in DOMAIN f
      PROVE  /\ h[i].sch = f[i].sch /\ h[i].internal = f[i].internal
             /\ DOMAIN h[i].ins = DOMAIN f[i].ins /\ DOMAIN h[i].outs = DOMAIN f[i].outs
             /\ \A k \in DOMAIN f[i].ins : h[i].ins[k].label = f[i].ins[k].label
             /\ \A k \in DOMAIN f[i].outs :
                   /\ DOMAIN h[i].outs[k] = DOMAIN f[i].outs[k]
                   /\ f[i].outs[k].needed => h[i].outs[k].needed
  BY DEF Rewired
<1>. QED  BY <1>1, <1>2 DEF Rewired

\* One thing after the other.
LEMMA BindsTwice ==
    ASSUME NEW w, Usable(w), NEW v, NEW u, NEW M, NEW N, Binds(w, v, M), Fine(v), Binds(v, u, N),
           N \cap DOMAIN w.sch.filters \subseteq M
    PROVE  Binds(w, u, M)
<1>1. SUFFICES ASSUME Fine(u) PROVE Binds(w, u, M)
  BY DEF Binds
<1>2. /\ Usable(u) /\ u.outs = w.outs /\ u.sch.nb_enc = w.sch.nb_enc
      /\ Alike(w.files, u.files)
  BY <1>1 DEF Binds, Alike
<1>3. Grown(w.sch, u.sch, M)
  <2>1. Grown(w.sch, v.sch, M) /\ Grown(v.sch, u.sch, N) /\ GraphOk(w.sch)
    BY <1>1 DEF Binds, Usable
  <2>. QED  BY <2>1, GrownTwice
<1>4. Rewired(w.fgs, u.fgs)
  <2>1. Rewired(w.fgs, v.fgs) /\ Rewired(v.fgs, u.fgs)
    BY <1>1 DEF Binds
  <2>. QED  BY <2>1, RewiredTwice
<1>. QED  BY <1>2, <1>3, <1>4 DEF Binds

\* What binds is as good as before, grids aside.
LEMMA BindsPlain ==
    ASSUME NEW w, Plain(w), NEW v, NEW N, Binds(w, v, N), Fine(v)
    PROVE  Plain(v)
BY FedOn DEF Plain, Binds, Usable

\* It is as sound as before if the grids it touches are needed.
LEMMA BindsSound ==
    ASSUME NEW w, NEW e, Sound(w, e), NEW v, NEW N, Binds(w, v, N), Fine(v),
           \A f \in DOMAIN w.fgs : w.fgs[f].internal /\ w.fgs[f].sch \in N => v.fgs[f].outs[1].needed
    PROVE  Sound(v, e)
<1>1. /\ Usable(v) /\ Alike(w.files, v.files) /\ Rewired(w.fgs, v.fgs) /\ Grown(w.sch, v.sch, N)
      /\ v.sch.nb_enc = w.sch.nb_enc
  BY DEF Binds
<1>2. FedBut(v.sch, e)
  BY <1>1, FedOn DEF Sound, Usable
<1>3. DOMAIN v = Fields /\ FilesOk(v.files) /\ FgsOk(v.fgs)
  BY <1>1 DEF Usable
<1>. QED  BY <1>1, <1>2, <1>3, SoundOn

\* Other pads, and no more.
LEMMA BindsTo ==
    ASSUME NEW w, Usable(w), NEW fgs, FgsOk(fgs), Rewired(w.fgs, fgs), NEW v, v = [w EXCEPT !.fgs = fgs]
    PROVE  Binds(w, v, {}) /\ Usable(v) /\ v.fgs = fgs /\ v.sch = w.sch /\ v.err = w.err
<1>1. DOMAIN v = Fields /\ v.sch = w.sch /\ v.files = w.files /\ v.fgs = fgs /\ v.outs = w.outs /\ v.err = w.err
  BY DEF Usable, Fields
<1>2. Usable(v)
  BY <1>1 DEF Usable
<1>3. Grown(w.sch, w.sch, {})
  BY GrownSame DEF Usable
<1>. QED  BY <1>1, <1>2, <1>3 DEF Binds, Alike, Fine

\* An input pad, and an output pad, once it is bound.
BoundIn(w, f, k)  == [w EXCEPT !.fgs[f].ins[k].bound = TRUE]
BoundOut(w, f, k) == [w EXCEPT !.fgs[f].outs[k] = [@ EXCEPT !.bound = TRUE, !.needed = TRUE, !.label = <<>>]]
\* Another output pad in the place of one, and an output that is needed.
WithOut(w, f, k, x) == [w EXCEPT !.fgs[f].outs[k] = x]
Needed(w, f, k)   == [w EXCEPT !.fgs[f].outs[k].needed = TRUE]

\* A change of pads, and of nothing else.
PadsOnly(w, v) == Binds(w, v, {}) /\ Usable(v) /\ v.sch = w.sch /\ v.err = w.err

\* Binding an input pad changes that pad.
LEMMA InBound ==
    ASSUME NEW w, Usable(w), NEW f, NEW k
    PROVE  PadsOnly(w, BoundIn(w, f, k))
<1>1. PICK fgs : fgs = [w.fgs EXCEPT ![f].ins[k].bound = TRUE]
  OBVIOUS
<1>2. FgsOk(fgs) /\ Rewired(w.fgs, fgs)
  BY <1>1, InChanged DEF Usable
<1>3. BoundIn(w, f, k) = [w EXCEPT !.fgs = fgs]
  BY <1>1 DEF BoundIn
<1>. QED  BY <1>2, <1>3, BindsTo DEF PadsOnly

\* What binds, and then a connection.
LEMMA BindsConnect ==
    ASSUME NEW w, Usable(w), NEW v, Binds(w, v, {}), Fine(v), NEW N, NEW src, NEW dst,
           src[1] = "fout" => src[2] \in N, dst[1] = "fin" => dst[2] \in N
    PROVE  Binds(w, SchConnect(v, src, dst), N)
<1>1. Usable(v)
  BY DEF Binds
<1>2. Binds(v, SchConnect(v, src, dst), N)
  BY <1>1, ConnectMoves, MovesBinds
<1>3. Binds(w, v, N)
  <2>1. Binds(w, w, N) /\ {} \cap DOMAIN w.sch.filters \subseteq N
    BY BindsNot
  <2>2. Usable(w)
    OBVIOUS
  <2>3. Grown(w.sch, v.sch, {}) /\ GraphOk(w.sch)
    BY DEF Binds, Usable
  <2>4. Grown(w.sch, w.sch, N)
    BY <2>3, GrownSame
  <2>5. Grown(w.sch, v.sch, N)
    BY <2>1, <2>3, <2>4, GrownTwice
  <2>. QED  BY <2>5 DEF Binds
<1>4. N \cap DOMAIN w.sch.filters \subseteq N
  OBVIOUS
<1>. QED  BY <1>2, <1>3, <1>4, BindsTwice

\* ifilter_bind_dec
LEMMA IfilterBindDecBinds ==
    ASSUME NEW w, Usable(w), Fine(w), NEW f, NEW k, NEW n
    PROVE  Binds(w, IfilterBindDec(w, f, k, n), {w.fgs[f].sch})
<1>1. PICK v : v = BoundIn(w, f, k)
  OBVIOUS
<1>2. Binds(w, v, {}) /\ Usable(v) /\ Fine(v) /\ v.sch = w.sch
  BY <1>1, InBound DEF PadsOnly, Fine
<1>3. CASE In(w, f, k).bound
  BY <1>3, BindsNot DEF IfilterBindDec, Assertion
<1>4. CASE ~In(w, f, k).bound /\ In(w, f, k).type # w.decs[n].type
  <2>1. PICK why : IfilterBindDec(w, f, k, n) = Fail(v, why) /\ why # ""
    <3>1. IfilterBindDec(w, f, k, n) = Fail(v, "decoder of another type than the filtergraph input")
      BY <1>1, <1>4 DEF IfilterBindDec, BoundIn
    <3>2. "decoder of another type than the filtergraph input" # ""
      OBVIOUS
    <3>. QED  BY <3>1, <3>2
  <2>2. ~Fine(Fail(v, why))
    BY <1>2, <2>1, Failed DEF Fine
  <2>. QED  BY <2>1, <2>2 DEF Binds
<1>5. CASE ~In(w, f, k).bound /\ In(w, f, k).type = w.decs[n].type
  <2>1. PICK src, dst : src = Node("dec", w.decs[n].sch, 1) /\ dst = Node("fin", w.fgs[f].sch, k)
    OBVIOUS
  <2>2. IfilterBindDec(w, f, k, n) = SchConnect(v, src, dst)
    BY <1>1, <1>5, <2>1 DEF IfilterBindDec, BoundIn
  <2>3. src[1] # "fout" /\ dst[2] \in {w.fgs[f].sch}
    BY <2>1 DEF Node
  <2>4. Binds(w, SchConnect(v, src, dst), {w.fgs[f].sch})
    BY <1>2, <2>3, BindsConnect
  <2>. QED  BY <2>2, <2>4
<1>. QED  BY <1>3, <1>4, <1>5

\* That output is needed from now on.
NeededIn(w, f, k) == f \in DOMAIN w.fgs /\ k \in DOMAIN w.fgs[f].outs => w.fgs[f].outs[k].needed

\* A change of one output pad that leaves it needed.
LEMMA OutPadOnly ==
    ASSUME NEW w, Usable(w), NEW f, NEW k, NEW x,
           f \in DOMAIN w.fgs /\ k \in DOMAIN w.fgs[f].outs => DOMAIN x = DOMAIN w.fgs[f].outs[k] /\ x.needed,
           NEW v, v = WithOut(w, f, k, x)
    PROVE  PadsOnly(w, v) /\ NeededIn(v, f, k)
<1>1. PICK fgs : fgs = [w.fgs EXCEPT ![f].outs[k] = x]
  OBVIOUS
<1>2. /\ FgsOk(fgs) /\ Rewired(w.fgs, fgs)
      /\ f \in DOMAIN w.fgs /\ k \in DOMAIN w.fgs[f].outs => fgs[f].outs[k] = x
  BY <1>1, OutChanged DEF Usable
<1>3. v = [w EXCEPT !.fgs = fgs]
  BY <1>1 DEF WithOut
<1>4. PadsOnly(w, v) /\ v.fgs = fgs
  <2>1. FgsOk(fgs) /\ Rewired(w.fgs, fgs)
    BY <1>2
  <2>2. Binds(w, v, {}) /\ Usable(v) /\ v.fgs = fgs /\ v.sch = w.sch /\ v.err = w.err
    BY <1>3, <2>1, BindsTo
  <2>. QED  BY <2>2 DEF PadsOnly
<1>5. f \in DOMAIN fgs /\ k \in DOMAIN fgs[f].outs => f \in DOMAIN w.fgs /\ k \in DOMAIN w.fgs[f].outs
  BY <1>2 DEF Rewired
<1>. QED  BY <1>2, <1>4, <1>5 DEF NeededIn

\* An output that is bound is needed.
LEMMA OutBound ==
    ASSUME NEW w, Usable(w), NEW f, NEW k
    PROVE  PadsOnly(w, BoundOut(w, f, k)) /\ NeededIn(BoundOut(w, f, k), f, k)
<1>1. PICK x : x = [w.fgs[f].outs[k] EXCEPT !.bound = TRUE, !.needed = TRUE, !.label = <<>>]
  OBVIOUS
<1>2. PICK v : v = WithOut(w, f, k, x)
  OBVIOUS
<1>3. ASSUME f \in DOMAIN w.fgs, k \in DOMAIN w.fgs[f].outs
      PROVE  DOMAIN x = DOMAIN w.fgs[f].outs[k] /\ x.needed = TRUE
  <2>1. PICK y : y = w.fgs[f].outs[k]
    OBVIOUS
  <2>2. DOMAIN x = DOMAIN y
    BY <1>1, <2>1
  <2>3. "needed" \in DOMAIN y
    BY <1>3, <2>1 DEF Usable, FgsOk, FgOk
  <2>. QED  BY <1>1, <2>1, <2>2, <2>3
<1>4. PadsOnly(w, v) /\ NeededIn(v, f, k)
  BY <1>2, <1>3, OutPadOnly
<1>5. v = BoundOut(w, f, k)
  BY <1>1, <1>2 DEF BoundOut, WithOut
<1>. QED  BY <1>4, <1>5

\* An output that somebody reads is needed.
LEMMA OutNeeded ==
    ASSUME NEW w, Usable(w), NEW f, NEW k
    PROVE  PadsOnly(w, Needed(w, f, k)) /\ NeededIn(Needed(w, f, k), f, k)
<1>1. PICK x : x = [w.fgs[f].outs[k] EXCEPT !.needed = TRUE]
  OBVIOUS
<1>2. PICK v : v = WithOut(w, f, k, x)
  OBVIOUS
<1>3. ASSUME f \in DOMAIN w.fgs, k \in DOMAIN w.fgs[f].outs
      PROVE  DOMAIN x = DOMAIN w.fgs[f].outs[k] /\ x.needed = TRUE
  <2>1. PICK y : y = w.fgs[f].outs[k]
    OBVIOUS
  <2>3. "needed" \in DOMAIN y
    BY <1>3, <2>1 DEF Usable, FgsOk, FgOk
  <2>. QED  BY <1>1, <2>1, <2>3
<1>4. PadsOnly(w, v) /\ NeededIn(v, f, k)
  BY <1>2, <1>3, OutPadOnly
<1>5. v = Needed(w, f, k)
  BY <1>1, <1>2 DEF Needed, WithOut
<1>. QED  BY <1>4, <1>5

\* What the graph does not change: connecting two nodes leaves the rest alone.
LEMMA ConnectOnly ==
    ASSUME NEW w, Usable(w), NEW src, NEW dst
    PROVE  /\ SchConnect(w, src, dst).fgs = w.fgs /\ SchConnect(w, src, dst).outs = w.outs
           /\ DOMAIN SchConnect(w, src, dst) = Fields /\ SchConnect(w, src, dst).files = w.files
<1>1. PICK u : u = SchConnect(w, src, dst)
  OBVIOUS
<1>2. PICK g : g = Connect(w.sch, src, dst)
  OBVIOUS
<1>3. u = [w EXCEPT !.sch = g] \/ \E why : u = [w EXCEPT !.err = why]
  BY <1>1, <1>2 DEF SchConnect, Fail
<1>. QED  BY <1>1, <1>3 DEF Usable, Fields

\* A change of pads, and then a connection.
LEMMA PadsConnect ==
    ASSUME NEW w, Usable(w), Fine(w), NEW v, PadsOnly(w, v), NEW N, NEW src, NEW dst,
           src[1] = "fout" => src[2] \in N, dst[1] = "fin" => dst[2] \in N
    PROVE  /\ Binds(w, SchConnect(v, src, dst), N)
           /\ SchConnect(v, src, dst).fgs = v.fgs
<1>1. Usable(v) /\ Fine(v) /\ Binds(w, v, {})
  BY DEF PadsOnly, Fine
<1>. QED  BY <1>1, BindsConnect, ConnectOnly

\* ofilter_bind_enc: the output is needed from then on.
LEMMA OfilterBindEncBinds ==
    ASSUME NEW w, Usable(w), Fine(w), NEW f, NEW k, NEW enc, NEW u, u = OfilterBindEnc(w, f, k, enc)
    PROVE  Binds(w, u, {w.fgs[f].sch}) /\ (Fine(u) => NeededIn(u, f, k))
<1>1. CASE Out(w, f, k).bound
  <2>1. u = Fail(w, Assertion)
    BY <1>1 DEF OfilterBindEnc
  <2>2. Assertion # ""
    BY DEF Assertion
  <2>3. ~Fine(u)
    BY <2>1, <2>2, Failed DEF Fine
  <2>. QED  BY <2>3 DEF Binds
<1>2. CASE ~Out(w, f, k).bound
  <2>1. PICK v : v = BoundOut(w, f, k)
    OBVIOUS
  <2>2. PICK src, dst : src = Node("fout", w.fgs[f].sch, k) /\ dst = Node("enc", enc, 1)
    OBVIOUS
  <2>3. u = SchConnect(v, src, dst)
    BY <1>2, <2>1, <2>2 DEF OfilterBindEnc, BoundOut
  <2>4. PadsOnly(w, v) /\ NeededIn(v, f, k)
    BY <2>1, OutBound
  <2>5. PICK N : N = {w.fgs[f].sch}
    OBVIOUS
  <2>7. src[2] \in N /\ dst[1] # "fin" /\ PadsOnly(w, v)
    BY <2>2, <2>4, <2>5 DEF Node
  <2>8. Binds(w, SchConnect(v, src, dst), N) /\ SchConnect(v, src, dst).fgs = v.fgs
    BY <2>7, PadsConnect
  <2>6. Binds(w, u, {w.fgs[f].sch}) /\ u.fgs = v.fgs
    BY <2>3, <2>5, <2>8
  <2>. QED  BY <2>4, <2>6 DEF NeededIn
<1>. QED  BY <1>1, <1>2

\* Pads are changed twice.
LEMMA PadsTwice ==
    ASSUME NEW w, Usable(w), Fine(w), NEW v, PadsOnly(w, v), NEW u, PadsOnly(v, u)
    PROVE  PadsOnly(w, u)
<1>1. Binds(w, v, {}) /\ Fine(v) /\ Binds(v, u, {}) /\ {} \cap DOMAIN w.sch.filters \subseteq {}
  BY DEF PadsOnly, Fine
<1>2. Binds(w, u, {})
  BY <1>1, BindsTwice
<1>. QED  BY <1>2 DEF PadsOnly

\* Whatever fails is excused.
LEMMA FailedBinds ==
    ASSUME NEW w, NEW v, Usable(v), NEW why, why # "", NEW N
    PROVE  Binds(w, Fail(v, why), N) /\ ~Fine(Fail(v, why))
<1>1. ~Fine(Fail(v, why))
  BY Failed DEF Fine
<1>. QED  BY <1>1 DEF Binds

\* ifilter_bind_fg
LEMMA IfilterBindFgBinds ==
    ASSUME NEW w, Usable(w), Fine(w), NEW f, NEW k, NEW from, NEW out
    PROVE  \E N : Binds(w, IfilterBindFg(w, f, k, from, out), N)
<1> DEFINE u == IfilterBindFg(w, f, k, from, out)
<1>1. PICK b : b = BoundIn(w, f, k)
  OBVIOUS
<1>2. PadsOnly(w, b) /\ Usable(b) /\ Fine(b)
  BY <1>1, InBound DEF PadsOnly, Fine
<1>3. PICK v : v = OfilterBindIfilter(b, from, out, In(w, f, k).type)
  OBVIOUS
<1>4. (Usable(v) /\ Fine(v) /\ PadsOnly(w, v)) \/ ~Fine(v)
  <2>1. CASE Out(b, from, out).bound \/ Out(b, from, out).type # In(w, f, k).type
    <3>1. v = Fail(b, Assertion)
      BY <1>3, <2>1 DEF OfilterBindIfilter
    <3>2. Assertion # ""
      BY DEF Assertion
    <3>. QED  BY <1>2, <3>1, <3>2, FailedBinds
  <2>2. CASE ~(Out(b, from, out).bound \/ Out(b, from, out).type # In(w, f, k).type)
    <3>1. v = BoundOut(b, from, out)
      BY <1>3, <2>2 DEF OfilterBindIfilter, BoundOut
    <3>2. PadsOnly(b, v)
      BY <1>2, <3>1, OutBound
    <3>3. PadsOnly(w, v)
      BY <1>2, <3>2, PadsTwice
    <3>. QED  BY <3>3 DEF PadsOnly, Fine
  <2>. QED  BY <2>1, <2>2
<1>5. CASE In(w, f, k).bound
  BY <1>5, BindsNot DEF IfilterBindFg, Assertion
<1>6. CASE ~In(w, f, k).bound /\ In(w, f, k).type # Out(w, from, out).type
  <2>1. PICK why : u = Fail(b, why) /\ why # ""
    <3>1. u = Fail(b, "output of another type than the input")
      BY <1>1, <1>6 DEF IfilterBindFg, BoundIn
    <3>2. "output of another type than the input" # ""
      OBVIOUS
    <3>. QED  BY <3>1, <3>2
  <2>. QED  BY <1>2, <2>1, FailedBinds
<1>7. CASE ~In(w, f, k).bound /\ In(w, f, k).type = Out(w, from, out).type
  <2>1. u = IF Fine(v) THEN SchConnect(v, Node("fout", v.fgs[from].index, out), Node("fin", v.fgs[f].sch, k)) ELSE v
    BY <1>1, <1>3, <1>7 DEF IfilterBindFg, BoundIn, Then, Fine
  <2>2. CASE ~Fine(v)
    BY <2>1, <2>2 DEF Binds
  <2>3. CASE Fine(v)
    <3>1. PICK src, dst : src = Node("fout", v.fgs[from].index, out) /\ dst = Node("fin", v.fgs[f].sch, k)
      OBVIOUS
    <3>2. PICK N : N = {src[2], dst[2]}
      OBVIOUS
    <3>3. src[2] \in N /\ dst[2] \in N /\ PadsOnly(w, v)
      BY <1>4, <2>3, <3>2
    <3>4. Binds(w, SchConnect(v, src, dst), N)
      BY <3>3, PadsConnect
    <3>. QED  BY <2>1, <2>3, <3>1, <3>4
  <2>. QED  BY <2>2, <2>3
<1>. QED  BY <1>5, <1>6, <1>7

\* An input pad is bound to an input stream, or it is only seen whether it could be.
LEMMA BindToStreamBinds ==
    ASSUME NEW w, Usable(w), Fine(w), NEW f, NEW k, NEW ist, NEW commit \in BOOLEAN, NEW u,
           u = BindToStream(w, f, k, ist, commit)
    PROVE  /\ \E N : Binds(w, u, N)
           /\ ~commit => u = w
<1>1. CASE ~commit
  BY <1>1, BindsNot DEF BindToStream
<1>2. CASE commit
  <2>1. PICK v : v = BoundIn(w, f, k)
    OBVIOUS
  <2>2. Binds(w, v, {}) /\ Usable(v) /\ Fine(v)
    BY <2>1, InBound DEF PadsOnly, Fine
  <2>3. PICK n, type : n = w.fgs[f].sch /\ type = In(w, f, k).type
    OBVIOUS
  <2>4. u = IfilterBindIst(v, Node("fin", n, k), type, ist[1], ist[2])
    BY <1>2, <2>1, <2>3 DEF BindToStream, BoundIn
  <2>5. Binds(v, u, {n})
    BY <2>2, <2>4, IfilterBindIstMoves, MovesBinds
  <2>6. PICK N : N = {n} \cup DOMAIN w.sch.filters
    OBVIOUS
  <2>7. Binds(w, v, N)
    <3>1. Binds(w, w, N) /\ {} \cap DOMAIN w.sch.filters \subseteq N
      BY BindsNot
    <3>. QED  BY <2>2, <3>1, BindsTwice
  <2>8. {n} \cap DOMAIN w.sch.filters \subseteq N
    BY <2>6
  <2>9. Binds(w, u, N)
    BY <2>2, <2>5, <2>7, <2>8, BindsTwice
  <2>. QED  BY <1>2, <2>9
<1>. QED  BY <1>1, <1>2

-----------------------------------------------------------------------------
(* The inputs of filtergraphs                                              *)

\* What looking for the pads to bind leaves.
Bound(w, v) ==
    Fine(v) => Sound(v, 0) /\ Alike(w.files, v.files) /\ Rewired(w.fgs, v.fgs) /\ v.outs = w.outs

\* What binding them leaves.
Committed(w, v) == Fine(v) => Plain(v) /\ v.outs = w.outs

\* What binds is good enough while pads are looked for, if the grids it touches are
\* needed.
LEMMA BindsBound ==
    ASSUME NEW w, Sound(w, 0), NEW v, NEW N, Binds(w, v, N),
           \A f \in DOMAIN w.fgs : w.fgs[f].internal /\ w.fgs[f].sch \in N => v.fgs[f].outs[1].needed
    PROVE  Bound(w, v)
<1>1. ASSUME Fine(v) PROVE Sound(v, 0)
  BY <1>1, BindsSound
<1>. QED  BY <1>1 DEF Binds, Bound

\* The more so when it touches no filtergraph.
LEMMA BindsNobody ==
    ASSUME NEW w, Sound(w, 0), NEW v, Binds(w, v, {})
    PROVE  Bound(w, v)
<1>1. \A f \in DOMAIN w.fgs : w.fgs[f].internal /\ w.fgs[f].sch \in {} => v.fgs[f].outs[1].needed
  OBVIOUS
<1>. QED  BY <1>1, BindsBound

\* fg_complex_bind_input, when it looks for what the input could be bound to.
LEMMA FgComplexBindInputBound ==
    ASSUME NEW w, Sound(w, 0), Fine(w), NEW f \in DOMAIN w.fgs, NEW k \in DOMAIN w.fgs[f].ins,
           NEW u, u = FgComplexBindInput(w, f, k, FALSE)
    PROVE  Bound(w, u)
<1> DEFINE label == In(w, f, k).label
           output == UnboundOutput(w, f, label)
           IsName(kind) == label # <<>> /\ label[1] = kind
<1>0. Usable(w)
  BY DEF Sound
<1>1. CASE IsName("dec")
  <2> DEFINE n == label[2]
  <2>10. PICK N : N = {w.fgs[f].sch}
    OBVIOUS
  <2>1. \/ u = IfilterBindDec(w, f, k, n)
        \/ \E why : u = Fail(w, why) /\ why # ""
    <3>1. u = IF label[2] \in DOMAIN w.decs THEN IfilterBindDec(w, f, k, label[2])
              ELSE Fail(w, "invalid decoder index")
      BY <1>1 DEF FgComplexBindInput
    <3>2. "invalid decoder index" # ""
      OBVIOUS
    <3>. QED  BY <3>1, <3>2
  <2> HIDE DEF n
  <2>3. Binds(w, u, N)
    <3>1. CASE u = IfilterBindDec(w, f, k, n)
      BY <1>0, <3>1, <2>10, IfilterBindDecBinds
    <3>2. CASE \E why : u = Fail(w, why) /\ why # ""
      BY <1>0, <3>2, BindsNot
    <3>. QED  BY <2>1, <3>1, <3>2
  <2>4. ASSUME NEW g \in DOMAIN w.fgs, w.fgs[g].internal, w.fgs[g].sch \in {w.fgs[f].sch} PROVE FALSE
    <3>1. g = f
      BY <2>4 DEF Sound, Grids
    <3>2. Grid(w.sch, w.fgs[f])
      BY <2>4, <3>1 DEF Sound, Grids
    <3>. QED  BY <1>1, <3>2 DEF Grid, In
  <2>6. \A g \in DOMAIN w.fgs : w.fgs[g].internal /\ w.fgs[g].sch \in N => u.fgs[g].outs[1].needed
    BY <2>4, <2>10
  <2>. QED  BY <2>3, <2>6, BindsBound
<1>2. CASE ~IsName("dec") /\ output # <<>>
  <2>1. PICK a, b : a = output[1] /\ b = output[2]
    OBVIOUS
  <2>2. u = Needed(w, a, b)
    BY <1>2, <2>1 DEF FgComplexBindInput, Needed
  <2>3. Binds(w, u, {})
    BY <1>0, <2>2, OutNeeded DEF PadsOnly
  <2>. QED  BY <2>3, BindsNobody
<1>3. CASE ~IsName("dec") /\ output = <<>>
  <2>1. u = w \/ \E why : u = Fail(w, why) /\ why # ""
    <3>1. \A ist : BindToStream(w, f, k, ist, FALSE) = w
      BY DEF BindToStream
    <3>2. \/ u = Fail(w, "no unused input stream")
          \/ u = Fail(w, "invalid file index or specifier")
          \/ u = Fail(w, "specifier matches no streams")
          \/ \E ist : u = BindToStream(w, f, k, ist, FALSE)
      BY <1>3 DEF FgComplexBindInput
    <3>3. "no unused input stream" # "" /\ "invalid file index or specifier" # "" /\ "specifier matches no streams" # ""
      OBVIOUS
    <3>. QED  BY <3>1, <3>2, <3>3
  <2>2. Binds(w, u, {})
    BY <1>0, <2>1, BindsNot
  <2>. QED  BY <2>2, BindsNobody
<1>. QED  BY <1>1, <1>2, <1>3

\* fg_complex_bind_input, when it binds.
LEMMA FgComplexBindInputBinds ==
    ASSUME NEW w, Usable(w), Fine(w), NEW f, NEW k,
           NEW u, u = FgComplexBindInput(w, f, k, TRUE)
    PROVE  \E N : Binds(w, u, N)
<1> DEFINE label == In(w, f, k).label
           output == UnboundOutput(w, f, label)
           IsName(kind) == label # <<>> /\ label[1] = kind
<1>1. CASE IsName("dec")
  <2> DEFINE n == label[2]
  <2>10. PICK N : N = {w.fgs[f].sch}
    OBVIOUS
  <2>1. \/ u = IfilterBindDec(w, f, k, n)
        \/ \E why : u = Fail(w, why) /\ why # ""
    <3>1. u = IF label[2] \in DOMAIN w.decs THEN IfilterBindDec(w, f, k, label[2])
              ELSE Fail(w, "invalid decoder index")
      BY <1>1 DEF FgComplexBindInput
    <3>2. "invalid decoder index" # ""
      OBVIOUS
    <3>. QED  BY <3>1, <3>2
  <2> HIDE DEF n
  <2>3. Binds(w, u, N)
    <3>1. CASE u = IfilterBindDec(w, f, k, n)
      BY <3>1, <2>10, IfilterBindDecBinds
    <3>2. CASE \E why : u = Fail(w, why) /\ why # ""
      BY <3>2, BindsNot
    <3>. QED  BY <2>1, <3>1, <3>2
  <2>. QED  BY <2>3
<1>2. CASE ~IsName("dec") /\ output # <<>>
  <2>1. PICK a, b : a = output[1] /\ b = output[2]
    OBVIOUS
  <2>2. u = IfilterBindFg(w, f, k, a, b)
    BY <1>2, <2>1 DEF FgComplexBindInput
  <2>. QED  BY <2>2, IfilterBindFgBinds
<1>3. CASE ~IsName("dec") /\ output = <<>>
  <2>1. \/ \E ist : u = BindToStream(w, f, k, ist, TRUE)
        \/ \E why : u = Fail(w, why) /\ why # ""
    <3>2. \/ u = Fail(w, "no unused input stream")
          \/ u = Fail(w, "invalid file index or specifier")
          \/ u = Fail(w, "specifier matches no streams")
          \/ \E ist : u = BindToStream(w, f, k, ist, TRUE)
      BY <1>3 DEF FgComplexBindInput
    <3>3. "no unused input stream" # "" /\ "invalid file index or specifier" # "" /\ "specifier matches no streams" # ""
      OBVIOUS
    <3>. QED  BY <3>2, <3>3
  <2>2. CASE \E ist : u = BindToStream(w, f, k, ist, TRUE)
    <3>1. PICK ist : u = BindToStream(w, f, k, ist, TRUE)
      BY <2>2
    <3>2. TRUE \in BOOLEAN
      OBVIOUS
    <3>. QED  BY <3>1, <3>2, BindToStreamBinds
  <2>3. CASE \E why : u = Fail(w, why) /\ why # ""
    BY <2>3, BindsNot
  <2>. QED  BY <2>1, <2>2, <2>3
<1>. QED  BY <1>1, <1>2, <1>3

\* The list of all input pads, or of all output pads, is what it seems.
LEMMA InPads ==
    ASSUME NEW fgs, FgsOk(fgs), NEW s, s = FlattenSeq([f \in DOMAIN fgs |-> [k \in DOMAIN fgs[f].ins |-> <<f, k>>]])
    PROVE  /\ IsSeq(s)
           /\ \A i \in DOMAIN s : s[i][1] \in DOMAIN fgs /\ s[i][2] \in DOMAIN fgs[s[i][1]].ins
<1>1. PICK ss : ss = [f \in DOMAIN fgs |-> [k \in DOMAIN fgs[f].ins |-> <<f, k>>]]
  OBVIOUS
<1>2. IsSeq(ss) /\ DOMAIN ss = DOMAIN fgs
  BY <1>1, SameSeq DEF FgsOk
<1>3. ASSUME NEW f \in DOMAIN ss PROVE IsSeq(ss[f]) /\ DOMAIN ss[f] = DOMAIN fgs[f].ins
  <2>1. IsSeq(fgs[f].ins)
    BY <1>2 DEF FgsOk, FgOk
  <2>2. PICK r : r = ss[f]
    OBVIOUS
  <2>3. r = [k \in DOMAIN fgs[f].ins |-> <<f, k>>]
    BY <1>1, <1>2, <2>2
  <2>. QED  BY <2>1, <2>2, <2>3, SameSeq
<1>4. IsSeq(s) /\ Drawn(ss, s) # {}
  BY <1>1, <1>2, <1>3, FlatSeq
<1>5. PICK p \in Drawn(ss, s) : TRUE
  BY <1>4
<1>6. ASSUME NEW i \in DOMAIN s PROVE s[i][1] \in DOMAIN fgs /\ s[i][2] \in DOMAIN fgs[s[i][1]].ins
  <2>1. PICK f, k : f = p[i][1] /\ k = p[i][2]
    OBVIOUS
  <2>2. f \in DOMAIN ss /\ k \in DOMAIN ss[f] /\ s[i] = ss[f][k]
    BY <1>5, <2>1 DEF Drawn
  <2>3. k \in DOMAIN fgs[f].ins /\ f \in DOMAIN fgs
    BY <1>2, <1>3, <2>2
  <2>4. s[i] = <<f, k>>
    BY <1>1, <2>2, <2>3
  <2>. QED  BY <2>3, <2>4
<1>. QED  BY <1>4, <1>6

\* The same of the output pads.
LEMMA OutPads ==
    ASSUME NEW fgs, FgsOk(fgs), NEW s, s = FlattenSeq([f \in DOMAIN fgs |-> [k \in DOMAIN fgs[f].outs |-> <<f, k>>]])
    PROVE  /\ IsSeq(s)
           /\ \A i \in DOMAIN s : s[i][1] \in DOMAIN fgs /\ s[i][2] \in DOMAIN fgs[s[i][1]].outs
<1>1. PICK ss : ss = [f \in DOMAIN fgs |-> [k \in DOMAIN fgs[f].outs |-> <<f, k>>]]
  OBVIOUS
<1>2. IsSeq(ss) /\ DOMAIN ss = DOMAIN fgs
  BY <1>1, SameSeq DEF FgsOk
<1>3. ASSUME NEW f \in DOMAIN ss PROVE IsSeq(ss[f]) /\ DOMAIN ss[f] = DOMAIN fgs[f].outs
  <2>1. IsSeq(fgs[f].outs)
    BY <1>2 DEF FgsOk, FgOk
  <2>2. PICK r : r = ss[f]
    OBVIOUS
  <2>3. r = [k \in DOMAIN fgs[f].outs |-> <<f, k>>]
    BY <1>1, <1>2, <2>2
  <2>. QED  BY <2>1, <2>2, <2>3, SameSeq
<1>4. IsSeq(s) /\ Drawn(ss, s) # {}
  BY <1>1, <1>2, <1>3, FlatSeq
<1>5. PICK p \in Drawn(ss, s) : TRUE
  BY <1>4
<1>6. ASSUME NEW i \in DOMAIN s PROVE s[i][1] \in DOMAIN fgs /\ s[i][2] \in DOMAIN fgs[s[i][1]].outs
  <2>1. PICK f, k : f = p[i][1] /\ k = p[i][2]
    OBVIOUS
  <2>2. f \in DOMAIN ss /\ k \in DOMAIN ss[f] /\ s[i] = ss[f][k]
    BY <1>5, <2>1 DEF Drawn
  <2>3. k \in DOMAIN fgs[f].outs /\ f \in DOMAIN fgs
    BY <1>2, <1>3, <2>2
  <2>4. s[i] = <<f, k>>
    BY <1>1, <2>2, <2>3
  <2>. QED  BY <2>3, <2>4
<1>. QED  BY <1>4, <1>6

\* One input pad of BindInputs.
BindOne(v, p, commit) ==
    IF In(v, p[1], p[2]).bound THEN v ELSE FgComplexBindInput(v, p[1], p[2], commit)

\* Over all pads, whatever fails ends it.
FB == INSTANCE Folding WITH
    Op   <- LAMBDA a, b, c, v, p : IF Fine(v) THEN BindOne(v, p, a) ELSE v,
    Good <- LAMBDA a, b, c, w, n, v : IF a THEN Committed(w, v) ELSE Bound(w, v)

\* bind_inputs is that.
LEMMA BindInputsFold ==
    ASSUME NEW w, NEW commit, NEW s, s = FlattenSeq([f \in DOMAIN w.fgs |-> [k \in DOMAIN w.fgs[f].ins |-> <<f, k>>]])
    PROVE  BindInputs(w, commit) = FB!Fold(commit, 0, 0, w, s)
<1>1. BindInputs(w, commit) =
        ForEach(w, s, LAMBDA v, p : IF In(v, p[1], p[2]).bound THEN v ELSE FgComplexBindInput(v, p[1], p[2], commit))
  BY DEF BindInputs
<1>. QED  BY <1>1 DEF ForEach, FoldLeft, MapThenFoldSet, Max, FB!Fold, FB!Last, BindOne, Fine

\* One pad after the other.
LEMMA BoundTwice ==
    ASSUME NEW w, NEW v, NEW u, Bound(w, v), Fine(v), Bound(v, u)
    PROVE  Bound(w, u)
BY RewiredTwice DEF Bound, Alike

\* bind_inputs, when it looks.
LEMMA BindInputsBound ==
    ASSUME NEW w, Sound(w, 0)
    PROVE  Bound(w, BindInputs(w, FALSE))
<1>1. PICK s : s = FlattenSeq([f \in DOMAIN w.fgs |-> [k \in DOMAIN w.fgs[f].ins |-> <<f, k>>]])
  OBVIOUS
<1>2. /\ IsSeq(s)
      /\ \A i \in DOMAIN s : s[i][1] \in DOMAIN w.fgs /\ s[i][2] \in DOMAIN w.fgs[s[i][1]].ins
  BY <1>1, InPads DEF Sound, Usable
<1>3. PICK n \in Nat : DOMAIN s = 1 .. n
  BY <1>2, SeqDomain
<1>4. PICK no : no = FALSE
  OBVIOUS
<1>5. Bound(w, w)
  BY RewiredSame DEF Bound, Alike
<1>6. ASSUME NEW i \in 1 .. n, NEW v, Bound(w, v) PROVE Bound(w, IF Fine(v) THEN BindOne(v, s[i], no) ELSE v)
  <2>1. CASE ~Fine(v)
    BY <1>6, <2>1
  <2>2. CASE Fine(v)
    <3>1. Sound(v, 0) /\ Rewired(w.fgs, v.fgs)
      BY <1>6, <2>2 DEF Bound
    <3>2. PICK f, k : f = s[i][1] /\ k = s[i][2]
      OBVIOUS
    <3>3. f \in DOMAIN v.fgs /\ k \in DOMAIN v.fgs[f].ins
      BY <1>2, <1>3, <3>1, <3>2 DEF Rewired
    <3>4. PICK u : u = BindOne(v, s[i], no)
      OBVIOUS
    <3>5. u = v \/ u = FgComplexBindInput(v, f, k, FALSE)
      BY <1>4, <3>2, <3>4 DEF BindOne
    <3>6. Bound(v, v)
      BY <3>1, RewiredSame DEF Bound, Alike
    <3>7. Bound(v, u)
      BY <2>2, <3>1, <3>3, <3>5, <3>6, FgComplexBindInputBound
    <3>8. Bound(w, u)
      BY <1>6, <2>2, <3>7, BoundTwice
    <3>. QED  BY <2>2, <3>4, <3>8
  <2>. QED  BY <2>1, <2>2
<1>7. IF no THEN Committed(w, w) ELSE Bound(w, w)
  BY <1>4, <1>5
<1>8. \A i \in 1 .. n : \A v :
         (IF no THEN Committed(w, v) ELSE Bound(w, v)) =>
            IF no THEN Committed(w, IF Fine(v) THEN BindOne(v, s[i], no) ELSE v)
            ELSE Bound(w, IF Fine(v) THEN BindOne(v, s[i], no) ELSE v)
  BY <1>4, <1>6
<1>ind. FB!Inductive(n)
  BY Induct DEF FB!Inductive
<1>9. IF no THEN Committed(w, FB!Fold(no, 0, 0, w, s)) ELSE Bound(w, FB!Fold(no, 0, 0, w, s))
  BY <1>ind, <1>3, <1>7, <1>8, FB!FoldGood
<1>10. BindInputs(w, no) = FB!Fold(no, 0, 0, w, s)
  BY <1>1, BindInputsFold
<1>. QED  BY <1>4, <1>9, <1>10

\* bind_inputs, when it binds.
LEMMA BindInputsCommits ==
    ASSUME NEW w, Plain(w)
    PROVE  Committed(w, BindInputs(w, TRUE))
<1>1. PICK s : s = FlattenSeq([f \in DOMAIN w.fgs |-> [k \in DOMAIN w.fgs[f].ins |-> <<f, k>>]])
  OBVIOUS
<1>2. IsSeq(s)
  BY <1>1, InPads DEF Plain, Usable
<1>3. PICK n \in Nat : DOMAIN s = 1 .. n
  BY <1>2, SeqDomain
<1>4. PICK yes : yes = TRUE
  OBVIOUS
<1>5. Committed(w, w)
  BY DEF Committed
<1>6. ASSUME NEW i \in 1 .. n, NEW v, Committed(w, v)
      PROVE  Committed(w, IF Fine(v) THEN BindOne(v, s[i], yes) ELSE v)
  <2>1. CASE ~Fine(v)
    BY <1>6, <2>1
  <2>2. CASE Fine(v)
    <3>1. Plain(v) /\ Usable(v) /\ v.outs = w.outs
      BY <1>6, <2>2 DEF Committed, Plain
    <3>2. PICK f, k : f = s[i][1] /\ k = s[i][2]
      OBVIOUS
    <3>4. PICK u : u = BindOne(v, s[i], yes)
      OBVIOUS
    <3>5. u = v \/ u = FgComplexBindInput(v, f, k, TRUE)
      BY <1>4, <3>2, <3>4 DEF BindOne
    <3>6. Binds(v, v, {})
      BY <3>1, BindsNot
    <3>7. PICK N : Binds(v, u, N)
      BY <2>2, <3>1, <3>5, <3>6, FgComplexBindInputBinds
    <3>8. Committed(w, u)
      <4>1. ASSUME Fine(u) PROVE Plain(u) /\ u.outs = v.outs
        BY <3>1, <3>7, <4>1, BindsPlain DEF Binds
      <4>. QED  BY <3>1, <4>1 DEF Committed
    <3>. QED  BY <2>2, <3>4, <3>8
  <2>. QED  BY <2>1, <2>2
<1>7. IF yes THEN Committed(w, w) ELSE Bound(w, w)
  BY <1>4, <1>5
<1>8. \A i \in 1 .. n : \A v :
         (IF yes THEN Committed(w, v) ELSE Bound(w, v)) =>
            IF yes THEN Committed(w, IF Fine(v) THEN BindOne(v, s[i], yes) ELSE v)
            ELSE Bound(w, IF Fine(v) THEN BindOne(v, s[i], yes) ELSE v)
  BY <1>4, <1>6
<1>ind. FB!Inductive(n)
  BY Induct DEF FB!Inductive
<1>9. IF yes THEN Committed(w, FB!Fold(yes, 0, 0, w, s)) ELSE Bound(w, FB!Fold(yes, 0, 0, w, s))
  BY <1>ind, <1>3, <1>7, <1>8, FB!FoldGood
<1>10. BindInputs(w, yes) = FB!Fold(yes, 0, 0, w, s)
  BY <1>1, BindInputsFold
<1>. QED  BY <1>4, <1>9, <1>10

-----------------------------------------------------------------------------
(* Filtergraphs that nobody needs                                          *)

\* A filtergraph that nothing is connected to may go.
LEMMA RemovedQuietly ==
    ASSUME NEW g, GraphOk(g), NEW i \in DOMAIN g.filters, Quiet(g, i), NEW r, r = RemoveFiltergraph(g, i)
    PROVE  /\ GraphOk(r) /\ r.nb_enc = g.nb_enc /\ DOMAIN r.filters = DOMAIN g.filters
           /\ \A n \in DOMAIN g.filters : n # i => r.filters[n] = g.filters[n]
           /\ \A n : Quiet(g, n) => Quiet(r, n)
           /\ \A e \in 1 .. g.nb_enc : FeedsMux(g, e) => FeedsMux(r, e)
<1>1. /\ DOMAIN g = GraphFields /\ Sized(g) /\ IsSeq(g.filters)
      /\ g.demux \in Seq(Nat) /\ g.mux \in Seq(Nat) /\ g.nb_dec \in Nat /\ g.nb_enc \in Nat
      /\ DOMAIN g.filters = 1 .. Len(g.filters) /\ Len(g.filters) \in Nat
      /\ \A f \in DOMAIN g.filters : g.filters[f].in \in Nat /\ g.filters[f].out \in Nat
  BY DEF GraphOk, WellFormed, Sized
<1>2. /\ g.dst \in [Sources(g) -> Seq(Sinks(g))]
      /\ g.src \in [Sinks(g) -> Sources(g) \cup {NoNode}]
      /\ \A src \in Sources(g) : \A k \in DOMAIN g.dst[src] :
            g.src[g.dst[src][k]] = src /\ Compatible(src, g.dst[src][k])
      /\ \A dst \in Sinks(g) : g.src[dst] # NoNode => \E k \in DOMAIN g.dst[g.src[dst]] : g.dst[g.src[dst]][k] = dst
      /\ \A src \in Streams(g, "fout") : Len(g.dst[src]) <= 1
  BY DEF GraphOk, WellFormed
<1>3. PICK x : x = [in |-> 0, out |-> 0]
  OBVIOUS
<1>4. PICK F : F = [g.filters EXCEPT ![i] = x]
  OBVIOUS
<1>5. IsSeq(F) /\ DOMAIN F = DOMAIN g.filters /\ F[i] = x /\ \A n \in DOMAIN g.filters : n # i => F[n] = g.filters[n]
  <2>1. F = [n \in DOMAIN g.filters |-> F[n]]
    BY <1>4
  <2>2. IsSeq(F) /\ DOMAIN F = DOMAIN g.filters
    BY <1>1, <2>1, SameSeq
  <2>. QED  BY <1>4, <2>2
<1>6. PICK h : h = [g EXCEPT !.filters = F]
  OBVIOUS
<1>7. /\ DOMAIN h = GraphFields /\ h.nb_enc = g.nb_enc /\ h.mux = g.mux /\ h.demux = g.demux
      /\ h.nb_dec = g.nb_dec /\ h.filters = F
  BY <1>1, <1>6 DEF GraphFields
<1>8. Sized(h)
  <2>1. Len(F) \in Nat /\ DOMAIN F = 1 .. Len(F)
    BY <1>5, SeqDomain
  <2>2. \A f \in DOMAIN F : F[f].in \in Nat /\ F[f].out \in Nat
    <3>1. x.in \in Nat /\ x.out \in Nat
      BY <1>3
    <3>2. ASSUME NEW f \in DOMAIN F PROVE F[f].in \in Nat /\ F[f].out \in Nat
      <4>1. CASE f = i
        BY <1>5, <3>1, <4>1
      <4>2. CASE f # i
        <5>1. f \in DOMAIN g.filters /\ F[f] = g.filters[f]
          BY <1>5, <4>2
        <5>. QED  BY <1>1, <5>1
      <4>. QED  BY <4>1, <4>2
    <3>. QED  BY <3>2
  <2>. QED  BY <1>1, <1>7, <2>1, <2>2 DEF Sized
<1>9. r = Regrown(g, h)
  BY <1>3, <1>4, <1>6 DEF RemoveFiltergraph
<1>10. /\ DOMAIN r = GraphFields
       /\ r.demux = h.demux /\ r.mux = h.mux /\ r.nb_dec = h.nb_dec /\ r.nb_enc = h.nb_enc
       /\ r.filters = h.filters
       /\ Sources(r) = Sources(h) /\ Sinks(r) = Sinks(h) /\ Streams(r, "fout") = Streams(h, "fout")
       /\ r.dst = [n \in Sources(h) |-> IF n \in DOMAIN g.dst THEN g.dst[n] ELSE <<>>]
       /\ r.src = [n \in Sinks(h) |-> IF n \in DOMAIN g.src THEN g.src[n] ELSE NoNode]
  BY <1>7, <1>9, RegrownIs
<1>11. \A s : s \notin 1 .. 0
  OBVIOUS
<1>12. Sources(r) \subseteq Sources(g) /\ \A n \in Sources(g) \ Sources(r) : n[1] = "fout" /\ n[2] = i
  <2>1. ASSUME NEW n, NEW f \in DOMAIN F, NEW s \in 1 .. F[f].out, n = Node("fout", f, s)
        PROVE  n \in Sources(g)
    <3>1. f # i
      BY <1>3, <1>5, <1>11
    <3>. QED  BY <1>5, <2>1, <3>1, SourceIs
  <2>2. ASSUME NEW n \in Sources(r) PROVE n \in Sources(g)
    BY <1>7, <1>10, <2>1, SourceIs
  <2>3. ASSUME NEW n \in Sources(g), n \notin Sources(r) PROVE n[1] = "fout" /\ n[2] = i
    <3>3. PICK f \in DOMAIN g.filters : \E s \in 1 .. g.filters[f].out : n = Node("fout", f, s)
      BY <1>7, <1>10, <2>3, SourceIs
    <3>1. PICK s \in 1 .. g.filters[f].out : n = Node("fout", f, s)
      BY <3>3
    <3>2. f = i
      BY <1>5, <1>7, <1>10, <2>3, <3>1, SourceIs
    <3>. QED  BY <3>1, <3>2 DEF Node
  <2>. QED  BY <2>2, <2>3
<1>13. Sinks(r) \subseteq Sinks(g) /\ \A n \in Sinks(g) \ Sinks(r) : n[1] = "fin" /\ n[2] = i
  <2>1. ASSUME NEW n, NEW f \in DOMAIN F, NEW s \in 1 .. F[f].in, n = Node("fin", f, s)
        PROVE  n \in Sinks(g)
    <3>1. f # i
      BY <1>3, <1>5, <1>11
    <3>. QED  BY <1>5, <2>1, <3>1, SinkIs
  <2>2. ASSUME NEW n \in Sinks(r) PROVE n \in Sinks(g)
    BY <1>7, <1>10, <2>1, SinkIs
  <2>3. ASSUME NEW n \in Sinks(g), n \notin Sinks(r) PROVE n[1] = "fin" /\ n[2] = i
    <3>3. PICK f \in DOMAIN g.filters : \E s \in 1 .. g.filters[f].in : n = Node("fin", f, s)
      BY <1>7, <1>10, <2>3, SinkIs
    <3>1. PICK s \in 1 .. g.filters[f].in : n = Node("fin", f, s)
      BY <3>3
    <3>2. f = i
      BY <1>5, <1>7, <1>10, <2>3, <3>1, SinkIs
    <3>. QED  BY <3>1, <3>2 DEF Node
  <2>. QED  BY <2>2, <2>3
<1>14. \A n \in Sources(r) : r.dst[n] = g.dst[n]
  BY <1>2, <1>10, <1>12
<1>15. \A n \in Sinks(r) : r.src[n] = g.src[n]
  BY <1>2, <1>10, <1>13
<1>16. \A n \in Sources(g) \ Sources(r) : g.dst[n] = <<>>
  BY <1>12 DEF Quiet
<1>17. \A n \in Sinks(g) \ Sinks(r) : g.src[n] = NoNode
  BY <1>13 DEF Quiet
<1>18. \A n : Node("none", 0, 0) \notin Sources(g)
  BY SourceIs DEF Node
<1>19. \A n \in Sources(r) : r.dst[n] \in Seq(Sinks(r))
  <2>1. ASSUME NEW n \in Sources(r) PROVE g.dst[n] \in Seq(Sinks(r))
    <3>1. PICK s \in Seq(Sinks(g)) : s = g.dst[n]
      BY <1>2, <1>12
    <3>2. \A k \in 1 .. Len(s) : s[k] \in Sinks(r)
      <4>1. ASSUME NEW k \in 1 .. Len(s) PROVE s[k] \in Sinks(r)
        <5>1. s[k] \in Sinks(g) /\ g.src[s[k]] = n /\ n \in Sources(g)
          BY <1>2, <1>12, <3>1
        <5>2. n # NoNode
          BY <5>1, <1>18 DEF NoNode
        <5>. QED  BY <5>1, <5>2, <1>17
      <4>. QED  BY <4>1
    <3>. QED  BY <3>1, <3>2
  <2>. QED  BY <1>14, <2>1
<1>20. r.dst \in [Sources(r) -> Seq(Sinks(r))]
  BY <1>10, <1>19
<1>21. r.src \in [Sinks(r) -> Sources(r) \cup {NoNode}]
  <2>1. ASSUME NEW n \in Sinks(r) PROVE r.src[n] \in Sources(r) \cup {NoNode}
    <3>1. n \in Sinks(g) /\ r.src[n] = g.src[n] /\ g.src[n] \in Sources(g) \cup {NoNode}
      BY <1>2, <1>13, <1>15
    <3>2. CASE g.src[n] # NoNode
      <4>1. PICK k \in DOMAIN g.dst[g.src[n]] : g.dst[g.src[n]][k] = n
        BY <1>2, <3>1, <3>2
      <4>2. g.dst[g.src[n]] # <<>>
        BY <4>1
      <4>. QED  BY <1>16, <3>1, <3>2, <4>2
    <3>. QED  BY <3>1, <3>2
  <2>. QED  BY <1>10, <2>1
<1>22. ASSUME NEW src \in Sources(r), NEW k \in DOMAIN r.dst[src]
       PROVE  r.src[r.dst[src][k]] = src /\ Compatible(src, r.dst[src][k])
  <2>1. src \in Sources(g) /\ r.dst[src] = g.dst[src] /\ r.dst[src][k] \in Sinks(r)
    BY <1>12, <1>14, <1>19
  <2>. QED  BY <1>2, <1>15, <2>1
<1>23. ASSUME NEW dst \in Sinks(r), r.src[dst] # NoNode
       PROVE  \E k \in DOMAIN r.dst[r.src[dst]] : r.dst[r.src[dst]][k] = dst
  <2>1. dst \in Sinks(g) /\ r.src[dst] = g.src[dst] /\ r.src[dst] \in Sources(r)
    BY <1>13, <1>15, <1>21, <1>23
  <2>. QED  BY <1>2, <1>14, <1>23, <2>1
<1>24. ASSUME NEW src \in Streams(r, "fout") PROVE Len(r.dst[src]) <= 1
  <2>1. src \in Sources(r) /\ src[1] = "fout" /\ src \in Sources(g)
    BY <1>12, FoutIs
  <2>. QED  BY <1>2, <1>14, <2>1, FoutIs
<1>25. GraphOk(r)
  <2>1. Sized(r)
    BY <1>8, <1>10, SameNodes
  <2>. QED  BY <1>5, <1>7, <1>10, <1>20, <1>21, <1>22, <1>23, <1>24, <2>1 DEF GraphOk, WellFormed
<1>26. ASSUME NEW n, Quiet(g, n) PROVE Quiet(r, n)
  BY <1>12, <1>13, <1>14, <1>15, <1>26 DEF Quiet
<1>27. ASSUME NEW e \in 1 .. g.nb_enc, FeedsMux(g, e) PROVE FeedsMux(r, e)
  <2>1. Node("enc", e, 1) \in Sources(r)
    BY <1>7, <1>10, SourceIs
  <2>. QED  BY <1>14, <1>27, <2>1 DEF FeedsMux
<1>. QED  BY <1>5, <1>7, <1>10, <1>25, <1>26, <1>27

\* A sequence without its element number i.
LEMMA RemoveSeq ==
    ASSUME NEW s, IsSeq(s), NEW i \in DOMAIN s, NEW r, r = RemoveAt(s, i)
    PROVE  /\ IsSeq(r) /\ Len(r) = Len(s) - 1 /\ DOMAIN r = 1 .. Len(s) - 1
           /\ \A j \in DOMAIN r : \E k \in DOMAIN s \ {i} : r[j] = s[k] /\ k = IF j < i THEN j ELSE j + 1
<1>1. PICK n \in Nat : n = Len(s) /\ DOMAIN s = 1 .. n
  BY SeqDomain
<1>2. PICK S : s \in Seq(S)
  BY DEF IsSeq
<1>3. PICK a, b : a = SubSeq(s, 1, i - 1) /\ b = SubSeq(s, i + 1, n)
  OBVIOUS
<1>4. i \in 1 .. n /\ i - 1 \in Nat /\ n - i \in Nat
  BY <1>1
<1>5. a \in Seq(S) /\ Len(a) = i - 1 /\ \A j \in 1 .. i - 1 : a[j] = s[j]
  <2>1. PICK m \in Nat : m = i - 1
    BY <1>4
  <2>2. \A j \in 1 .. m : s[j] \in S
    BY <1>1, <1>2, <1>4, <2>1
  <2>3. a = [j \in 1 .. m |-> s[j]]
    BY <1>3, <1>4, <2>1
  <2>4. a \in Seq(S) /\ Len(a) = m /\ \A j \in 1 .. m : a[j] = s[j]
    BY <2>2, <2>3
  <2>. QED  BY <2>1, <2>4
<1>6. b \in Seq(S) /\ Len(b) = n - i /\ \A j \in 1 .. n - i : b[j] = s[i + j]
  <2>1. PICK m \in Nat : m = n - i
    BY <1>4
  <2>2. \A j \in 1 .. m : s[i + j] \in S
    BY <1>1, <1>2, <1>4, <2>1
  <2>3. b = [j \in 1 .. m |-> s[i + j]]
    BY <1>3, <1>4, <2>1
  <2>4. b \in Seq(S) /\ Len(b) = m /\ \A j \in 1 .. m : b[j] = s[i + j]
    BY <2>2, <2>3
  <2>. QED  BY <2>1, <2>4
<1>7. r = a \o b
  BY <1>1, <1>3 DEF RemoveAt
<1>8. r \in Seq(S) /\ Len(r) = n - 1 /\ DOMAIN r = 1 .. n - 1
  <2>1. a \o b \in Seq(S) /\ Len(a \o b) = Len(a) + Len(b)
    BY <1>5, <1>6
  <2>2. r \in Seq(S) /\ Len(r) = Len(a) + Len(b)
    BY <1>7, <2>1
  <2>3. Len(r) = n - 1
    BY <1>1, <1>4, <1>5, <1>6, <2>2
  <2>. QED  BY <2>2, <2>3
<1>9. ASSUME NEW j \in 1 .. n - 1
      PROVE  \E k \in DOMAIN s \ {i} : r[j] = s[k] /\ k = IF j < i THEN j ELSE j + 1
  <2>1. CASE j < i
    <3>1. j \in 1 .. i - 1 /\ j \in 1 .. n /\ j # i
      BY <1>4, <2>1
    <3>2. r[j] = s[j]
      BY <1>5, <1>6, <1>7, <3>1
    <3>. QED  BY <1>1, <2>1, <3>1, <3>2
  <2>2. CASE ~(j < i)
    <3>1. j + 1 \in 1 .. n /\ j + 1 # i /\ j - (i - 1) \in 1 .. n - i
      BY <1>4, <2>2
    <3>2. r[j] = b[j - (i - 1)]
      BY <1>4, <1>5, <1>6, <1>7, <2>2, <3>1
    <3>3. b[j - (i - 1)] = s[i + (j - (i - 1))] /\ i + (j - (i - 1)) = j + 1
      BY <1>4, <1>6, <3>1
    <3>. QED  BY <1>1, <2>2, <3>1, <3>2, <3>3
  <2>. QED  BY <2>1, <2>2
<1>. QED  BY <1>1, <1>8, <1>9, InSeq

\* Sound but for the groups of files, whose filtergraphs may be gone.
Sparse(w) ==
    /\ Plain(w)
    /\ \A f \in DOMAIN w.fgs :
          w.fgs[f].sch \in DOMAIN w.sch.filters /\ (w.fgs[f].internal => Grid(w.sch, w.fgs[f]))
    /\ \A f, h \in DOMAIN w.fgs : f # h => w.fgs[f].sch # w.fgs[h].sch

\* One filtergraph of CheckOutputs.
CheckOne(v, f) ==
    IF \A k \in DOMAIN v.fgs[f].outs : v.fgs[f].outs[k].needed THEN v
    ELSE IF ~v.fgs[f].internal THEN Fail(v, "filter has an unconnected output")
    ELSE [v EXCEPT !.sch = RemoveFiltergraph(@, v.fgs[f].sch), !.fgs = RemoveAt(@, f)]

\* It fails, leaves the filtergraph or takes it away.
LEMMA CheckOneSparse ==
    ASSUME NEW v, Sparse(v), Fine(v), NEW f \in DOMAIN v.fgs, NEW u, u = CheckOne(v, f)
    PROVE  Fine(u) => /\ Sparse(u) /\ u.outs = v.outs
                      /\ Len(u.fgs) \in {Len(v.fgs), Len(v.fgs) - 1}
<1>0. Usable(v) /\ DOMAIN v = Fields /\ GraphOk(v.sch) /\ FgsOk(v.fgs) /\ FilesOk(v.files) /\ FedBut(v.sch, 0)
  BY DEF Sparse, Plain, Usable
<1>1. CASE \A k \in DOMAIN v.fgs[f].outs : v.fgs[f].outs[k].needed
  BY <1>1 DEF CheckOne
<1>2. CASE ~(\A k \in DOMAIN v.fgs[f].outs : v.fgs[f].outs[k].needed) /\ ~v.fgs[f].internal
  <2>1. PICK why : u = Fail(v, why) /\ why # ""
    <3>1. u = Fail(v, "filter has an unconnected output")
      BY <1>2 DEF CheckOne
    <3>2. "filter has an unconnected output" # ""
      OBVIOUS
    <3>. QED  BY <3>1, <3>2
  <2>. QED  BY <1>0, <2>1, FailedBinds
<1>3. CASE ~(\A k \in DOMAIN v.fgs[f].outs : v.fgs[f].outs[k].needed) /\ v.fgs[f].internal
  <2>1. PICK g, i, fgs : g = RemoveFiltergraph(v.sch, i) /\ i = v.fgs[f].sch /\ fgs = RemoveAt(v.fgs, f)
    OBVIOUS
  <2>2. u = [v EXCEPT !.sch = g, !.fgs = fgs]
    BY <1>3, <2>1 DEF CheckOne
  <2>3. DOMAIN u = Fields /\ u.sch = g /\ u.fgs = fgs /\ u.files = v.files /\ u.outs = v.outs
    BY <1>0, <2>2 DEF Fields
  <2>4. Grid(v.sch, v.fgs[f]) /\ i \in DOMAIN v.sch.filters
    BY <1>3, <2>1 DEF Sparse
  <2>5. Quiet(v.sch, i)
    BY <1>3, <2>1, <2>4 DEF Grid
  <2>6. /\ GraphOk(g) /\ g.nb_enc = v.sch.nb_enc /\ DOMAIN g.filters = DOMAIN v.sch.filters
        /\ \A n \in DOMAIN g.filters : n # i => g.filters[n] = v.sch.filters[n]
        /\ \A n : Quiet(v.sch, n) => Quiet(g, n)
        /\ \A e \in 1 .. g.nb_enc : FeedsMux(v.sch, e) => FeedsMux(g, e)
    BY <1>0, <2>1, <2>4, <2>5, RemovedQuietly
  <2>7. FedBut(g, 0)
    BY <1>0, <2>6 DEF FedBut
  <2>8. /\ IsSeq(fgs) /\ Len(fgs) = Len(v.fgs) - 1
        /\ \A j \in DOMAIN fgs : \E k \in DOMAIN v.fgs \ {f} : fgs[j] = v.fgs[k] /\ k = IF j < f THEN j ELSE j + 1
    BY <1>0, <2>1, RemoveSeq DEF FgsOk
  <2>9. FgsOk(fgs)
    BY <1>0, <2>8 DEF FgsOk
  <2>10. ASSUME NEW j \in DOMAIN fgs
         PROVE  fgs[j].sch \in DOMAIN g.filters /\ (fgs[j].internal => Grid(g, fgs[j]))
    <3>1. PICK k \in DOMAIN v.fgs \ {f} : fgs[j] = v.fgs[k]
      BY <2>8
    <3>2. v.fgs[k].sch # i /\ v.fgs[k].sch \in DOMAIN g.filters
      BY <2>1, <2>6, <3>1 DEF Sparse
    <3>3. v.fgs[k].internal => Grid(v.sch, v.fgs[k])
      BY <3>1 DEF Sparse
    <3>4. v.fgs[k].internal => Grid(g, v.fgs[k])
      BY <2>6, <3>2, <3>3 DEF Grid
    <3>. QED  BY <3>1, <3>2, <3>4
  <2>11. ASSUME NEW j \in DOMAIN fgs, NEW l \in DOMAIN fgs, j # l PROVE fgs[j].sch # fgs[l].sch
    <3>1. PICK k \in DOMAIN v.fgs \ {f} : fgs[j] = v.fgs[k] /\ k = IF j < f THEN j ELSE j + 1
      BY <2>8
    <3>2. PICK m \in DOMAIN v.fgs \ {f} : fgs[l] = v.fgs[m] /\ m = IF l < f THEN l ELSE l + 1
      BY <2>8
    <3>3. j \in Int /\ l \in Int /\ f \in Int
      BY <1>0, <2>8, SeqDomain DEF FgsOk
    <3>4. k # m
      BY <2>11, <3>1, <3>2, <3>3
    <3>. QED  BY <3>1, <3>2, <3>4 DEF Sparse
  <2>12. Sparse(u)
    BY <1>0, <2>3, <2>6, <2>7, <2>9, <2>10, <2>11 DEF Sparse, Plain, Usable
  <2>. QED  BY <2>3, <2>8, <2>12
<1>. QED  BY <1>1, <1>2, <1>3

\* What checking the last i of the filtergraphs leaves: at most those are gone.
Sifted(w, i, v) ==
    Fine(v) => Sparse(v) /\ v.outs = w.outs /\ Len(v.fgs) \in Nat /\ Len(v.fgs) + i >= Len(w.fgs)

\* Over all filtergraphs, from the last one on.
FC == INSTANCE Folding WITH
    Op   <- LAMBDA a, b, c, v, f : IF Fine(v) THEN CheckOne(v, f) ELSE v,
    Good <- LAMBDA a, b, c, w, n, v : Sifted(w, n, v)

\* What is left has no grid that nobody needs.
LEMMA CheckOutputsPlain ==
    ASSUME NEW w, Sound(w, 0), NEW u, u = CheckOutputs(w)
    PROVE  Fine(u) => Plain(u) /\ u.outs = w.outs
<1>1. PICK s : s = Reverse([f \in DOMAIN w.fgs |-> f])
  OBVIOUS
<1>2. u = FC!Fold(0, 0, 0, w, s)
  <2>1. CheckOutputs(w) =
           ForEach(w, s, LAMBDA v, f :
               IF \A k \in DOMAIN v.fgs[f].outs : v.fgs[f].outs[k].needed THEN v
               ELSE IF ~v.fgs[f].internal THEN Fail(v, "filter has an unconnected output")
               ELSE [v EXCEPT !.sch = RemoveFiltergraph(@, v.fgs[f].sch), !.fgs = RemoveAt(@, f)])
    BY <1>1 DEF CheckOutputs
  <2>. QED  BY <2>1 DEF ForEach, FoldLeft, MapThenFoldSet, Max, FC!Fold, FC!Last, CheckOne, Fine
<1>3. PICK n \in Nat : n = Len(w.fgs) /\ DOMAIN w.fgs = 1 .. n
  BY SeqDomain DEF Sound, Usable, FgsOk
<1>4. DOMAIN s = 1 .. n /\ \A i \in 1 .. n : s[i] = n - i + 1
  <2>1. PICK r : r = [f \in 1 .. n |-> f]
    OBVIOUS
  <2>2. Len(r) = n /\ s = [i \in 1 .. n |-> r[n - i + 1]]
    <3>1. Len(r) = n
      BY <2>1, ListSeq
    <3>. QED  BY <1>1, <1>3, <2>1, <3>1 DEF Reverse
  <2>. QED  BY <2>1, <2>2
<1>5. Sifted(w, 0, w)
  BY <1>3 DEF Sifted, Sound, Sparse, Plain, Grids
<1>6. ASSUME NEW i \in 1 .. n, NEW v, Sifted(w, i - 1, v)
      PROVE  Sifted(w, i, IF Fine(v) THEN CheckOne(v, s[i]) ELSE v)
  <2>1. CASE ~Fine(v)
    BY <2>1 DEF Sifted
  <2>2. CASE Fine(v)
    <3>1. Sparse(v) /\ v.outs = w.outs /\ Len(v.fgs) \in Nat /\ Len(v.fgs) + (i - 1) >= n
      BY <1>3, <1>6, <2>2 DEF Sifted
    <3>2. PICK l \in Nat : l = Len(v.fgs) /\ DOMAIN v.fgs = 1 .. l
      BY <3>1, SeqDomain DEF Sparse, Plain, Usable, FgsOk
    <3>3. PICK f : f = n - i + 1
      OBVIOUS
    <3>4. f \in 1 .. l /\ s[i] = f
      BY <1>4, <3>1, <3>2, <3>3
    <3>5. PICK x : x = CheckOne(v, f)
      OBVIOUS
    <3>6. Fine(x) => Sparse(x) /\ x.outs = v.outs /\ Len(x.fgs) \in {l, l - 1}
      BY <2>2, <3>1, <3>2, <3>4, <3>5, CheckOneSparse
    <3>7. ASSUME Fine(x) PROVE Len(x.fgs) \in Nat /\ Len(x.fgs) + i >= n
      <4>1. Len(x.fgs) = l \/ Len(x.fgs) = l - 1
        BY <3>6, <3>7
      <4>2. l + (i - 1) >= n /\ l >= 1
        BY <3>1, <3>2, <3>4
      <4>. QED  BY <4>1, <4>2
    <3>8. Sifted(w, i, x)
      BY <1>3, <3>1, <3>6, <3>7 DEF Sifted
    <3>. QED  BY <2>2, <3>4, <3>5, <3>8
  <2>. QED  BY <2>1, <2>2
<1>7. \A i \in 1 .. n : \A v : Sifted(w, i - 1, v) => Sifted(w, i, IF Fine(v) THEN CheckOne(v, s[i]) ELSE v)
  BY <1>6
<1>ind. FC!Inductive(n)
  BY Induct DEF FC!Inductive
<1>8. Sifted(w, n, FC!Fold(0, 0, 0, w, s))
  BY <1>ind, <1>4, <1>5, <1>7, FC!FoldGood
<1>. QED  BY <1>2, <1>8 DEF Sifted, Sparse

\* fg_finalise_bindings
LEMMA FgFinaliseBindingsPlain ==
    ASSUME NEW w, Sound(w, 0), NEW u, u = FgFinaliseBindings(w)
    PROVE  Fine(u) => Plain(u) /\ u.outs = w.outs
<1>1. PICK x : x = BindInputs(w, FALSE)
  OBVIOUS
<1>2. PICK y : y = IF Fine(x) THEN CheckOutputs(x) ELSE x
  OBVIOUS
<1>3. u = IF Fine(y) THEN BindInputs(y, TRUE) ELSE y
  BY <1>1, <1>2 DEF FgFinaliseBindings, Then, Fine
<1>4. Fine(x) => Sound(x, 0) /\ x.outs = w.outs
  BY <1>1, BindInputsBound DEF Bound
<1>5. Fine(y) => Plain(y) /\ y.outs = w.outs
  BY <1>2, <1>4, CheckOutputsPlain
<1>6. ASSUME Fine(y) PROVE Fine(u) => Plain(u) /\ u.outs = y.outs
  BY <1>3, <1>5, <1>6, BindInputsCommits DEF Committed
<1>. QED  BY <1>3, <1>5, <1>6

-----------------------------------------------------------------------------
(* Filtergraphs and files that are added                                   *)

\* What failed is not fine.
LEMMA NotFine ==
    ASSUME NEW w, "err" \in DOMAIN w, NEW why, why # ""
    PROVE  ~Fine(Fail(w, why))
BY DEF Fine, Fail

\* Where the graph grows but for no filtergraph of a grid, the grid is as it was.
LEMMA GridGrown ==
    ASSUME NEW g, NEW h, NEW fg, Grid(g, fg), fg.sch \in DOMAIN g.filters, Grown(g, h, {})
    PROVE  Grid(h, fg)
BY DEF Grid, Grown

\* A pad keeps its label.
LEMMA PadLabel ==
    ASSUME NEW pad, NEW more
    PROVE  /\ DOMAIN With(pad, more) = DOMAIN pad \cup DOMAIN more
           /\ "label" \in DOMAIN pad => With(pad, more).label = pad.label
BY DEF With

\* The filtergraph that FgCreate makes of a description.
NewFg(w, desc, internal) ==
    [index    |-> Len(w.fgs) + 1,
     sch      |-> Len(w.sch.filters) + 1,
     internal |-> internal,
     ins      |-> [k \in DOMAIN desc.ins |-> With(desc.ins[k], [bound |-> FALSE])],
     outs     |-> [k \in DOMAIN desc.outs |-> With(desc.outs[k], [bound |-> FALSE, needed |-> FALSE])]]

\* fg is filtergraph n of the graph, with the pads of a description.
MadeOf(fg, desc, internal, n) ==
    /\ FgOk(fg) /\ fg.sch = n /\ fg.internal = internal
    /\ DOMAIN fg.ins = DOMAIN desc.ins /\ DOMAIN fg.outs = DOMAIN desc.outs
    /\ \A k \in DOMAIN desc.ins : "label" \in DOMAIN desc.ins[k] => fg.ins[k].label = desc.ins[k].label

\* It is a filtergraph as described.
LEMMA NewFgOk ==
    ASSUME NEW w, NEW desc, IsSeq(desc.ins), IsSeq(desc.outs), NEW internal \in BOOLEAN, NEW fg, fg = NewFg(w, desc, internal)
    PROVE  MadeOf(fg, desc, internal, Len(w.sch.filters) + 1)
<1>1. PICK ins : ins = [k \in DOMAIN desc.ins |-> With(desc.ins[k], [bound |-> FALSE])]
  OBVIOUS
<1>2. PICK outs : outs = [k \in DOMAIN desc.outs |-> With(desc.outs[k], [bound |-> FALSE, needed |-> FALSE])]
  OBVIOUS
<1>3. IsSeq(ins) /\ DOMAIN ins = DOMAIN desc.ins
  <2>1. ins = [k \in DOMAIN desc.ins |-> ins[k]]
    BY <1>1
  <2>. QED  BY <2>1, SameSeq
<1>4. IsSeq(outs) /\ DOMAIN outs = DOMAIN desc.outs
  <2>1. outs = [k \in DOMAIN desc.outs |-> outs[k]]
    BY <1>2
  <2>. QED  BY <2>1, SameSeq
<1>5. ASSUME NEW k \in DOMAIN outs PROVE "needed" \in DOMAIN outs[k]
  <2>1. PICK pad, more : pad = desc.outs[k] /\ more = [bound |-> FALSE, needed |-> FALSE]
    OBVIOUS
  <2>2. outs[k] = With(pad, more) /\ "needed" \in DOMAIN more
    BY <1>2, <1>4, <2>1
  <2>3. DOMAIN With(pad, more) = DOMAIN pad \cup DOMAIN more
    BY PadLabel
  <2>4. DOMAIN outs[k] = DOMAIN pad \cup DOMAIN more
    BY <2>2, <2>3
  <2>. QED  BY <2>2, <2>4
<1>6. ASSUME NEW k \in DOMAIN desc.ins, "label" \in DOMAIN desc.ins[k] PROVE ins[k].label = desc.ins[k].label
  <2>1. PICK pad, more : pad = desc.ins[k] /\ more = [bound |-> FALSE]
    OBVIOUS
  <2>2. ins[k] = With(pad, more)
    BY <1>1, <2>1
  <2>. QED  BY <1>6, <2>1, <2>2, PadLabel
<1>7. fg = [index |-> Len(w.fgs) + 1, sch |-> Len(w.sch.filters) + 1, internal |-> internal, ins |-> ins, outs |-> outs]
  BY <1>1, <1>2 DEF NewFg
<1>8. FgOk(fg)
  BY <1>3, <1>4, <1>5, <1>7 DEF FgOk
<1>. QED  BY <1>3, <1>4, <1>6, <1>7, <1>8 DEF MadeOf

\* What opening something leaves.
Opening(w, v) == Fine(v) => Sound(v, 0) /\ v.outs = w.outs

\* fg_create
LEMMA FgCreateOpening ==
    ASSUME NEW w, Sound(w, 0), Fine(w), NEW desc, IsSeq(desc.ins), IsSeq(desc.outs), NEW internal \in BOOLEAN,
           internal => /\ \A k \in DOMAIN desc.ins : "label" \in DOMAIN desc.ins[k] /\ desc.ins[k].label[1] # "dec"
                       /\ DOMAIN desc.outs = {1},
           NEW u, u = FgCreate(w, desc, internal)
    PROVE  Opening(w, u) /\ (Fine(u) => u.files = w.files /\ Len(u.fgs) \in DOMAIN u.fgs)
<1>1. PICK fg : fg = NewFg(w, desc, internal)
  OBVIOUS
<1>2. PICK fgs : fgs = Append(w.fgs, fg)
  OBVIOUS
<1>3. PICK added : added = [w EXCEPT !.fgs = fgs]
  OBVIOUS
<1>4. PICK g : g = AddFiltergraph(w.sch, Len(desc.ins), Len(desc.outs))
  OBVIOUS
<1>5. DOMAIN added = Fields /\ added.sch = w.sch
  BY <1>3 DEF Sound, Usable, Fields
<1>6. u = IF ~AV(desc.ins) THEN Fail(added, "only video and audio filters")
          ELSE IF desc.outs = <<>> THEN Fail(added, "a filtergraph has zero outputs")
          ELSE [added EXCEPT !.sch = AddFiltergraph(@, Len(desc.ins), Len(desc.outs))]
  BY <1>1, <1>2, <1>3 DEF FgCreate, NewFg
<1>7. "err" \in DOMAIN added
  BY <1>5 DEF Fields
<1>8. CASE ~Fine(u)
  BY <1>8 DEF Opening
<1>9. CASE Fine(u)
  <2>1. u = [added EXCEPT !.sch = g]
    <3>1. AV(desc.ins) /\ desc.outs # <<>>
      BY <1>6, <1>7, <1>9, NotFine
    <3>. QED  BY <1>4, <1>5, <1>6, <3>1
  <2>2. /\ DOMAIN u = Fields /\ u.sch = g /\ u.fgs = fgs /\ u.files = w.files /\ u.outs = w.outs
    BY <1>3, <2>1 DEF Sound, Usable, Fields
  <2>3. /\ Grown(w.sch, g, {}) /\ g.nb_enc = w.sch.nb_enc
        /\ Lengthened(w.sch, g, [in |-> Len(desc.ins), out |-> Len(desc.outs)])
    <3>1. PICK ins, outs : ins = Len(desc.ins) /\ outs = Len(desc.outs)
      OBVIOUS
    <3>2. ins \in Nat /\ outs \in Nat
      BY <3>1, SeqDomain
    <3>3. PICK sch : sch = w.sch
      OBVIOUS
    <3>4. GraphOk(sch) /\ g = AddFiltergraph(sch, ins, outs)
      BY <1>4, <3>1, <3>3 DEF Sound, Usable
    <3>5. Grown(sch, g, {}) /\ g.nb_enc = sch.nb_enc /\ Lengthened(sch, g, [in |-> ins, out |-> outs])
      BY <3>2, <3>4, FiltergraphGrown
    <3>. QED  BY <3>1, <3>3, <3>5
  <2>4. PICK n \in Nat : /\ n = Len(w.sch.filters) /\ DOMAIN w.sch.filters = 1 .. n
                         /\ DOMAIN g.filters = 1 .. n + 1
                         /\ g.filters[n + 1] = [in |-> Len(desc.ins), out |-> Len(desc.outs)]
                         /\ Quiet(g, n + 1)
    BY <2>3 DEF Lengthened
  <2>5. /\ FgOk(fg) /\ fg.sch = n + 1 /\ fg.internal = internal
        /\ DOMAIN fg.ins = DOMAIN desc.ins /\ DOMAIN fg.outs = DOMAIN desc.outs
        /\ \A k \in DOMAIN desc.ins : "label" \in DOMAIN desc.ins[k] => fg.ins[k].label = desc.ins[k].label
    <3>1. MadeOf(fg, desc, internal, Len(w.sch.filters) + 1)
      BY <1>1, NewFgOk
    <3>. QED  BY <2>4, <3>1 DEF MadeOf
  <2>6. PICK l \in Nat : l = Len(w.fgs) /\ DOMAIN w.fgs = 1 .. l
    BY SeqDomain DEF Sound, Usable, FgsOk
  <2>7. IsSeq(fgs) /\ DOMAIN fgs = 1 .. l + 1 /\ (\A f \in 1 .. l : fgs[f] = w.fgs[f]) /\ fgs[l + 1] = fg
    <3>1. IsSeq(w.fgs)
      BY DEF Sound, Usable, FgsOk
    <3>. QED  BY <1>2, <2>6, <3>1, AppendSeq
  <2>8. \A f \in 1 .. l + 1 : f \in 1 .. l \/ f = l + 1
    OBVIOUS
  <2>9. FgsOk(fgs)
    <3>1. \A f \in DOMAIN w.fgs : FgOk(w.fgs[f])
      BY DEF Sound, Usable, FgsOk
    <3>. QED  BY <2>5, <2>6, <2>7, <2>8, <3>1 DEF FgsOk
  <2>10. Usable(u)
    <3>1. FilesOk(w.files) /\ GraphOk(g)
      BY <2>3 DEF Sound, Usable, Grown
    <3>. QED  BY <2>2, <2>9, <3>1 DEF Usable
  <2>11. internal => Grid(g, fg)
    <3>1. SUFFICES ASSUME internal PROVE Grid(g, fg)
      OBVIOUS
    <3>2. \A k \in DOMAIN fg.ins : fg.ins[k].label[1] # "dec"
      BY <2>5, <3>1
    <3>3. Len(desc.outs) = 1
      <4>1. PICK m \in Nat : m = Len(desc.outs) /\ 1 .. m = {1}
        BY <3>1, SeqDomain
      <4>2. 1 \in 1 .. m /\ m \in 1 .. m
        BY <4>1
      <4>. QED  BY <4>1, <4>2
    <3>4. g.filters[fg.sch].out = 1
      BY <2>4, <2>5, <3>3
    <3>. QED  BY <2>4, <2>5, <3>1, <3>2, <3>4 DEF Grid
  <2>12. ASSUME NEW f \in 1 .. l
         PROVE  fgs[f].sch \in DOMAIN w.sch.filters /\ (fgs[f].internal => Grid(g, fgs[f]))
    <3>1. w.fgs[f].sch \in DOMAIN w.sch.filters /\ (w.fgs[f].internal => Grid(w.sch, w.fgs[f]))
      BY <2>6 DEF Sound, Grids
    <3>. QED  BY <2>3, <2>7, <3>1, GridGrown
  <2>13. \A f, h \in 1 .. l : f # h => fgs[f].sch # fgs[h].sch
    BY <2>6, <2>7 DEF Sound, Grids
  <2>14. \A f, h \in 1 .. l + 1 : f # h => fgs[f].sch # fgs[h].sch
    <3>1. \A f \in 1 .. l : fgs[f].sch # n + 1
      BY <2>4, <2>12
    <3>. QED  BY <2>5, <2>7, <2>8, <2>13, <3>1
  <2>15. \A f \in 1 .. l + 1 : fgs[f].sch \in DOMAIN g.filters /\ (fgs[f].internal => Grid(g, fgs[f]))
    <3>1. \A f \in 1 .. l : fgs[f].sch \in DOMAIN g.filters
      BY <2>4, <2>12
    <3>2. fgs[l + 1].sch \in DOMAIN g.filters
      BY <2>4, <2>5, <2>7
    <3>. QED  BY <2>5, <2>7, <2>8, <2>11, <2>12, <3>1, <3>2
  <2>16. \A f \in DOMAIN w.files : \A k \in DOMAIN w.files[f].groups : w.files[f].groups[k].fg \in {0} \cup 1 .. l + 1
    <3>1. \A f \in DOMAIN w.files : \A k \in DOMAIN w.files[f].groups : w.files[f].groups[k].fg \in {0} \cup 1 .. l
      BY <2>6 DEF Sound, Grids
    <3>. QED  BY <3>1
  <2>17. Grids(u)
    BY <2>2, <2>7, <2>14, <2>15, <2>16 DEF Grids
  <2>18. FedBut(u.sch, 0)
    <3>1. GraphOk(w.sch) /\ FedBut(w.sch, 0)
      BY DEF Sound, Usable
    <3>. QED  BY <2>2, <2>3, <3>1, FedOn
  <2>19. Len(u.fgs) \in DOMAIN u.fgs
    <3>1. Len(fgs) = l + 1
      <4>1. PICK m \in Nat : m = Len(fgs) /\ 1 .. m = 1 .. l + 1
        BY <2>7, SeqDomain
      <4>2. l + 1 \in 1 .. m /\ (m # 0 => m \in 1 .. l + 1)
        BY <4>1
      <4>. QED  BY <4>1, <4>2
    <3>. QED  BY <2>2, <2>7, <3>1
  <2>. QED  BY <2>2, <2>10, <2>17, <2>18, <2>19 DEF Opening, Sound
<1>. QED  BY <1>8, <1>9

\* A file with a stream more.
LEMMA StreamAdded ==
    ASSUME NEW files, FilesOk(files), NEW f, NEW x, NEW new, new = [files EXCEPT ![f].streams = Append(@, x)]
    PROVE  FilesOk(new) /\ Alike(files, new)
<1>1. PICK r : r = Append(files[f].streams, x)
  OBVIOUS
<1>2. new = [files EXCEPT ![f].streams = r]
  BY <1>1
<1>3. new = [g \in DOMAIN files |-> new[g]]
  BY <1>2
<1>4. IsSeq(new) /\ DOMAIN new = DOMAIN files
  BY <1>3, SameSeq DEF FilesOk
<1>5. ASSUME NEW g \in DOMAIN files PROVE FileOk(new[g]) /\ new[g].groups = files[g].groups
  <2>1. {"streams", "groups"} \subseteq DOMAIN files[g] /\ IsSeq(files[g].streams) /\ IsSeq(files[g].groups)
    BY DEF FilesOk, FileOk
  <2>2. CASE g # f
    BY <1>2, <2>1, <2>2 DEF FileOk
  <2>3. CASE g = f
    <3>1. new[g] = [files[g] EXCEPT !.streams = r]
      BY <1>2, <2>3
    <3>2. DOMAIN new[g] = DOMAIN files[g] /\ new[g].groups = files[g].groups /\ new[g].streams = r
      BY <2>1, <3>1
    <3>3. IsSeq(r)
      BY <1>1, <2>1, <2>3, AppendSeq
    <3>. QED  BY <2>1, <3>2, <3>3 DEF FileOk
  <2>. QED  BY <2>2, <2>3
<1>. QED  BY <1>4, <1>5 DEF FilesOk, Alike

\* Nothing happens, or it fails.
LEMMA OpeningNot ==
    ASSUME NEW w, Sound(w, 0)
    PROVE  Opening(w, w) /\ \A why : why # "" => Opening(w, Fail(w, why)) /\ ~Fine(Fail(w, why))
<1>1. "err" \in DOMAIN w
  BY DEF Sound, Usable, Fields
<1>. QED  BY <1>1, NotFine DEF Opening

\* One thing after the other.
LEMMA OpeningTwice ==
    ASSUME NEW w, NEW v, NEW u, Opening(w, v), Fine(v), Opening(v, u)
    PROVE  Opening(w, u)
BY DEF Opening

\* ist_add
LEMMA IstAddOpening ==
    ASSUME NEW w, Sound(w, 0), NEW f, NEW opts, NEW file, NEW i, NEW u, u = IstAdd(w, f, opts, file, i)
    PROVE  Opening(w, u)
<1>1. \/ \E x : u = [w EXCEPT !.files[f].streams = Append(@, x)]
      \/ \E why : why # "" /\ u = Fail(w, why)
  BY DEF IstAdd
<1>2. CASE \E why : why # "" /\ u = Fail(w, why)
  BY <1>2, OpeningNot
<1>3. CASE \E x : u = [w EXCEPT !.files[f].streams = Append(@, x)]
  <2>1. PICK x : u = [w EXCEPT !.files[f].streams = Append(@, x)]
    BY <1>3
  <2>2. PICK files : files = [w.files EXCEPT ![f].streams = Append(@, x)]
    OBVIOUS
  <2>3. u = [w EXCEPT !.files = files]
    BY <2>1, <2>2
  <2>4. DOMAIN u = Fields /\ u.files = files /\ u.fgs = w.fgs /\ u.sch = w.sch /\ u.outs = w.outs
    BY <2>3 DEF Sound, Usable, Fields
  <2>5. FilesOk(files) /\ Alike(w.files, files)
    BY <2>2, StreamAdded DEF Sound, Usable
  <2>6. FgsOk(u.fgs) /\ Rewired(w.fgs, u.fgs)
    BY <2>4, RewiredSame DEF Sound, Usable
  <2>7. Grown(w.sch, u.sch, {}) /\ FedBut(u.sch, 0)
    BY <2>4, GrownSame DEF Sound, Usable
  <2>8. \A h \in DOMAIN w.fgs : w.fgs[h].internal /\ w.fgs[h].sch \in {} => u.fgs[h].outs[1].needed
    OBVIOUS
  <2>9. Sound(u, 0)
    BY <2>4, <2>5, <2>6, <2>7, <2>8, SoundOn
  <2>. QED  BY <2>4, <2>9 DEF Opening
<1>. QED  BY <1>1, <1>2, <1>3

\* The groups of the files are those there were, or x.
GroupsOr(files, new, x) ==
    /\ DOMAIN new = DOMAIN files
    /\ \A g \in DOMAIN files : \A k \in DOMAIN new[g].groups :
          new[g].groups[k] = x \/ (k \in DOMAIN files[g].groups /\ new[g].groups[k] = files[g].groups[k])

\* A file with a group more.
LEMMA GroupAdded ==
    ASSUME NEW files, FilesOk(files), NEW f, NEW x, NEW new, new = [files EXCEPT ![f].groups = Append(@, x)]
    PROVE  FilesOk(new) /\ GroupsOr(files, new, x)
<1>1. PICK r : r = Append(files[f].groups, x)
  OBVIOUS
<1>2. new = [files EXCEPT ![f].groups = r]
  BY <1>1
<1>3. new = [g \in DOMAIN files |-> new[g]]
  BY <1>2
<1>4. IsSeq(new) /\ DOMAIN new = DOMAIN files
  BY <1>3, SameSeq DEF FilesOk
<1>5. ASSUME NEW g \in DOMAIN files
      PROVE  /\ FileOk(new[g])
             /\ \A k \in DOMAIN new[g].groups :
                   new[g].groups[k] = x \/ (k \in DOMAIN files[g].groups /\ new[g].groups[k] = files[g].groups[k])
  <2>1. {"streams", "groups"} \subseteq DOMAIN files[g] /\ IsSeq(files[g].streams) /\ IsSeq(files[g].groups)
    BY DEF FilesOk, FileOk
  <2>2. CASE g # f
    BY <1>2, <2>1, <2>2 DEF FileOk
  <2>3. CASE g = f
    <3>1. new[g] = [files[g] EXCEPT !.groups = r]
      BY <1>2, <2>3
    <3>2. DOMAIN new[g] = DOMAIN files[g] /\ new[g].streams = files[g].streams /\ new[g].groups = r
      BY <2>1, <3>1
    <3>3. PICK s : s = files[g].groups
      OBVIOUS
    <3>4. IsSeq(s) /\ r = Append(s, x)
      BY <1>1, <2>1, <2>3, <3>3
    <3>5. /\ IsSeq(r) /\ DOMAIN r = 1 .. Len(s) + 1 /\ (\A k \in DOMAIN s : r[k] = s[k]) /\ r[Len(s) + 1] = x
      BY <3>4, AppendSeq
    <3>6. Len(s) \in Nat /\ DOMAIN s = 1 .. Len(s)
      BY <3>4, SeqDomain
    <3>7. \A k \in DOMAIN r : k \in DOMAIN s \/ k = Len(s) + 1
      BY <3>5, <3>6
    <3>8. FileOk(new[g])
      BY <2>1, <3>2, <3>5 DEF FileOk
    <3>. QED  BY <3>2, <3>3, <3>5, <3>7, <3>8
  <2>. QED  BY <2>2, <2>3
<1>. QED  BY <1>4, <1>5 DEF FilesOk, GroupsOr

\* A group more, with a filtergraph of its own or none.
LEMMA GroupOpening ==
    ASSUME NEW w, Sound(w, 0), NEW f, NEW group, "fg" \notin DOMAIN group, NEW fg, fg \in {0} \cup DOMAIN w.fgs,
           NEW u, u = [w EXCEPT !.files[f].groups = Append(@, With(group, [fg |-> fg]))]
    PROVE  Opening(w, u)
<1>1. PICK x : x = With(group, [fg |-> fg])
  OBVIOUS
<1>2. x.fg = fg
  BY <1>1 DEF With
<1>3. PICK files : files = [w.files EXCEPT ![f].groups = Append(@, x)]
  OBVIOUS
<1>4. u = [w EXCEPT !.files = files]
  BY <1>1, <1>3
<1>5. DOMAIN u = Fields /\ u.files = files /\ u.fgs = w.fgs /\ u.sch = w.sch /\ u.outs = w.outs
  BY <1>4 DEF Sound, Usable, Fields
<1>6. FilesOk(files) /\ GroupsOr(w.files, files, x)
  <2>1. PICK old : old = w.files
    OBVIOUS
  <2>2. FilesOk(old) /\ files = [old EXCEPT ![f].groups = Append(@, x)]
    BY <1>3, <2>1 DEF Sound, Usable
  <2>3. FilesOk(files) /\ GroupsOr(old, files, x)
    BY <2>2, GroupAdded
  <2>. QED  BY <2>1, <2>3
<1>7. Usable(u) /\ FedBut(u.sch, 0)
  BY <1>5, <1>6 DEF Sound, Usable
<1>8. \A g \in DOMAIN files : \A k \in DOMAIN files[g].groups : files[g].groups[k].fg \in {0} \cup DOMAIN w.fgs
  BY <1>2, <1>6 DEF Sound, Grids, GroupsOr
<1>9. Grids(u)
  <2>1. Grids(w)
    BY DEF Sound
  <2>2. \A h \in DOMAIN w.fgs :
          w.fgs[h].sch \in DOMAIN w.sch.filters /\ (w.fgs[h].internal => Grid(w.sch, w.fgs[h]))
    BY <2>1 DEF Grids
  <2>3. \A h, i \in DOMAIN w.fgs : h # i => w.fgs[h].sch # w.fgs[i].sch
    BY <2>1 DEF Grids
  <2>4. \A h \in DOMAIN u.fgs :
          u.fgs[h].sch \in DOMAIN u.sch.filters /\ (u.fgs[h].internal => Grid(u.sch, u.fgs[h]))
    BY <1>5, <2>2
  <2>5. \A h, i \in DOMAIN u.fgs : h # i => u.fgs[h].sch # u.fgs[i].sch
    BY <1>5, <2>3
  <2>6. \A g \in DOMAIN u.files : \A k \in DOMAIN u.files[g].groups : u.files[g].groups[k].fg \in {0} \cup DOMAIN u.fgs
    BY <1>5, <1>8
  <2>. QED  BY <2>4, <2>5, <2>6 DEF Grids
<1>. QED  BY <1>5, <1>7, <1>9 DEF Opening, Sound

\* The filtergraph of a tile grid reads the streams of its file and has one output.
LEMMA TileGridIs ==
    ASSUME NEW f, NEW g, NEW group, IsSeq(group.tiles), NEW desc, desc = TileGrid(f, g, group)
    PROVE  /\ IsSeq(desc.ins) /\ IsSeq(desc.outs) /\ DOMAIN desc.outs = {1}
           /\ \A k \in DOMAIN desc.ins : "label" \in DOMAIN desc.ins[k] /\ desc.ins[k].label[1] # "dec"
<1>1. PICK ins : ins = [k \in DOMAIN group.tiles |->
                          [type |-> "video", label |-> <<"file", f, InGroupNth(g, group.tiles[k])>>]]
  OBVIOUS
<1>2. PICK out : out = [type |-> "video", label |-> <<"file", f, InGroup(g)>>]
  OBVIOUS
<1>3. desc = [ins |-> ins, outs |-> <<out>>]
  BY <1>1, <1>2 DEF TileGrid
<1>4. IsSeq(ins) /\ DOMAIN ins = DOMAIN group.tiles
  <2>1. ins = [k \in DOMAIN group.tiles |-> ins[k]]
    BY <1>1
  <2>. QED  BY <2>1, SameSeq
<1>5. ASSUME NEW k \in DOMAIN ins PROVE "label" \in DOMAIN ins[k] /\ ins[k].label[1] # "dec"
  BY <1>1, <1>4, <1>5
<1>. QED  BY <1>3, <1>4, <1>5, OneSeq

\* istg_add
LEMMA IstgAddOpening ==
    ASSUME NEW w, Sound(w, 0), Fine(w), NEW f, NEW group, "fg" \notin DOMAIN group,
           group.type = "tile" => IsSeq(group.tiles),
           NEW u, u = IstgAdd(w, f, group)
    PROVE  Opening(w, u)
<1>1. PICK g : g = Len(w.files[f].groups) + 1
  OBVIOUS
<1>2. CASE group.type = "tile" /\ group.tiles = <<>>
  <2>1. u = Fail(w, "invalid tile group")
    <3>1. Len(<<>>) = 0
      BY NoSeq
    <3>2. ~(Len(group.tiles) > 1)
      BY <1>2, <3>1
    <3>. QED  BY <1>2, <3>2 DEF IstgAdd
  <2>. QED  BY <2>1, OpeningNot
<1>3. CASE group.type = "tile" /\ group.tiles # <<>> /\ Len(group.tiles) > 1
  <2>1. PICK desc : desc = TileGrid(f, g, group)
    OBVIOUS
  <2>2. PICK v : v = FgCreate(w, desc, TRUE)
    OBVIOUS
  <2>3. u = IF Fine(v) THEN [v EXCEPT !.files[f].groups = Append(@, With(group, [fg |-> Len(v.fgs)]))] ELSE v
    BY <1>1, <1>3, <2>1, <2>2 DEF IstgAdd, Then, Fine
  <2>4. Opening(w, v) /\ (Fine(v) => v.files = w.files /\ Len(v.fgs) \in DOMAIN v.fgs)
    <3>1. /\ IsSeq(desc.ins) /\ IsSeq(desc.outs) /\ DOMAIN desc.outs = {1}
          /\ \A k \in DOMAIN desc.ins : "label" \in DOMAIN desc.ins[k] /\ desc.ins[k].label[1] # "dec"
      BY <1>3, <2>1, TileGridIs
    <3>. QED  BY <2>2, <3>1, FgCreateOpening
  <2>5. CASE ~Fine(v)
    BY <2>3, <2>4, <2>5
  <2>6. CASE Fine(v)
    <3>1. PICK fg : fg = Len(v.fgs)
      OBVIOUS
    <3>2. u = [v EXCEPT !.files[f].groups = Append(@, With(group, [fg |-> fg]))] /\ fg \in {0} \cup DOMAIN v.fgs
      BY <2>3, <2>4, <2>6, <3>1
    <3>3. Sound(v, 0)
      BY <2>4, <2>6 DEF Opening
    <3>4. Opening(v, u)
      BY <3>2, <3>3, GroupOpening
    <3>. QED  BY <2>4, <2>6, <3>4, OpeningTwice
  <2>. QED  BY <2>5, <2>6
<1>4. CASE ~(group.type = "tile" /\ group.tiles = <<>>) /\ ~(group.type = "tile" /\ Len(group.tiles) > 1)
  <2>1. u = [w EXCEPT !.files[f].groups = Append(@, With(group, [fg |-> 0]))]
    BY <1>4 DEF IstgAdd
  <2>2. PICK fg : fg = 0
    OBVIOUS
  <2>. QED  BY <2>1, <2>2, GroupOpening
<1>. QED  BY <1>2, <1>3, <1>4

\* Over all streams of a file, and over all groups.
FI == INSTANCE Folding WITH
    Op   <- LAMBDA a, b, c, v, i : IF Fine(v) THEN IstAdd(v, a, b, c, i) ELSE v,
    Good <- LAMBDA a, b, c, w, n, v : Opening(w, v)

FG == INSTANCE Folding WITH
    Op   <- LAMBDA a, b, c, v, g : IF Fine(v) THEN IstgAdd(v, a, g) ELSE v,
    Good <- LAMBDA a, b, c, w, n, v : Opening(w, v)

\* The streams, and then the groups, of a file that is opened.
AddStreams(w, f, opts, file) ==
    ForEach(w, [i \in DOMAIN file.streams |-> i], LAMBDA u, i : IstAdd(u, f, opts, file, i))
AddGroups(w, f, file) == ForEach(w, file.groups, LAMBDA u, g : IstgAdd(u, f, g))

\* The streams of a file are added.
LEMMA AddStreamsOpening ==
    ASSUME NEW w, Sound(w, 0), NEW f, NEW opts, NEW file, IsSeq(file.streams)
    PROVE  Opening(w, AddStreams(w, f, opts, file))
<1>1. PICK s : s = [i \in DOMAIN file.streams |-> i]
  OBVIOUS
<1>2. PICK n \in Nat : DOMAIN s = 1 .. n
  BY <1>1, SeqDomain
<1>3. AddStreams(w, f, opts, file) = FI!Fold(f, opts, file, w, s)
  <2>1. AddStreams(w, f, opts, file) = ForEach(w, s, LAMBDA v, i : IstAdd(v, f, opts, file, i))
    BY <1>1 DEF AddStreams
  <2>. QED  BY <2>1 DEF ForEach, FoldLeft, MapThenFoldSet, Max, FI!Fold, FI!Last, Fine
<1>4. Opening(w, w)
  BY OpeningNot
<1>5. ASSUME NEW i \in 1 .. n, NEW v, Opening(w, v)
      PROVE  Opening(w, IF Fine(v) THEN IstAdd(v, f, opts, file, s[i]) ELSE v)
  <2>1. CASE Fine(v)
    <3>1. Sound(v, 0)
      BY <1>5, <2>1 DEF Opening
    <3>2. PICK u : u = IstAdd(v, f, opts, file, s[i])
      OBVIOUS
    <3>3. Opening(v, u)
      BY <3>1, <3>2, IstAddOpening
    <3>4. Opening(w, u)
      BY <1>5, <2>1, <3>3, OpeningTwice
    <3>. QED  BY <2>1, <3>2, <3>4
  <2>2. CASE ~Fine(v)
    BY <1>5, <2>2
  <2>. QED  BY <2>1, <2>2
<1>6. \A i \in 1 .. n : \A v :
         Opening(w, v) => Opening(w, IF Fine(v) THEN IstAdd(v, f, opts, file, s[i]) ELSE v)
  BY <1>5
<1>ind. FI!Inductive(n)
  BY Induct DEF FI!Inductive
<1>7. Opening(w, FI!Fold(f, opts, file, w, s))
  BY <1>ind, <1>2, <1>4, <1>6, FI!FoldGood
<1>. QED  BY <1>3, <1>7

\* The groups of a file are added.
LEMMA AddGroupsOpening ==
    ASSUME NEW w, Sound(w, 0), NEW f, NEW file, IsSeq(file.groups),
           \A group \in Range(file.groups) :
              "fg" \notin DOMAIN group /\ (group.type = "tile" => IsSeq(group.tiles))
    PROVE  Opening(w, AddGroups(w, f, file))
<1>1. PICK s : s = file.groups
  OBVIOUS
<1>2. PICK n \in Nat : DOMAIN s = 1 .. n
  BY <1>1, SeqDomain
<1>3. AddGroups(w, f, file) = FG!Fold(f, 0, 0, w, s)
  <2>1. AddGroups(w, f, file) = ForEach(w, s, LAMBDA v, g : IstgAdd(v, f, g))
    BY <1>1 DEF AddGroups
  <2>. QED  BY <2>1 DEF ForEach, FoldLeft, MapThenFoldSet, Max, FG!Fold, FG!Last, Fine
<1>4. Opening(w, w)
  BY OpeningNot
<1>5. ASSUME NEW i \in 1 .. n, NEW v, Opening(w, v)
      PROVE  Opening(w, IF Fine(v) THEN IstgAdd(v, f, s[i]) ELSE v)
  <2>1. CASE Fine(v)
    <3>1. Sound(v, 0)
      BY <1>5, <2>1 DEF Opening
    <3>2. PICK group : group = s[i]
      OBVIOUS
    <3>3. "fg" \notin DOMAIN group /\ (group.type = "tile" => IsSeq(group.tiles))
      BY <1>1, <1>2, <3>2 DEF Range
    <3>4. PICK u : u = IstgAdd(v, f, group)
      OBVIOUS
    <3>5. Opening(v, u)
      BY <2>1, <3>1, <3>3, <3>4, IstgAddOpening
    <3>6. Opening(w, u)
      BY <1>5, <2>1, <3>5, OpeningTwice
    <3>. QED  BY <2>1, <3>2, <3>4, <3>6
  <2>2. CASE ~Fine(v)
    BY <1>5, <2>2
  <2>. QED  BY <2>1, <2>2
<1>6. \A i \in 1 .. n : \A v :
         Opening(w, v) => Opening(w, IF Fine(v) THEN IstgAdd(v, f, s[i]) ELSE v)
  BY <1>5
<1>ind. FG!Inductive(n)
  BY Induct DEF FG!Inductive
<1>7. Opening(w, FG!Fold(f, 0, 0, w, s))
  BY <1>ind, <1>2, <1>4, <1>6, FG!FoldGood
<1>. QED  BY <1>3, <1>7

\* What is said of lists holds of sequences.
LEMMA ListIsSeq == ASSUME NEW s, IsList(s) PROVE IsSeq(s) /\ DOMAIN s = 1 .. Len(s) /\ Len(s) \in Nat
<1>1. PICK n \in Nat : n = Len(s) /\ s = [i \in 1 .. n |-> s[i]]
  BY DEF IsList
<1>. QED  BY <1>1, ListSeq

\* What is assumed of input files, of one of them.
LEMMA FileLists ==
    ASSUME NEW name \in DOMAIN InputFiles, NEW file, file = InputFiles[name]
    PROVE  /\ IsSeq(file.streams) /\ IsSeq(file.groups)
           /\ \A group \in Range(file.groups) :
                 "fg" \notin DOMAIN group /\ (group.type = "tile" => IsSeq(group.tiles))
BY InputFilesAssumption, ListIsSeq

\* A file more, with neither streams nor groups.
LEMMA FileOpening ==
    ASSUME NEW w, Sound(w, 0), NEW new, FileOk(new), new.groups = <<>>,
           NEW u, u = [w EXCEPT !.sch = AddDemux(@), !.files = Append(@, new)]
    PROVE  Opening(w, u)
<1>1. PICK g : g = AddDemux(w.sch)
  OBVIOUS
<1>2. PICK files : files = Append(w.files, new)
  OBVIOUS
<1>3. /\ DOMAIN u = Fields /\ u.sch = g /\ u.files = files /\ u.fgs = w.fgs /\ u.outs = w.outs
  BY <1>1, <1>2 DEF Sound, Usable, Fields
<1>4. Grown(w.sch, g, {}) /\ g.nb_enc = w.sch.nb_enc
  BY <1>1, AddedGrown DEF Sound, Usable
<1>5. IsSeq(w.files) /\ \A f \in DOMAIN w.files : FileOk(w.files[f])
  BY DEF Sound, Usable, FilesOk
<1>6. PICK l \in Nat : l = Len(w.files) /\ DOMAIN w.files = 1 .. l
  BY <1>5, SeqDomain
<1>7. IsSeq(files) /\ DOMAIN files = 1 .. l + 1 /\ (\A f \in 1 .. l : files[f] = w.files[f]) /\ files[l + 1] = new
  BY <1>2, <1>5, <1>6, AppendSeq
<1>8. \A f \in 1 .. l + 1 : f \in 1 .. l \/ f = l + 1
  OBVIOUS
<1>9. FilesOk(files)
  BY <1>5, <1>6, <1>7, <1>8 DEF FilesOk
<1>10. Usable(u)
  <2>1. FgsOk(w.fgs) /\ GraphOk(g)
    BY <1>4 DEF Sound, Usable, Grown
  <2>. QED  BY <1>3, <1>9, <2>1 DEF Usable
<1>11. FedBut(u.sch, 0)
  <2>1. GraphOk(w.sch) /\ FedBut(w.sch, 0)
    BY DEF Sound, Usable
  <2>. QED  BY <1>3, <1>4, <2>1, FedOn
<1>12. Grids(u)
  <2>1. Grids(w)
    BY DEF Sound
  <2>2. ASSUME NEW h \in DOMAIN w.fgs
        PROVE  w.fgs[h].sch \in DOMAIN g.filters /\ (w.fgs[h].internal => Grid(g, w.fgs[h]))
    <3>1. w.fgs[h].sch \in DOMAIN w.sch.filters /\ (w.fgs[h].internal => Grid(w.sch, w.fgs[h]))
      BY <2>1 DEF Grids
    <3>2. w.fgs[h].sch \in DOMAIN g.filters
      BY <1>4, <3>1 DEF Grown
    <3>. QED  BY <1>4, <3>1, <3>2, GridGrown
  <2>3. \A h, i \in DOMAIN w.fgs : h # i => w.fgs[h].sch # w.fgs[i].sch
    BY <2>1 DEF Grids
  <2>4. \A f \in DOMAIN files : \A k \in DOMAIN files[f].groups : files[f].groups[k].fg \in {0} \cup DOMAIN w.fgs
    <3>1. \A f \in 1 .. l : \A k \in DOMAIN files[f].groups : files[f].groups[k].fg \in {0} \cup DOMAIN w.fgs
      BY <1>6, <1>7, <2>1 DEF Grids
    <3>2. DOMAIN files[l + 1].groups = {}
      BY <1>7, NoSeq
    <3>. QED  BY <1>7, <1>8, <3>1, <3>2
  <2>5. \A h \in DOMAIN u.fgs :
          u.fgs[h].sch \in DOMAIN u.sch.filters /\ (u.fgs[h].internal => Grid(u.sch, u.fgs[h]))
    BY <1>3, <2>2
  <2>6. \A h, i \in DOMAIN u.fgs : h # i => u.fgs[h].sch # u.fgs[i].sch
    BY <1>3, <2>3
  <2>7. \A f \in DOMAIN u.files : \A k \in DOMAIN u.files[f].groups : u.files[f].groups[k].fg \in {0} \cup DOMAIN u.fgs
    BY <1>3, <2>4
  <2>. QED  BY <2>5, <2>6, <2>7 DEF Grids
<1>. QED  BY <1>3, <1>10, <1>11, <1>12 DEF Opening, Sound

\* ifile_open
LEMMA IfileOpenOpening ==
    ASSUME NEW w, Sound(w, 0), Fine(w), NEW opts, NEW name, NEW u, u = IfileOpen(w, opts, name)
    PROVE  Opening(w, u)
<1>1. CASE \E why : why # "" /\ u = Fail(w, why)
  BY <1>1, OpeningNot
<1>2. CASE ~\E why : why # "" /\ u = Fail(w, why)
  <2> DEFINE file == InputFiles[name]
             f   == Len(w.files) + 1
             new == [name |-> name, streams |-> <<>>, groups |-> <<>>, programs |-> file.programs,
                     meta |-> file.meta, chapters |-> file.chapters, programsMeta |-> file.programsMeta,
                     start |-> file.start_time, discont |-> file.discont, realtime |-> file.realtime,
                     start_time |-> StartTime(opts, file), effective |-> NOPTS,
                     ts_offset |-> TsOffset(w.global, opts, file),
                     itsoffset |-> Opt(opts, "itsoffset", 0), isync |-> Opt(opts, "isync", 0)]
             opened == [w EXCEPT !.sch = AddDemux(@), !.files = Append(@, new)]
             v == AddStreams(opened, f, opts, file)
  <2>5. name \in DOMAIN InputFiles /\ u = IF Fine(v) THEN AddGroups(v, f, file) ELSE v
    <3>1. u = IF ~StopAccepted(opts) THEN Fail(w, "-to value smaller than -ss")
              ELSE IF name \notin DOMAIN InputFiles THEN Fail(w, "error opening input")
              ELSE IF Opt(opts, "sseof", NOPTS) >= 0 /\ Opt(opts, "ss", NOPTS) = NOPTS
              THEN Fail(w, "-sseof value must be negative")
              ELSE IF ~ReadrateAccepted(opts) THEN Fail(w, "invalid -readrate")
              ELSE IF Fine(v) THEN AddGroups(v, f, file) ELSE v
      BY DEF IfileOpen, AddStreams, AddGroups, Then, Fine
    <3> HIDE DEF v
    <3>. QED  BY <1>2, <3>1
  <2> HIDE DEF v
  <2>6. /\ IsSeq(file.streams) /\ IsSeq(file.groups)
        /\ \A group \in Range(file.groups) :
              "fg" \notin DOMAIN group /\ (group.type = "tile" => IsSeq(group.tiles))
    BY <2>5, FileLists
  <2> HIDE DEF file, f
  <2>7. FileOk(new) /\ new.groups = <<>>
    <3>1. {"streams", "groups"} \subseteq DOMAIN new /\ new.streams = <<>> /\ new.groups = <<>>
      OBVIOUS
    <3>. QED  BY <3>1, NoSeq DEF FileOk
  <2> HIDE DEF new
  <2>8. Opening(w, opened) /\ Fine(opened) /\ Sound(opened, 0)
    <3>1. Opening(w, opened)
      BY <2>7, FileOpening
    <3>2. opened.err = w.err
      BY DEF Sound, Usable, Fields
    <3>. QED  BY <3>1, <3>2 DEF Opening, Fine
  <2> HIDE DEF opened
  <2>9. Opening(w, v)
    <3>1. Opening(opened, v)
      BY <2>6, <2>8, AddStreamsOpening DEF v
    <3>. QED  BY <2>8, <3>1, OpeningTwice
  <2>10. CASE ~Fine(v)
    BY <2>5, <2>9, <2>10
  <2>11. CASE Fine(v)
    <3>1. Sound(v, 0) /\ u = AddGroups(v, f, file)
      BY <2>5, <2>9, <2>11 DEF Opening
    <3>2. Opening(v, u)
      BY <2>6, <3>1, AddGroupsOpening
    <3>. QED  BY <2>9, <2>11, <3>2, OpeningTwice
  <2>. QED  BY <2>10, <2>11
<1>. QED  BY <1>1, <1>2

-----------------------------------------------------------------------------
(* Loopback decoders, and offsets                                          *)

\* Another graph, grown.
LEMMA MovesInto ==
    ASSUME NEW w, Usable(w), NEW v, DOMAIN v = Fields, v.files = w.files, v.fgs = w.fgs, v.outs = w.outs,
           NEW N, Grown(w.sch, v.sch, N), v.sch.nb_enc = w.sch.nb_enc
    PROVE  Moves(w, v, N) /\ Usable(v)
BY DEF Moves, Usable, Alike, Grown

\* dec_create
LEMMA DecCreateOpening ==
    ASSUME NEW w, Sound(w, 0), Fine(w), NEW arg, NEW u, u = DecCreate(w, arg)
    PROVE  Opening(w, u) /\ u.outs = w.outs
<1> DEFINE sch == AddDec(w.sch)
           v   == [w EXCEPT !.sch = sch, !.decs = Append(@, [sch |-> sch.nb_dec, type |-> "unknown"])]
           ost == w.outs[arg.file].streams[arg.stream]
           x   == [v EXCEPT !.decs[Len(v.decs)].type = ost.type]
           src == Node("enc", ost.enc, 1)
           dst == Node("dec", sch.nb_dec, 1)
<1>1. \/ \E why : why # "" /\ u = Fail(v, why)
      \/ u = SchConnect(x, src, dst)
  BY DEF DecCreate
<1>2. DOMAIN v = Fields /\ v.sch = sch /\ v.files = w.files /\ v.fgs = w.fgs /\ v.outs = w.outs /\ v.err = w.err
  BY DEF Sound, Usable, Fields
<1>3. DOMAIN x = Fields /\ x.sch = sch /\ x.files = w.files /\ x.fgs = w.fgs /\ x.outs = w.outs /\ x.err = w.err
  <2> HIDE DEF v
  <2>. QED  BY <1>2 DEF Fields
<1>4. src[1] # "fout" /\ dst[1] # "fin"
  BY DEF Node
<1>5. Grown(w.sch, sch, {}) /\ sch.nb_enc = w.sch.nb_enc
  BY AddedGrown DEF Sound, Usable
<1> HIDE DEF v, x, src, dst, sch
<1>6. CASE \E why : why # "" /\ u = Fail(v, why)
  <2>1. PICK why : why # "" /\ u = Fail(v, why)
    BY <1>6
  <2>2. "err" \in DOMAIN v
    BY <1>2 DEF Fields
  <2>3. u.outs = v.outs
    BY <1>2, <2>1 DEF Fail, Fields
  <2>. QED  BY <1>2, <2>1, <2>2, <2>3, NotFine DEF Opening
<1>7. CASE u = SchConnect(x, src, dst)
  <2>1. Usable(w)
    BY DEF Sound
  <2>2. Moves(w, x, {}) /\ Usable(x) /\ Fine(x)
    BY <1>3, <1>5, <2>1, MovesInto DEF Fine
  <2>3. Moves(x, u, {})
    BY <1>4, <1>7, <2>2, ConnectMoves
  <2>4. Moves(w, u, {})
    BY <2>1, <2>2, <2>3, MovesTwice
  <2>5. u.outs = w.outs
    BY <1>3, <1>7, <2>2, ConnectOnly
  <2>. QED  BY <2>4, <2>5, MovesSound DEF Opening
<1>. QED  BY <1>1, <1>6, <1>7

\* What setting offsets leaves, whether or not it fails.
Offset(w, v) == DOMAIN v = Fields /\ v.outs = w.outs /\ (Fine(v) => Plain(v))

\* Other files, alike.
LEMMA FilesOffset ==
    ASSUME NEW w, Plain(w), NEW files, FilesOk(files), NEW v, v = [w EXCEPT !.files = files]
    PROVE  Offset(w, v) /\ v.err = w.err /\ Plain(v)
<1>1. DOMAIN v = Fields /\ v.files = files /\ v.fgs = w.fgs /\ v.outs = w.outs /\ v.sch = w.sch /\ v.err = w.err
  BY DEF Plain, Usable, Fields
<1>. QED  BY <1>1 DEF Offset, Plain, Usable

\* correct_input_start_times
LEMMA CorrectedOffset ==
    ASSUME NEW w, Plain(w), NEW v, v = CorrectInputStartTimes(w)
    PROVE  Offset(w, v) /\ v.err = w.err /\ Plain(v)
<1> DEFINE Corrected(file) ==
            LET read  == {file.streams[i].start : i \in {j \in DOMAIN file.streams :
                                                           file.streams[j].st_discard # "all"}}
                start == IF Known(read) = {} THEN INF ELSE Least(Known(read))
                seek  == file.start + (IF file.start_time # NOPTS THEN file.start_time ELSE 0)
                offset == CASE w.global.copy_ts /\ w.global.start_at_zero  -> 0 - start
                            [] w.global.copy_ts /\ ~w.global.start_at_zero -> 0
                            [] ~w.global.copy_ts -> 0 - (IF seek > start THEN seek ELSE start)
            IN  IF file.start = NOPTS \/ ~file.discont \/ start = file.start
                THEN [file EXCEPT !.effective = file.start]
                ELSE [file EXCEPT !.effective = start, !.ts_offset = offset + file.itsoffset]
           files == [f \in DOMAIN w.files |-> Corrected(w.files[f])]
<1>1. v = [w EXCEPT !.files = files]
  BY DEF CorrectInputStartTimes
<1>2. ASSUME NEW file
      PROVE  \E a, b : \/ Corrected(file) = [file EXCEPT !.effective = a]
                       \/ Corrected(file) = [file EXCEPT !.effective = a, !.ts_offset = b]
  OBVIOUS
<1> HIDE DEF Corrected
<1>3. ASSUME NEW file, FileOk(file) PROVE FileOk(Corrected(file))
  <2>1. PICK x : x = Corrected(file)
    OBVIOUS
  <2>2. DOMAIN x = DOMAIN file /\ x.streams = file.streams /\ x.groups = file.groups
    <3>1. PICK a, b : \/ x = [file EXCEPT !.effective = a]
                      \/ x = [file EXCEPT !.effective = a, !.ts_offset = b]
      BY <1>2, <2>1
    <3>2. "streams" \in DOMAIN file /\ "groups" \in DOMAIN file
      BY <1>3 DEF FileOk
    <3>3. CASE x = [file EXCEPT !.effective = a]
      BY <3>2, <3>3
    <3>4. CASE x = [file EXCEPT !.effective = a, !.ts_offset = b]
      BY <3>2, <3>4
    <3>. QED  BY <3>1, <3>3, <3>4
  <2>. QED  BY <1>3, <2>1, <2>2 DEF FileOk
<1>4. FilesOk(files)
  <2>1. FilesOk(w.files)
    BY DEF Plain, Usable
  <2>2. files = [f \in DOMAIN w.files |-> files[f]]
    OBVIOUS
  <2>3. IsSeq(files) /\ DOMAIN files = DOMAIN w.files
    <3> HIDE DEF files
    <3>. QED  BY <2>1, <2>2, SameSeq DEF FilesOk
  <2>4. \A f \in DOMAIN w.files : files[f] = Corrected(w.files[f])
    OBVIOUS
  <2> HIDE DEF files
  <2>. QED  BY <1>3, <2>1, <2>3, <2>4 DEF FilesOk
<1> HIDE DEF files
<1>. QED  BY <1>1, <1>4, FilesOffset

\* Nothing happens, or it fails.
LEMMA OffsetNot ==
    ASSUME NEW w, Plain(w)
    PROVE  Offset(w, w) /\ \A why : why # "" => Offset(w, Fail(w, why))
<1>1. DOMAIN w = Fields
  BY DEF Plain, Usable
<1>2. ASSUME NEW why, why # "" PROVE Offset(w, Fail(w, why))
  <2>1. DOMAIN Fail(w, why) = Fields /\ Fail(w, why).outs = w.outs
    BY <1>1 DEF Fail, Fields
  <2>2. ~Fine(Fail(w, why))
    BY <1>1, <1>2, NotFine DEF Fields
  <2>. QED  BY <2>1, <2>2 DEF Offset
<1>. QED  BY <1>1, <1>2 DEF Offset

\* One thing after the other.
LEMMA OffsetTwice ==
    ASSUME NEW w, NEW v, NEW u, Offset(w, v), Offset(v, u)
    PROVE  Offset(w, u)
BY DEF Offset

\* apply_sync_offsets, of one file
LEMMA SyncOffsetOffset ==
    ASSUME NEW w, Plain(w), NEW i, NEW u, u = SyncOffset(w, i)
    PROVE  Offset(w, u)
<1>1. \/ u = w
      \/ \E why : why # "" /\ u = Fail(w, why)
      \/ \E x : u = [w EXCEPT !.files[i].ts_offset = x]
  BY DEF SyncOffset
<1>2. CASE u = w \/ \E why : why # "" /\ u = Fail(w, why)
  BY <1>2, OffsetNot
<1>3. CASE \E x : u = [w EXCEPT !.files[i].ts_offset = x]
  <2>1. PICK x : u = [w EXCEPT !.files[i].ts_offset = x]
    BY <1>3
  <2>2. PICK file : file = [w.files[i] EXCEPT !.ts_offset = x]
    OBVIOUS
  <2>3. PICK files : files = [w.files EXCEPT ![i] = file]
    OBVIOUS
  <2>4. u = [w EXCEPT !.files = files]
    BY <2>1, <2>2, <2>3
  <2>5. FilesOk(files)
    <3>1. FilesOk(w.files)
      BY DEF Plain, Usable
    <3>2. files = [f \in DOMAIN w.files |-> files[f]]
      BY <2>3
    <3>3. IsSeq(files) /\ DOMAIN files = DOMAIN w.files
      BY <3>1, <3>2, SameSeq DEF FilesOk
    <3>4. ASSUME NEW f \in DOMAIN w.files PROVE FileOk(files[f])
      <4>1. FileOk(w.files[f])
        BY <3>1 DEF FilesOk
      <4>2. CASE f # i
        BY <2>3, <4>1, <4>2
      <4>3. CASE f = i
        <5>1. /\ files[f] = file /\ DOMAIN file = DOMAIN w.files[f]
              /\ file.streams = w.files[f].streams /\ file.groups = w.files[f].groups
          BY <2>2, <2>3, <4>1, <4>3 DEF FileOk
        <5>. QED  BY <4>1, <5>1 DEF FileOk
      <4>. QED  BY <4>2, <4>3
    <3>. QED  BY <3>3, <3>4 DEF FilesOk
  <2>. QED  BY <2>4, <2>5, FilesOffset
<1>. QED  BY <1>1, <1>2, <1>3

\* Over all files.
FO == INSTANCE Folding WITH
    Op   <- LAMBDA a, b, c, v, i : IF Fine(v) THEN SyncOffset(v, i) ELSE v,
    Good <- LAMBDA a, b, c, w, n, v : Offset(w, v)

\* apply_sync_offsets
LEMMA ApplySyncOffsetsOffset ==
    ASSUME NEW w, Plain(w), NEW u, u = ApplySyncOffsets(w)
    PROVE  Offset(w, u)
<1>1. PICK s : s = [i \in DOMAIN w.files |-> i]
  OBVIOUS
<1>2. PICK n \in Nat : DOMAIN s = 1 .. n
  BY <1>1, SeqDomain DEF Plain, Usable, FilesOk
<1>3. u = FO!Fold(0, 0, 0, w, s)
  <2>1. u = ForEach(w, s, SyncOffset)
    BY <1>1 DEF ApplySyncOffsets
  <2>. QED  BY <2>1 DEF ForEach, FoldLeft, MapThenFoldSet, Max, FO!Fold, FO!Last, Fine
<1>4. Offset(w, w)
  BY OffsetNot
<1>5. ASSUME NEW i \in 1 .. n, NEW v, Offset(w, v)
      PROVE  Offset(w, IF Fine(v) THEN SyncOffset(v, s[i]) ELSE v)
  <2>1. CASE Fine(v)
    <3>1. Plain(v)
      BY <1>5, <2>1 DEF Offset
    <3>2. PICK x : x = SyncOffset(v, s[i])
      OBVIOUS
    <3>3. Offset(v, x)
      BY <3>1, <3>2, SyncOffsetOffset
    <3>4. Offset(w, x)
      BY <1>5, <3>3, OffsetTwice
    <3>. QED  BY <2>1, <3>2, <3>4
  <2>2. CASE ~Fine(v)
    BY <1>5, <2>2
  <2>. QED  BY <2>1, <2>2
<1>6. \A i \in 1 .. n : \A v : Offset(w, v) => Offset(w, IF Fine(v) THEN SyncOffset(v, s[i]) ELSE v)
  BY <1>5
<1>ind. FO!Inductive(n)
  BY Induct DEF FO!Inductive
<1>7. Offset(w, FO!Fold(0, 0, 0, w, s))
  BY <1>ind, <1>2, <1>4, <1>6, FO!FoldGood
<1>. QED  BY <1>3, <1>7
=============================================================================
