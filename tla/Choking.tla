------------------------------ MODULE Choking ------------------------------
(***************************************************************************)
(* Rate control of ffmpeg_sched.c.  A demuxer, decoder or filtergraph      *)
(* whose waiter is choked stops at its next look at it; the thread queue   *)
(* from a choked demuxer is choked as well.  schedule_update_locked()      *)
(* decides anew who is choked whenever something changed that it reads.    *)
(* All it reads is under schedule_lock and is kept in one record, so that  *)
(* a change and the update after it are one step.                          *)
(***************************************************************************)
EXTENDS SchedGraph

CONSTANTS
    NOPTS,      \* AV_NOPTS_VALUE
    Tolerance,  \* SCHEDULE_TOLERANCE
    Graphs      \* the graphs that may be built before sch_start()

ASSUME ToleranceAssumption == NOPTS \notin Int /\ Tolerance \in Nat \ {0}

VARIABLES
    graph,      \* the graph that was built
    sched,      \* what schedule_update_locked() reads
    choked,     \* the waiters whose choked flag is set
    frozen,     \* the decoders whose thread queue is choked
    terminate   \* Scheduler.terminate

chokingVars == <<graph, sched, choked, frozen, terminate>>

Waiters(g) == ({"demux"} \X DOMAIN g.demux) \cup ({"filter"} \X DOMAIN g.filters)
                 \cup ({"dec"} \X (1 .. g.nb_dec))

\* sched as the sch_add functions leave it.  best_input counts from 1 here; one
\* above the number of inputs stands for "none".
InitSched(g) ==
    [last_dts         |-> [n \in Streams(g, "mux") |-> NOPTS],
     source_finished  |-> {},
     best_input       |-> [f \in DOMAIN g.filters |-> 1],
     send_finished    |-> {},
     receive_finished |-> {},
     exited           |-> {}]

NoInput(g, f) == g.filters[f].in + 1

-----------------------------------------------------------------------------
(* trailing_dts                                                            *)

UnfinishedDts(s) == {s.last_dts[n] : n \in DOMAIN s.last_dts \ s.source_finished}

TrailingDts(s) ==
    IF UnfinishedDts(s) = {} \/ NOPTS \in UnfinishedDts(s) THEN NOPTS ELSE Min(UnfinishedDts(s))

-----------------------------------------------------------------------------
(* unchoke_for_stream and unchoke_downstream: as a function from a call    *)
(* (with the set of waiters unchoked so far) to the waiters unchoked after *)

Wanted(g, s, f) == SrcOf(g, Node("fin", f, s.best_input[f]))

\* for (...) call(op, nodes[i])
Each(U, op, nodes, what, open) ==
    FoldLeft(LAMBDA o, n : U[[op |-> op, at |-> n, what |-> what, open |-> o]], open, nodes)

\* The first destination of each stream of a demuxer.
FirstDsts(g, d) == [k \in 1 .. g.demux[d] |-> Dsts(g, Node("demux", d, k))[1]]

Unchoke(g, s) ==
    LET U[r \in [op : {"for", "downstream"}, at : DOMAIN g.dst \cup DOMAIN g.src,
                 what : {"all", "decode"}, open : SUBSET Waiters(g)]] ==
          LET type == r.at[1]
              i    == r.at[2]
              For(src, what, open) == U[[op |-> "for", at |-> src, what |-> what, open |-> open]]
          IN  IF r.op = "downstream"
              THEN CASE type = "dec" -> IF <<"dec", i>> \in r.open
                                        THEN Each(U, "downstream", <<Dsts(g, r.at)[1]>>, "all", r.open)
                                        ELSE r.open
                     [] type = "enc" -> Each(U, "downstream", Dsts(g, r.at), "all", r.open)
                     [] type = "mux" -> r.open
                     [] type = "fin" -> IF s.best_input[i] = NoInput(g, i)
                                        THEN r.open \cup {<<"filter", i>>}
                                        ELSE For(Wanted(g, s, i), "all", r.open)
              ELSE CASE type = "demux" ->
                          IF <<"demux", i>> \in r.open \/ r.what # "all" THEN r.open
                          ELSE Each(U, "downstream", FirstDsts(g, i), "all", r.open \cup {<<"demux", i>>})
                     [] type = "dec" ->
                          For(SrcOf(g, Node("dec", i, 1)), r.what, r.open \cup {<<"dec", i>>})
                     [] type = "enc" -> For(SrcOf(g, r.at), r.what, r.open)
                     [] type = "fout" ->
                          IF s.best_input[i] # NoInput(g, i) THEN For(Wanted(g, s, i), r.what, r.open)
                          ELSE IF r.what = "all" THEN r.open \cup {<<"filter", i>>} ELSE r.open
    IN  U

UnchokeFor(g, s, src, what, open) ==
    Unchoke(g, s)[[op |-> "for", at |-> src, what |-> what, open |-> open]]

-----------------------------------------------------------------------------
(* schedule_update_locked                                                  *)

\* Streams of muxers and inputs of filtergraphs in the order of the loops.
Ordered(nodes) == SetToSortSeq(nodes, LAMBDA a, b : a[2] < b[2] \/ (a[2] = b[2] /\ a[3] < b[3]))

\* Mutant: with no trailing timestamp yet, only streams that have one proceed.
MayProceed_Inverted(s, n) ==
    /\ n \notin s.source_finished
    /\ IF TrailingDts(s) = NOPTS THEN s.last_dts[n] # NOPTS
       ELSE s.last_dts[n] - TrailingDts(s) < Tolerance

\* An output stream that is not finished and not too far ahead.
MayProceed(s, n) ==
    /\ n \notin s.source_finished
    /\ IF TrailingDts(s) = NOPTS THEN s.last_dts[n] = NOPTS
       ELSE s.last_dts[n] - TrailingDts(s) < Tolerance

OpenForOutputs(g, s) ==
    FoldLeft(LAMBDA open, n :
                IF n \in s.source_finished
                THEN UnchokeFor(g, s, SrcOf(g, n), "decode", open)
                ELSE IF MayProceed(s, n) THEN UnchokeFor(g, s, SrcOf(g, n), "all", open)
                ELSE open,
             {}, Ordered(Streams(g, "mux")))

\* Sources of closed filtergraph inputs, that they may see the EOF.
ClosedInputs(s) == s.receive_finished \ s.send_finished

OpenForClosedInputs(g, s, open) ==
    FoldLeft(LAMBDA o, n : UnchokeFor(g, s, SrcOf(g, n), "all", o), open, Ordered(ClosedInputs(s)))

\* UNCHOKE_ONCE: the first demuxer, else the first filtergraph, that runs.
UnchokeOnce(g, s, open) ==
    LET waiting(type, n) == {i \in 1 .. n : <<type, i>> \notin s.exited}
        d == waiting("demux", Len(g.demux))
        f == waiting("filter", Len(g.filters))
    IN  CASE d # {}            -> open \cup {<<"demux", Min(d)>>}
          [] d = {} /\ f # {}  -> open \cup {<<"filter", Min(f)>>}
          [] OTHER             -> open

Open(g, s) ==
    LET open == OpenForClosedInputs(g, s, OpenForOutputs(g, s))
    IN  IF \E n \in DOMAIN s.last_dts : MayProceed(s, n) THEN open ELSE UnchokeOnce(g, s, open)

\* choke_demux: only the first destination of a stream is looked at, and only
\* decoders have a queue to choke there.
FrozenBy(g, d) == {FirstDsts(g, d)[k][2] : k \in {j \in 1 .. g.demux[d] : FirstDsts(g, d)[j][1] = "dec"}}

Froze(g, old, new, fr) ==
    LET now(S) == UNION {FrozenBy(g, d) : d \in {x \in DOMAIN g.demux : <<"demux", x>> \in S}}
    IN  (fr \ now(old \ new)) \cup now(new \ old)

\* Mutant: the update does not look at terminate.
ScheduleUpdate_Terminated(s, fr) ==
    /\ sched' = s
    /\ choked' = Waiters(graph) \ Open(graph, s)
    /\ frozen' = Froze(graph, choked, choked', fr)

\* sched becomes s, and the waiters follow.  fr is frozen before the update.
ScheduleUpdate(s, fr) ==
    /\ sched' = s
    /\ IF terminate
       THEN choked' = choked /\ frozen' = fr
       ELSE /\ choked' = Waiters(graph) \ Open(graph, s)
            /\ frozen' = Froze(graph, choked, choked', fr)

\* sch_stop: choke the sources, let the decoders and their queues drain.
ChokeForStop ==
    /\ choked' = Waiters(graph) \ ({"dec"} \X (1 .. graph.nb_dec))
    /\ frozen' = frozen \ UNION {FrozenBy(graph, d) : d \in DOMAIN graph.demux}
    /\ UNCHANGED <<graph, sched, terminate>>

ChokingInit ==
    /\ sched = InitSched(graph)
    /\ choked = {}
    /\ frozen = {}
    /\ terminate = FALSE
=============================================================================
