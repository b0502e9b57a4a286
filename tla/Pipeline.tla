----------------------------- MODULE Pipeline -----------------------------
(***************************************************************************)
(* A running transcode: the task threads of a started scheduler, the       *)
(* thread queues between them, rate control, the end of every stream and   *)
(* the stop by the main thread.                                            *)
(*                                                                         *)
(* A task is <<type, idx>>.  A thread is its pc and todo, the calls it has *)
(* begun and must finish one at a time before it goes on at pc: each call  *)
(* holds a lock (of a thread queue, or schedule_lock) once, so each is one *)
(* step.  The state a handler decides on is read in the step that reads it *)
(* in the code, so that it may be stale when the calls are carried out.    *)
(*                                                                         *)
(* graph has more fields here: script (the packets of each demuxer, as     *)
(* <<stream, timestamps after its bitstream filter>>), loops and period    *)
(* (-stream_loop), end_ts (decoders with a queue of end timestamps),       *)
(* standalone (decoders fed by an encoder), enc_end and copy_end           *)
(* (recording time of encoders and copied streams), limit and rate of each *)
(* filtergraph (frames made in all, frames made from one), expect (what    *)
(* each output stream is to contain), may_fail (tasks that may fail), and  *)
(* synced and limiting (the encoders behind the sync queue, those of them  *)
(* that end the others).                                                   *)
(***************************************************************************)
EXTENDS Choking

CONSTANTS
    QueueSize,  \* -thread_queue_size
    MaxTasks    \* bound on the tasks of one type

\* The graphs are built by sch_add functions and sch_connect; an encoder is made
\* for an output stream, a sync queue for encoders; decoders feed filtergraphs, as
\* subtitles, which have none, are not in this model; a packet that is read becomes
\* one or more.
ASSUME GraphsAssumption ==
    \A g \in Graphs :
        /\ WellFormed(g)
        /\ \A n \in Streams(g, "enc") : \E k \in DOMAIN Dsts(g, n) : Dsts(g, n)[k][1] = "mux"
        /\ \A d \in DOMAIN g.demux : g.script[d] \in Seq((1 .. g.demux[d]) \X (Seq(Int) \ {<<>>}))
        /\ g.loops \in Nat /\ g.period \in Int
        /\ \A f \in DOMAIN g.filters : g.filters[f].rate \in Nat
        /\ g.limiting \subseteq g.synced /\ g.synced \subseteq 1 .. g.nb_enc
        /\ \A n \in Streams(g, "dec") : \A k \in DOMAIN Dsts(g, n) : Dsts(g, n)[k][1] = "fin"

VARIABLES
    q,            \* the items of the thread queue of each task
    closed,       \* FINISHED_SEND and FINISHED_RECV of their streams
    dst_finished, \* the links known to be closed by the task that sends
    task,         \* pc and todo of each task
    reader,       \* the demuxers: position in the script, loops left, ...
    dec,          \* the decoders: overflow, expect_end_ts, queue_end_ts, ...
    flt,          \* the filtergraphs: FilterGraphThread and the libavfilter graph
    opened,       \* the encoders that are open
    sync,         \* the sync queue: who holds its lock, heads, ends, frames that wait
    mux,          \* the muxers: started, pre_mux_queue, packets written, nb_mux_done
    asleep,       \* the tasks that sleep on their waiter
    main          \* the main thread: pc, whether a task has failed, whether it was told to stop

pipeVars == <<q, closed, dst_finished, task, reader, dec, flt, opened, sync, mux, asleep, main>>
vars     == <<chokingVars, pipeVars>>

-----------------------------------------------------------------------------
(* Items and tasks                                                         *)

Item(k, ts, from) == [k |-> k, ts |-> ts, from |-> from]
FlushItem == Item("flush", NOPTS, NoNode)
EofItem   == Item("eof", NOPTS, NoNode)     \* FRAME_OPAQUE_EOF
InitItem  == Item("init", NOPTS, NoNode)    \* a frame without buffers

Indices(g, type) ==
    CASE type = "demux"  -> DOMAIN g.demux
      [] type = "dec"    -> 1 .. g.nb_dec
      [] type = "filter" -> DOMAIN g.filters
      [] type = "enc"    -> 1 .. g.nb_enc
      [] type = "mux"    -> DOMAIN g.mux

Types == {"demux", "dec", "filter", "enc", "mux"}
Tasks(g) == UNION {{t} \X Indices(g, t) : t \in Types}

\* The thread queue a destination belongs to, and the streams of a queue.  The
\* control stream of a filtergraph comes after its inputs.
Queue(dst) == <<IF dst[1] = "fin" THEN "filter" ELSE dst[1], dst[2]>>
Control(f) == Node("fin", f, NoInput(graph, f))
QueueStreams(t) ==
    CASE t[1] = "filter" -> {Node("fin", t[2], k) : k \in 1 .. NoInput(graph, t[2])}
      [] t[1] = "mux"    -> {Node("mux", t[2], k) : k \in 1 .. graph.mux[t[2]]}
      [] OTHER           -> {Node(t[1], t[2], 1)}

Idle(t, pc) == task[t].pc = pc /\ task[t].todo = <<>>
Goto(t, pc, todo) == task' = [task EXCEPT ![t] = [pc |-> pc, todo |-> todo]]

-----------------------------------------------------------------------------
(* tq_receive: op(result, stream, item) for what it may return             *)

Live(t) == {n \in DOMAIN q[t] : q[t][n][1] \notin closed.recv}
First(t) == q[t][Min(Live(t))]
EndedStreams(t) == (QueueStreams(t) \cap closed.send) \ closed.recv

\* An item of a stream the receiver still takes.
TqGet(t) ==
    /\ t \notin {<<"dec", i>> : i \in frozen}
    /\ Live(t) # {}
    /\ q' = [q EXCEPT ![t] = SubSeq(@, Min(Live(t)) + 1, Len(@))]

\* EOF of the first stream the sender has finished.
TqEnd(t, n) ==
    /\ t \notin {<<"dec", i>> : i \in frozen}
    /\ Live(t) = {}
    /\ n \in EndedStreams(t)
    /\ \A o \in EndedStreams(t) : n[3] <= o[3]
    /\ q' = [q EXCEPT ![t] = <<>>]
    /\ closed' = [closed EXCEPT !.recv = @ \cup {n}]

\* EOF of the queue.
TqOver(t) ==
    /\ t \notin {<<"dec", i>> : i \in frozen}
    /\ Live(t) = {}
    /\ QueueStreams(t) \subseteq closed.recv
    /\ q' = [q EXCEPT ![t] = <<>>]

\* Nothing to return: items of streams the receiver is done with are dropped.
TqEmpty(t) ==
    /\ Live(t) = {} /\ EndedStreams(t) = {} /\ ~ QueueStreams(t) \subseteq closed.recv
    /\ t \notin {<<"dec", i>> : i \in frozen}
    /\ q' = [q EXCEPT ![t] = <<>>]

-----------------------------------------------------------------------------
(* The calls of a task, one at a time                                      *)

Send(src, dst, item) == [op |-> "send", src |-> src, dst |-> dst, item |-> item]
Close(src, dst)      == [op |-> "close", src |-> src, dst |-> dst]
Call(op, node)       == [op |-> op, node |-> node]
Progress(node, dts)  == [op |-> "progress", node |-> node, dts |-> dts]

\* Mutant: those that are finished are not left out.
Unfinished_All(src) == Dsts(graph, src)

\* One call per destination that is not finished.
Unfinished(src) ==
    LET d == Dsts(graph, src) IN Kept(d, {k \in DOMAIN d : <<src, d[k]>> \notin dst_finished})
SendAll(src, item) == LET d == Unfinished(src) IN [k \in DOMAIN d |-> Send(src, d[k], item)]
CloseAll(src)      == LET d == Unfinished(src) IN [k \in DOMAIN d |-> Close(src, d[k])]
AllFinished(src)   == Unfinished(src) = <<>>

Doing(t, op) == task[t].todo # <<>> /\ Head(task[t].todo).op = op
Done(t)         == task' = [task EXCEPT ![t].todo = Tail(@)]
Replace(t, ops) == task' = [task EXCEPT ![t].todo = ops \o Tail(@)]

\* The destination is at its end: what is left for it is not sent.
TurnAway(t, src, dst) ==
    LET rest == Tail(task[t].todo)
    IN  task' = [task EXCEPT ![t].todo = <<Close(src, dst)>> \o
                    Kept(rest, {k \in DOMAIN rest : rest[k].op # "send" \/ rest[k].dst # dst})]

\* mux_init: all streams of a muxer are ready, its thread starts and what was
\* queued before is flushed (MuxStart has the steps).
Start(m, now_opened) ==
    LET ready == \A k \in 1 .. graph.mux[m] :
                    LET src == SrcOf(graph, Node("mux", m, k))
                    IN  src[1] = "enc" => src \in now_opened
        early(k) == LET pre == mux.pre[Node("mux", m, k)]
                    IN  Kept(pre, {j \in DOMAIN pre : pre[j].k # "eof"})
        ended    == {n \in QueueStreams(<<"mux", m>>) : \E i \in DOMAIN mux.pre[n] : mux.pre[n][i].k = "eof"}
    IN  IF ready /\ m \notin mux.started
        THEN /\ mux' = [mux EXCEPT !.started = @ \cup {m}]
             /\ q' = [q EXCEPT ![<<"mux", m>>] =
                        FlattenSeq([k \in 1 .. graph.mux[m] |->
                            [j \in DOMAIN early(k) |-> <<Node("mux", m, k), early(k)[j]>>]])]
             /\ closed' = [closed EXCEPT !.send = @ \cup ended]
        ELSE UNCHANGED <<mux, q, closed>>

\* send_to_enc with the first frame: enc_open, and the muxer may start.
OpenEncoder(t) ==
    /\ Doing(t, "send")
    /\ LET c == Head(task[t].todo)
       IN  /\ c.dst[1] = "enc" /\ c.dst \notin opened
           /\ opened' = opened \cup {c.dst}
           /\ Start((CHOOSE n \in Range(Dsts(graph, c.dst)) : n[1] = "mux")[2], opened')
           /\ IF c.item.k = "init" THEN Done(t) ELSE UNCHANGED task
    /\ UNCHANGED <<chokingVars, dst_finished, reader, dec, flt, sync, asleep, main>>

\* Encoders that get their frames through the sync queue.
Synced(dst) == dst[1] = "enc" /\ dst[2] \in graph.synced

\* tq_send, behind send_to_mux, send_to_filter, send_to_enc_thread and for packets
\* to decoders.  The EOF of a queue is followed by a call that finishes it.
SendItem(t) ==
    /\ Doing(t, "send")
    /\ LET c == Head(task[t].todo)
           after == IF c.dst[1] = "mux" THEN <<Progress(c.dst, c.item.ts)>> ELSE <<>>
       IN  /\ ~ Synced(c.dst) /\ (c.dst[1] = "enc" => c.dst \in opened)
           /\ IF c.dst[1] = "mux" /\ c.dst[2] \notin mux.started
              THEN /\ mux' = [mux EXCEPT !.pre[c.dst] = Append(@, c.item)]
                   /\ Replace(t, after)
                   /\ UNCHANGED <<q, closed, flt>>
              ELSE IF c.dst \in closed.recv
              THEN /\ closed' = [closed EXCEPT !.send = @ \cup {c.dst}]
                   /\ TurnAway(t, c.src, c.dst)
                   /\ UNCHANGED <<q, mux, flt>>
              ELSE /\ Len(q[Queue(c.dst)]) < QueueSize
                   /\ q' = [q EXCEPT ![Queue(c.dst)] = Append(@, <<c.dst, c.item>>)]
                   /\ Replace(t, after)
                   /\ flt' = IF t[1] = "filter" THEN [flt EXCEPT ![t[2]].got_frame = TRUE] ELSE flt
                   /\ UNCHANGED <<closed, mux>>
    /\ UNCHANGED <<chokingVars, dst_finished, reader, dec, opened, sync, asleep, main>>

\* The call with NULL: tq_send_finish, for a filtergraph under schedule_lock.
CloseInput(t) ==
    /\ Doing(t, "close")
    /\ ~ Synced(Head(task[t].todo).dst)
    /\ LET c     == Head(task[t].todo)
           after == IF c.dst[1] = "mux" THEN <<Call("source_finished", c.dst)>> ELSE <<>>
           s     == [sched EXCEPT !.send_finished = @ \cup {c.dst}]
           last  == {Node("fin", c.dst[2], k) : k \in 1 .. graph.filters[c.dst[2]].in} \subseteq s.send_finished
       IN  /\ dst_finished' = dst_finished \cup {<<c.src, c.dst>>}
           /\ Replace(t, after)
           /\ IF c.dst[1] = "mux" /\ c.dst[2] \notin mux.started
              THEN mux' = [mux EXCEPT !.pre[c.dst] = Append(@, EofItem)]
                   /\ UNCHANGED <<chokingVars, closed>>
              ELSE IF c.dst[1] = "fin"
              THEN IF c.dst \in sched.send_finished THEN UNCHANGED <<chokingVars, closed, mux>>
                   ELSE /\ closed' = [closed EXCEPT !.send = @ \cup {c.dst} \cup IF last THEN {Control(c.dst[2])} ELSE {}]
                        /\ ScheduleUpdate(s, frozen)
                        /\ UNCHANGED <<graph, terminate, mux>>
              ELSE /\ closed' = [closed EXCEPT !.send = @ \cup {c.dst}]
                   /\ frozen' = IF c.dst[1] = "dec" THEN frozen \ {c.dst[2]} ELSE frozen
                   /\ UNCHANGED <<graph, sched, choked, terminate, mux>>
    /\ UNCHANGED <<q, reader, dec, flt, opened, sync, asleep, main>>

\* send_to_mux at update_schedule.
UpdateProgress(t) ==
    /\ LET c == Head(task[t].todo)
       IN  \/ /\ Doing(t, "progress")
              /\ ScheduleUpdate([sched EXCEPT !.last_dts[c.node] = c.dts], frozen)
           \/ /\ Doing(t, "source_finished")
              /\ ScheduleUpdate([sched EXCEPT !.source_finished = @ \cup {c.node}], frozen)
    /\ Done(t)
    /\ UNCHANGED <<graph, terminate, q, closed, dst_finished, reader, dec, flt, opened, sync, mux, asleep, main>>

\* sch_filter_receive_finish.
ReceiveFinish(t) ==
    /\ Doing(t, "receive_finish")
    /\ LET n    == Head(task[t].todo).node
           s    == [sched EXCEPT !.receive_finished = @ \cup {n}]
           last == {Node("fin", n[2], k) : k \in 1 .. graph.filters[n[2]].in} \subseteq s.receive_finished
       IN  IF n \in sched.receive_finished THEN UNCHANGED <<chokingVars, closed>>
           ELSE /\ closed' = [closed EXCEPT !.recv = @ \cup {n} \cup IF last THEN {Control(n[2])} ELSE {}]
                /\ ScheduleUpdate(s, frozen)
                /\ UNCHANGED <<graph, terminate>>
    /\ Done(t)
    /\ UNCHANGED <<q, dst_finished, reader, dec, flt, opened, sync, mux, asleep, main>>

\* tq_receive_finish of all streams of a task's queue, or of one of a muxer; a
\* decoder no longer answers with end timestamps.
QueueDone(t) ==
    /\ Doing(t, "queue_done")
    /\ LET n == Head(task[t].todo).node
       IN  closed' = [closed EXCEPT !.recv = @ \cup IF n[3] = 0 THEN QueueStreams(t) ELSE {n}]
    /\ dec' = IF t[1] = "dec" THEN [dec EXCEPT ![t[2]].err = TRUE] ELSE dec
    /\ Done(t)
    /\ UNCHANGED <<chokingVars, q, dst_finished, reader, flt, opened, sync, mux, asleep, main>>

\* The end of demux_done and filter_done; the whole of mux_done under schedule_lock.
TaskExited(t) ==
    /\ Doing(t, "exited")
    /\ LET streams == QueueStreams(t)
       IN  IF t[1] = "mux"
           THEN /\ closed' = [closed EXCEPT !.recv = @ \cup streams]
                /\ ScheduleUpdate([sched EXCEPT !.source_finished = @ \cup streams], frozen)
           ELSE /\ closed' = closed
                /\ ScheduleUpdate([sched EXCEPT !.exited = @ \cup {t}], frozen)
    /\ Done(t)
    /\ UNCHANGED <<graph, terminate, q, dst_finished, reader, dec, flt, opened, sync, mux, asleep, main>>

\* Mutant: the streams of the muxers are counted.
TaskReport_Streams(t) ==
    /\ \/ Doing(t, "mux_done") /\ mux' = [mux EXCEPT !.done = @ + graph.mux[t[2]]] /\ UNCHANGED main
       \/ Doing(t, "failed") /\ main' = [main EXCEPT !.failed = TRUE] /\ UNCHANGED mux
    /\ Done(t)
    /\ UNCHANGED <<chokingVars, q, closed, dst_finished, reader, dec, flt, opened, sync, asleep>>

\* finish_lock: mux_done counts, task_wrapper reports a failure.
TaskReport(t) ==
    /\ \/ Doing(t, "mux_done") /\ mux' = [mux EXCEPT !.done = @ + 1] /\ UNCHANGED main
       \/ Doing(t, "failed") /\ main' = [main EXCEPT !.failed = TRUE] /\ UNCHANGED mux
    /\ Done(t)
    /\ UNCHANGED <<chokingVars, q, closed, dst_finished, reader, dec, flt, opened, sync, asleep>>

\* demux_flush: a flush packet to a decoder.
SendFlush(t) ==
    /\ Doing(t, "flush")
    /\ LET n == Head(task[t].todo).node
       IN  IF n \in closed.recv
           THEN closed' = [closed EXCEPT !.send = @ \cup {n}] /\ Goto(t, "over", <<>>) /\ UNCHANGED q
           ELSE /\ Len(q[Queue(n)]) < QueueSize
                /\ q' = [q EXCEPT ![Queue(n)] = Append(@, <<n, FlushItem>>)]
                /\ Done(t)
                /\ UNCHANGED closed
    /\ UNCHANGED <<chokingVars, dst_finished, reader, dec, flt, opened, sync, mux, asleep, main>>

\* demux_flush: wait for the end timestamp of the decoder.
AwaitEndTs(t) ==
    /\ Doing(t, "end_ts")
    /\ LET i == Head(task[t].todo).node[2]
       IN  \/ dec[i].end_ts > 0 /\ dec' = [dec EXCEPT ![i].end_ts = @ - 1] /\ Done(t)
           \/ dec[i].end_ts = 0 /\ dec[i].err /\ dec' = dec /\ Goto(t, "over", <<>>)
    /\ UNCHANGED <<chokingVars, q, closed, dst_finished, reader, flt, opened, sync, mux, asleep, main>>

\* sch_filter_choke_inputs, before the first configuration of the filtergraph.
ChokeInputs(t) ==
    /\ Doing(t, "choke_inputs")
    /\ ScheduleUpdate([sched EXCEPT !.best_input[t[2]] = NoInput(graph, t[2])], frozen)
    /\ Done(t)
    /\ UNCHANGED <<graph, terminate, q, closed, dst_finished, reader, dec, flt, opened, sync, mux, asleep, main>>

\* close_output: an encoder that never got a frame is opened with an empty one.
CloseOutput(t) ==
    /\ Doing(t, "close_output")
    /\ LET src  == Head(task[t].todo).node
           dst  == Dsts(graph, src)[1]
           init == IF flt[t[2]].got_frame \/ dst[1] # "enc" THEN <<>> ELSE <<Send(src, dst, InitItem)>>
       IN  Replace(t, IF <<src, dst>> \in dst_finished THEN <<>> ELSE init \o <<Close(src, dst)>>)
    /\ UNCHANGED <<chokingVars, q, closed, dst_finished, reader, dec, flt, opened, sync, mux, asleep, main>>

-----------------------------------------------------------------------------
(* The sync queue in front of some encoders (SyncQueue has the steps): a   *)
(* frame lasts from its timestamp to the next, 0 is the head of a stream   *)
(* without frames, end the timestamp of the limiting stream that ended     *)
(* first.  There is no limit on frames, and nothing is long enough for an  *)
(* overflow heartbeat.                                                     *)

SyncFinish(y, j) ==     \* finish_stream
    IF j \in graph.limiting /\ y.head[j] # 0
    THEN LET end == Min({y.head[j]} \cup y.end)
         IN  [y EXCEPT !.end = {end},
                       !.finished = @ \cup {j} \cup {k \in graph.synced : y.head[k] >= end}]
    ELSE [y EXCEPT !.finished = @ \cup {j}]

SyncTake(y, j, item) ==     \* sq_send
    LET z == [y EXCEPT !.head[j] = Max({@, item.ts + 1}), !.buf[j] = Append(@, item)]
    IN  IF \E end \in z.end : z.head[j] >= end THEN SyncFinish(z, j) ELSE z

SyncReady(y, j) ==      \* receive_for_stream
    y.buf[j] # <<>> /\ \A l \in graph.limiting : y.head[l] > Head(y.buf[j]).ts

\* send_to_enc_sq takes the lock and puts the frame, or the end, into the queue.
SyncSend(t) ==
    /\ Doing(t, "send") /\ sync.owner = {}
    /\ LET c == Head(task[t].todo)
           j == c.dst[2]
       IN  /\ Synced(c.dst) /\ c.dst \in opened
           /\ IF j \in sync.finished THEN TurnAway(t, c.src, c.dst) /\ UNCHANGED <<sync, flt>>
              ELSE /\ sync' = [SyncTake(sync, j, c.item) EXCEPT !.owner = {t}]
                   /\ Replace(t, <<[c EXCEPT !.op = "sync"]>>)
                   /\ flt' = [flt EXCEPT ![t[2]].got_frame = TRUE]
    /\ UNCHANGED <<chokingVars, q, closed, dst_finished, reader, dec, opened, mux, asleep, main>>

\* With NULL: the muxed stream counts as finished at once, as its end may have to wait
\* in the queue for the other streams.
SyncClose(t) ==
    \/ /\ Doing(t, "close") /\ Synced(Head(task[t].todo).dst)
       /\ LET c == Head(task[t].todo)
              n == CHOOSE n \in Range(Dsts(graph, c.dst)) : n[1] = "mux"
          IN  /\ dst_finished' = dst_finished \cup {<<c.src, c.dst>>}
              /\ Replace(t, <<Call("source_finished", n), [c EXCEPT !.op = "sync_close"]>>)
       /\ UNCHANGED sync
       /\ UNCHANGED <<chokingVars, q, closed, reader, dec, flt, opened, mux, asleep, main>>
    \/ /\ Doing(t, "sync_close") /\ sync.owner = {}
       /\ LET c == Head(task[t].todo)
          IN  /\ sync' = [SyncFinish(sync, c.dst[2]) EXCEPT !.owner = {t}]
              /\ Replace(t, <<[c EXCEPT !.op = "sync"]>>)
       /\ UNCHANGED <<chokingVars, q, closed, dst_finished, reader, dec, flt, opened, mux, asleep, main>>

\* The loop under the lock: a frame that may go on is sent to its encoder, which may
\* have ended; at the end of the queue all encoders are closed.
SyncHand(t) ==
    /\ Doing(t, "sync")
    /\ LET c     == Head(task[t].todo)
           ready == {j \in graph.synced : SyncReady(sync, j)}
           j     == Min(ready)
           n     == Node("enc", j, 1)
           taken == [sync EXCEPT !.buf[j] = Tail(@)]
       IN  IF ready # {}
           THEN /\ IF n \in closed.recv
                   THEN /\ closed' = [closed EXCEPT !.send = @ \cup {n}]
                        /\ sync' = SyncFinish(taken, j)
                        /\ UNCHANGED q
                   ELSE /\ Len(q[Queue(n)]) < QueueSize
                        /\ q' = [q EXCEPT ![Queue(n)] = Append(@, <<n, Head(sync.buf[j])>>)]
                        /\ sync' = taken
                        /\ UNCHANGED closed
                /\ UNCHANGED task
           ELSE /\ sync' = [sync EXCEPT !.owner = {}]
                /\ IF sync.finished = graph.synced
                   THEN /\ closed' = [closed EXCEPT !.send = @ \cup {Node("enc", k, 1) : k \in graph.synced}]
                        /\ IF <<c.src, c.dst>> \in dst_finished THEN Done(t) ELSE TurnAway(t, c.src, c.dst)
                   ELSE Done(t) /\ UNCHANGED closed
                /\ UNCHANGED q
    /\ UNCHANGED <<chokingVars, dst_finished, reader, dec, flt, opened, mux, asleep, main>>

-----------------------------------------------------------------------------
TaskCall(t) ==
    \/ OpenEncoder(t) \/ SendItem(t) \/ CloseInput(t) \/ UpdateProgress(t) \/ ReceiveFinish(t)
    \/ QueueDone(t) \/ TaskExited(t) \/ TaskReport(t) \/ SendFlush(t) \/ AwaitEndTs(t)
    \/ ChokeInputs(t) \/ CloseOutput(t) \/ SyncSend(t) \/ SyncClose(t) \/ SyncHand(t)

\* task_cleanup: demux_done, dec_done, filter_done, enc_done, mux_done.
CleanUp(t) ==
    LET close(type, n) == FlattenSeq([k \in 1 .. n |-> CloseAll(Node(type, t[2], k))])
    IN  CASE t[1] = "demux"          -> close("demux", graph.demux[t[2]]) \o <<Call("exited", NoNode)>>
          [] t[1] \in {"dec", "enc"} -> <<Call("queue_done", NoNode)>> \o close(t[1], 1)
          [] t[1] = "filter"         -> <<Call("queue_done", NoNode)>> \o close("fout", graph.filters[t[2]].out)
                                            \o <<Call("exited", NoNode)>>
          [] t[1] = "mux"            -> <<Call("exited", NoNode), Call("mux_done", NoNode)>>

\* task_wrapper of a task that fails: before its first turn or in the middle of
\* one, or with an encoder that cannot be opened.
Fail(t) ==
    /\ t \in graph.may_fail
    /\ \/ /\ Idle(t, CASE t[1] = "demux" -> "next" [] t[1] = "filter" -> "read" [] OTHER -> "receive")
          /\ t[1] = "mux" => t[2] \in mux.started
       \/ Doing(t, "send") /\ LET dst == Head(task[t].todo).dst IN dst[1] = "enc" /\ dst \notin opened
    /\ Goto(t, "gone", CleanUp(t) \o <<Call("failed", NoNode)>>)
    /\ UNCHANGED <<chokingVars, q, closed, dst_finished, reader, dec, flt, opened, sync, mux, asleep, main>>

-----------------------------------------------------------------------------
(* waiter_wait: choked is looked at without the lock, and the thread that  *)
(* was woken looks at terminate                                            *)

Returns(t, stop) ==
    \/ /\ t \notin asleep /\ t \notin choked
       /\ stop = FALSE /\ asleep' = asleep
    \/ /\ t \in asleep /\ (t \notin choked \/ terminate)
       /\ stop = terminate /\ asleep' = asleep \ {t}

FallAsleep(t) ==
    /\ \/ t[1] = "demux" /\ task[t].pc \in {"send", "loop"}
       \/ t[1] = "dec" /\ task[t].pc = "drain"
       \/ t[1] = "filter" /\ task[t].pc = "wait"
    /\ task[t].todo = <<>>
    /\ t \notin asleep /\ t \in choked
    /\ asleep' = asleep \cup {t}
    /\ UNCHANGED <<chokingVars, q, closed, dst_finished, task, reader, dec, flt, opened, sync, mux, main>>

\* A receiver blocked in tq_receive has dropped what it does not take.
Discard(t) ==
    /\ \/ /\ Idle(t, "receive") /\ t[1] # "dec"
          /\ t[1] = "filter" => /\ flt[t[2]].next # NoInput(graph, t[2])
                                /\ flt[t[2]].next = sched.best_input[t[2]]
       \/ Idle(t, "queue")
    /\ q[t] # <<>> /\ TqEmpty(t)
    /\ UNCHANGED <<chokingVars, closed, dst_finished, task, reader, dec, flt, opened, sync, mux, asleep, main>>

-----------------------------------------------------------------------------
(* input_thread                                                            *)

DemuxStream(d) == Node("demux", d, reader[d].stream)

\* The outcome of the last do_send, then the next packet of the bitstream filter
\* or of the file, then the end of the file.
DemuxNext(d) ==
    LET t    == <<"demux", d>>
        r    == reader[d]
        eof  == r.sent /\ AllFinished(DemuxStream(d))
        over == eof /\ r.nb_finished + 1 = graph.demux[d]
        gone == IF eof THEN r.finished \cup {r.stream} ELSE r.finished
        left == {p \in r.pos .. Len(graph.script[d]) : graph.script[d][p][1] \notin gone}
        p    == Min(left)
        done == [r EXCEPT !.sent = FALSE, !.finished = gone,
                          !.nb_finished = IF eof THEN @ + 1 ELSE @]
    IN  /\ Idle(t, "next")
        /\ \/ /\ over
              /\ reader' = [reader EXCEPT ![d] = done]
              /\ Goto(t, "over", <<>>)
           \/ /\ ~ over /\ r.rest # <<>>
              /\ reader' = [reader EXCEPT ![d] = done]
              /\ Goto(t, "send", <<>>)
           \/ /\ ~ over /\ r.rest = <<>> /\ left # {}
              /\ reader' = [reader EXCEPT ![d] = [done EXCEPT !.pos = p + 1,
                                !.stream = graph.script[d][p][1], !.rest = graph.script[d][p][2]]]
              /\ Goto(t, "send", <<>>)
           \/ /\ ~ over /\ r.rest = <<>> /\ left = {}
              /\ reader' = [reader EXCEPT ![d] = done]
              /\ Goto(t, IF r.loop > 0 THEN "loop" ELSE "over", <<>>)
        /\ UNCHANGED <<chokingVars, q, closed, dst_finished, dec, flt, opened, sync, mux, asleep, main>>

\* sch_demux_send with a packet, or at the end of the file with a flush.
FlushCalls(d) ==
    LET decoders(k) == LET open == Unfinished(Node("demux", d, k))
                       IN  Kept(open, {j \in DOMAIN open : open[j][1] = "dec"})
        calls(n)    == <<Call("flush", n)>> \o IF n[2] \in graph.end_ts THEN <<Call("end_ts", n)>> ELSE <<>>
    IN  FlattenSeq([k \in 1 .. graph.demux[d] |->
            FlattenSeq([j \in DOMAIN decoders(k) |-> calls(decoders(k)[j])])])

DemuxSend(d) ==
    LET t == <<"demux", d>>
        r == reader[d]
    IN  \E stop \in BOOLEAN :
        /\ task[t].pc \in {"send", "loop"} /\ task[t].todo = <<>>
        /\ Returns(t, stop)
        /\ \/ /\ stop
              /\ Goto(t, "over", <<>>)
              /\ UNCHANGED reader
           \/ /\ ~ stop /\ task[t].pc = "loop"
              /\ Goto(t, "flushed", FlushCalls(d))
              /\ UNCHANGED reader
           \/ /\ ~ stop /\ task[t].pc = "send"
              /\ Goto(t, "next", SendAll(DemuxStream(d), Item("data", r.rest[1] + r.shift, DemuxStream(d))))
              /\ reader' = [reader EXCEPT ![d].rest = Tail(@), ![d].sent = TRUE]
        /\ UNCHANGED <<chokingVars, q, closed, dst_finished, dec, flt, opened, sync, mux, main>>

\* seek_to_start.
DemuxLoop(d) ==
    /\ Idle(<<"demux", d>>, "flushed")
    /\ reader' = [reader EXCEPT ![d].pos = 1, ![d].loop = @ - 1, ![d].shift = @ + graph.period]
    /\ Goto(<<"demux", d>>, "next", <<>>)
    /\ UNCHANGED <<chokingVars, q, closed, dst_finished, dec, flt, opened, sync, mux, asleep, main>>

DemuxDone(d) ==
    /\ Idle(<<"demux", d>>, "over")
    /\ Goto(<<"demux", d>>, "gone", CleanUp(<<"demux", d>>))
    /\ UNCHANGED <<chokingVars, q, closed, dst_finished, reader, dec, flt, opened, sync, mux, asleep, main>>

-----------------------------------------------------------------------------
(* decoder_thread: sch_dec_receive and what is done with its result        *)

DecOut(i) == Node("dec", i, 1)

\* packet_decode, one frame per packet; a flush only resets the codec; at the end
\* an EOF frame, except from a decoder that was never initialised.
Decode(i, item, d) ==
    LET t == <<"dec", i>>
    IN  CASE item.k = "flush" -> /\ dec' = [dec EXCEPT ![i] = d]
                                 /\ Goto(t, "receive", <<>>)
          [] item.k = "eof"   -> /\ dec' = [dec EXCEPT ![i] = d]
                                 /\ Goto(t, "over", IF d.ready THEN SendAll(DecOut(i), EofItem) ELSE <<>>)
          [] OTHER            -> /\ dec' = [dec EXCEPT ![i] = [d EXCEPT !.ready = TRUE]]
                                 /\ Goto(t, "receive", SendAll(DecOut(i), item))

\* The first look at the overflow FIFO.
DecRetry(i) ==
    LET t == <<"dec", i>>
        d == dec[i]
    IN  /\ Idle(t, "receive")
        /\ \/ /\ AllFinished(DecOut(i))
              /\ Goto(t, "over", <<>>)
              /\ UNCHANGED dec
           \/ /\ ~ AllFinished(DecOut(i))
              /\ d.overflow # <<>> /\ (t \notin choked \/ d.expect_end_ts)
              /\ Decode(i, Head(d.overflow), [d EXCEPT !.overflow = Tail(@)])
           \/ /\ ~ AllFinished(DecOut(i))
              /\ ~ (d.overflow # <<>> /\ (t \notin choked \/ d.expect_end_ts))
              /\ dec' = [dec EXCEPT ![i] = IF d.expect_end_ts
                                           THEN [d EXCEPT !.expect_end_ts = FALSE, !.end_ts = @ + 1] ELSE d]
              /\ Goto(t, "queue", <<>>)
        /\ UNCHANGED <<chokingVars, q, closed, dst_finished, reader, flt, opened, sync, mux, asleep, main>>

\* tq_receive.
DecReceive(i) ==
    LET t == <<"dec", i>>
        d == dec[i]
    IN  /\ Idle(t, "queue")
        /\ \/ /\ TqGet(t)
              /\ LET item == First(t)[2]
                 IN  dec' = [dec EXCEPT ![i].hand = <<item>>,
                                        ![i].expect_end_ts = item.k = "flush" /\ i \in graph.end_ts]
              /\ Goto(t, "check", <<>>)
              /\ UNCHANGED closed
           \/ /\ TqEnd(t, DecOut(i)) \/ (TqOver(t) /\ UNCHANGED closed)
              /\ IF d.overflow # <<>> THEN Goto(t, "drain", <<>>) /\ UNCHANGED dec
                 ELSE Decode(i, EofItem, d)
        /\ UNCHANGED <<chokingVars, dst_finished, reader, flt, opened, sync, mux, asleep, main>>

\* Mutant: a packet overtakes those in the FIFO.
DecCheck_Overtakes(i) ==
    LET t == <<"dec", i>>
        d == [dec[i] EXCEPT !.hand = <<>>]
    IN  /\ Idle(t, "check")
        /\ IF t \in choked
           THEN /\ dec' = [dec EXCEPT ![i] = [d EXCEPT !.overflow = @ \o dec[i].hand]]
                /\ Goto(t, "receive", <<>>)
           ELSE Decode(i, dec[i].hand[1], d)
        /\ UNCHANGED <<chokingVars, q, closed, dst_finished, reader, flt, opened, sync, mux, asleep, main>>

\* The second look: choked, or behind what is in the FIFO already.
DecCheck(i) ==
    LET t == <<"dec", i>>
        d == [dec[i] EXCEPT !.hand = <<>>]
    IN  /\ Idle(t, "check")
        /\ IF t \in choked \/ d.overflow # <<>>
           THEN /\ dec' = [dec EXCEPT ![i] = [d EXCEPT !.overflow = @ \o dec[i].hand]]
                /\ Goto(t, "receive", <<>>)
           ELSE Decode(i, dec[i].hand[1], d)
        /\ UNCHANGED <<chokingVars, q, closed, dst_finished, reader, flt, opened, sync, mux, asleep, main>>

\* EOF with packets in the FIFO.
DecDrain(i) ==
    LET t == <<"dec", i>>
        d == dec[i]
    IN  \E stop \in BOOLEAN :
        /\ Idle(t, "drain")
        /\ Returns(t, stop)
        /\ IF stop THEN Decode(i, EofItem, d)
           ELSE Decode(i, Head(d.overflow), [d EXCEPT !.overflow = Tail(@)])
        /\ UNCHANGED <<chokingVars, q, closed, dst_finished, reader, flt, opened, sync, mux, main>>

DecDone(i) ==
    /\ Idle(<<"dec", i>>, "over")
    /\ Goto(<<"dec", i>>, "gone", CleanUp(<<"dec", i>>))
    /\ UNCHANGED <<chokingVars, q, closed, dst_finished, reader, dec, flt, opened, sync, mux, asleep, main>>

-----------------------------------------------------------------------------
(* encoder_thread: a packet per frame until the recording time is over     *)

EncReceive(j) ==
    LET t   == <<"enc", j>>
        src == Node("enc", j, 1)
        End(report) == Goto(t, "gone", CleanUp(t) \o report)
    IN  /\ Idle(t, "receive")
        /\ \/ /\ TqGet(t)
              /\ IF First(t)[2].ts < graph.enc_end[j]
                 THEN Goto(t, "receive", SendAll(src, First(t)[2]))
                 ELSE End(<<>>)
              /\ UNCHANGED closed
           \/ /\ TqEnd(t, src) \/ (TqOver(t) /\ UNCHANGED closed)
              \* "Could not open encoder before EOF"
              /\ End(IF src \in opened THEN <<>> ELSE <<Call("failed", NoNode)>>)
        /\ UNCHANGED <<chokingVars, dst_finished, reader, dec, flt, opened, sync, mux, asleep, main>>

-----------------------------------------------------------------------------
(* muxer_thread                                                            *)

MuxReceive(m) ==
    LET t == <<"mux", m>>
        End == Goto(t, "gone", CleanUp(t))
    IN  /\ Idle(t, "receive") /\ m \in mux.started
        /\ \/ /\ TqGet(t)
              /\ LET n == First(t)[1]
                     i == First(t)[2]
                 IN  \/ /\ i.ts >= graph.copy_end[n]      \* of_streamcopy
                        /\ Goto(t, "receive", <<Call("queue_done", n), Call("source_finished", n)>>)
                        /\ UNCHANGED mux
                     \/ /\ i.ts < graph.copy_end[n]
                        /\ i.ts >= graph.file_end[m]       \* limit_filesize
                        /\ End
                        /\ UNCHANGED mux
                     \/ /\ i.ts < graph.copy_end[n] /\ i.ts < graph.file_end[m]
                        /\ mux' = [mux EXCEPT !.written[n] = Append(@, i)]
                        /\ UNCHANGED task
              /\ UNCHANGED closed
           \/ /\ \E n \in QueueStreams(t) : TqEnd(t, n)
              /\ UNCHANGED <<task, mux>>
           \/ /\ TqOver(t)
              /\ End
              /\ UNCHANGED <<closed, mux>>
        /\ UNCHANGED <<chokingVars, dst_finished, reader, dec, flt, opened, sync, asleep, main>>

-----------------------------------------------------------------------------
(* libavfilter, as filter_thread sees it.  A configured graph takes a      *)
(* frame from each input and makes rate frames of the first: one when the  *)
(* last input comes in, the others when asked.  It ends after limit times, *)
(* or when an input that has ended is used up.                             *)

Lavfi(f) == graph.filters[f]

Fed(f, fl) == \A k \in 1 .. Lavfi(f).in : fl.buf[k] # <<>>

Cook(f, fl) ==
    IF fl.ripe # <<>> \/ fl.made = Lavfi(f).limit \/ ~ Fed(f, fl) THEN fl
    ELSE [fl EXCEPT !.buf  = [k \in DOMAIN @ |-> Tail(@[k])],
                    !.made = @ + 1,
                    !.ripe = [n \in 1 .. Lavfi(f).rate |->
                                IF Lavfi(f).in = 0 THEN Item("data", fl.made + 1, Node("fout", f, 1))
                                ELSE Head(fl.buf[1])]]

GraphEnded(f, fl) ==
    /\ fl.ripe = <<>>
    /\ fl.made = Lavfi(f).limit \/ \E k \in fl.eof_in : fl.buf[k] = <<>>

\* One frame to the buffer sinks, if there is one.
Emit(f, fl) ==
    LET c == Cook(f, fl)
    IN  IF c.ripe = <<>> THEN c
        ELSE [c EXCEPT !.ripe = Tail(@), !.sink = Append(@, Head(c.ripe))]

-----------------------------------------------------------------------------
(* filter_thread                                                           *)

FOut(f, o) == Node("fout", f, o)
Outputs(f) == 1 .. Lavfi(f).out
LiveOutputs(f) == Kept([o \in Outputs(f) |-> o], {o \in Outputs(f) : ~ AllFinished(FOut(f, o))})
CloseCalls(f) == LET l == LiveOutputs(f) IN [k \in DOMAIN l |-> Call("close_output", FOut(f, l[k]))]

\* Mutant: the wish is noted without an update.
FilterWish_NoUpdate(f) ==
    LET t == <<"filter", f>>
    IN  /\ Idle(t, "receive") /\ sched.best_input[f] # flt[f].next
        /\ sched' = [sched EXCEPT !.best_input[f] = flt[f].next]
        /\ UNCHANGED <<choked, frozen, graph, terminate, q, closed, dst_finished, task, reader, dec, flt,
                       opened, sync, mux, asleep, main>>

\* sch_filter_receive wants another input than the scheduler knows of.
FilterWish(f) ==
    LET t == <<"filter", f>>
    IN  /\ Idle(t, "receive") /\ sched.best_input[f] # flt[f].next
        /\ ScheduleUpdate([sched EXCEPT !.best_input[f] = flt[f].next], frozen)
        /\ UNCHANGED <<graph, terminate, q, closed, dst_finished, task, reader, dec, flt, opened, sync,
                       mux, asleep, main>>

\* send_frame: buffered until all formats are known, then the graph is configured.
SendFrame(f, k, item) ==
    LET t    == <<"filter", f>>
        fl   == flt[f]
        with == [fl EXCEPT !.format = @ \cup {k}, !.buf[k] = Append(@, item)]
        all  == with.format = 1 .. Lavfi(f).in
    IN  \/ /\ fl.configured /\ GraphEnded(f, fl)
           /\ flt' = [flt EXCEPT ![f].eof = @ \cup {k}]
           /\ Goto(t, "receive", <<Call("receive_finish", Node("fin", f, k))>>)
        \/ /\ fl.configured /\ ~ GraphEnded(f, fl)
           /\ flt' = [flt EXCEPT ![f] = Emit(f, with)]
           /\ Goto(t, "read", <<>>)
        \/ /\ ~ fl.configured /\ all
           /\ flt' = [flt EXCEPT ![f] = Emit(f, [with EXCEPT !.configured = TRUE])]
           /\ Goto(t, "read", <<Call("choke_inputs", NoNode)>>)
        \/ /\ ~ fl.configured /\ ~ all
           /\ flt' = [flt EXCEPT ![f] = with]
           /\ Goto(t, "read", <<>>)

\* send_eof: an input without a frame has the fallback format.
SendEof(f, k) ==
    LET fl   == flt[f]
        with == [fl EXCEPT !.eof_in = @ \cup {k}, !.format = @ \cup {k}]
    IN  /\ flt' = [flt EXCEPT ![f] =
                     IF fl.configured THEN with
                     ELSE IF with.format = 1 .. Lavfi(f).in
                     THEN Emit(f, [with EXCEPT !.configured = TRUE]) ELSE with]
        /\ Goto(<<"filter", f>>, "read", <<>>)

FilterInput(f, m) ==
    IF m[2].k = "eof" THEN SendEof(f, m[1][3]) ELSE SendFrame(f, m[1][3], m[2])

\* sch_filter_receive for an input: the EOFs of streams are disregarded.
FilterReceive(f) ==
    LET t == <<"filter", f>>
    IN  /\ Idle(t, "receive") /\ sched.best_input[f] = flt[f].next /\ flt[f].next # NoInput(graph, f)
        /\ \/ TqGet(t) /\ FilterInput(f, First(t)) /\ UNCHANGED closed
           \/ (\E n \in QueueStreams(t) : TqEnd(t, n)) /\ UNCHANGED <<task, flt>>
           \/ TqOver(t) /\ Goto(t, "over", <<>>) /\ UNCHANGED <<closed, flt>>
        /\ UNCHANGED <<chokingVars, dst_finished, reader, dec, opened, sync, mux, asleep, main>>

\* sch_filter_receive for no input in particular: take what is there, or wait to be
\* unchoked.
FilterPoll(f) ==
    LET t == <<"filter", f>>
    IN  /\ Idle(t, "receive") /\ sched.best_input[f] = flt[f].next /\ flt[f].next = NoInput(graph, f)
        /\ \/ TqGet(t) /\ FilterInput(f, First(t)) /\ UNCHANGED closed
           \/ /\ \/ \E n \in QueueStreams(t) : TqEnd(t, n)
                 \/ (TqEmpty(t) \/ TqOver(t)) /\ UNCHANGED closed
              /\ Goto(t, "wait", <<>>) /\ UNCHANGED flt
        /\ UNCHANGED <<chokingVars, dst_finished, reader, dec, opened, sync, mux, asleep, main>>

FilterWait(f) ==
    LET t == <<"filter", f>>
    IN  \E stop \in BOOLEAN :
        /\ Idle(t, "wait")
        /\ Returns(t, stop)
        /\ Goto(t, IF stop THEN "over" ELSE "read", <<>>)
        /\ UNCHANGED <<chokingVars, q, closed, dst_finished, reader, dec, flt, opened, sync, mux, main>>

\* read_frames: without a graph, ask for an input without format; else everything
\* in the buffer sinks is sent.
ReadFrames(f) ==
    LET t == <<"filter", f>>
        fl == flt[f]
        missing == 1 .. Lavfi(f).in \ fl.format
        live == LiveOutputs(f)
        frames(o) == IF o \in Lavfi(f).dry THEN <<>>
                     ELSE [n \in DOMAIN fl.sink |-> Send(FOut(f, o), Dsts(graph, FOut(f, o))[1], fl.sink[n])]
    IN  /\ Idle(t, "read")
        /\ \/ /\ ~ fl.configured
              /\ flt' = [flt EXCEPT ![f].next = Min(missing)]
              /\ Goto(t, "receive", <<>>)
           \/ /\ fl.configured /\ live = <<>>
              /\ Goto(t, "over", <<>>) /\ UNCHANGED flt
           \/ /\ fl.configured /\ live # <<>>
              /\ flt' = [flt EXCEPT ![f].sink = <<>>]
              /\ Goto(t, "request",
                      FlattenSeq([k \in DOMAIN live |->
                          frames(live[k]) \o IF GraphEnded(f, fl) THEN <<Call("close_output", FOut(f, live[k]))>>
                                             ELSE <<>>]))
        /\ UNCHANGED <<chokingVars, q, closed, dst_finished, reader, dec, opened, sync, mux, asleep, main>>

\* avfilter_graph_request_oldest, choose_input, and the inputs that no longer take
\* data are closed.
RequestFrame(f) ==
    LET t   == <<"filter", f>>
        fl  == Cook(f, flt[f])
        now == Emit(f, flt[f])
        shut(x) == IF GraphEnded(f, x)
                   THEN Kept([k \in 1 .. Lavfi(f).in |-> k], (1 .. Lavfi(f).in) \ x.eof) ELSE <<>>
        Shut(x) == /\ flt' = [flt EXCEPT ![f] = [x EXCEPT !.eof = @ \cup Range(shut(x))]]
                   /\ Goto(t, "receive", [k \in DOMAIN shut(x) |->
                                            Call("receive_finish", Node("fin", f, shut(x)[k]))])
    IN  /\ Idle(t, "request")
        /\ \/ /\ fl.ripe # <<>>
              /\ Shut([now EXCEPT !.next = NoInput(graph, f)])
           \/ /\ fl.ripe = <<>> /\ GraphEnded(f, fl)
              /\ Goto(t, "over", <<>>) /\ UNCHANGED flt
           \/ /\ fl.ripe = <<>> /\ ~ GraphEnded(f, fl)
              /\ \E k \in {i \in 1 .. Lavfi(f).in \ fl.eof_in : fl.buf[i] = <<>>} :
                    Shut([fl EXCEPT !.next = k])
        /\ UNCHANGED <<chokingVars, q, closed, dst_finished, reader, dec, opened, sync, mux, asleep, main>>

\* The end of filter_thread: the outputs of a configured graph are closed first.
FilterDone(f) ==
    LET t == <<"filter", f>>
    IN  /\ Idle(t, "over")
        /\ Goto(t, "gone", IF flt[f].configured
                           THEN CloseCalls(f) \o <<Call("queue_done", NoNode), Call("exited", NoNode)>>
                           ELSE CleanUp(t))
        /\ UNCHANGED <<chokingVars, q, closed, dst_finished, reader, dec, flt, opened, sync, mux, asleep, main>>

-----------------------------------------------------------------------------
(* The main thread: the end of sch_start, transcode and sch_stop           *)

MainStep(from, to) == main.pc = from /\ main' = [main EXCEPT !.pc = to]

FirstUpdate ==
    /\ MainStep("start", "wait")
    /\ ScheduleUpdate(sched, frozen)
    /\ UNCHANGED <<graph, terminate, q, closed, dst_finished, task, reader, dec, flt, opened, sync, mux, asleep>>

\* A signal or 'q'.
Quit ==
    /\ main.pc = "wait" /\ graph.may_quit /\ ~ main.quit
    /\ main' = [main EXCEPT !.quit = TRUE]
    /\ UNCHANGED <<chokingVars, q, closed, dst_finished, task, reader, dec, flt, opened, sync, mux, asleep>>

\* sch_wait says that all muxers are done or a task failed, or there was a signal.
Terminate ==
    /\ mux.done = Len(graph.mux) \/ main.failed \/ main.quit
    /\ MainStep("wait", "choke")
    /\ terminate' = TRUE
    /\ UNCHANGED <<graph, sched, choked, frozen, q, closed, dst_finished, task, reader, dec, flt,
                   opened, sync, mux, asleep>>

ChokeAll ==
    /\ MainStep("choke", "join")
    /\ ChokeForStop
    /\ UNCHANGED <<q, closed, dst_finished, task, reader, dec, flt, opened, sync, mux, asleep>>

Ended(t) == \/ task[t].pc = "gone" /\ task[t].todo = <<>>
            \/ t[1] = "mux" /\ t[2] \notin mux.started

\* task_stop of every task.
Join ==
    /\ \A t \in DOMAIN task : Ended(t)
    /\ MainStep("join", "stopped")
    /\ UNCHANGED <<chokingVars, q, closed, dst_finished, task, reader, dec, flt, opened, sync, mux, asleep>>

MainNext == FirstUpdate \/ Terminate \/ ChokeAll \/ Join

-----------------------------------------------------------------------------
TaskNext(t) ==
    /\ main.pc # "refused" /\ t \in DOMAIN task
    /\ \/ TaskCall(t) \/ Fail(t) \/ FallAsleep(t) \/ Discard(t)
       \/ t[1] = "demux" /\ (DemuxNext(t[2]) \/ DemuxSend(t[2]) \/ DemuxLoop(t[2]) \/ DemuxDone(t[2]))
       \/ t[1] = "dec" /\ (DecRetry(t[2]) \/ DecReceive(t[2]) \/ DecCheck(t[2]) \/ DecDrain(t[2])
                             \/ DecDone(t[2]))
       \/ t[1] = "enc" /\ EncReceive(t[2])
       \/ t[1] = "mux" /\ MuxReceive(t[2])
       \/ t[1] = "filter" /\ (FilterWish(t[2]) \/ FilterReceive(t[2]) \/ FilterPoll(t[2])
                                \/ FilterWait(t[2]) \/ ReadFrames(t[2]) \/ RequestFrame(t[2])
                                \/ FilterDone(t[2]))

Init ==
    /\ graph \in Graphs
    /\ ChokingInit
    /\ q = [t \in Tasks(graph) |-> <<>>]
    /\ closed = [send |-> {}, recv |-> {}]
    /\ dst_finished = {}
    /\ task = [t \in Tasks(graph) |-> [pc |-> IF t[1] = "demux" THEN "next" ELSE "receive", todo |-> <<>>]]
    /\ reader = [d \in DOMAIN graph.demux |->
                   [pos |-> 1, stream |-> 1, rest |-> <<>>, sent |-> FALSE, finished |-> {},
                    nb_finished |-> 0, loop |-> graph.loops, shift |-> 0]]
    /\ dec = [i \in 1 .. graph.nb_dec |->
                [overflow |-> <<>>, hand |-> <<>>, expect_end_ts |-> FALSE, end_ts |-> 0,
                 err |-> FALSE, ready |-> i \notin graph.standalone]]
    /\ flt = [f \in DOMAIN graph.filters |->
                [format |-> {}, configured |-> graph.filters[f].in = 0, eof_in |-> {}, eof |-> {},
                 next |-> 1, got_frame |-> FALSE, made |-> 0, ripe |-> <<>>, sink |-> <<>>,
                 buf |-> [k \in 1 .. graph.filters[f].in |-> <<>>]]]
    /\ opened = {}
    /\ sync = [owner |-> {}, finished |-> {}, end |-> {}, head |-> [j \in graph.synced |-> 0],
               buf |-> [j \in graph.synced |-> <<>>]]
    /\ mux = [started |-> {m \in DOMAIN graph.mux :
                             \A k \in 1 .. graph.mux[m] : SrcOf(graph, Node("mux", m, k))[1] # "enc"},
              pre |-> [n \in Streams(graph, "mux") |-> <<>>],
              written |-> [n \in Streams(graph, "mux") |-> <<>>],
              done |-> 0]
    /\ asleep = {}
    /\ main = [pc |-> IF StartPrepare(graph) THEN "start" ELSE "refused", failed |-> FALSE, quit |-> FALSE]

AllTasks == Types \X (1 .. MaxTasks)

\* The end: nothing is left to do.
Finished == main.pc \in {"stopped", "refused"} /\ UNCHANGED vars

Next == Quit \/ MainNext \/ (\E t \in AllTasks : TaskNext(t)) \/ Finished

\* Some thread that can run does; a user need not stop anything.
Fairness == WF_vars(MainNext \/ \E t \in AllTasks : TaskNext(t))

Spec == Init /\ [][Next]_vars /\ Fairness

-----------------------------------------------------------------------------
(* Properties                                                              *)

TypeOK ==
    /\ choked \subseteq Waiters(graph) /\ asleep \subseteq Waiters(graph)
    /\ frozen \subseteq 1 .. graph.nb_dec
    /\ opened \subseteq Streams(graph, "enc")
    /\ \A t \in DOMAIN q : \A i \in DOMAIN q[t] : q[t][i][1] \in QueueStreams(t)
    /\ sched.source_finished \subseteq Streams(graph, "mux")
    /\ \A f \in DOMAIN graph.filters : sched.best_input[f] \in 1 .. NoInput(graph, f)
    /\ mux.done \in 0 .. Len(graph.mux)

\* Every packet of an output stream was produced for it and none was lost, swapped or
\* repeated on the way; unless the program is told to stop or something breaks, all of it
\* arrives and no task fails.
Whole ==
    \A n \in DOMAIN mux.written :
        LET ts == [i \in DOMAIN mux.written[n] |-> mux.written[n][i].ts]
        IN  /\ IsPrefix(ts, graph.expect[n])
            /\ main.pc = "stopped" /\ ~ main.quit /\ graph.may_fail = {} =>
                  ts = graph.expect[n] /\ ~ main.failed

\* Nobody sends on a stream that was finished for sending (tq_send would refuse with
\* EINVAL), the sync queue for its encoders included.
Orderly ==
    /\ \A t \in DOMAIN task : Doing(t, "send") =>
          LET c == Head(task[t].todo)
          IN  c.dst \in closed.send /\ ~ Synced(c.dst) =>
                c.dst \in closed.recv /\ <<c.src, c.dst>> \notin dst_finished
    /\ sync.owner # {} => \A j \in graph.synced :
          SyncReady(sync, j) /\ Node("enc", j, 1) \in closed.send => Node("enc", j, 1) \in closed.recv

\* The waiters upstream of a source, as far as what feeds it at present: through the input
\* that a filtergraph wants next, up to a demuxer or to a filtergraph that wants none.
Feeders ==
    LET up[src \in Sources(graph)] ==
          CASE src[1] = "demux" -> {<<"demux", src[2]>>}
            [] src[1] = "dec"   -> {<<"dec", src[2]>>} \cup up[SrcOf(graph, Node("dec", src[2], 1))]
            [] src[1] = "enc"   -> up[SrcOf(graph, src)]
            [] src[1] = "fout"  -> IF sched.best_input[src[2]] = NoInput(graph, src[2])
                                   THEN {<<"filter", src[2]>>}
                                   ELSE up[Wanted(graph, sched, src[2])]
    IN  up

\* An output stream that trails is fed: whatever it gets its packets from, all the way up
\* through the inputs that filtergraphs want by now, is let go, and no decoder on the way
\* finds its queue frozen.  Decisions made for an earlier wish, or for another demuxer, do
\* not hold up the one output that all others wait for.
TrailingFed ==
    LET feeders == Feeders
        held    == choked \cup ({"dec"} \X frozen)
    IN  ~ terminate /\ main.pc \notin {"start", "refused"} =>
            \A n \in Streams(graph, "mux") : MayProceed(sched, n) => feeders[SrcOf(graph, n)] \cap held = {}

\* Rate control: an unfinished output is ahead of the one that trails by no more than
\* the tolerance and what was under way when its source was choked.
Paced ==
    \A m, n \in Streams(graph, "mux") \ sched.source_finished :
        sched.last_dts[m] # NOPTS /\ sched.last_dts[n] # NOPTS =>
            sched.last_dts[m] - sched.last_dts[n] < Tolerance + graph.slack

\* sch_start accepts a graph exactly if every stream is connected and no filtergraph
\* depends on itself.
RefusesCycles ==
    main.pc \in {"start", "refused"} =>
        ((main.pc = "refused") <=>
            \/ \E src \in Sources(graph) : Dsts(graph, src) = <<>>
            \/ \E dst \in Sinks(graph) : SrcOf(graph, dst) = NoNode
            \/ HasCycle(graph))

\* close_output: when "no frames were ever seen at this output" it shall "at least
\* initialize the encoder with a dummy frame" (ffmpeg_filter.c), so that no encoder
\* comes to the end of its frames unopened, unless the program stops or a task fails.
OutputsInitialized ==
    ~ terminate /\ graph.may_fail = {} =>
        \A f \in DOMAIN graph.filters : \A o \in 1 .. graph.filters[f].out :
            \A dst \in Range(Dsts(graph, FOut(f, o))) :
                dst[1] = "enc" /\ dst \in closed.send => dst \in opened

\* Once all muxers are done, a task has failed or the user stops the program, every
\* thread comes to its end.
Stops == <>(main.pc \in {"stopped", "refused"})
=============================================================================
