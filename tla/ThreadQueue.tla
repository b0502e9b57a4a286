----------------------------- MODULE ThreadQueue -----------------------------
(***************************************************************************)
(* thread_queue.c: the bounded multi-stream queue that connects every pair *)
(* of ffmpeg tasks.  All its functions run under tq->lock, so an action is *)
(* one critical section: from the lock to the unlock, or to the            *)
(* pthread_cond_wait that releases it.  A thread that waits is woken by a  *)
(* broadcast (or spuriously) and then re-runs the loop it waits in.        *)
(*                                                                         *)
(* Producers call tq_send / tq_send_finish, one consumer calls tq_receive  *)
(* / tq_receive_finish, and the scheduler calls tq_choke at any time.      *)
(* Decoder queues have two producers for one stream: the demuxer and, with *)
(* subtitle heartbeats, a muxer (sch_mux_sub_heartbeat).                   *)
(***************************************************************************)
EXTENDS Integers, Sequences

CONSTANTS
    Producers,      \* threads that send
    Consumer,       \* the thread that receives
    NbStreams,      \* tq->nb_streams
    QueueSize,      \* queue_size given to tq_alloc
    Feeds,          \* <<p, s>>: producer p sends for stream s
    MaxItems,       \* BOUND: no send for s is begun once MaxItems were accepted
    AllocFails      \* may av_container_fifo_write fail with ENOMEM?

Streams == 0 .. NbStreams - 1
Threads == Producers \cup {Consumer}

ASSUME ThreadsAssumption == Consumer \notin Producers
ASSUME SizeAssumption == NbStreams \in Nat \ {0} /\ QueueSize \in Nat \ {0}
ASSUME FeedsAssumption == Feeds \subseteq Producers \X Streams
ASSUME MaxItemsAssumption == MaxItems \in Nat
ASSUME AllocFailsAssumption == AllocFails \in BOOLEAN

VARIABLES
    choked,             \* tq->choked
    finished,           \* tq->finished[s], a set of the two flag bits
    fifo,               \* tq->fifo: the items
    fifoStreamIndex,    \* tq->fifo_stream_index: the stream of each item
    pc,                 \* where each thread is: outside the queue, in cond_wait...
    call,               \* the stream_idx argument of a producer's current call
    sent,               \* history: items accepted for each stream
    got,                \* history: number of the last item delivered
    eofs                \* history: end-of-stream marks delivered

vars == <<choked, finished, fifo, fifoStreamIndex, pc, call, sent, got, eofs>>

SEND == "FINISHED_SEND"
RECV == "FINISHED_RECV"

Item == [stream : Streams, n : Nat]

TypeOK ==
    /\ choked \in BOOLEAN
    /\ finished \in [Streams -> SUBSET {SEND, RECV}]
    /\ fifo \in Seq(Item)
    /\ fifoStreamIndex \in Seq(Streams)
    /\ pc \in [Threads -> {"idle", "waiting", "woken", "done"}]
    /\ call \in [Producers -> Streams]
    /\ sent \in [Streams -> Nat]
    /\ got \in [Streams -> Nat]
    /\ eofs \in [Streams -> Nat]

Init ==     \* tq_alloc
    /\ choked = FALSE
    /\ finished = [s \in Streams |-> {}]
    /\ fifo = <<>>
    /\ fifoStreamIndex = <<>>
    /\ pc = [t \in Threads |-> "idle"]
    /\ call = [p \in Producers |-> 0]
    /\ sent = [s \in Streams |-> 0]
    /\ got = [s \in Streams |-> 0]
    /\ eofs = [s \in Streams |-> 0]

SendFinished(s) == SEND \in finished[s]
RecvFinished(s) == RECV \in finished[s]

CanWrite == Len(fifoStreamIndex) < QueueSize

\* pthread_cond_broadcast
Broadcast == [t \in Threads |-> IF pc[t] = "waiting" THEN "woken" ELSE pc[t]]

-----------------------------------------------------------------------------
(* Producers: tq_send, tq_send_finish                                      *)

\* while (!RECV && full) pthread_cond_wait()
SendWait(p, s) ==
    /\ ~RecvFinished(s)
    /\ ~CanWrite
    /\ pc' = [pc EXCEPT ![p] = "waiting"]
    /\ call' = [call EXCEPT ![p] = s]
    /\ UNCHANGED <<choked, finished, fifo, fifoStreamIndex, sent, got, eofs>>

\* the receiver is finished with s: AVERROR_EOF, and no sends from now on
SendEof(p, s) ==
    /\ RecvFinished(s)
    /\ finished' = [finished EXCEPT ![s] = @ \cup {SEND}]
    /\ pc' = [pc EXCEPT ![p] = "idle"]
    /\ UNCHANGED <<choked, fifo, fifoStreamIndex, call, sent, got, eofs>>

\* Mutant: the index written is one too high.
SendWrite_IndexOffByOne(p, s) ==
    /\ ~RecvFinished(s)
    /\ CanWrite
    /\ fifoStreamIndex' = Append(fifoStreamIndex, s + 1)
    /\ fifo' = Append(fifo, [stream |-> s, n |-> sent[s] + 1])
    /\ sent' = [sent EXCEPT ![s] = @ + 1]
    /\ pc' = [Broadcast EXCEPT ![p] = "idle"]
    /\ UNCHANGED <<choked, finished, call, got, eofs>>

SendWrite(p, s) ==
    /\ ~RecvFinished(s)
    /\ CanWrite
    /\ fifoStreamIndex' = Append(fifoStreamIndex, s)
    /\ fifo' = Append(fifo, [stream |-> s, n |-> sent[s] + 1])
    /\ sent' = [sent EXCEPT ![s] = @ + 1]
    /\ pc' = [Broadcast EXCEPT ![p] = "idle"]
    /\ UNCHANGED <<choked, finished, call, got, eofs>>

\* av_container_fifo_write fails after the index was written: the index stays
SendNoMem(p, s) ==
    /\ AllocFails
    /\ ~RecvFinished(s)
    /\ CanWrite
    /\ fifoStreamIndex' = Append(fifoStreamIndex, s)
    /\ pc' = [pc EXCEPT ![p] = "idle"]
    /\ UNCHANGED <<choked, finished, fifo, call, sent, got, eofs>>

SendLoop(p, s) ==
    SendWait(p, s) \/ SendEof(p, s) \/ SendWrite(p, s) \/ SendNoMem(p, s)

\* A call for a send-finished stream returns EINVAL and changes nothing.
Send(p, s) ==
    /\ pc[p] = "idle"
    /\ <<p, s>> \in Feeds
    /\ sent[s] < MaxItems
    /\ ~SendFinished(s)
    /\ SendLoop(p, s)

\* Back from pthread_cond_wait: only the loop condition is looked at again.
SendResume(p) ==
    /\ pc[p] = "woken"
    /\ SendLoop(p, call[p])

\* Mutant: nobody is woken when a stream is finished.
SendFinish_NoBroadcast(p, s) ==
    /\ pc[p] = "idle"
    /\ <<p, s>> \in Feeds
    /\ finished' = [finished EXCEPT ![s] = @ \cup {SEND}]
    /\ choked' = FALSE
    /\ UNCHANGED <<fifo, fifoStreamIndex, pc, call, sent, got, eofs>>

SendFinish(p, s) ==
    /\ pc[p] = "idle"
    /\ <<p, s>> \in Feeds
    /\ finished' = [finished EXCEPT ![s] = @ \cup {SEND}]
    /\ choked' = FALSE
    /\ pc' = Broadcast
    /\ UNCHANGED <<fifo, fifoStreamIndex, call, sent, got, eofs>>

-----------------------------------------------------------------------------
(* The consumer: tq_receive (receive_locked), tq_receive_finish            *)

Live(k) == ~RecvFinished(fifoStreamIndex[k])

\* Mutant: any live item, not the first.
FirstLive_Any(k) == k \in 1 .. Len(fifo) /\ Live(k)

\* The number of items receive_locked takes out: up to the first whose stream
\* is not receive-finished, or all of them.
FirstLive(k) == /\ k \in 1 .. Len(fifo)
                /\ Live(k)
                /\ \A j \in 1 .. k - 1 : ~Live(j)

NoneLive == \A k \in 1 .. Len(fifo) : ~Live(k)

Drop(seq, k) == SubSeq(seq, k + 1, Len(seq))

\* Mutant: the index of the item delivered stays in its FIFO.
ReceiveItem_IndexKept ==
    /\ ~choked
    /\ \E k \in 1 .. Len(fifo) :
         /\ FirstLive(k)
         /\ fifo' = Drop(fifo, k)
         /\ fifoStreamIndex' = Drop(fifoStreamIndex, k - 1)
         /\ got' = [got EXCEPT ![fifoStreamIndex[k]] = fifo[k].n]
    /\ pc' = [Broadcast EXCEPT ![Consumer] = "idle"]
    /\ UNCHANGED <<choked, finished, call, sent, eofs>>

\* Mutant: the senders are not told of the room.
ReceiveItem_NoBroadcast ==
    /\ ~choked
    /\ \E k \in 1 .. Len(fifo) :
         /\ FirstLive(k)
         /\ fifo' = Drop(fifo, k)
         /\ fifoStreamIndex' = Drop(fifoStreamIndex, k)
         /\ got' = [got EXCEPT ![fifoStreamIndex[k]] = fifo[k].n]
    /\ pc' = [pc EXCEPT ![Consumer] = "idle"]
    /\ UNCHANGED <<choked, finished, call, sent, eofs>>

ReceiveItem ==
    /\ ~choked
    /\ \E k \in 1 .. Len(fifo) :
         /\ FirstLive(k)
         /\ fifo' = Drop(fifo, k)
         /\ fifoStreamIndex' = Drop(fifoStreamIndex, k)
         /\ got' = [got EXCEPT ![fifoStreamIndex[k]] = fifo[k].n]
    /\ pc' = [Broadcast EXCEPT ![Consumer] = "idle"]
    /\ UNCHANGED <<choked, finished, call, sent, eofs>>

\* The read loop ran the FIFO empty, dropping what it took out.
DropAll ==
    /\ NoneLive
    /\ fifo' = <<>>
    /\ fifoStreamIndex' = Drop(fifoStreamIndex, Len(fifo))

BroadcastIfDropped == IF fifo = <<>> THEN pc ELSE Broadcast

EofPending(s) == SendFinished(s) /\ ~RecvFinished(s)

AllReceived == \A s \in Streams : RecvFinished(s)

\* EOF for the first stream that is finished by its sender only
ReceiveEof ==
    /\ ~choked
    /\ DropAll
    /\ \E s \in Streams :
         /\ EofPending(s)
         /\ \A r \in 0 .. s - 1 : ~EofPending(r)
         /\ finished' = [finished EXCEPT ![s] = @ \cup {RECV}]
         /\ eofs' = [eofs EXCEPT ![s] = @ + 1]
    /\ pc' = [BroadcastIfDropped EXCEPT ![Consumer] = "idle"]
    /\ UNCHANGED <<choked, call, sent, got>>

\* EOF with stream_idx -1: all streams are done
ReceiveDone ==
    /\ ~choked
    /\ DropAll
    /\ AllReceived
    /\ pc' = [BroadcastIfDropped EXCEPT ![Consumer] = "done"]
    /\ UNCHANGED <<choked, finished, call, sent, got, eofs>>

\* EAGAIN: wait, or return at once when the caller asked for NO_BLOCK
ReceiveAgain(noBlock) ==
    /\ \/ choked /\ UNCHANGED <<fifo, fifoStreamIndex>>
       \/ ~choked /\ DropAll /\ ~AllReceived /\ \A s \in Streams : ~EofPending(s)
    /\ pc' = [(IF choked THEN pc ELSE BroadcastIfDropped)
                EXCEPT ![Consumer] = IF noBlock THEN "idle" ELSE "waiting"]
    /\ UNCHANGED <<choked, finished, call, sent, got, eofs>>

Receive ==
    /\ pc[Consumer] \in {"idle", "woken"}
    /\ \/ ReceiveItem
       \/ ReceiveEof
       \/ ReceiveDone
       \/ ReceiveAgain(FALSE)

\* sch_filter_receive polls with THREAD_QUEUE_FLAG_NO_BLOCK
ReceivePoll ==
    /\ pc[Consumer] = "idle"
    /\ \/ ReceiveItem
       \/ ReceiveEof
       \/ ReceiveDone
       \/ ReceiveAgain(TRUE)

\* Mutant: nobody is woken when the consumer gives a stream up.
ReceiveFinish_NoBroadcast(s) ==
    /\ pc[Consumer] \in {"idle", "done"}
    /\ finished' = [finished EXCEPT ![s] = @ \cup {RECV}]
    /\ UNCHANGED <<choked, fifo, fifoStreamIndex, pc, call, sent, got, eofs>>

ReceiveFinish(s) ==
    /\ pc[Consumer] \in {"idle", "done"}
    /\ finished' = [finished EXCEPT ![s] = @ \cup {RECV}]
    /\ pc' = Broadcast
    /\ UNCHANGED <<choked, fifo, fifoStreamIndex, call, sent, got, eofs>>

-----------------------------------------------------------------------------
(* The scheduler, and the condition variable                               *)

\* Mutant: the consumer is not told that the queue is unchoked.
Choke_NoBroadcast(c) ==
    /\ choked' = c
    /\ UNCHANGED <<finished, fifo, fifoStreamIndex, pc, call, sent, got, eofs>>

Choke(c) ==
    /\ choked' = c
    /\ pc' = IF c # choked THEN Broadcast ELSE pc
    /\ UNCHANGED <<finished, fifo, fifoStreamIndex, call, sent, got, eofs>>

\* POSIX: pthread_cond_wait may return without a broadcast.
SpuriousWakeup(t) ==
    /\ pc[t] = "waiting"
    /\ pc' = [pc EXCEPT ![t] = "woken"]
    /\ UNCHANGED <<choked, finished, fifo, fifoStreamIndex, call, sent, got, eofs>>

Next ==
    \/ \E p \in Producers, s \in Streams : Send(p, s) \/ SendFinish(p, s)
    \/ \E p \in Producers : SendResume(p)
    \/ Receive
    \/ ReceivePoll
    \/ \E s \in Streams : ReceiveFinish(s)
    \/ \E c \in BOOLEAN : Choke(c)
    \/ \E t \in Threads : SpuriousWakeup(t)

Spec == Init /\ [][Next]_vars

\* A thread inside a call goes on when it can, and the consumer, whose thread
\* calls tq_receive in a loop, also begins the next call; nothing obliges anyone
\* to send, to finish, to choke or to unchoke.
Fairness ==
    /\ WF_vars(Receive)
    /\ \A p \in Producers : WF_vars(SendResume(p))

FairSpec == Spec /\ Fairness

-----------------------------------------------------------------------------
(* Properties                                                              *)

\* No wake-up is lost.  A producer asleep in tq_send has nothing to do: the
\* queue is still full and its stream still read.  receive_locked sets
\* FINISHED_RECV, and tq_send FINISHED_SEND, without a broadcast: this says
\* that neither strands a sleeper.
SenderSleepsForAReason ==
    \A p \in Producers :
        pc[p] = "waiting" => ~CanWrite /\ ~RecvFinished(call[p])

\* The same of the consumer asleep in tq_receive: choked, or nothing to
\* deliver, no end-of-stream to report and some stream still open.
ReceiverSleepsForAReason ==
    pc[Consumer] = "waiting" =>
        choked \/ ( /\ NoneLive
                    /\ ~AllReceived
                    /\ \A s \in Streams : ~EofPending(s) )

\* The index read with an item is that of the stream it was sent for
\* (thread_queue.h: *stream_idx is "the index of the stream that was
\* processed"), which needs the two FIFOs to be written and read in step.
IndexMatchesItem ==
    \A k \in 1 .. Len(fifo) : fifo[k].stream = fifoStreamIndex[k]

\* The end-of-stream mark comes after every item: also those of a second
\* producer that was asleep in tq_send when the first one finished the stream.
\* And it comes at most once (thread_queue.h, tq_receive).
EofAfterEveryItem ==
    \A s \in Streams : eofs[s] > 0 => eofs[s] = 1 /\ RecvFinished(s) /\ got[s] = sent[s]

\* The queue implements one reliable channel per stream.
Channel == INSTANCE StreamChannel WITH
    closed <- {s \in Streams : SendFinished(s)},
    ended <- {s \in Streams : RecvFinished(s)}

ChannelSpec == Channel!ASpec

\* A finished stream is eventually ended, unless it is choked again and again.
FinishedStreamEnds ==
    <>[](~choked) =>
        \A s \in Streams : SendFinished(s) ~> RecvFinished(s)

\* A tq_send that went to sleep comes back, unless the queue is choked again
\* and again: the consumer drains it or gives the stream up.
SendReturns ==
    <>[](~choked) =>
        \A p \in Producers : pc[p] = "waiting" ~> pc[p] = "idle"

-----------------------------------------------------------------------------
(* The inductive invariant behind these properties, when no allocation     *)
(* fails: what the FIFOs hold is, for each stream still read, exactly what *)
(* was accepted and not yet delivered, in order.                           *)

FifosInStep == Len(fifo) = Len(fifoStreamIndex) /\ IndexMatchesItem

InFlight ==
    /\ \A s \in Streams : got[s] <= sent[s]
    /\ \A k \in 1 .. Len(fifo) : fifo[k].n <= sent[fifo[k].stream]
    /\ \A k \in 1 .. Len(fifo) :
         ~RecvFinished(fifo[k].stream) => got[fifo[k].stream] < fifo[k].n
    /\ \A s \in Streams : \A n \in got[s] + 1 .. sent[s] :
         ~RecvFinished(s) => \E k \in 1 .. Len(fifo) : fifo[k].stream = s /\ fifo[k].n = n

InOrder ==
    \A k \in 1 .. Len(fifo) : \A j \in 1 .. k - 1 :
        fifo[j].stream = fifo[k].stream => fifo[j].n < fifo[k].n

\* The history of in-flight and delivered items, without the sleepers.
DataInv == FifosInStep /\ InFlight /\ InOrder /\ EofAfterEveryItem

\* The inductive invariant of ThreadQueueProofs: it holds in every state, and
\* every step of the queue preserves it.
QueueInv ==
    /\ TypeOK
    /\ DataInv
    /\ SenderSleepsForAReason
    /\ ReceiverSleepsForAReason
=============================================================================
