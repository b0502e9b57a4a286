-------------------------- MODULE ThreadQueueProofs --------------------------
(***************************************************************************)
(* Proofs about thread_queue.c for any number of streams and producers and *)
(* any queue size.                                                         *)
(***************************************************************************)
EXTENDS ThreadQueue, SequenceTheorems, TLAPS

\* What is left of a FIFO after its first k items were read.
LEMMA DropProperties ==
    ASSUME NEW S, NEW q \in Seq(S), NEW k \in 0 .. Len(q)
    PROVE  /\ Drop(q, k) \in Seq(S)
           /\ Len(Drop(q, k)) = Len(q) - k
           /\ \A i \in 1 .. Len(q) - k : Drop(q, k)[i] = q[i + k]
<1>1. \A i \in k + 1 .. Len(q) : q[i] \in S
  OBVIOUS
<1>2. /\ SubSeq(q, k + 1, Len(q)) \in Seq(S)
      /\ Len(SubSeq(q, k + 1, Len(q))) =
            IF k + 1 <= Len(q) THEN Len(q) - (k + 1) + 1 ELSE 0
      /\ \A i \in 1 .. Len(q) - (k + 1) + 1 :
            SubSeq(q, k + 1, Len(q))[i] = q[k + 1 + i - 1]
  BY <1>1, SubSeqProperties, k + 1 \in Int, Len(q) \in Int
<1>. QED
  BY <1>2 DEF Drop

\* A FIFO stays a FIFO when any number of items is taken out, even more than
\* it holds.
LEMMA DropType ==
    ASSUME NEW S, NEW q \in Seq(S), NEW k \in Nat
    PROVE  Drop(q, k) \in Seq(S)
<1>1. \A i \in k + 1 .. Len(q) : q[i] \in S
  OBVIOUS
<1>. QED
  BY <1>1, SubSeqProperties, k + 1 \in Int, Len(q) \in Int DEF Drop

\* A broadcast changes nothing but sleepers into woken threads.
LEMMA BroadcastProperties ==
    ASSUME TypeOK
    PROVE  /\ Broadcast \in [Threads -> {"idle", "waiting", "woken", "done"}]
           /\ \A t \in Threads : Broadcast[t] # "waiting"
BY DEF TypeOK, Broadcast

\* Every variable keeps its type, whether or not allocations fail.
LEMMA TypeStep ==
    ASSUME TypeOK, [Next]_vars
    PROVE  TypeOK'
<1>. USE DEF TypeOK
<1>0. Broadcast \in [Threads -> {"idle", "waiting", "woken", "done"}]
  BY BroadcastProperties
<1>. USE <1>0
<1>1. ASSUME NEW p \in Producers, NEW s \in Streams, SendLoop(p, s)
      PROVE  TypeOK'
  <2>1. CASE SendWait(p, s)
    BY <2>1 DEF SendWait
  <2>2. CASE SendEof(p, s)
    BY <2>2 DEF SendEof, SEND, RECV
  <2>3. CASE SendWrite(p, s)
    <3>1. [stream |-> s, n |-> sent[s] + 1] \in Item
      BY DEF Item
    <3>2. fifo' \in Seq(Item) /\ fifoStreamIndex' \in Seq(Streams)
      BY <2>3, <3>1 DEF SendWrite
    <3>3. pc' \in [Threads -> {"idle", "waiting", "woken", "done"}]
      BY <2>3 DEF SendWrite
    <3>4. sent' \in [Streams -> Nat]
      BY <2>3 DEF SendWrite
    <3>. QED
      BY <2>3, <3>2, <3>3, <3>4 DEF SendWrite
  <2>4. CASE SendNoMem(p, s)
    <3>1. fifoStreamIndex' \in Seq(Streams)
      BY <2>4 DEF SendNoMem
    <3>2. pc' \in [Threads -> {"idle", "waiting", "woken", "done"}]
      BY <2>4 DEF SendNoMem
    <3>. QED
      BY <2>4, <3>1, <3>2 DEF SendNoMem
  <2>. QED
    BY <1>1, <2>1, <2>2, <2>3, <2>4 DEF SendLoop
<1>2. ASSUME NEW p \in Producers, NEW s \in Streams, Send(p, s)
      PROVE  TypeOK'
  BY <1>1, <1>2 DEF Send
<1>3. ASSUME NEW p \in Producers, NEW s \in Streams, SendFinish(p, s)
      PROVE  TypeOK'
  BY <1>3 DEF SendFinish, SEND, RECV
<1>4. ASSUME NEW p \in Producers, SendResume(p)
      PROVE  TypeOK'
  BY <1>1, <1>4 DEF SendResume
<1>5. CASE ReceiveItem
  <2>1. PICK k \in 1 .. Len(fifo) :
          /\ fifo' = Drop(fifo, k)
          /\ fifoStreamIndex' = Drop(fifoStreamIndex, k)
          /\ got' = [got EXCEPT ![fifoStreamIndex[k]] = fifo[k].n]
    BY <1>5 DEF ReceiveItem
  <2>2. fifo' \in Seq(Item) /\ fifoStreamIndex' \in Seq(Streams)
    BY <2>1, DropType
  <2>3. fifo[k].n \in Nat
    <3>1. fifo[k] \in Item
      BY <2>1
    <3>. QED
      BY <3>1 DEF Item
  <2>. QED
    BY <1>5, <2>1, <2>2, <2>3 DEF ReceiveItem
<1>6. ASSUME DropAll
      PROVE  fifo' \in Seq(Item) /\ fifoStreamIndex' \in Seq(Streams)
  BY <1>6, DropType, Len(fifo) \in Nat DEF DropAll
<1>7. CASE ReceiveEof
  <2>1. PICK s \in Streams :
          /\ finished' = [finished EXCEPT ![s] = @ \cup {RECV}]
          /\ eofs' = [eofs EXCEPT ![s] = @ + 1]
    BY <1>7 DEF ReceiveEof
  <2>2. finished' \in [Streams -> SUBSET {SEND, RECV}]
    BY <2>1
  <2>3. eofs' \in [Streams -> Nat]
    BY <2>1
  <2>4. pc' \in [Threads -> {"idle", "waiting", "woken", "done"}]
    BY <1>7 DEF ReceiveEof, BroadcastIfDropped
  <2>. QED
    BY <1>6, <1>7, <2>2, <2>3, <2>4 DEF ReceiveEof
<1>8. CASE ReceiveDone
  BY <1>6, <1>8 DEF ReceiveDone, BroadcastIfDropped
<1>9. ASSUME NEW noBlock \in BOOLEAN, ReceiveAgain(noBlock)
      PROVE  TypeOK'
  BY <1>6, <1>9 DEF ReceiveAgain, BroadcastIfDropped
<1>10. CASE Receive \/ ReceivePoll
  BY <1>5, <1>7, <1>8, <1>9, <1>10 DEF Receive, ReceivePoll
<1>11. ASSUME NEW s \in Streams, ReceiveFinish(s)
       PROVE  TypeOK'
  BY <1>11 DEF ReceiveFinish, SEND, RECV
<1>12. ASSUME NEW b \in BOOLEAN, Choke(b)
       PROVE  TypeOK'
  BY <1>12 DEF Choke
<1>13. ASSUME NEW t \in Threads, SpuriousWakeup(t)
       PROVE  TypeOK'
  BY <1>13 DEF SpuriousWakeup
<1>14. CASE UNCHANGED vars
  BY <1>14 DEF vars
<1>. QED
  BY <1>2, <1>3, <1>4, <1>10, <1>11, <1>12, <1>13, <1>14 DEF Next

\* tq_alloc: the queue starts with the right types.
LEMMA InitType == Init => TypeOK
BY SMTT(60), SizeAssumption DEF Init, TypeOK, Streams, Threads

\* The queue's variables keep their types in every run.
THEOREM TypeCorrect == Spec => []TypeOK
<1>. QED
  BY InitType, TypeStep, PTL DEF Spec

-----------------------------------------------------------------------------
(* The queue without allocation failures                                   *)

\* The items in the FIFO have a stream and a number.
LEMMA FifoItems ==
    ASSUME TypeOK
    PROVE  \A k \in 1 .. Len(fifo) : fifo[k].stream \in Streams /\ fifo[k].n \in Nat
<1>1. \A k \in 1 .. Len(fifo) : fifo[k] \in Item
  BY DEF TypeOK
<1>2. \A x \in Item : x.stream \in Streams /\ x.n \in Nat
  BY DEF Item
<1>. QED
  BY <1>1, <1>2

\* What one step does to the data: the facts about the FIFOs that the four
\* kinds of steps share, in terms of the definitions of DataInv.
LEMMA WriteKeepsData ==
    ASSUME TypeOK, DataInv, NEW p \in Producers, NEW s \in Streams, SendWrite(p, s)
    PROVE  DataInv'
<1>. DEFINE new == [stream |-> s, n |-> sent[s] + 1]
<1>. USE DEF TypeOK
<1>1. new \in Item /\ new.stream = s /\ new.n = sent[s] + 1
  BY DEF Item
<1>2. /\ fifo' = Append(fifo, new)
      /\ fifoStreamIndex' = Append(fifoStreamIndex, s)
      /\ sent' = [sent EXCEPT ![s] = @ + 1]
      /\ finished' = finished /\ got' = got /\ eofs' = eofs
      /\ ~RecvFinished(s)
  BY DEF SendWrite
<1>. HIDE DEF new
<1>3. /\ Len(fifo) \in Nat
      /\ Len(fifo') = Len(fifo) + 1
      /\ fifo'[Len(fifo) + 1] = new
      /\ \A k \in 1 .. Len(fifo) : fifo'[k] = fifo[k]
  BY <1>1, <1>2
<1>4. /\ Len(fifoStreamIndex) \in Nat
      /\ Len(fifoStreamIndex') = Len(fifoStreamIndex) + 1
      /\ fifoStreamIndex'[Len(fifoStreamIndex) + 1] = s
      /\ \A k \in 1 .. Len(fifoStreamIndex) : fifoStreamIndex'[k] = fifoStreamIndex[k]
  BY <1>2
<1>5. \A k \in 1 .. Len(fifo) : fifo[k].stream \in Streams /\ fifo[k].n \in Nat
  BY FifoItems
<1>6. \A r \in Streams : /\ sent[r] \in Nat /\ got[r] \in Nat
                         /\ sent'[r] = IF r = s THEN sent[r] + 1 ELSE sent[r]
                         /\ got'[r] = got[r]
                         /\ RecvFinished(r)' = RecvFinished(r)
  BY <1>2 DEF RecvFinished
<1>. HIDE DEF TypeOK
<1>8. InFlight'
  <2>1. (\A r \in Streams : got[r] <= sent[r])'
    BY <1>6 DEF DataInv, InFlight
  <2>2. (\A k \in 1 .. Len(fifo) : fifo[k].n <= sent[fifo[k].stream])'
    BY SMTT(60), <1>1, <1>3, <1>5, <1>6 DEF DataInv, InFlight
  <2>3. (\A k \in 1 .. Len(fifo) :
           ~RecvFinished(fifo[k].stream) => got[fifo[k].stream] < fifo[k].n)'
    BY <1>1, <1>3, <1>5, <1>6 DEF DataInv, InFlight
  <2>4. ASSUME NEW r \in Streams, NEW n \in got[r] + 1 .. sent'[r], ~RecvFinished(r)
        PROVE  \E k \in 1 .. Len(fifo') : fifo'[k].stream = r /\ fifo'[k].n = n
    <3>1. CASE r = s /\ n = sent[s] + 1
      BY <1>1, <1>3, <3>1
    <3>2. CASE ~(r = s /\ n = sent[s] + 1)
      <4>1. n \in got[r] + 1 .. sent[r]
        BY <1>6, <2>4, <3>2
      <4>2. PICK k \in 1 .. Len(fifo) : fifo[k].stream = r /\ fifo[k].n = n
        BY <2>4, <4>1 DEF DataInv, InFlight
      <4>. QED
        BY <1>3, <4>2
    <3>. QED
      BY <3>1, <3>2
  <2>. QED
    BY <1>6, <2>1, <2>2, <2>3, <2>4 DEF InFlight
<1>7. FifosInStep'
  BY <1>1, <1>3, <1>4 DEF DataInv, FifosInStep, IndexMatchesItem
<1>9. InOrder'
  <2>1. SUFFICES ASSUME NEW k \in 1 .. Len(fifo'), NEW j \in 1 .. k - 1,
                        fifo'[j].stream = fifo'[k].stream
                 PROVE  fifo'[j].n < fifo'[k].n
    BY DEF InOrder
  <2>2. CASE k \in 1 .. Len(fifo)
    BY <1>3, <2>1, <2>2 DEF DataInv, InOrder
  <2>3. CASE k = Len(fifo) + 1
    <3>1. j \in 1 .. Len(fifo) /\ fifo[j].stream = s
      BY <1>1, <1>3, <2>1, <2>3
    <3>2. fifo[j].n <= sent[s]
      BY <3>1 DEF DataInv, InFlight
    <3>. QED
      BY <1>1, <1>3, <1>5, <1>6, <2>3, <3>1, <3>2
  <2>. QED
    BY <1>3, <2>2, <2>3
<1>10. EofAfterEveryItem'
  BY <1>2, <1>6 DEF DataInv, EofAfterEveryItem
<1>. QED
  BY <1>7, <1>8, <1>9, <1>10 DEF DataInv

\* Streams may become finished while the FIFOs stay as they are.
LEMMA FinishKeepsData ==
    ASSUME TypeOK, DataInv,
           UNCHANGED <<fifo, fifoStreamIndex, sent, got, eofs>>,
           \A s \in Streams : RecvFinished(s) => RecvFinished(s)'
    PROVE  DataInv'
<1>1. FifosInStep'
  BY DEF DataInv, FifosInStep, IndexMatchesItem
<1>2. InFlight'
  BY FifoItems DEF DataInv, InFlight
<1>3. InOrder'
  BY DEF DataInv, InOrder
<1>4. EofAfterEveryItem'
  BY DEF DataInv, EofAfterEveryItem
<1>. QED
  BY <1>1, <1>2, <1>3, <1>4 DEF DataInv

\* When no item of a stream still read is in the FIFO, all were delivered.
LEMMA NothingLeft ==
    ASSUME TypeOK, DataInv, NoneLive, NEW s \in Streams, ~RecvFinished(s)
    PROVE  got[s] = sent[s]
<1>1. got[s] \in Nat /\ sent[s] \in Nat /\ got[s] <= sent[s]
  BY DEF TypeOK, DataInv, InFlight
<1>2. SUFFICES ASSUME got[s] < sent[s] PROVE FALSE
  BY <1>1
<1>3. PICK k \in 1 .. Len(fifo) : fifo[k].stream = s
  BY <1>1, <1>2, got[s] + 1 \in got[s] + 1 .. sent[s] DEF DataInv, InFlight
<1>4. fifoStreamIndex[k] = s
  BY <1>3 DEF DataInv, FifosInStep, IndexMatchesItem
<1>. QED
  BY <1>3, <1>4 DEF NoneLive, Live

\* receive_locked emptied the FIFOs without finding an item to deliver.
LEMMA DropAllKeepsFifos ==
    ASSUME TypeOK, DataInv, DropAll, UNCHANGED <<sent, got>>,
           \A s \in Streams : RecvFinished(s) => RecvFinished(s)'
    PROVE  (FifosInStep /\ InFlight /\ InOrder)'
<1>1. Len(fifo) = Len(fifoStreamIndex) /\ Len(fifoStreamIndex) \in Nat
  BY DEF TypeOK, DataInv, FifosInStep
<1>2. Len(fifoStreamIndex') = 0
  BY <1>1, DropProperties DEF DropAll, TypeOK
<1>3. fifo' = <<>> /\ Len(fifo') = 0
  BY DEF DropAll
<1>4. FifosInStep' /\ InOrder'
  BY <1>2, <1>3 DEF FifosInStep, IndexMatchesItem, InOrder
<1>5. \A s \in Streams : /\ got[s] \in Nat /\ sent[s] \in Nat
                         /\ ~RecvFinished(s)' => got[s] = sent[s]
  BY NothingLeft DEF DropAll, TypeOK
<1>6. InFlight'
  BY <1>3, <1>5 DEF DataInv, InFlight
<1>. QED
  BY <1>4, <1>6

\* receive_locked drops the items before the first live one and delivers it:
\* the next one of its stream.
LEMMA FirstLiveIsNext ==
    ASSUME TypeOK, DataInv, NEW k \in 1 .. Len(fifo), FirstLive(k)
    PROVE  /\ fifo[k].stream \in Streams
           /\ fifoStreamIndex[k] = fifo[k].stream
           /\ ~RecvFinished(fifo[k].stream)
           /\ fifo[k].n = got[fifo[k].stream] + 1
           /\ fifo[k].n <= sent[fifo[k].stream]
<1>. DEFINE s == fifo[k].stream
<1>1. s \in Streams /\ fifo[k].n \in Nat /\ got[s] \in Nat /\ sent[s] \in Nat
  BY FifoItems DEF TypeOK
<1>2. fifoStreamIndex[k] = s
  BY DEF DataInv, FifosInStep, IndexMatchesItem
<1>3. ~RecvFinished(s)
  BY <1>2 DEF FirstLive, Live
<1>4. got[s] < fifo[k].n /\ fifo[k].n <= sent[s]
  BY <1>3 DEF DataInv, InFlight
<1>5. fifo[k].n = got[s] + 1
  <2>1. PICK j \in 1 .. Len(fifo) : fifo[j].stream = s /\ fifo[j].n = got[s] + 1
    BY <1>1, <1>3, <1>4, got[s] + 1 \in got[s] + 1 .. sent[s] DEF DataInv, InFlight
  <2>2. fifoStreamIndex[j] = s
    BY <2>1 DEF DataInv, FifosInStep, IndexMatchesItem
  <2>3. ~(j < k)
    BY <1>3, <2>2 DEF FirstLive, Live
  <2>4. ~(k < j)
    BY <1>1, <1>4, <2>1 DEF DataInv, InOrder
  <2>. QED
    BY <2>1, <2>3, <2>4
<1>. QED
  BY <1>1, <1>2, <1>3, <1>4, <1>5

\* Delivering the first live item keeps the rest of the FIFOs in order.
LEMMA ReceiveKeepsData ==
    ASSUME TypeOK, DataInv, ReceiveItem
    PROVE  DataInv'
<1>1. PICK k \in 1 .. Len(fifo) :
        /\ FirstLive(k)
        /\ fifo' = Drop(fifo, k)
        /\ fifoStreamIndex' = Drop(fifoStreamIndex, k)
        /\ got' = [got EXCEPT ![fifoStreamIndex[k]] = fifo[k].n]
  BY DEF ReceiveItem
<1>. DEFINE s == fifo[k].stream
<1>2. /\ s \in Streams
      /\ fifoStreamIndex[k] = s
      /\ ~RecvFinished(s)
      /\ fifo[k].n = got[s] + 1
      /\ fifo[k].n <= sent[s]
  BY <1>1, FirstLiveIsNext
<1>. HIDE DEF s
<1>3. /\ Len(fifo) \in Nat /\ Len(fifoStreamIndex) = Len(fifo)
      /\ Len(fifo') = Len(fifo) - k
      /\ \A i \in 1 .. Len(fifo) - k : fifo'[i] = fifo[i + k]
      /\ Len(fifoStreamIndex') = Len(fifo) - k
      /\ \A i \in 1 .. Len(fifo) - k : fifoStreamIndex'[i] = fifoStreamIndex[i + k]
  <2>1. /\ fifo \in Seq(Item) /\ fifoStreamIndex \in Seq(Streams)
        /\ Len(fifo) = Len(fifoStreamIndex)
        /\ Len(fifo) \in Nat
        /\ k \in 0 .. Len(fifo)
    BY DEF TypeOK, DataInv, FifosInStep
  <2>. QED
    BY ZenonT(60), <1>1, <2>1, DropProperties
<1>4. /\ sent' = sent /\ eofs' = eofs /\ finished' = finished
      /\ \A r \in Streams : /\ sent[r] \in Nat /\ got[r] \in Nat
                            /\ got'[r] = IF r = s THEN got[s] + 1 ELSE got[r]
                            /\ RecvFinished(r)' = RecvFinished(r)
  BY SMTT(60), <1>1, <1>2 DEF ReceiveItem, TypeOK, RecvFinished
<1>5. \A i \in 1 .. Len(fifo) : fifo[i].stream \in Streams /\ fifo[i].n \in Nat
  BY FifoItems
<1>6. FifosInStep'
  BY <1>3 DEF DataInv, FifosInStep, IndexMatchesItem
<1>7. InOrder'
  <2>1. SUFFICES ASSUME NEW i \in 1 .. Len(fifo'), NEW j \in 1 .. i - 1,
                        fifo'[j].stream = fifo'[i].stream
                 PROVE  fifo'[j].n < fifo'[i].n
    BY DEF InOrder
  <2>2. /\ i + k \in 1 .. Len(fifo) /\ j + k \in 1 .. (i + k) - 1
        /\ fifo'[i] = fifo[i + k] /\ fifo'[j] = fifo[j + k]
    BY <1>3
  <2>. QED
    BY <2>1, <2>2 DEF DataInv, InOrder
<1>8. InFlight'
  <2>1. (\A r \in Streams : got[r] <= sent[r])'
    BY <1>2, <1>4 DEF DataInv, InFlight
  <2>2. (\A i \in 1 .. Len(fifo) : fifo[i].n <= sent[fifo[i].stream])'
    BY <1>3, <1>4 DEF DataInv, InFlight
  <2>3. ASSUME NEW i \in 1 .. Len(fifo'), ~RecvFinished(fifo'[i].stream)
        PROVE  got'[fifo'[i].stream] < fifo'[i].n
    <3>1. i + k \in 1 .. Len(fifo) /\ fifo'[i] = fifo[i + k] /\ k < i + k
      BY <1>3, <2>3
    <3>2. CASE fifo[i + k].stream = s
      <4>1. fifo[k].n < fifo[i + k].n
        BY <1>5, <3>1, <3>2 DEF DataInv, InOrder, s
      <4>. QED
        BY <1>2, <1>4, <3>1, <3>2, <4>1
    <3>3. CASE fifo[i + k].stream # s
      BY <1>4, <1>5, <2>3, <3>1, <3>3 DEF DataInv, InFlight
    <3>. QED
      BY <3>2, <3>3
  <2>4. ASSUME NEW r \in Streams, NEW n \in got'[r] + 1 .. sent[r], ~RecvFinished(r)
        PROVE  \E i \in 1 .. Len(fifo') : fifo'[i].stream = r /\ fifo'[i].n = n
    <3>1. n \in got[r] + 1 .. sent[r]
      BY <1>4, <2>4
    <3>2. PICK i \in 1 .. Len(fifo) : fifo[i].stream = r /\ fifo[i].n = n
      BY <2>4, <3>1 DEF DataInv, InFlight
    <3>3. k < i
      <4>1. fifoStreamIndex[i] = r
        BY <3>2 DEF DataInv, FifosInStep, IndexMatchesItem
      <4>2. ~(i < k)
        BY <1>1, <2>4, <4>1 DEF FirstLive, Live
      <4>3. i # k
        BY <1>2, <1>4, <2>4, <3>2 DEF s
      <4>. QED
        BY <4>2, <4>3
    <3>4. i - k \in 1 .. Len(fifo') /\ fifo'[i - k] = fifo[i]
      BY <1>3, <3>3
    <3>. QED
      BY <3>2, <3>4
  <2>5. \A r \in Streams : RecvFinished(r)' = RecvFinished(r)
    BY <1>4
  <2>6. (\A i \in 1 .. Len(fifo) :
           ~RecvFinished(fifo[i].stream) => got[fifo[i].stream] < fifo[i].n)'
    BY <1>4, <2>3 DEF RecvFinished
  <2>7. (\A r \in Streams : \A n \in got[r] + 1 .. sent[r] :
           ~RecvFinished(r) => \E i \in 1 .. Len(fifo) : fifo[i].stream = r /\ fifo[i].n = n)'
    BY <1>4, <2>4, <2>5
  <2>. QED
    BY <2>1, <2>2, <2>6, <2>7 DEF InFlight
<1>9. EofAfterEveryItem'
  BY <1>2, <1>4 DEF DataInv, EofAfterEveryItem
<1>. QED
  BY <1>6, <1>7, <1>8, <1>9 DEF DataInv

\* tq_receive without an item: the FIFOs are emptied, perhaps a stream ended.
LEMMA EofKeepsData ==
    ASSUME TypeOK, DataInv, ReceiveEof
    PROVE  DataInv'
<1>1. PICK s \in Streams :
        /\ EofPending(s)
        /\ finished' = [finished EXCEPT ![s] = @ \cup {RECV}]
        /\ eofs' = [eofs EXCEPT ![s] = @ + 1]
  BY DEF ReceiveEof
<1>2. DropAll /\ sent' = sent /\ got' = got
  BY DEF ReceiveEof
<1>3. \A r \in Streams :
        /\ RecvFinished(r)' = (RecvFinished(r) \/ r = s)
        /\ eofs[r] \in Nat
        /\ eofs'[r] = IF r = s THEN eofs[s] + 1 ELSE eofs[r]
  BY <1>1 DEF TypeOK, RecvFinished
<1>4. (FifosInStep /\ InFlight /\ InOrder)'
  BY <1>2, <1>3, DropAllKeepsFifos
<1>5. got[s] = sent[s] /\ eofs[s] = 0
  <2>1. NoneLive /\ ~RecvFinished(s)
    BY <1>1, <1>2 DEF EofPending, DropAll
  <2>2. got[s] = sent[s]
    BY <2>1, NothingLeft
  <2>3. ~(eofs[s] > 0)
    BY <2>1 DEF DataInv, EofAfterEveryItem
  <2>. QED
    BY <1>3, <2>2, <2>3
<1>6. EofAfterEveryItem'
  <2>1. SUFFICES ASSUME NEW r \in Streams, eofs'[r] > 0
                 PROVE  eofs'[r] = 1 /\ RecvFinished(r)' /\ got'[r] = sent'[r]
    BY DEF EofAfterEveryItem
  <2>2. CASE r = s
    <3>1. RecvFinished(r)'
      BY <1>3, <2>2
    <3>2. eofs'[r] = 1 /\ got'[r] = sent'[r]
      BY <1>2, <1>3, <1>5, <2>2
    <3>. QED
      BY <3>1, <3>2
  <2>3. CASE r # s
    BY <1>2, <1>3, <2>1, <2>3 DEF DataInv, EofAfterEveryItem
  <2>. QED
    BY <2>2, <2>3
<1>. QED
  BY <1>4, <1>6 DEF DataInv

LEMMA EmptyKeepsData ==
    ASSUME TypeOK, DataInv, DropAll, UNCHANGED <<finished, sent, got, eofs>>
    PROVE  DataInv'
<1>1. \A s \in Streams : RecvFinished(s)' = RecvFinished(s)
  BY DEF RecvFinished
<1>2. (FifosInStep /\ InFlight /\ InOrder)'
  BY <1>1, DropAllKeepsFifos
<1>3. EofAfterEveryItem'
  BY <1>1 DEF DataInv, EofAfterEveryItem
<1>. QED
  BY <1>2, <1>3 DEF DataInv

\* Every step keeps what the FIFOs and the histories say of each other.
LEMMA DataStep ==
    ASSUME AllocFails = FALSE, TypeOK, DataInv, [Next]_vars
    PROVE  DataInv'
<1>1. ASSUME NEW p \in Producers, NEW s \in Streams, SendLoop(p, s)
      PROVE  DataInv'
  <2>1. CASE SendWait(p, s)
    BY <2>1, FinishKeepsData DEF SendWait, RecvFinished
  <2>2. CASE SendEof(p, s)
    <3>1. \A r \in Streams : RecvFinished(r) => RecvFinished(r)'
      BY <2>2 DEF SendEof, TypeOK, RecvFinished
    <3>. QED
      BY <2>2, <3>1, FinishKeepsData DEF SendEof
  <2>3. CASE SendWrite(p, s)
    BY <2>3, WriteKeepsData
  <2>. QED
    BY <1>1, <2>1, <2>2, <2>3 DEF SendLoop, SendNoMem
<1>2. ASSUME NEW p \in Producers, NEW s \in Streams, SendFinish(p, s)
      PROVE  DataInv'
  <2>1. \A r \in Streams : RecvFinished(r) => RecvFinished(r)'
    BY <1>2 DEF SendFinish, TypeOK, RecvFinished
  <2>. QED
    BY <1>2, <2>1, FinishKeepsData DEF SendFinish
<1>3. ASSUME NEW p \in Producers, NEW s \in Streams, Send(p, s)
      PROVE  DataInv'
  BY <1>1, <1>3 DEF Send
<1>4. ASSUME NEW p \in Producers, SendResume(p)
      PROVE  DataInv'
  BY <1>1, <1>4 DEF SendResume, TypeOK
<1>5. CASE ReceiveDone
  BY <1>5, EmptyKeepsData DEF ReceiveDone
<1>6. ASSUME NEW noBlock \in BOOLEAN, ReceiveAgain(noBlock)
      PROVE  DataInv'
  <2>1. CASE choked
    BY <1>6, <2>1, FinishKeepsData DEF ReceiveAgain, RecvFinished
  <2>2. CASE ~choked
    BY <1>6, <2>2, EmptyKeepsData DEF ReceiveAgain
  <2>. QED
    BY <2>1, <2>2
<1>7. CASE Receive \/ ReceivePoll
  BY <1>5, <1>6, <1>7, ReceiveKeepsData, EofKeepsData DEF Receive, ReceivePoll
<1>8. ASSUME NEW s \in Streams, ReceiveFinish(s)
      PROVE  DataInv'
  <2>1. \A r \in Streams : RecvFinished(r) => RecvFinished(r)'
    BY <1>8 DEF ReceiveFinish, TypeOK, RecvFinished
  <2>. QED
    BY <1>8, <2>1, FinishKeepsData DEF ReceiveFinish
<1>9. ASSUME NEW b \in BOOLEAN, Choke(b)
      PROVE  DataInv'
  BY <1>9, FinishKeepsData DEF Choke, RecvFinished
<1>10. ASSUME NEW t \in Threads, SpuriousWakeup(t)
       PROVE  DataInv'
  BY <1>10, FinishKeepsData DEF SpuriousWakeup, RecvFinished
<1>11. CASE UNCHANGED vars
  BY <1>11, FinishKeepsData DEF vars, RecvFinished
<1>. QED
  BY <1>2, <1>3, <1>4, <1>7, <1>8, <1>9, <1>10, <1>11 DEF Next

\* Nobody sleeps after a broadcast, except the thread that goes to sleep now;
\* and a step without a broadcast gives no sleeper a reason to run.
LEMMA SleepStep ==
    ASSUME AllocFails = FALSE, QueueInv, [Next]_vars
    PROVE  SenderSleepsForAReason' /\ ReceiverSleepsForAReason'
<1>. DEFINE Sleep == SenderSleepsForAReason /\ ReceiverSleepsForAReason
<1>1. /\ Broadcast \in [Threads -> {"idle", "waiting", "woken", "done"}]
      /\ \A t \in Threads : Broadcast[t] # "waiting"
  BY BroadcastProperties DEF QueueInv
<1>2. pc \in [Threads -> {"idle", "waiting", "woken", "done"}]
  BY DEF QueueInv, TypeOK
<1>3. Consumer \in Threads /\ Producers \subseteq Threads /\ Consumer \notin Producers
  BY ThreadsAssumption DEF Threads
<1>4. ASSUME \A t \in Threads : pc'[t] # "waiting"
      PROVE  Sleep'
  BY <1>3, <1>4 DEF SenderSleepsForAReason, ReceiverSleepsForAReason
<1>5. ASSUME NEW p \in Producers, NEW s \in Streams, SendLoop(p, s)
      PROVE  Sleep'
  <2>1. CASE SendWait(p, s)
    <3>1. SenderSleepsForAReason'
      BY <1>2, <1>3, <2>1
         DEF SendWait, QueueInv, TypeOK, SenderSleepsForAReason, CanWrite, RecvFinished
    <3>2. ReceiverSleepsForAReason'
      BY <1>2, <1>3, <2>1
         DEF SendWait, QueueInv, ReceiverSleepsForAReason, NoneLive, Live, AllReceived,
             EofPending, SendFinished, RecvFinished
    <3>. QED
      BY <3>1, <3>2
  <2>2. CASE SendEof(p, s)
    <3>1. \A r \in Streams : /\ RecvFinished(r)' = RecvFinished(r)
                             /\ EofPending(r)' = EofPending(r)
      BY <2>2 DEF SendEof, QueueInv, TypeOK, EofPending, SendFinished, RecvFinished, SEND, RECV
    <3>2. SenderSleepsForAReason'
      BY <1>2, <1>3, <2>2, <3>1
         DEF SendEof, QueueInv, TypeOK, SenderSleepsForAReason, CanWrite
    <3>3. NoneLive' = NoneLive
      <4>1. \A k \in 1 .. Len(fifo) : fifoStreamIndex[k] \in Streams
        BY DEF QueueInv, TypeOK, DataInv, FifosInStep
      <4>. QED
        BY <2>2, <3>1, <4>1 DEF SendEof, NoneLive, Live
    <3>4. ReceiverSleepsForAReason'
      BY <1>2, <1>3, <2>2, <3>1, <3>3
         DEF SendEof, QueueInv, ReceiverSleepsForAReason, AllReceived
    <3>. QED
      BY <3>2, <3>4
  <2>3. CASE SendWrite(p, s)
    BY <1>1, <1>3, <1>4, <2>3 DEF SendWrite
  <2>. QED
    BY <1>5, <2>1, <2>2, <2>3 DEF SendLoop, SendNoMem
<1>6. ASSUME NEW p \in Producers, NEW s \in Streams, SendFinish(p, s)
      PROVE  Sleep'
  BY <1>1, <1>4, <1>6 DEF SendFinish
<1>7. ASSUME NEW p \in Producers, NEW s \in Streams, Send(p, s)
      PROVE  Sleep'
  BY <1>5, <1>7 DEF Send
<1>8. ASSUME NEW p \in Producers, SendResume(p)
      PROVE  Sleep'
  BY <1>5, <1>8 DEF SendResume, QueueInv, TypeOK
<1>9. CASE ReceiveItem
  BY <1>1, <1>3, <1>4, <1>9 DEF ReceiveItem
\* No sender sleeps while the FIFOs are empty.
<1>10. fifo = <<>> => \A p \in Producers : pc[p] # "waiting"
  BY SizeAssumption
     DEF QueueInv, TypeOK, DataInv, FifosInStep, SenderSleepsForAReason, CanWrite
<1>11. \A p \in Producers : BroadcastIfDropped[p] # "waiting"
  BY <1>1, <1>3, <1>10 DEF BroadcastIfDropped
<1>12. BroadcastIfDropped \in [Threads -> {"idle", "waiting", "woken", "done"}]
  BY <1>1, <1>2 DEF BroadcastIfDropped
<1>13. CASE ReceiveEof \/ ReceiveDone
  <2>1. \E state \in {"idle", "done"} :
            pc' = [BroadcastIfDropped EXCEPT ![Consumer] = state]
    BY <1>13 DEF ReceiveEof, ReceiveDone
  <2>2. \A t \in Threads : pc'[t] # "waiting"
    BY <1>3, <1>11, <1>12, <2>1 DEF Threads
  <2>. QED
    BY <1>4, <2>2
<1>14. ASSUME NEW noBlock \in BOOLEAN, ReceiveAgain(noBlock)
       PROVE  Sleep'
  <2>1. CASE choked
    BY <1>2, <1>3, <1>14, <2>1
       DEF ReceiveAgain, QueueInv, SenderSleepsForAReason, ReceiverSleepsForAReason,
           CanWrite, RecvFinished
  <2>2. CASE ~choked
    <3>1. SenderSleepsForAReason'
      BY <1>3, <1>11, <1>12, <1>14, <2>2 DEF ReceiveAgain, SenderSleepsForAReason
    <3>2. NoneLive'
      BY <1>14, <2>2 DEF ReceiveAgain, DropAll, NoneLive
    <3>3. /\ ~AllReceived'
          /\ \A s \in Streams : ~EofPending(s)'
      BY <1>14, <2>2 DEF ReceiveAgain, AllReceived, EofPending, SendFinished, RecvFinished
    <3>. QED
      BY <3>1, <3>2, <3>3 DEF ReceiverSleepsForAReason
  <2>. QED
    BY <2>1, <2>2
<1>15. CASE Receive \/ ReceivePoll
  BY <1>9, <1>13, <1>14, <1>15 DEF Receive, ReceivePoll
<1>16. ASSUME NEW s \in Streams, ReceiveFinish(s)
       PROVE  Sleep'
  BY <1>1, <1>4, <1>16 DEF ReceiveFinish
<1>17. ASSUME NEW b \in BOOLEAN, Choke(b)
       PROVE  Sleep'
  <2>1. CASE b = choked
    BY <1>17, <2>1
       DEF Choke, QueueInv, SenderSleepsForAReason, ReceiverSleepsForAReason, CanWrite,
           NoneLive, Live, AllReceived, EofPending, SendFinished, RecvFinished
  <2>2. CASE b # choked
    BY <1>1, <1>4, <1>17, <2>2 DEF Choke
  <2>. QED
    BY <2>1, <2>2
<1>18. ASSUME NEW t \in Threads, SpuriousWakeup(t)
       PROVE  Sleep'
  BY <1>2, <1>3, <1>18
     DEF SpuriousWakeup, QueueInv, SenderSleepsForAReason, ReceiverSleepsForAReason,
         CanWrite, NoneLive, Live, AllReceived, EofPending, SendFinished, RecvFinished
<1>19. CASE UNCHANGED vars
  BY <1>19
     DEF vars, QueueInv, SenderSleepsForAReason, ReceiverSleepsForAReason, CanWrite,
         NoneLive, Live, AllReceived, EofPending, SendFinished, RecvFinished
<1>. QED
  BY <1>6, <1>7, <1>8, <1>15, <1>16, <1>17, <1>18, <1>19 DEF Next

\* The inductive invariant, when no allocation fails.
THEOREM QueueInvariant ==
    ASSUME AllocFails = FALSE
    PROVE  Spec => []QueueInv
<1>1. Init => QueueInv
  <2>. SUFFICES ASSUME Init PROVE QueueInv
    OBVIOUS
  <2>1. TypeOK
    BY InitType
  <2>2. Len(fifo) = 0 /\ Len(fifoStreamIndex) = 0 /\ \A t \in Threads : pc[t] = "idle"
    BY DEF Init
  <2>3. DataInv
    BY <2>2 DEF Init, DataInv, FifosInStep, IndexMatchesItem, InFlight, InOrder,
                EofAfterEveryItem
  <2>4. SenderSleepsForAReason /\ ReceiverSleepsForAReason
    BY <2>2 DEF SenderSleepsForAReason, ReceiverSleepsForAReason, Threads
  <2>. QED
    BY <2>1, <2>3, <2>4 DEF QueueInv
<1>2. QueueInv /\ [Next]_vars => QueueInv'
  BY TypeStep, DataStep, SleepStep DEF QueueInv
<1>. QED
  BY <1>1, <1>2, PTL DEF Spec

\* No wake-up of tq_send is lost: a producer that sleeps in it has nothing to
\* do, for any number of producers per stream and any queue size.
THEOREM SendersWakeUp ==
    ASSUME AllocFails = FALSE
    PROVE  Spec => []SenderSleepsForAReason
<1>1. QueueInv => SenderSleepsForAReason
  BY DEF QueueInv
<1>. QED
  BY <1>1, QueueInvariant, PTL

\* No wake-up of tq_receive is lost: while the consumer sleeps there is no item
\* of a stream it still reads and no end of a stream to report.
THEOREM ReceiverWakesUp ==
    ASSUME AllocFails = FALSE
    PROVE  Spec => []ReceiverSleepsForAReason
<1>1. QueueInv => ReceiverSleepsForAReason
  BY DEF QueueInv
<1>. QED
  BY <1>1, QueueInvariant, PTL

\* tq_receive reports the end of a stream once, after its last item.
THEOREM EofIsLast ==
    ASSUME AllocFails = FALSE
    PROVE  Spec => []EofAfterEveryItem
<1>1. QueueInv => EofAfterEveryItem
  BY DEF QueueInv, DataInv
<1>. QED
  BY <1>1, QueueInvariant, PTL

\* tq_receive gives every item with the index of its own stream.
THEOREM IndicesMatch ==
    ASSUME AllocFails = FALSE
    PROVE  Spec => []IndexMatchesItem
<1>1. QueueInv => IndexMatchesItem
  BY DEF QueueInv, DataInv, FifosInStep
<1>. QED
  BY <1>1, QueueInvariant, PTL

\* A step of the queue is a step of one of its channels, or none.
LEMMA ChannelStep ==
    ASSUME AllocFails = FALSE, TypeOK, DataInv, [Next]_vars
    PROVE  [Channel!ANext]_(Channel!avars)
<1>. DEFINE closed == {s \in Streams : SendFinished(s)}
            ended == {s \in Streams : RecvFinished(s)}
<1>1. ASSUME UNCHANGED <<sent, got, eofs, finished>>
      PROVE  UNCHANGED Channel!avars
  BY <1>1 DEF Channel!avars, SendFinished, RecvFinished
<1>2. ASSUME NEW s \in Streams,
             finished' = [finished EXCEPT ![s] = @ \cup {SEND}],
             UNCHANGED <<sent, got, eofs>>
      PROVE  Channel!Close(s)
  <2>1. closed' = closed \cup {s} /\ ended' = ended
    BY <1>2 DEF TypeOK, SendFinished, RecvFinished, SEND, RECV
  <2>. QED
    BY <1>2, <2>1 DEF Channel!Close
<1>3. ASSUME NEW s \in Streams,
             finished' = [finished EXCEPT ![s] = @ \cup {RECV}]
      PROVE  closed' = closed /\ ended' = ended \cup {s}
  BY <1>3 DEF TypeOK, SendFinished, RecvFinished, SEND, RECV
<1>4. ASSUME NEW p \in Producers, NEW s \in Streams, SendLoop(p, s)
      PROVE  [Channel!ANext]_(Channel!avars)
  <2>1. CASE SendWait(p, s)
    BY <1>1, <2>1 DEF SendWait
  <2>2. CASE SendEof(p, s)
    BY <1>2, <2>2 DEF SendEof, Channel!ANext
  <2>3. CASE SendWrite(p, s)
    <3>1. Channel!Put(s)
      BY <2>3 DEF SendWrite, Channel!Put, SendFinished, RecvFinished
    <3>. QED
      BY <3>1 DEF Channel!ANext
  <2>. QED
    BY <1>4, <2>1, <2>2, <2>3 DEF SendLoop, SendNoMem
<1>5. ASSUME NEW p \in Producers, NEW s \in Streams, SendFinish(p, s)
      PROVE  [Channel!ANext]_(Channel!avars)
  BY <1>2, <1>5 DEF SendFinish, Channel!ANext
<1>6. ASSUME NEW p \in Producers, NEW s \in Streams, Send(p, s)
      PROVE  [Channel!ANext]_(Channel!avars)
  BY <1>4, <1>6 DEF Send
<1>7. ASSUME NEW p \in Producers, SendResume(p)
      PROVE  [Channel!ANext]_(Channel!avars)
  BY <1>4, <1>7 DEF SendResume, TypeOK
<1>8. CASE ReceiveItem
  <2>1. PICK k \in 1 .. Len(fifo) :
          /\ FirstLive(k)
          /\ got' = [got EXCEPT ![fifoStreamIndex[k]] = fifo[k].n]
    BY <1>8 DEF ReceiveItem
  <2>2. /\ fifo[k].stream \in Streams
        /\ fifoStreamIndex[k] = fifo[k].stream
        /\ ~RecvFinished(fifo[k].stream)
        /\ fifo[k].n = got[fifo[k].stream] + 1
        /\ fifo[k].n <= sent[fifo[k].stream]
    BY <2>1, FirstLiveIsNext
  <2>3. PICK s \in Streams : /\ ~RecvFinished(s)
                             /\ got' = [got EXCEPT ![s] = got[s] + 1]
                             /\ got[s] + 1 <= sent[s]
    BY <2>1, <2>2
  <2>4. got[s] < sent[s]
    BY <2>3 DEF TypeOK
  <2>5. Channel!Get(s)
    BY <1>8, <2>3, <2>4 DEF ReceiveItem, Channel!Get, SendFinished, RecvFinished
  <2>. QED
    BY <2>5 DEF Channel!ANext
<1>9. CASE ReceiveEof
  <2>1. PICK s \in Streams :
          /\ EofPending(s)
          /\ finished' = [finished EXCEPT ![s] = @ \cup {RECV}]
          /\ eofs' = [eofs EXCEPT ![s] = @ + 1]
    BY <1>9 DEF ReceiveEof
  <2>2. NoneLive /\ sent' = sent /\ got' = got
    BY <1>9 DEF ReceiveEof, DropAll
  <2>3. got[s] = sent[s]
    BY <2>1, <2>2, NothingLeft DEF EofPending
  <2>4. Channel!Eof(s)
    BY <1>3, <2>1, <2>2, <2>3 DEF Channel!Eof, EofPending
  <2>. QED
    BY <2>4 DEF Channel!ANext
<1>10. CASE ReceiveDone
  BY <1>1, <1>10 DEF ReceiveDone
<1>11. ASSUME NEW noBlock \in BOOLEAN, ReceiveAgain(noBlock)
       PROVE  [Channel!ANext]_(Channel!avars)
  BY <1>1, <1>11 DEF ReceiveAgain
<1>12. CASE Receive \/ ReceivePoll
  BY <1>8, <1>9, <1>10, <1>11, <1>12 DEF Receive, ReceivePoll
<1>13. ASSUME NEW s \in Streams, ReceiveFinish(s)
       PROVE  [Channel!ANext]_(Channel!avars)
  <2>1. Channel!Hangup(s)
    BY <1>3, <1>13 DEF ReceiveFinish, Channel!Hangup
  <2>. QED
    BY <2>1 DEF Channel!ANext
<1>14. ASSUME NEW b \in BOOLEAN, Choke(b)
       PROVE  [Channel!ANext]_(Channel!avars)
  BY <1>1, <1>14 DEF Choke
<1>15. ASSUME NEW t \in Threads, SpuriousWakeup(t)
       PROVE  [Channel!ANext]_(Channel!avars)
  BY <1>1, <1>15 DEF SpuriousWakeup
<1>16. CASE UNCHANGED vars
  BY <1>1, <1>16 DEF vars
<1>. QED
  BY <1>5, <1>6, <1>7, <1>12, <1>13, <1>14, <1>15, <1>16 DEF Next

\* The queue implements one reliable channel per stream: what the consumer
\* gets of a stream is what was accepted, in order, without loss, duplicate or
\* item of another stream, until the end of the stream or a hang-up.
THEOREM ImplementsChannel ==
    ASSUME AllocFails = FALSE
    PROVE  Spec => ChannelSpec
<1>1. Init => Channel!AInit
  BY DEF Init, Channel!AInit, SendFinished, RecvFinished
<1>2. QueueInv /\ [Next]_vars => [Channel!ANext]_(Channel!avars)
  BY ChannelStep DEF QueueInv
<1>. QED
  BY <1>1, <1>2, QueueInvariant, PTL DEF Spec, ChannelSpec, Channel!ASpec
=============================================================================
