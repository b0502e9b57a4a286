--------------------------- MODULE MuxStartProofs ---------------------------
(***************************************************************************)
(* Muxer start for every instance: any number of muxers and streams, any   *)
(* packets, any queue sizes.  The inductive invariant StartInv adds to the *)
(* types what the count of ready streams, the count of written headers and *)
(* the list of the muxers being started mean.  The second half is about    *)
(* the order of packets: what a muxer gets of a stream is the stream from  *)
(* its start, without a gap, and the packets that waited are muxed by      *)
(* their dts.  Both follow from where a packet can be: waiting in its      *)
(* stream's pre-muxing queue, in its muxer's queue, in the hands of the    *)
(* muxer's thread, or written.                                             *)
(***************************************************************************)
EXTENDS MuxStart, FiniteSetTheorems, TLAPS

\* The streams of a muxer whose encoder is not open yet.
Opening(m) == {s \in StreamsOf(m) : pc[s] = "opening"}

\* mux_ready_lock is held only to start the muxers of toStart.
LockInv == lock # 0 => toStart # <<>>

\* nb_streams_ready counts no stream that is still to be opened, so that only
\* one stream is the last of its muxer; nb_mux_ready counts the headers.
ReadyInv ==
    /\ \A m \in Muxes : nbReady[m] + Cardinality(Opening(m)) <= Cardinality(StreamsOf(m))
    /\ \A m \in headers : AllReady(nbReady, m)
    /\ nbMuxReady = Cardinality(headers)

\* Before sch_start nothing was sent and nothing started.
IdleInv ==
    phase = "uninit" =>
        /\ headers = {} /\ toStart = <<>> /\ lock = 0
        /\ \A s \in Streams : pc[s] \in {"opening", "send"} /\ preQueue[s] = <<>>
        /\ \A m \in Muxes : muxPc[m] = "off"

\* A muxer that is being started may run.
MayRun(m) == m \in headers /\ (Sdp => sdpWritten /\ headers = Muxes)

StartingInv == \A i \in 1 .. Len(toStart) : MayRun(toStart[i])

\* A muxer thread that sends a heartbeat has a packet in its hands.
BeatInv == \A m \in Muxes : muxPc[m] = "beat" => inHand[m] \in Packets

StartInv ==
    /\ inst \in Instances
    /\ TypeOK /\ BeatInv /\ LockInv /\ ReadyInv /\ IdleInv /\ StartingInv
    /\ SdpBeforeMuxing /\ NothingStranded

-----------------------------------------------------------------------------
(* What does not change                                                    *)

LEMMA Static ==
    ASSUME inst \in Instances
    PROVE  /\ NbMux \in Nat \ {0} /\ NbStreams \in Nat
           /\ MuxOf \in [Streams -> Muxes] /\ Dts \in [Streams -> Seq(Int)]
           /\ PreCapacity \in Nat /\ MaxPackets \in Nat /\ BeatCapacity \in Nat
           /\ Sdp \in BOOLEAN
BY InstanceAssumption DEF NbMux, NbStreams, MuxOf, Dts, PreCapacity, MaxPackets, BeatCapacity,
                          Sdp, Streams, Muxes

LEMMA Same ==
    ASSUME UNCHANGED inst
    PROVE  /\ Muxes' = Muxes /\ Streams' = Streams /\ NbMux' = NbMux /\ NbStreams' = NbStreams
           /\ MuxOf' = MuxOf /\ Dts' = Dts /\ Sdp' = Sdp /\ BeatCapacity' = BeatCapacity
           /\ Packets' = Packets
           /\ \A m : StreamsOf(m)' = StreamsOf(m)
           /\ \A s : LastPacket(s)' = LastPacket(s)
BY DEF NbMux, NbStreams, MuxOf, Dts, Sdp, BeatCapacity, Streams, Muxes, Packets, Packet,
       LastPacket, StreamsOf

LEMMA PacketFacts ==
    /\ \A s \in Streams : \A n \in 1 .. LastPacket(s) : Packet(s, n) \in Packets
    /\ \A p \in Packets : p.stream \in Streams
BY DEF Packets, Packet

\* The streams of a muxer are finitely many, and so are the muxers.
LEMMA Finite ==
    ASSUME inst \in Instances
    PROVE  /\ IsFiniteSet(Muxes) /\ Cardinality(Muxes) = NbMux
           /\ \A m : /\ IsFiniteSet(StreamsOf(m))
                     /\ Cardinality(StreamsOf(m)) \in 0 .. NbStreams
           /\ \A m : IsFiniteSet(Opening(m)) /\ Cardinality(Opening(m)) \in Nat
<1>1. /\ IsFiniteSet(Muxes) /\ Cardinality(Muxes) = NbMux
      /\ IsFiniteSet(Streams) /\ Cardinality(Streams) = NbStreams
  <2>1. NbMux \in Nat /\ NbStreams \in Nat
    BY Static
  <2>2. /\ IsFiniteSet(1 .. NbMux) /\ Cardinality(1 .. NbMux) = NbMux
        /\ IsFiniteSet(1 .. NbStreams) /\ Cardinality(1 .. NbStreams) = NbStreams
    BY <2>1, FS_Interval
  <2>. QED
    BY <2>2 DEF Muxes, Streams
<1>2. ASSUME NEW m
      PROVE  /\ IsFiniteSet(StreamsOf(m))
             /\ Cardinality(StreamsOf(m)) \in 0 .. NbStreams
             /\ IsFiniteSet(Opening(m)) /\ Cardinality(Opening(m)) \in Nat
  <2>1. StreamsOf(m) \in SUBSET Streams /\ Opening(m) \in SUBSET StreamsOf(m)
    BY DEF StreamsOf, Opening
  <2>2. IsFiniteSet(StreamsOf(m)) /\ Cardinality(StreamsOf(m)) <= NbStreams
    BY <1>1, <2>1, FS_Subset
  <2>3. IsFiniteSet(Opening(m))
    BY <2>1, <2>2, FS_Subset
  <2>. QED
    BY <2>2, <2>3, FS_CardinalityType, Static
<1>. QED
  BY <1>1, <1>2

\* InSequence lists the muxers of a set: all of them, or one.
LEMMA InSequenceLists ==
    ASSUME inst \in Instances, NEW M, M = Muxes \/ \E m \in Muxes : M = {m}
    PROVE  /\ InSequence(M) \in Seq(M) /\ InSequence(M) # <<>>
           /\ \A i \in 1 .. Len(InSequence(M)) : InSequence(M)[i] \in M
           /\ \A i, j \in 1 .. Len(InSequence(M)) : i # j => InSequence(M)[i] # InSequence(M)[j]
           /\ M # Muxes => Len(InSequence(M)) = 1
<1>. DEFINE Pos(m) == Cardinality({k \in M : k < m})
<1>1. Cardinality(M) \in Nat \ {0}
      /\ \A i \in 1 .. Cardinality(M) : \E m \in M : Pos(m) = i - 1
  <2>1. CASE M = Muxes
    <3>1. ASSUME NEW i \in 1 .. NbMux
          PROVE  Pos(i) = i - 1
      <4>1. {k \in M : k < i} = 1 .. (i - 1)
        BY <2>1, Static DEF Muxes
      <4>2. Cardinality(1 .. (i - 1)) = i - 1
        BY FS_Interval, Static
      <4>. QED
        BY <4>1, <4>2
    <3>. HIDE DEF Pos
    <3>. QED
      BY <2>1, <3>1, Finite, Static DEF Muxes
  <2>2. CASE \E m \in Muxes : M = {m}
    <3>1. PICK m \in Muxes : M = {m}
      BY <2>2
    <3>2. Cardinality(M) = 1
      BY <3>1, FS_Singleton
    <3>3. {k \in M : k < m} = {}
      BY <3>1, Static DEF Muxes
    <3>4. Pos(m) = 0
      BY <3>3, FS_EmptySet
    <3>. HIDE DEF Pos
    <3>. QED
      BY <3>1, <3>2, <3>4
  <2>. QED
    BY <2>1, <2>2
<1>2. InSequence(M) = [i \in 1 .. Cardinality(M) |-> CHOOSE m \in M : Pos(m) = i - 1]
  BY DEF InSequence
<1>. HIDE DEF Pos
<1>3. \A i \in 1 .. Cardinality(M) : InSequence(M)[i] \in M
  BY <1>1, <1>2
<1>4. InSequence(M) \in [1 .. Cardinality(M) -> M]
  BY <1>2, <1>3
<1>5. InSequence(M) \in Seq(M) /\ Len(InSequence(M)) = Cardinality(M)
  BY <1>1, <1>4
<1>6. \A i \in 1 .. Cardinality(M) : Pos(InSequence(M)[i]) = i - 1
  BY <1>1, <1>2
<1>7. \A i, j \in 1 .. Cardinality(M) : i # j => InSequence(M)[i] # InSequence(M)[j]
  BY <1>6
<1>8. M # Muxes => Cardinality(M) = 1
  BY FS_Singleton
<1>. QED
  BY <1>1, <1>3, <1>5, <1>7, <1>8

\* A stream that is being opened is not counted yet, so its muxer's header is
\* not written.
LEMMA NotCountedYet ==
    ASSUME StartInv, NEW s \in Streams, pc[s] = "opening"
    PROVE  /\ MuxOf[s] \in Muxes
           /\ nbReady[MuxOf[s]] + 1 <= Cardinality(StreamsOf(MuxOf[s]))
           /\ nbReady[MuxOf[s]] + 1 \in 0 .. NbStreams
           /\ MuxOf[s] \notin headers
<1>. DEFINE m == MuxOf[s]
<1>1. m \in Muxes
  BY Static DEF StartInv
<1>2. s \in Opening(m)
  BY DEF Opening, StreamsOf
<1>3. Cardinality(Opening(m)) # 0 /\ Cardinality(Opening(m)) \in Nat
  BY <1>2, Finite, FS_EmptySet DEF StartInv
<1>4. nbReady[m] + Cardinality(Opening(m)) <= Cardinality(StreamsOf(m)) /\ nbReady[m] \in Nat
  BY <1>1 DEF StartInv, ReadyInv, TypeOK
<1>5. Cardinality(StreamsOf(m)) \in 0 .. NbStreams /\ NbStreams \in Nat
  BY Finite, Static DEF StartInv
<1>6. nbReady[m] + 1 <= Cardinality(StreamsOf(m)) /\ nbReady[m] + 1 \in 0 .. NbStreams
  BY <1>3, <1>4, <1>5
<1>7. m \notin headers
  <2>. SUFFICES ASSUME m \in headers PROVE FALSE
    OBVIOUS
  <2>1. nbReady[m] = Cardinality(StreamsOf(m))
    BY DEF StartInv, ReadyInv, AllReady
  <2>. QED
    BY <2>1, <1>4, <1>5, <1>6
<1>. QED
  BY <1>1, <1>6, <1>7

-----------------------------------------------------------------------------
(* Types                                                                   *)


MuxPcs == {"off", "receive", "beat", "ending", "done"}
Pcs == {"opening", "starting", "send", "queueing", "direct", "eof", "done", "failed"}

\* TypeOK with the names that are the same before and after a step.
LEMMA TypeParts ==
    ASSUME StartInv, UNCHANGED inst
    PROVE  /\ TypeOK
           /\ preQueue \in [Streams -> Seq(Packets \cup {NULL})]
           /\ muxPc \in [Muxes -> MuxPcs] /\ pc \in [Streams -> Pcs]
           /\ queue \in [Muxes -> Seq(Packets)] /\ written \in [Muxes -> Seq(Packets)]
           /\ inHand \in [Muxes -> Packets \cup {NULL}]
           /\ sendFinished \subseteq Streams /\ recvFinished \subseteq Streams
           /\ toStart \in Seq(Muxes)
           /\ muxStarted \in [Muxes -> BOOLEAN]
           /\ next \in [Streams -> Nat]
           /\ \A s \in Streams : LastPacket(s) \in Nat /\ next[s] \in 1 .. LastPacket(s) + 1
<1>1. \A s \in Streams : LastPacket(s) \in Nat
  BY Static DEF StartInv, LastPacket
<1>. QED
  BY <1>1 DEF StartInv, TypeOK, MuxPcs, Pcs

\* The type invariant after a step, in the terms of before it.
LEMMA TypeNext ==
    ASSUME UNCHANGED inst,
           phase' \in {"uninit", "started"},
           nbReady' \in [Muxes -> 0 .. NbStreams],
           nbMuxReady' \in 0 .. NbMux,
           headers' \subseteq Muxes, sdpWritten' \in BOOLEAN,
           muxStarted' \in [Muxes -> BOOLEAN],
           initEof' \subseteq Streams,
           preQueue' \in [Streams -> Seq(Packets \cup {NULL})],
           preCap' \in [Streams -> Nat], preData' \in [Streams -> Nat],
           lock' \in Streams \cup {0},
           toStart' \in Seq(Muxes),
           pc' \in [Streams -> Pcs],
           next' \in [Streams -> Nat],
           \A s \in Streams : next'[s] \in 1 .. LastPacket(s) + 1,
           beats' \in 0 .. BeatCapacity,
           muxPc' \in [Muxes -> MuxPcs],
           inHand' \in [Muxes -> Packets \cup {NULL}],
           queue' \in [Muxes -> Seq(Packets)], written' \in [Muxes -> Seq(Packets)],
           sendFinished' \subseteq Streams, recvFinished' \subseteq Streams,
           flushed' \subseteq Packets
    PROVE  TypeOK'
BY Same DEF TypeOK, MuxPcs, Pcs, LastPacket

\* A thread that is started.
LEMMA StartThreadsTypes ==
    ASSUME NEW M, muxPc \in [Muxes -> MuxPcs], StartThreads(M)
    PROVE  muxPc' \in [Muxes -> MuxPcs]
BY DEF StartThreads, MuxPcs

LEMMA StartTypes ==
    ASSUME StartInv, UNCHANGED inst, NEW s \in Streams,
           StreamReady(s) \/ MuxInitFails(s) \/ MuxInit(s)
    PROVE  TypeOK'
<1>1. MuxOf[s] \in Muxes /\ nbReady[MuxOf[s]] + 1 \in 0 .. NbStreams
  BY NotCountedYet DEF StreamReady, MuxInitFails, MuxInit
<1>2. nbReady' \in [Muxes -> 0 .. NbStreams]
  BY <1>1 DEF StreamReady, MuxInitFails, MuxInit, StartInv, TypeOK
<1>3. CASE StreamReady(s)
  <2>1. pc' \in [Streams -> Pcs]
    BY <1>3, TypeParts DEF StreamReady, Pcs
  <2>. QED
    BY <1>2, <1>3, <2>1, TypeParts, TypeNext DEF StreamReady, preVars, queueVars, threadVars, TypeOK
<1>4. CASE MuxInitFails(s)
  <2>1. pc' \in [Streams -> Pcs]
    BY <1>4, TypeParts DEF MuxInitFails, Pcs
  <2>. QED
    BY <1>2, <1>4, <2>1, TypeParts, TypeNext DEF MuxInitFails, preVars, queueVars, threadVars, TypeOK
<1>5. CASE MuxInit(s)
  <2>. DEFINE S == IF Sdp THEN Muxes ELSE {MuxOf[s]}
  <2>1. headers' = headers \cup {MuxOf[s]} /\ nbMuxReady' = nbMuxReady + 1 /\ MuxOf[s] \notin headers
    BY <1>5, NotCountedYet DEF MuxInit
  <2>2. headers' \in SUBSET Muxes
    BY <1>1, <2>1 DEF StartInv, TypeOK
  <2>3. nbMuxReady' \in 0 .. NbMux
    <3>1. IsFiniteSet(headers) /\ nbMuxReady = Cardinality(headers)
      BY Finite, FS_Subset DEF StartInv, TypeOK, ReadyInv
    <3>2. nbMuxReady' = Cardinality(headers')
      BY <2>1, <3>1, FS_AddElement
    <3>3. Cardinality(headers') <= NbMux
      BY <2>2, Finite, FS_Subset DEF StartInv
    <3>. QED
      BY <2>1, <3>2, <3>3, Static DEF StartInv, TypeOK
  <2>4. InSequence(S) \in Seq(Muxes)
    <3>1. S \subseteq Muxes /\ (S = Muxes \/ \E m \in Muxes : S = {m})
      BY <1>1
    <3>. HIDE DEF S
    <3>2. InSequence(S) \in Seq(S)
      BY <3>1, InSequenceLists DEF StartInv
    <3>. QED
      BY <3>1, <3>2
  <2>5. /\ toStart' \in Seq(Muxes) /\ muxPc' \in [Muxes -> MuxPcs]
        /\ pc' \in [Streams -> Pcs] /\ sdpWritten' \in BOOLEAN /\ lock' \in Streams \cup {0}
    <3>. HIDE DEF S
    <3>1. \/ /\ pc' = [pc EXCEPT ![s] = "send"]
             /\ UNCHANGED <<sdpWritten, lock, toStart, muxPc>>
          \/ /\ sdpWritten' = Sdp /\ lock' = s
             /\ pc' = [pc EXCEPT ![s] = "starting"]
             /\ toStart' = InSequence(S)
             /\ StartThreads({toStart'[1]})
      BY <1>5 DEF MuxInit, S
    <3>. QED
      BY ZenonT(60), <2>4, <3>1, TypeParts, StartThreadsTypes, Static DEF StartInv, TypeOK, Pcs
  <2>. QED
    BY <1>2, <1>5, <2>2, <2>3, <2>5, TypeParts, TypeNext DEF MuxInit, preVars, queueVars, TypeOK
<1>. QED
  BY <1>3, <1>4, <1>5

LEMMA FlushTypes ==
    ASSUME StartInv, UNCHANGED inst, NEW p \in Streams,
           FlushPacket(p) \/ FlushEof(p) \/ FlushDone(p)
    PROVE  TypeOK'
<1>1. toStart \in Seq(Muxes) /\ toStart # <<>>
  <2>1. lock = p /\ p # 0
    BY DEF FlushPacket, FlushEof, FlushDone, Streams
  <2>. QED
    BY <2>1 DEF StartInv, TypeOK, LockInv
<1>2. toStart[1] \in Muxes /\ Tail(toStart) \in Seq(Muxes)
  BY <1>1
<1>3. ASSUME NEW s \in Streams, preQueue[s] # <<>>, TakePre(s)
      PROVE  Head1(s) \in Packets \cup {NULL} /\ preQueue' \in [Streams -> Seq(Packets \cup {NULL})]
  <2>1. preQueue[s] \in Seq(Packets \cup {NULL})
    BY TypeParts
  <2>2. Head1(s) \in Packets \cup {NULL} /\ Tail(preQueue[s]) \in Seq(Packets \cup {NULL})
    BY <1>3, <2>1 DEF Head1
  <2>. QED
    BY <1>3, <2>2, TypeParts DEF TakePre
<1>4. CASE FlushPacket(p)
  <2>1. PICK s \in Streams :
          /\ preQueue[s] # <<>> /\ Head1(s) # NULL /\ TakePre(s)
          /\ IF s \in initEof
             THEN UNCHANGED <<queue, initEof, flushed>>
             ELSE IF s \in recvFinished
             THEN initEof' = initEof \cup {s} /\ UNCHANGED <<queue, flushed>>
             ELSE /\ queue' = [queue EXCEPT ![toStart[1]] = Append(@, Head1(s))]
                  /\ flushed' = flushed \cup {Head1(s)}
                  /\ UNCHANGED initEof
    BY <1>4 DEF FlushPacket, MinStream
  <2>2. Head1(s) \in Packets /\ preQueue' \in [Streams -> Seq(Packets \cup {NULL})]
    BY <1>3, <2>1
  <2>3. Append(queue[toStart[1]], Head1(s)) \in Seq(Packets)
    BY <1>2, <2>2, TypeParts
  <2>4. queue' \in [Muxes -> Seq(Packets)] /\ initEof' \subseteq Streams /\ flushed' \subseteq Packets
    BY <2>1, <2>2, <2>3, TypeParts DEF TypeOK
  <2>. QED
    BY <1>4, <2>2, <2>4, TypeParts, TypeNext DEF FlushPacket, schVars, threadVars, TypeOK
<1>5. CASE FlushEof(p)
  <2>1. PICK s \in Streams :
          preQueue[s] # <<>> /\ TakePre(s) /\ sendFinished' = sendFinished \cup {s}
    BY <1>5 DEF FlushEof, MinStream
  <2>2. preQueue' \in [Streams -> Seq(Packets \cup {NULL})] /\ sendFinished' \subseteq Streams
    BY <1>3, <2>1, TypeParts
  <2>. QED
    BY <1>5, <2>2, TypeParts, TypeNext DEF FlushEof, schVars, threadVars, TypeOK
<1>6. CASE FlushDone(p)
  <2>1. toStart' \in Seq(Muxes) /\ muxStarted' \in [Muxes -> BOOLEAN]
    BY <1>2, <1>6, TypeParts DEF FlushDone
  <2>2. muxPc' \in [Muxes -> MuxPcs] /\ pc' \in [Streams -> Pcs] /\ lock' \in Streams \cup {0}
    BY <1>6, TypeParts, StartThreadsTypes DEF FlushDone, Pcs, TypeOK
  <2>. QED
    BY <1>6, <2>1, <2>2, TypeParts, TypeNext DEF FlushDone, schVars, preVars, queueVars, TypeOK
<1>. QED
  BY <1>4, <1>5, <1>6

LEMMA SendTypes ==
    ASSUME StartInv, UNCHANGED inst, NEW s \in Streams, Sending(s)
    PROVE  TypeOK'
<1>1. /\ MuxOf[s] \in Muxes /\ LastPacket(s) \in Nat
      /\ next[s] \in 1 .. LastPacket(s) + 1
  BY TypeParts, Static DEF StartInv
<1>2. ~IsEof(s) => ThisPacket(s) \in Packets
  BY <1>1, PacketFacts DEF IsEof, ThisPacket
<1>3. ThisPacket(s) \in Packets \cup {NULL}
  BY <1>2 DEF ThisPacket
<1>4. ASSUME NEW x \in Pcs, pc' = [pc EXCEPT ![s] = x]
      PROVE  pc' \in [Streams -> Pcs]
  BY <1>4, TypeParts
<1>5. ASSUME NEW n \in Nat, n \in 1 .. LastPacket(s) + 1, next' = [next EXCEPT ![s] = n]
      PROVE  /\ next' \in [Streams -> Nat]
             /\ \A t \in Streams : next'[t] \in 1 .. LastPacket(t) + 1
  BY <1>5, TypeParts
<1>6. ASSUME Sent(s)
      PROVE  /\ pc' \in [Streams -> Pcs] /\ next' \in [Streams -> Nat]
             /\ \A t \in Streams : next'[t] \in 1 .. LastPacket(t) + 1
  <2>1. PICK n \in Nat : n = (IF IsEof(s) THEN next[s] ELSE next[s] + 1)
    BY <1>1
  <2>4. n \in 1 .. LastPacket(s) + 1
    BY <1>1, <2>1 DEF IsEof
  <2>2. pc' \in [Streams -> Pcs]
    BY <1>4, <1>6 DEF Sent, Pcs
  <2>3. next' = [next EXCEPT ![s] = IF IsEof(s) THEN next[s] ELSE next[s] + 1]
    BY <1>6 DEF Sent
  <2>. QED
    BY <1>1, <1>5, <2>1, <2>2, <2>3, <2>4
<1>7. CASE SendPacket(s)
  <2>1. pc' \in [Streams -> Pcs]
    BY <1>4, <1>7 DEF SendPacket, Pcs
  <2>2. beats' \in 0 .. BeatCapacity
    BY <1>7, Static DEF SendPacket, TakeFrame, HasPacket, StartInv, TypeOK
  <2>. QED
    BY <1>7, <2>1, <2>2, TypeParts, TypeNext DEF SendPacket, schVars, preVars, queueVars, TypeOK
<1>8. CASE SendEof(s)
  <2>1. pc' \in [Streams -> Pcs]
    BY <1>4, <1>8 DEF SendEof, Pcs
  <2>2. /\ next' \in [Streams -> Nat]
        /\ \A t \in Streams : next'[t] \in 1 .. LastPacket(t) + 1
    <3>1. next' = [next EXCEPT ![s] = LastPacket(s) + 1]
      BY <1>8 DEF SendEof
    <3>2. LastPacket(s) + 1 \in Nat /\ LastPacket(s) + 1 \in 1 .. LastPacket(s) + 1
      BY <1>1
    <3>. QED
      BY <1>5, <3>1, <3>2
  <2>. QED
    BY <1>8, <2>1, <2>2, TypeParts, TypeNext DEF SendEof, schVars, preVars, queueVars, threadVars, TypeOK
<1>9. CASE PreQueue(s)
  <2>1. NewCapacity(s) \in Nat
    BY SMTT(60), Static DEF NewCapacity, StartInv, TypeOK
  <2>2. preCap' \in [Streams -> Nat] /\ preData' \in [Streams -> Nat]
    BY SMTT(60), <1>9, <2>1 DEF PreQueue, PreWrite, StartInv, TypeOK
  <2>3. Append(preQueue[s], ThisPacket(s)) \in Seq(Packets \cup {NULL})
    BY <1>3, TypeParts
  <2>4. preQueue' \in [Streams -> Seq(Packets \cup {NULL})]
    BY <1>9, <2>3, TypeParts DEF PreQueue, PreWrite
  <2>. QED
    BY <1>6, <1>9, <2>2, <2>4, TypeParts, TypeNext DEF PreQueue, schVars, queueVars, threadVars, TypeOK
<1>10. CASE PreOverflow(s)
  <2>1. pc' \in [Streams -> Pcs]
    BY <1>4, <1>10 DEF PreOverflow, Pcs
  <2>. QED
    BY <1>10, <2>1, TypeParts, TypeNext DEF PreOverflow, schVars, preVars, queueVars, threadVars, TypeOK
<1>11. CASE FallThrough(s)
  <2>1. pc' \in [Streams -> Pcs]
    BY <1>4, <1>11 DEF FallThrough, Pcs
  <2>. QED
    BY <1>11, <2>1, TypeParts, TypeNext DEF FallThrough, schVars, preVars, queueVars, threadVars, TypeOK
<1>12. CASE DirectPacket(s)
  <2>1. CASE s \in initEof \/ s \in recvFinished
    <3>1. pc' \in [Streams -> Pcs]
      BY <1>4, <1>12, <2>1 DEF DirectPacket, Pcs
    <3>. QED
      BY <1>12, <2>1, <3>1, TypeParts, TypeNext DEF DirectPacket, schVars, preVars, threadVars, TypeOK
  <2>2. CASE ~(s \in initEof \/ s \in recvFinished)
    <3>1. Append(queue[MuxOf[s]], ThisPacket(s)) \in Seq(Packets)
      BY <1>1, <1>2, <1>12, TypeParts DEF DirectPacket
    <3>2. queue' \in [Muxes -> Seq(Packets)]
      BY <1>1, <1>12, <2>2, <3>1, TypeParts DEF DirectPacket
    <3>. QED
      BY <1>6, <1>12, <2>2, <3>2, TypeParts, TypeNext DEF DirectPacket, schVars, preVars, threadVars, TypeOK
  <2>. QED
    BY <2>1, <2>2
<1>13. CASE DirectEof(s)
  <2>1. sendFinished' \subseteq Streams
    BY <1>13, TypeParts DEF DirectEof
  <2>. QED
    BY <1>6, <1>13, <2>1, TypeParts, TypeNext DEF DirectEof, schVars, preVars, threadVars, TypeOK
<1>. QED
  BY <1>7, <1>8, <1>9, <1>10, <1>11, <1>12, <1>13 DEF Sending

LEMMA MuxTypes ==
    ASSUME StartInv, UNCHANGED inst, NEW m \in Muxes, Muxing(m)
    PROVE  TypeOK'
<1>1. ASSUME NEW pkt \in Packets, Mux(m, pkt)
      PROVE  /\ written' \in [Muxes -> Seq(Packets)] /\ recvFinished' \subseteq Streams
             /\ muxPc' \in [Muxes -> MuxPcs]
  <2>1. Append(written[m], pkt) \in Seq(Packets) /\ pkt.stream \in Streams
    BY TypeParts, PacketFacts
  <2>2. written' = [written EXCEPT ![m] = Append(@, pkt)] \/ UNCHANGED written
    BY <1>1 DEF Mux
  <2>3. recvFinished' = recvFinished \cup {pkt.stream} \/ UNCHANGED recvFinished
    BY <1>1 DEF Mux
  <2>4. muxPc' \in [Muxes -> MuxPcs]
    BY <1>1, TypeParts DEF Mux, MuxPcs
  <2>. QED
    BY <2>1, <2>2, <2>3, <2>4, TypeParts
<1>2. CASE MuxReceive(m)
  <2>1. queue[m] \in Seq(Packets) /\ queue[m] # <<>>
    BY <1>2, TypeParts DEF MuxReceive
  <2>2. Head(queue[m]) \in Packets /\ Tail(queue[m]) \in Seq(Packets)
    BY <2>1
  <2>3. queue' \in [Muxes -> Seq(Packets)]
    BY <1>2, <2>2, TypeParts DEF MuxReceive
  <2>4. \/ UNCHANGED <<written, muxPc, inHand, recvFinished>>
        \/ /\ muxPc' = [muxPc EXCEPT ![m] = "beat"]
           /\ inHand' = [inHand EXCEPT ![m] = Head(queue[m])]
           /\ UNCHANGED <<written, recvFinished>>
        \/ Mux(m, Head(queue[m])) /\ UNCHANGED inHand
    BY <1>2 DEF MuxReceive
  <2>5. /\ written' \in [Muxes -> Seq(Packets)] /\ recvFinished' \subseteq Streams
        /\ muxPc' \in [Muxes -> MuxPcs] /\ inHand' \in [Muxes -> Packets \cup {NULL}]
    <3>1. CASE UNCHANGED <<written, muxPc, inHand, recvFinished>>
      BY <3>1, TypeParts
    <3>2. CASE /\ muxPc' = [muxPc EXCEPT ![m] = "beat"]
               /\ inHand' = [inHand EXCEPT ![m] = Head(queue[m])]
               /\ UNCHANGED <<written, recvFinished>>
      BY <2>2, <3>2, TypeParts DEF MuxPcs
    <3>3. CASE Mux(m, Head(queue[m])) /\ UNCHANGED inHand
      BY <1>1, <2>2, <3>3, TypeParts
    <3>. QED
      BY <2>4, <3>1, <3>2, <3>3
  <2>. QED
    BY <1>2, <2>3, <2>5, TypeParts, TypeNext DEF MuxReceive, schVars, preVars, TypeOK
<1>3. CASE MuxBeat(m)
  <2>1. inHand' \in [Muxes -> Packets \cup {NULL}]
    BY <1>3, TypeParts DEF MuxBeat
  <2>2. beats' \in 0 .. BeatCapacity
    BY <1>3, Static DEF MuxBeat, StartInv, TypeOK
  <2>3. inHand[m] \in Packets
    BY <1>3 DEF StartInv, BeatInv, MuxBeat
  <2>. QED
    BY <1>1, <1>3, <2>1, <2>2, <2>3, TypeParts, TypeNext DEF MuxBeat, schVars, preVars, TypeOK
<1>4. CASE MuxReceiveEof(m)
  <2>1. recvFinished' \subseteq Streams
    BY <1>4, TypeParts DEF MuxReceiveEof, StreamsOf
  <2>. QED
    BY <1>4, <2>1, TypeParts, TypeNext DEF MuxReceiveEof, schVars, preVars, threadVars, TypeOK
<1>5. CASE MuxDone(m)
  <2>1. recvFinished' \subseteq Streams
    BY <1>5, TypeParts DEF MuxDone, StreamsOf
  <2>2. muxPc' \in [Muxes -> MuxPcs]
    BY <1>5, TypeParts DEF MuxDone, MuxPcs
  <2>. QED
    BY <1>5, <2>1, <2>2, TypeParts, TypeNext DEF MuxDone, schVars, preVars, TypeOK
<1>. QED
  BY <1>2, <1>3, <1>4, <1>5 DEF Muxing

\* sch_start writes the headers of the muxers that are ready.
LEMMA SchStartTypes ==
    ASSUME StartInv, UNCHANGED inst, SchStart
    PROVE  /\ TypeOK' /\ headers' = {m \in Muxes : AllReady(nbReady, m)}
           /\ nbMuxReady' = Cardinality(headers')
           /\ \E S : /\ StartThreads(S) /\ S \subseteq headers'
                     /\ Sdp /\ S # {} => sdpWritten' /\ headers' = Muxes
<1>. DEFINE M == {m \in Muxes : AllReady(nbReady, m)}
            all == M = Muxes
            S == IF Sdp THEN IF all THEN Muxes ELSE {} ELSE M
<1>1. /\ phase' = "started" /\ nbMuxReady' = Cardinality(M) /\ headers' = M
      /\ sdpWritten' = (Sdp /\ all)
      /\ muxStarted' = [m \in Muxes |-> m \in S]
      /\ StartThreads(S)
  BY DEF SchStart
<1>2. M \in SUBSET Muxes /\ S \subseteq M /\ (Sdp /\ S # {} => all)
  OBVIOUS
<1>3. Cardinality(M) \in 0 .. NbMux
  BY <1>2, Finite, FS_Subset, FS_CardinalityType, Static DEF StartInv
<1>. HIDE DEF M, S
<1>4. muxPc' \in [Muxes -> MuxPcs]
  BY <1>1, TypeParts, StartThreadsTypes
<1>5. sdpWritten' \in BOOLEAN /\ muxStarted' \in [Muxes -> BOOLEAN] /\ headers' \subseteq Muxes
  BY <1>1, <1>2
<1>6. TypeOK'
  BY <1>1, <1>3, <1>4, <1>5, TypeParts, TypeNext DEF SchStart, preVars, queueVars, TypeOK
<1>. QED
  BY <1>1, <1>2, <1>6 DEF M

LEMMA TypeStep ==
    ASSUME StartInv, Next, UNCHANGED inst
    PROVE  TypeOK'
<1>1. CASE SchStart
  BY <1>1, SchStartTypes
<1>2. ASSUME NEW s \in Streams, Starting(s)
      PROVE  TypeOK'
  BY <1>2, StartTypes, FlushTypes DEF Starting
<1>3. CASE Terminated
  BY <1>3, TypeParts, TypeNext DEF Terminated, vars, schVars, preVars, queueVars, threadVars, TypeOK
<1>. QED
  BY <1>1, <1>2, <1>3, SendTypes, MuxTypes DEF Next

-----------------------------------------------------------------------------
(* The strengthening                                                       *)

\* Before sch_start there is no other step.
LEMMA OnlySchStart ==
    ASSUME StartInv, phase = "uninit", Next
    PROVE  SchStart
<1>1. /\ lock = 0
      /\ \A s \in Streams : pc[s] \in {"opening", "send"}
      /\ \A m \in Muxes : muxPc[m] = "off"
  BY DEF StartInv, IdleInv
<1>2. ASSUME NEW s \in Streams, Starting(s)
      PROVE  FALSE
  BY <1>1, <1>2 DEF Starting, StreamReady, MuxInit, MuxInitFails, FlushPacket, FlushEof, FlushDone,
                    Streams
<1>3. ASSUME NEW s \in Streams, Sending(s)
      PROVE  FALSE
  BY <1>1, <1>3 DEF Sending, SendPacket, SendEof, PreQueue, PreOverflow, FallThrough, DirectPacket,
                    DirectEof
<1>4. ASSUME NEW m \in Muxes, Muxing(m)
      PROVE  FALSE
  BY <1>1, <1>4 DEF Muxing, MuxReceive, MuxBeat, MuxReceiveEof, MuxDone
<1>. QED
  BY <1>2, <1>3, <1>4 DEF Next, Terminated, AllDone

LEMMA IdleStep ==
    ASSUME StartInv, Next, UNCHANGED inst
    PROVE  IdleInv'
<1>1. CASE phase = "uninit"
  BY <1>1, OnlySchStart DEF SchStart, IdleInv
<1>2. CASE phase = "started"
  <2>1. ASSUME NEW s \in Streams, Starting(s)
        PROVE  phase' = "started"
    BY <1>2, <2>1 DEF Starting, StreamReady, MuxInit, MuxInitFails, FlushPacket, FlushEof,
                      FlushDone, schVars
  <2>2. ASSUME NEW s \in Streams, Sending(s)
        PROVE  phase' = "started"
    BY <1>2, <2>2 DEF Sending, SendPacket, SendEof, PreQueue, PreOverflow, FallThrough,
                      DirectPacket, DirectEof, schVars
  <2>3. ASSUME NEW m \in Muxes, Muxing(m)
        PROVE  phase' = "started"
    BY <1>2, <2>3 DEF Muxing, MuxReceive, MuxBeat, MuxReceiveEof, MuxDone, schVars
  <2>4. phase' = "started"
    BY <1>2, <2>1, <2>2, <2>3 DEF Next, SchStart, Terminated, vars, schVars
  <2>. QED
    BY <2>4 DEF IdleInv
<1>. QED
  BY <1>1, <1>2 DEF StartInv, TypeOK

\* What a step of a running producer or muxer leaves alone.
LEMMA Running ==
    ASSUME StartInv,
           \/ \E s \in Streams : Sending(s) \/ FlushPacket(s) \/ FlushEof(s) \/ FlushDone(s)
           \/ \E m \in Muxes : Muxing(m)
           \/ Terminated
    PROVE  /\ UNCHANGED schVars
           /\ \A t \in Streams : pc'[t] = "opening" => pc[t] = "opening"
<1>1. ASSUME NEW s \in Streams, Sending(s)
      PROVE  UNCHANGED schVars /\ \A t \in Streams : pc'[t] = "opening" => pc[t] = "opening"
  <2>1. \E x \in Pcs \ {"opening"} : pc' = [pc EXCEPT ![s] = x]
    BY <1>1 DEF Sending, SendPacket, SendEof, PreQueue, PreOverflow, FallThrough,
                DirectPacket, DirectEof, Sent, Pcs
  <2>2. UNCHANGED schVars
    BY <1>1 DEF Sending, SendPacket, SendEof, PreQueue, PreOverflow, FallThrough,
                DirectPacket, DirectEof
  <2>. QED
    BY <2>1, <2>2 DEF StartInv, TypeOK
<1>2. ASSUME NEW s \in Streams, FlushPacket(s) \/ FlushEof(s) \/ FlushDone(s)
      PROVE  UNCHANGED schVars /\ \A t \in Streams : pc'[t] = "opening" => pc[t] = "opening"
  <2>1. UNCHANGED pc \/ pc' = [pc EXCEPT ![s] = "send"]
    BY <1>2 DEF FlushPacket, FlushEof, FlushDone
  <2>2. UNCHANGED schVars
    BY <1>2 DEF FlushPacket, FlushEof, FlushDone
  <2>. QED
    BY <2>1, <2>2 DEF StartInv, TypeOK
<1>3. ASSUME NEW m \in Muxes, Muxing(m)
      PROVE  UNCHANGED <<schVars, pc>>
  BY <1>3 DEF Muxing, MuxReceive, MuxBeat, MuxReceiveEof, MuxDone
<1>. QED
  BY <1>1, <1>2, <1>3 DEF Terminated, vars

\* What mux_init does: with the last header the SDP, and the muxers that are
\* to be started may run.
LEMMA HeaderWritten ==
    ASSUME StartInv, UNCHANGED inst, NEW s \in Streams, MuxInit(s)
    PROVE  /\ headers' = headers \cup {MuxOf[s]} /\ headers' \subseteq Muxes
           /\ nbMuxReady' = Cardinality(headers')
           /\ sdpWritten /\ Sdp => sdpWritten'
           /\ \/ UNCHANGED <<lock, toStart, muxPc>>
              \/ /\ toStart' # <<>> /\ StartThreads({toStart'[1]})
                 /\ \A i \in 1 .. Len(toStart') : toStart'[i] \in headers'
                 /\ Sdp => sdpWritten' /\ headers' = Muxes
<1>1. MuxOf[s] \in Muxes /\ MuxOf[s] \notin headers
  BY NotCountedYet DEF MuxInit
<1>2. headers' = headers \cup {MuxOf[s]} /\ nbMuxReady' = nbMuxReady + 1
  BY DEF MuxInit
<1>3. headers' \in SUBSET Muxes
  BY <1>1, <1>2 DEF StartInv, TypeOK
<1>4. nbMuxReady' = Cardinality(headers')
  <2>1. IsFiniteSet(headers) /\ nbMuxReady = Cardinality(headers)
    BY Finite, FS_Subset DEF StartInv, TypeOK, ReadyInv
  <2>. QED
    BY <1>1, <1>2, <2>1, FS_AddElement
<1>5. nbMuxReady' = NbMux => headers' = Muxes
  BY <1>3, <1>4, Finite, FS_Subset DEF StartInv
<1>. DEFINE S == IF Sdp THEN Muxes ELSE {MuxOf[s]}
<1>6. S = Muxes \/ \E m \in Muxes : S = {m}
  BY <1>1
<1>7. InSequence(S) # <<>> /\ \A i \in 1 .. Len(InSequence(S)) : InSequence(S)[i] \in S
  <2>. HIDE DEF S
  <2>. QED
    BY <1>6, InSequenceLists DEF StartInv
<1>8. \/ UNCHANGED <<sdpWritten, lock, toStart, muxPc>>
      \/ /\ sdpWritten' = Sdp /\ toStart' = InSequence(S) /\ StartThreads({toStart'[1]})
         /\ Sdp => nbMuxReady' = NbMux
  <2>. HIDE DEF S
  <2>. QED
    BY DEF MuxInit, S
<1>9. Sdp => S = Muxes
  OBVIOUS
<1>10. ~Sdp => S = {MuxOf[s]}
  OBVIOUS
<1>. HIDE DEF S
<1>. QED
  BY <1>2, <1>3, <1>4, <1>5, <1>7, <1>8, <1>9, <1>10

LEMMA ReadyStep ==
    ASSUME StartInv, Next, UNCHANGED inst
    PROVE  ReadyInv'
<1>1. ASSUME \A t \in Streams : pc'[t] = "opening" => pc[t] = "opening"
      PROVE  \A m \in Muxes : /\ Opening(m)' \subseteq Opening(m)
                              /\ Cardinality(Opening(m)') <= Cardinality(Opening(m))
                              /\ Cardinality(Opening(m)') \in Nat
  <2>. SUFFICES ASSUME NEW m \in Muxes
                PROVE  /\ Opening(m)' \subseteq Opening(m)
                       /\ Cardinality(Opening(m)') <= Cardinality(Opening(m))
                       /\ Cardinality(Opening(m)') \in Nat
    OBVIOUS
  <2>1. Opening(m)' \in SUBSET Opening(m)
    BY <1>1, Same DEF Opening, StreamsOf
  <2>2. IsFiniteSet(Opening(m))
    BY Finite DEF StartInv
  <2>. QED
    BY <2>1, <2>2, FS_Subset, FS_CardinalityType
<1>2. \A m \in Muxes : /\ nbReady[m] \in Nat /\ Cardinality(Opening(m)) \in Nat
                       /\ Cardinality(StreamsOf(m)) \in Nat
                       /\ nbReady[m] + Cardinality(Opening(m)) <= Cardinality(StreamsOf(m))
  BY Finite DEF StartInv, TypeOK, ReadyInv
<1>3. ASSUME UNCHANGED schVars, \A t \in Streams : pc'[t] = "opening" => pc[t] = "opening"
      PROVE  ReadyInv'
  <2>1. \A m \in Muxes :
          nbReady'[m] + Cardinality(Opening(m)') <= Cardinality(StreamsOf(m))
    BY <1>1, <1>2, <1>3 DEF schVars
  <2>. QED
    BY <1>3, <2>1, Same DEF schVars, StartInv, ReadyInv, AllReady
<1>4. CASE SchStart
  <2>1. \A m \in Muxes :
          nbReady'[m] + Cardinality(Opening(m)') <= Cardinality(StreamsOf(m))
    BY <1>1, <1>2, <1>4 DEF SchStart
  <2>2. \A m \in headers' : AllReady(nbReady', m)
    BY <1>4, SchStartTypes DEF SchStart
  <2>. QED
    BY <1>4, <2>1, <2>2, Same, SchStartTypes DEF ReadyInv, AllReady
<1>5. ASSUME NEW s \in Streams, StreamReady(s) \/ MuxInit(s) \/ MuxInitFails(s)
      PROVE  ReadyInv'
  <2>0. PICK m : m = MuxOf[s]
    OBVIOUS
  <2>1. /\ pc[s] = "opening" /\ nbReady' = [nbReady EXCEPT ![m] = @ + 1]
        /\ \E x \in Pcs \ {"opening"} : pc' = [pc EXCEPT ![s] = x]
    BY <1>5, <2>0 DEF StreamReady, MuxInit, MuxInitFails, Pcs
  <2>2. \A t \in Streams : pc'[t] = "opening" => t # s /\ pc[t] = "opening"
    BY <2>1 DEF StartInv, TypeOK
  <2>3. m \in Muxes /\ s \in Opening(m) /\ s \notin Opening(m)'
    BY <2>0, <2>1, <2>2, NotCountedYet, Same DEF Opening, StreamsOf
  <2>4. \A k \in Muxes : /\ Opening(k)' \subseteq Opening(k)
                         /\ Cardinality(Opening(k)') <= Cardinality(Opening(k))
                         /\ Cardinality(Opening(k)') \in Nat
    BY <1>1, <2>2
  <2>5. Cardinality(Opening(m)') + 1 <= Cardinality(Opening(m))
    <3>1. IsFiniteSet(Opening(m))
      BY Finite DEF StartInv
    <3>2. Cardinality(Opening(m) \ {s}) = Cardinality(Opening(m)) - 1 /\ IsFiniteSet(Opening(m) \ {s})
      BY <2>3, <3>1, FS_RemoveElement
    <3>3. Opening(m)' \in SUBSET (Opening(m) \ {s})
      BY <2>3, <2>4
    <3>4. Cardinality(Opening(m)') <= Cardinality(Opening(m) \ {s})
      BY <3>2, <3>3, FS_Subset
    <3>. QED
      BY <1>2, <2>3, <2>4, <3>2, <3>4
  <2>6. \A k \in Muxes :
          nbReady'[k] + Cardinality(Opening(k)') <= Cardinality(StreamsOf(k))
    <3>1. nbReady'[m] = nbReady[m] + 1 /\ \A k \in Muxes \ {m} : nbReady'[k] = nbReady[k]
      BY <2>1, <2>3 DEF StartInv, TypeOK
    <3>. QED
      BY <1>2, <2>3, <2>5, <2>4, <3>1
  <2>7. \A k \in headers : nbReady'[k] = Cardinality(StreamsOf(k))
    <3>1. m \notin headers /\ \A k \in Muxes \ {m} : nbReady'[k] = nbReady[k]
      BY <2>0, <2>1, <2>3, NotCountedYet DEF StartInv, TypeOK
    <3>. QED
      BY <3>1 DEF StartInv, TypeOK, ReadyInv, AllReady
  <2>8. (\A k \in headers' : nbReady'[k] = Cardinality(StreamsOf(k)))
        /\ nbMuxReady' = Cardinality(headers')
    <3>1. CASE MuxInit(s)
      BY <2>0, <2>7, <3>1, HeaderWritten DEF MuxInit, AllReady
    <3>2. CASE StreamReady(s) \/ MuxInitFails(s)
      BY <2>7, <3>2 DEF StreamReady, MuxInitFails, StartInv, ReadyInv
    <3>. QED
      BY <1>5, <3>1, <3>2
  <2>. QED
    BY <2>6, <2>8, Same DEF ReadyInv, AllReady
<1>. QED
  BY <1>3, <1>4, <1>5, Running DEF Next, Starting

LEMMA LockStep ==
    ASSUME StartInv, Next, UNCHANGED inst
    PROVE  LockInv'
<1>1. ASSUME NEW s \in Streams, Starting(s)
      PROVE  LockInv'
  <2>1. CASE StreamReady(s) \/ MuxInitFails(s) \/ FlushPacket(s) \/ FlushEof(s)
    BY <2>1 DEF StreamReady, MuxInitFails, FlushPacket, FlushEof, StartInv, LockInv
  <2>2. CASE MuxInit(s)
    BY <2>2, HeaderWritten DEF StartInv, LockInv
  <2>3. CASE FlushDone(s)
    <3>1. toStart' = <<>> => lock' = 0
      BY <2>3 DEF FlushDone
    <3>. QED
      BY <3>1 DEF LockInv
  <2>. QED
    BY <1>1, <2>1, <2>2, <2>3 DEF Starting
<1>2. ASSUME NEW s \in Streams, Sending(s)
      PROVE  UNCHANGED <<lock, toStart>>
  BY <1>2 DEF Sending, SendPacket, SendEof, PreQueue, PreOverflow, FallThrough, DirectPacket,
              DirectEof
<1>3. ASSUME NEW m \in Muxes, Muxing(m)
      PROVE  UNCHANGED <<lock, toStart>>
  BY <1>3 DEF Muxing, MuxReceive, MuxBeat, MuxReceiveEof, MuxDone
<1>. QED
  BY <1>1, <1>2, <1>3 DEF Next, SchStart, Terminated, vars, StartInv, LockInv

\* Headers stay written, and so does the SDP: what may run may go on.
LEMMA MayRunKept ==
    ASSUME NEW m, MayRun(m), UNCHANGED inst,
           headers \subseteq headers', headers' \subseteq Muxes,
           Sdp /\ sdpWritten => sdpWritten'
    PROVE  MayRun(m)'
BY Same DEF MayRun

LEMMA MayRunStep ==
    ASSUME StartInv, Next, UNCHANGED inst
    PROVE  StartingInv' /\ SdpBeforeMuxing'
<1>1. \A m \in Muxes : muxPc[m] # "off" => MayRun(m)
  BY DEF StartInv, SdpBeforeMuxing, MayRun
<1>2. \A i \in 1 .. Len(toStart) : MayRun(toStart[i])
  BY DEF StartInv, StartingInv
<1>3. ASSUME \A m \in Muxes : muxPc'[m] # "off" => MayRun(m)'
      PROVE  SdpBeforeMuxing'
  BY <1>3, Same DEF SdpBeforeMuxing, MayRun
<1>4. ASSUME NEW M, StartThreads(M), \A m \in Muxes : muxPc[m] # "off" => MayRun(m)',
             \A m \in M : MayRun(m)'
      PROVE  SdpBeforeMuxing'
  BY <1>3, <1>4 DEF StartThreads
<1>5. ASSUME UNCHANGED <<schVars, toStart>>,
             \A m \in Muxes : muxPc'[m] # "off" => muxPc[m] # "off"
      PROVE  StartingInv' /\ SdpBeforeMuxing'
  <2>1. ASSUME NEW m, MayRun(m)
        PROVE  MayRun(m)'
    BY <1>5, <2>1, Same DEF schVars, MayRun
  <2>. QED
    BY <1>1, <1>2, <1>3, <1>5, <2>1 DEF StartingInv
<1>6. CASE SchStart
  <2>1. headers = {} /\ toStart = <<>>
    <3>1. phase = "uninit"
      BY <1>6 DEF SchStart
    <3>. QED
      BY <3>1 DEF StartInv, IdleInv
  <2>2. \A m \in Muxes : muxPc[m] = "off"
    BY <1>1, <2>1 DEF MayRun
  <2>3. PICK S : /\ StartThreads(S) /\ S \subseteq headers'
                 /\ Sdp /\ S # {} => sdpWritten' /\ headers' = Muxes
    BY <1>6, SchStartTypes
  <2>4. \A m \in S : MayRun(m)'
    BY <2>3, Same DEF MayRun
  <2>5. SdpBeforeMuxing'
    BY <1>4, <2>2, <2>3, <2>4
  <2>6. toStart' = <<>>
    BY <1>6, <2>1 DEF SchStart
  <2>. QED
    BY <2>5, <2>6 DEF StartingInv
<1>7. ASSUME NEW s \in Streams, StreamReady(s) \/ MuxInitFails(s)
      PROVE  StartingInv' /\ SdpBeforeMuxing'
  <2>1. UNCHANGED <<headers, sdpWritten, toStart, muxPc>>
    BY <1>7 DEF StreamReady, MuxInitFails, threadVars
  <2>2. ASSUME NEW m, MayRun(m)
        PROVE  MayRun(m)'
    BY <2>1, <2>2, Same DEF MayRun
  <2>. QED
    BY <1>1, <1>2, <1>3, <2>1, <2>2 DEF StartingInv
<1>8. ASSUME NEW s \in Streams, MuxInit(s)
      PROVE  StartingInv' /\ SdpBeforeMuxing'
  <2>1. ASSUME NEW m, MayRun(m)
        PROVE  MayRun(m)'
    BY <1>8, <2>1, HeaderWritten, MayRunKept
  <2>2. CASE UNCHANGED <<lock, toStart, muxPc>>
    BY <1>1, <1>2, <1>3, <2>1, <2>2 DEF StartingInv
  <2>3. CASE /\ toStart' # <<>> /\ StartThreads({toStart'[1]})
             /\ \A i \in 1 .. Len(toStart') : toStart'[i] \in headers'
             /\ Sdp => sdpWritten' /\ headers' = Muxes
    <3>1. StartingInv'
      BY <2>3, Same DEF StartingInv, MayRun
    <3>2. toStart' \in Seq(Muxes)
      BY <1>8, StartTypes, Same DEF TypeOK
    <3>3. MayRun(toStart[1])'
      BY <2>3, <3>1, <3>2 DEF StartingInv
    <3>. QED
      BY <1>1, <1>4, <2>1, <2>3, <3>1, <3>3
  <2>. QED
    BY <1>8, <2>2, <2>3, HeaderWritten
<1>9. ASSUME NEW p \in Streams, FlushPacket(p) \/ FlushEof(p)
      PROVE  StartingInv' /\ SdpBeforeMuxing'
  BY <1>5, <1>9 DEF FlushPacket, FlushEof, threadVars
<1>10. ASSUME NEW p \in Streams, FlushDone(p)
       PROVE  StartingInv' /\ SdpBeforeMuxing'
  <2>1. /\ toStart' = Tail(toStart) /\ UNCHANGED schVars
        /\ \/ toStart' = <<>> /\ UNCHANGED muxPc
           \/ StartThreads({toStart'[1]}) /\ toStart' # <<>>
    BY <1>10 DEF FlushDone
  <2>2. ASSUME NEW m, MayRun(m)
        PROVE  MayRun(m)'
    BY <2>1, <2>2, Same DEF schVars, MayRun
  <2>3. toStart \in Seq(Muxes) /\ toStart # <<>>
    <3>1. lock = p /\ p # 0
      BY <1>10 DEF FlushDone, Streams
    <3>. QED
      BY <3>1 DEF StartInv, TypeOK, LockInv
  <2>4. \A i \in 1 .. Len(Tail(toStart)) : i + 1 \in 1 .. Len(toStart) /\ Tail(toStart)[i] = toStart[i + 1]
    BY <2>3
  <2>5. \A i \in 1 .. Len(toStart') : MayRun(toStart'[i])
    BY <1>2, <2>1, <2>4
  <2>6. StartingInv'
    BY <2>2, <2>5 DEF StartingInv
  <2>7. CASE toStart' = <<>> /\ UNCHANGED muxPc
    BY <1>1, <1>3, <2>2, <2>6, <2>7
  <2>8. CASE StartThreads({toStart'[1]}) /\ toStart' # <<>>
    <3>1. toStart' \in Seq(Muxes)
      BY <2>1, <2>3
    <3>2. MayRun(toStart[1])'
      BY <2>6, <2>8, <3>1 DEF StartingInv
    <3>. QED
      BY <1>1, <1>4, <2>2, <2>6, <2>8, <3>2
  <2>. QED
    BY <2>1, <2>7, <2>8
<1>11. ASSUME NEW s \in Streams, Sending(s)
       PROVE  StartingInv' /\ SdpBeforeMuxing'
  BY <1>5, <1>11 DEF Sending, SendPacket, SendEof, PreQueue, PreOverflow, FallThrough, DirectPacket,
              DirectEof, threadVars
<1>12. ASSUME NEW m \in Muxes, Muxing(m)
       PROVE  StartingInv' /\ SdpBeforeMuxing'
  <2>1. muxPc[m] # "off" /\ UNCHANGED <<schVars, toStart>>
        /\ \A k \in Muxes : k # m => muxPc'[k] = muxPc[k]
    BY <1>12 DEF Muxing, MuxReceive, MuxBeat, MuxReceiveEof, MuxDone, Mux, threadVars,
                 StartInv, TypeOK
  <2>. QED
    BY <1>5, <2>1
<1>13. CASE Terminated
  BY <1>5, <1>13 DEF Terminated, vars, threadVars
<1>. QED
  BY <1>6, <1>7, <1>8, <1>9, <1>10, <1>11, <1>12, <1>13 DEF Next, Starting

\* A muxer that has started has nothing in its pre-muxing queues: a producer
\* looks at mux_started under the lock, and the flush empties them all.
LEMMA StrandedStep ==
    ASSUME StartInv, Next, UNCHANGED inst
    PROVE  NothingStranded'
<1>1. \A s \in Streams : muxStarted[MuxOf[s]] => preQueue[s] = <<>>
  BY DEF StartInv, NothingStranded
<1>2. ASSUME UNCHANGED <<muxStarted, preQueue>>
      PROVE  NothingStranded'
  BY <1>1, <1>2, Same DEF NothingStranded
<1>3. CASE SchStart
  <2>1. phase = "uninit" /\ UNCHANGED preQueue
    BY <1>3 DEF SchStart, preVars
  <2>. QED
    BY <2>1, Same DEF NothingStranded, StartInv, IdleInv
<1>4. ASSUME NEW p \in Streams, NEW s \in Streams, TakePre(s), UNCHANGED muxStarted,
             MinStream(toStart[1], s)
      PROVE  NothingStranded'
  <2>1. preQueue[s] # <<>>
    BY <1>4 DEF MinStream
  <2>2. \A t \in Streams : t # s => preQueue'[t] = preQueue[t]
    BY <1>4, TypeParts DEF TakePre
  <2>. QED
    BY <1>1, <1>4, <2>1, <2>2, Same DEF NothingStranded
<1>5. ASSUME NEW p \in Streams, FlushDone(p)
      PROVE  NothingStranded'
  <2>1. /\ \A s \in StreamsOf(toStart[1]) : preQueue[s] = <<>>
        /\ muxStarted' = [muxStarted EXCEPT ![toStart[1]] = TRUE]
        /\ UNCHANGED preQueue
    BY <1>5 DEF FlushDone, preVars
  <2>2. \A s \in Streams : muxStarted'[MuxOf[s]] =>
                             muxStarted[MuxOf[s]] \/ s \in StreamsOf(toStart[1])
    BY <2>1, TypeParts, Static DEF StartInv, StreamsOf
  <2>. QED
    BY <1>1, <2>1, <2>2, Same DEF NothingStranded
<1>6. ASSUME NEW s \in Streams, PreQueue(s)
      PROVE  NothingStranded'
  <2>1. /\ ~muxStarted[MuxOf[s]] /\ UNCHANGED muxStarted
        /\ \A t \in Streams : t # s => preQueue'[t] = preQueue[t]
    BY <1>6, TypeParts DEF PreQueue, PreWrite
  <2>. QED
    BY <1>1, <2>1, Same DEF NothingStranded
<1>7. ASSUME NEW s \in Streams, Starting(s)
      PROVE  NothingStranded'
  <2>1. CASE StreamReady(s) \/ MuxInit(s) \/ MuxInitFails(s)
    BY <1>2, <2>1 DEF StreamReady, MuxInit, MuxInitFails, preVars
  <2>2. CASE FlushPacket(s) \/ FlushEof(s)
    BY <1>4, <2>2 DEF FlushPacket, FlushEof
  <2>. QED
    BY <1>5, <1>7, <2>1, <2>2 DEF Starting
<1>8. ASSUME NEW s \in Streams, Sending(s), ~PreQueue(s)
      PROVE  UNCHANGED <<muxStarted, preQueue>>
  BY <1>8 DEF Sending, SendPacket, SendEof, PreOverflow, FallThrough, DirectPacket, DirectEof,
              preVars
<1>9. ASSUME NEW m \in Muxes, Muxing(m)
      PROVE  UNCHANGED <<muxStarted, preQueue>>
  BY <1>9 DEF Muxing, MuxReceive, MuxBeat, MuxReceiveEof, MuxDone, preVars
<1>10. Terminated => UNCHANGED <<muxStarted, preQueue>>
  BY DEF Terminated, vars, preVars
<1>. QED
  BY <1>2, <1>3, <1>6, <1>7, <1>8, <1>9, <1>10 DEF Next

LEMMA BeatStep ==
    ASSUME StartInv, Next, UNCHANGED inst
    PROVE  BeatInv'
<1>1. \A m \in Muxes : muxPc[m] = "beat" => inHand[m] \in Packets
  BY DEF StartInv, BeatInv
<1>2. ASSUME UNCHANGED inHand, \A m \in Muxes : muxPc'[m] = "beat" => muxPc[m] = "beat"
      PROVE  BeatInv'
  BY <1>1, <1>2, Same DEF BeatInv
<1>3. ASSUME NEW M, StartThreads(M)
      PROVE  \A m \in Muxes : muxPc'[m] = "beat" => muxPc[m] = "beat"
  BY <1>3 DEF StartThreads
<1>4. CASE SchStart
  BY <1>2, <1>3, <1>4, SchStartTypes DEF SchStart
<1>5. ASSUME NEW s \in Streams, Starting(s)
      PROVE  BeatInv'
  <2>1. UNCHANGED inHand
    BY <1>5 DEF Starting, StreamReady, MuxInit, MuxInitFails, FlushPacket, FlushEof, FlushDone,
                threadVars
  <2>2. UNCHANGED muxPc \/ \E M : StartThreads(M)
    BY <1>5 DEF Starting, StreamReady, MuxInit, MuxInitFails, FlushPacket, FlushEof, FlushDone,
                threadVars
  <2>. QED
    BY <1>2, <1>3, <2>1, <2>2
<1>6. ASSUME NEW s \in Streams, Sending(s)
      PROVE  UNCHANGED <<muxPc, inHand>>
  BY <1>6 DEF Sending, SendPacket, SendEof, PreQueue, PreOverflow, FallThrough, DirectPacket,
              DirectEof, threadVars
<1>7. ASSUME NEW m \in Muxes, Muxing(m)
      PROVE  BeatInv'
  <2>1. ASSUME NEW pkt, Mux(m, pkt)
        PROVE  /\ muxPc'[m] # "beat"
               /\ \A k \in Muxes : k # m => muxPc'[k] = muxPc[k]
    BY <2>1, TypeParts DEF Mux
  <2>2. CASE MuxReceive(m)
    <3>1. queue[m] \in Seq(Packets) /\ queue[m] # <<>>
      BY <2>2, TypeParts DEF MuxReceive
    <3>2. Head(queue[m]) \in Packets
      BY <3>1
    <3>3. CASE UNCHANGED <<muxPc, inHand>>
      BY <1>2, <3>3
    <3>4. CASE /\ muxPc' = [muxPc EXCEPT ![m] = "beat"]
               /\ inHand' = [inHand EXCEPT ![m] = Head(queue[m])]
      BY <1>1, <3>2, <3>4, TypeParts, Same DEF BeatInv
    <3>5. CASE Mux(m, Head(queue[m])) /\ UNCHANGED inHand
      BY <1>2, <2>1, <3>5
    <3>. QED
      BY <2>2, <3>3, <3>4, <3>5 DEF MuxReceive
  <2>3. CASE MuxBeat(m)
    <3>1. inHand' = [inHand EXCEPT ![m] = NULL] /\ Mux(m, inHand[m])
      BY <2>3 DEF MuxBeat
    <3>. QED
      BY <1>1, <2>1, <3>1, TypeParts, Same DEF BeatInv
  <2>4. CASE MuxReceiveEof(m)
    BY <1>2, <2>4 DEF MuxReceiveEof, threadVars
  <2>5. CASE MuxDone(m)
    <3>1. UNCHANGED inHand /\ muxPc' = [muxPc EXCEPT ![m] = "done"]
      BY <2>5 DEF MuxDone
    <3>. QED
      BY <1>2, <3>1, TypeParts
  <2>. QED
    BY <1>7, <2>2, <2>3, <2>4, <2>5 DEF Muxing
<1>8. Terminated => UNCHANGED <<muxPc, inHand>>
  BY DEF Terminated, vars, threadVars
<1>. QED
  BY <1>2, <1>4, <1>5, <1>6, <1>7, <1>8 DEF Next

-----------------------------------------------------------------------------
(* The invariant                                                           *)

LEMMA InitStart == Init => StartInv
<1>. SUFFICES ASSUME Init PROVE StartInv
  OBVIOUS
<1>0. inst \in Instances
  BY DEF Init
<1>1. \A m \in Muxes :
        /\ Cardinality(StreamsOf(m) \cap CopyStreams) + Cardinality(Opening(m))
             = Cardinality(StreamsOf(m))
        /\ Cardinality(StreamsOf(m) \cap CopyStreams) \in 0 .. NbStreams
  <2>. SUFFICES ASSUME NEW m \in Muxes
                PROVE  /\ Cardinality(StreamsOf(m) \cap CopyStreams) + Cardinality(Opening(m))
                            = Cardinality(StreamsOf(m))
                       /\ Cardinality(StreamsOf(m) \cap CopyStreams) \in 0 .. NbStreams
    OBVIOUS
  <2>1. Opening(m) = StreamsOf(m) \ CopyStreams
    BY DEF Init, Opening, StreamsOf
  <2>2. IsFiniteSet(StreamsOf(m)) /\ Cardinality(StreamsOf(m)) \in 0 .. NbStreams
    BY <1>0, Finite
  <2>3. Cardinality(Opening(m)) = Cardinality(StreamsOf(m)) - Cardinality(StreamsOf(m) \cap CopyStreams)
    BY <2>1, <2>2, FS_Difference
  <2>4. StreamsOf(m) \cap CopyStreams \in SUBSET StreamsOf(m)
    OBVIOUS
  <2>5. /\ Cardinality(StreamsOf(m) \cap CopyStreams) <= Cardinality(StreamsOf(m))
        /\ Cardinality(StreamsOf(m) \cap CopyStreams) \in Nat
    BY <2>2, <2>4, FS_Subset, FS_CardinalityType
  <2>. QED
    BY <1>0, <2>2, <2>3, <2>5, Static
<1>2. \A s \in Streams : LastPacket(s) \in Nat
  BY <1>0, Static DEF LastPacket
<1>3. TypeOK
  <2>1. nbReady \in [Muxes -> 0 .. NbStreams]
    BY <1>1 DEF Init
  <2>2. /\ preQueue \in [Streams -> Seq(Packets \cup {NULL})]
        /\ queue \in [Muxes -> Seq(Packets)] /\ written \in [Muxes -> Seq(Packets)]
        /\ toStart \in Seq(Muxes)
    BY DEF Init
  <2>3. /\ pc \in [Streams -> Pcs] /\ muxPc \in [Muxes -> MuxPcs]
        /\ next \in [Streams -> Nat] /\ \A s \in Streams : next[s] \in 1 .. LastPacket(s) + 1
        /\ inHand \in [Muxes -> Packets \cup {NULL}]
    BY <1>2 DEF Init, Pcs, MuxPcs
  <2>4. /\ preCap \in [Streams -> Nat] /\ preData \in [Streams -> Nat]
        /\ nbMuxReady \in 0 .. NbMux /\ beats \in 0 .. BeatCapacity
    <3>1. NbMux \in Nat /\ BeatCapacity \in Nat /\ PreCapacity \in Nat
      BY <1>0, Static
    <3>. QED
      BY <3>1 DEF Init
  <2>5. /\ phase \in {"uninit", "started"} /\ headers \subseteq Muxes
        /\ sdpWritten \in BOOLEAN /\ muxStarted \in [Muxes -> BOOLEAN] /\ initEof \subseteq Streams
        /\ lock \in Streams \cup {0}
        /\ sendFinished \subseteq Streams /\ recvFinished \subseteq Streams
        /\ flushed \subseteq Packets
    BY DEF Init
  <2>. QED
    BY <2>1, <2>2, <2>3, <2>4, <2>5 DEF TypeOK, Pcs, MuxPcs
<1>4. ReadyInv
  <2>1. \A m \in Muxes : nbReady[m] + Cardinality(Opening(m)) <= Cardinality(StreamsOf(m))
    <3>1. \A m \in Muxes : nbReady[m] = Cardinality(StreamsOf(m) \cap CopyStreams)
      BY DEF Init
    <3>2. \A m \in Muxes : Cardinality(StreamsOf(m)) \in Nat
      BY <1>0, Finite
    <3>3. ASSUME NEW m \in Muxes
          PROVE  nbReady[m] + Cardinality(Opening(m)) <= Cardinality(StreamsOf(m))
      <4>1. nbReady[m] + Cardinality(Opening(m)) = Cardinality(StreamsOf(m))
        BY <1>1, <3>1
      <4>. QED
        BY <3>2, <4>1
    <3>. QED
      BY <3>3
  <2>. QED
    BY <2>1, FS_EmptySet DEF Init, ReadyInv
<1>5. BeatInv /\ LockInv /\ IdleInv /\ StartingInv /\ SdpBeforeMuxing /\ NothingStranded
  BY <1>0, Static DEF Init, BeatInv, LockInv, IdleInv, StartingInv, SdpBeforeMuxing, NothingStranded
<1>. QED
  BY <1>0, <1>3, <1>4, <1>5 DEF StartInv

\* The inductive invariant of the start of the muxers.
THEOREM StartInvariant == Spec => []StartInv
<1>1. StartInv /\ [Next /\ UNCHANGED inst]_<<vars, inst>> => StartInv'
  <2>1. ASSUME StartInv, Next, UNCHANGED inst
        PROVE  StartInv'
    BY <2>1, TypeStep, IdleStep, ReadyStep, LockStep, MayRunStep, StrandedStep, BeatStep
       DEF StartInv
  <2>2. ASSUME StartInv, UNCHANGED <<vars, inst>>
        PROVE  StartInv'
    <3>1. Opening(0)' = Opening(0) /\ \A m : Opening(m)' = Opening(m)
      BY <2>2, Same DEF Opening, vars
    <3>2. ReadyInv'
      BY <2>2, <3>1, Same DEF StartInv, ReadyInv, AllReady, vars, schVars
    <3>3. TypeOK'
      BY <2>2, TypeParts, TypeNext DEF vars, schVars, preVars, queueVars, threadVars, TypeOK
    <3>4. BeatInv' /\ LockInv' /\ IdleInv' /\ StartingInv' /\ SdpBeforeMuxing' /\ NothingStranded'
      BY <2>2, Same DEF StartInv, BeatInv, LockInv, IdleInv, StartingInv, MayRun, SdpBeforeMuxing,
                        NothingStranded, vars, schVars, preVars, queueVars, threadVars
    <3>. QED
      BY <2>2, <3>2, <3>3, <3>4 DEF StartInv
  <2>. QED
    BY <2>1, <2>2
<1>. QED
  BY <1>1, InitStart, PTL DEF Spec

\* The variables of the start of the muxers keep their types.
THEOREM StartTypeCorrect == Spec => []TypeOK
<1>1. StartInv => TypeOK
  BY DEF StartInv
<1>. QED
  BY <1>1, StartInvariant, PTL

\* No muxer thread runs before its header is written, nor, with an SDP, before
\* all headers and the SDP are.
THEOREM SdpIsFirst == Spec => []SdpBeforeMuxing
<1>1. StartInv => SdpBeforeMuxing
  BY DEF StartInv
<1>. QED
  BY <1>1, StartInvariant, PTL

\* No packet stays behind in a pre-muxing queue of a muxer that has started,
\* whatever a producer saw of mux_started just before.
THEOREM NoPacketStranded == Spec => []NothingStranded
<1>1. StartInv => NothingStranded
  BY DEF StartInv
<1>. QED
  BY <1>1, StartInvariant, PTL

-----------------------------------------------------------------------------
(* The order of packets                                                    *)

Items(q) == {q[i] : i \in 1 .. Len(q)}

\* The items of q are ordered by R.
InOrder(q, R) == \A i, j \in 1 .. Len(q) : i < j => <<q[i], q[j]>> \in R

\* A muxer's packets, written (A), in its thread's hands (B) and in its queue
\* (C), are ordered by R.
Path(A, B, C, R) ==
    /\ InOrder(A, R) /\ InOrder(C, R)
    /\ Items(A) \X B \subseteq R
    /\ (Items(A) \cup B) \X Items(C) \subseteq R

\* What a muxer thread holds while it sends a heartbeat.
Held(m) == IF muxPc[m] = "beat" THEN {inHand[m]} ELSE {}

Muxed(m) == Items(written[m]) \cup Held(m) \cup Items(queue[m])
Waiting(s) == Items(preQueue[s]) \ {NULL}

\* Two packets of one stream go by their numbers.
Sequel == {x \in (Packets \cup {NULL}) \X (Packets \cup {NULL}) :
             (x[1] # NULL /\ x[1].stream = x[2].stream) => x[1].n < x[2].n}

\* Every packet is on the way of its stream.
PlaceInv ==
    /\ \A m \in Muxes : \A p \in Muxed(m) : MuxOf[p.stream] = m
    /\ \A s \in Streams : \A p \in Waiting(s) : p.stream = s

\* The way of a stream: its packets in the muxer's, then those waiting, then
\* the next one.
OrderInv ==
    /\ \A m \in Muxes : Path(written[m], Held(m), queue[m], Sequel)
    /\ \A s \in Streams :
         /\ InOrder(preQueue[s], Sequel)
         /\ Muxed(MuxOf[s]) \X Waiting(s) \subseteq Sequel
         /\ \A p \in Muxed(MuxOf[s]) \cup Waiting(s) : p.stream = s => p.n < next[s]

\* A producer sends directly only to a muxer that has started.
DirectInv == \A s \in Streams : pc[s] = "direct" => muxStarted[MuxOf[s]]

\* A muxer is started once.
OnceInv ==
    /\ \A i \in 2 .. Len(toStart) : muxPc[toStart[i]] = "off"
    /\ \A i, j \in 1 .. Len(toStart) : i # j => toStart[i] # toStart[j]

\* What is known of streams that have ended.
EndInv ==
    /\ initEof \subseteq recvFinished
    /\ \A m \in Muxes : /\ muxPc[m] = "beat" => inHand[m].stream \notin recvFinished
                        /\ muxPc[m] = "done" => StreamsOf(m) \subseteq recvFinished

\* The muxer still takes packets of s.
Live(s) == s \notin recvFinished /\ muxPc[MuxOf[s]] \notin {"ending", "done"}

\* The packets of s that were sent and are not dropped.
Numbers(s) == {n \in 1 .. LastPacket(s) : Packet(s, n) \in Muxed(MuxOf[s]) \cup Waiting(s)}

GapInv ==
    \A s \in Streams : Live(s) =>
        \E e \in 0 .. LastPacket(s) : Numbers(s) = 1 .. e /\ (~IsEof(s) => next[s] = e + 1)

WholeInv ==
    \A m \in Muxes : \A p \in Items(written[m]) : \A n \in 1 .. p.n :
        Packet(p.stream, n) \in Items(written[m])

\* Packets that waited go by their dts.
FlushOrder == {x \in Packets \X Packets :
                 {x[1], x[2]} \subseteq flushed /\ x[1].dts # NOPTS /\ x[2].dts # NOPTS
                     => x[1].dts <= x[2].dts}

DtsInv == \A m \in Muxes : Path(written[m], Held(m), queue[m], FlushOrder)

\* m has started, or its start is under way: nothing is queued for it any more.
Begun(m) == muxStarted[m] \/ (lock # 0 /\ toStart # <<>> /\ toStart[1] = m)

FlushedInv ==
    /\ phase = "uninit" => flushed = {}
    /\ \A p \in flushed :
         /\ p.n < next[p.stream]
         /\ Begun(MuxOf[p.stream])
         /\ \A s \in StreamsOf(MuxOf[p.stream]) : \A q \in Waiting(s) :
              p.dts # NOPTS /\ q.dts # NOPTS => p.dts <= q.dts

\* What the encoders and demuxers promise: the dts of a stream do not decrease.
DtsRising ==
    \A i \in Instances : \A s \in 1 .. i.NbStreams : \A a, b \in 1 .. Len(i.Dts[s]) :
        a < b /\ i.Dts[s][a] # NOPTS /\ i.Dts[s][b] # NOPTS => i.Dts[s][a] <= i.Dts[s][b]

-----------------------------------------------------------------------------
(* Sequences and the ways they make up                                     *)

LEMMA AppendFacts ==
    ASSUME NEW T, NEW q \in Seq(T), NEW p \in T, NEW R,
           InOrder(q, R), Items(q) \X {p} \subseteq R
    PROVE  InOrder(Append(q, p), R)
<1>1. /\ Append(q, p) \in Seq(T) /\ Len(Append(q, p)) = Len(q) + 1
      /\ \A i \in 1 .. Len(q) : Append(q, p)[i] = q[i]
      /\ Append(q, p)[Len(q) + 1] = p /\ Len(q) \in Nat
  OBVIOUS
<1>2. ASSUME NEW i \in 1 .. Len(q) + 1, NEW j \in 1 .. Len(q) + 1, i < j
      PROVE  <<Append(q, p)[i], Append(q, p)[j]>> \in R
  <2>1. i \in 1 .. Len(q)
    BY <1>1, <1>2
  <2>2. CASE j = Len(q) + 1
    <3>1. q[i] \in Items(q)
      BY <2>1 DEF Items
    <3>. QED
      BY <1>1, <2>1, <2>2, <3>1
  <2>3. CASE j # Len(q) + 1
    <3>1. j \in 1 .. Len(q)
      BY <1>1, <2>3
    <3>. QED
      BY <1>1, <1>2, <2>1, <3>1 DEF InOrder
  <2>. QED
    BY <2>2, <2>3
<1>. QED
  BY <1>1, <1>2 DEF InOrder

LEMMA AppendItems ==
    ASSUME NEW T, NEW q \in Seq(T), NEW p \in T
    PROVE  Items(Append(q, p)) = Items(q) \cup {p}
<1>1. /\ Len(Append(q, p)) = Len(q) + 1 /\ Len(q) \in Nat
      /\ \A i \in 1 .. Len(q) : Append(q, p)[i] = q[i]
      /\ Append(q, p)[Len(q) + 1] = p
  OBVIOUS
<1>2. ASSUME NEW x \in Items(Append(q, p))
      PROVE  x \in Items(q) \cup {p}
  <2>1. PICK i \in 1 .. Len(q) + 1 : x = Append(q, p)[i]
    BY <1>1 DEF Items
  <2>2. i \in 1 .. Len(q) \/ i = Len(q) + 1
    BY <1>1
  <2>. QED
    BY <1>1, <2>1, <2>2 DEF Items
<1>3. ASSUME NEW x \in Items(q) \cup {p}
      PROVE  x \in Items(Append(q, p))
  <2>1. PICK i \in 1 .. Len(q) + 1 : x = Append(q, p)[i]
    <3>1. CASE x \in Items(q)
      <4>1. PICK i \in 1 .. Len(q) : x = q[i]
        BY <3>1 DEF Items
      <4>. QED
        BY <1>1, <4>1
    <3>2. CASE x = p
      BY <1>1, <3>2
    <3>. QED
      BY <3>1, <3>2
  <2>. QED
    BY <1>1, <2>1 DEF Items
<1>. QED
  BY <1>2, <1>3

LEMMA TailItems ==
    ASSUME NEW T, NEW q \in Seq(T), q # <<>>
    PROVE  Items(q) = {Head(q)} \cup Items(Tail(q))
<1>1. /\ Len(Tail(q)) = Len(q) - 1 /\ Len(q) \in Nat \ {0} /\ Head(q) = q[1]
      /\ \A i \in 1 .. Len(q) - 1 : Tail(q)[i] = q[i + 1]
  OBVIOUS
<1>2. ASSUME NEW x \in Items(q)
      PROVE  x \in {Head(q)} \cup Items(Tail(q))
  <2>1. PICK i \in 1 .. Len(q) : x = q[i]
    BY DEF Items
  <2>2. i = 1 \/ (i - 1 \in 1 .. Len(q) - 1 /\ Tail(q)[i - 1] = q[i])
    BY <1>1
  <2>. QED
    BY <1>1, <2>1, <2>2 DEF Items
<1>3. ASSUME NEW x \in {Head(q)} \cup Items(Tail(q))
      PROVE  x \in Items(q)
  <2>1. CASE x = Head(q)
    BY <1>1, <2>1 DEF Items
  <2>2. CASE x \in Items(Tail(q))
    <3>1. PICK i \in 1 .. Len(q) - 1 : x = Tail(q)[i]
      BY <1>1, <2>2 DEF Items
    <3>2. x = q[i + 1] /\ i + 1 \in 1 .. Len(q)
      BY <1>1, <3>1
    <3>. QED
      BY <3>2 DEF Items
  <2>. QED
    BY <2>1, <2>2
<1>. QED
  BY <1>2, <1>3

LEMMA TailFacts ==
    ASSUME NEW T, NEW q \in Seq(T), q # <<>>, NEW R, InOrder(q, R)
    PROVE  InOrder(Tail(q), R) /\ {Head(q)} \X Items(Tail(q)) \subseteq R
<1>1. /\ Len(Tail(q)) = Len(q) - 1 /\ Len(q) \in Nat \ {0} /\ Head(q) = q[1]
      /\ \A i \in 1 .. Len(q) - 1 : Tail(q)[i] = q[i + 1] /\ i + 1 \in 1 .. Len(q) /\ 1 < i + 1
  OBVIOUS
<1>2. ASSUME NEW i \in 1 .. Len(q) - 1, NEW j \in 1 .. Len(q) - 1, i < j
      PROVE  <<Tail(q)[i], Tail(q)[j]>> \in R
  <2>1. i + 1 \in 1 .. Len(q) /\ j + 1 \in 1 .. Len(q) /\ i + 1 < j + 1
    BY <1>1, <1>2
  <2>. QED
    BY <1>1, <2>1 DEF InOrder
<1>3. ASSUME NEW i \in 1 .. Len(q) - 1
      PROVE  <<Head(q), Tail(q)[i]>> \in R
  BY <1>1 DEF InOrder
<1>. QED
  BY <1>1, <1>2, <1>3 DEF InOrder, Items

\* The muxer thread takes a packet from its queue: it drops it, keeps it in its
\* hands or writes it.
LEMMA PathReceive ==
    ASSUME NEW T, NEW A \in Seq(T), NEW C \in Seq(T), C # <<>>, NEW R, Path(A, {}, C, R)
    PROVE  /\ Path(A, {}, Tail(C), R)
           /\ Path(A, {Head(C)}, Tail(C), R)
           /\ Path(Append(A, Head(C)), {}, Tail(C), R)
<1>1. /\ InOrder(Tail(C), R) /\ {Head(C)} \X Items(Tail(C)) \subseteq R
      /\ Items(C) = {Head(C)} \cup Items(Tail(C)) /\ Head(C) \in T
  BY TailFacts, TailItems DEF Path
<1>2. Items(A) \X {Head(C)} \subseteq R /\ Items(A) \X Items(Tail(C)) \subseteq R
  BY <1>1 DEF Path
<1>3. InOrder(Append(A, Head(C)), R) /\ Items(Append(A, Head(C))) = Items(A) \cup {Head(C)}
  BY <1>1, <1>2, AppendFacts, AppendItems DEF Path
<1>. QED
  BY <1>1, <1>2, <1>3 DEF Path

\* It writes what it has in its hands, or drops it.
LEMMA PathBeat ==
    ASSUME NEW T, NEW A \in Seq(T), NEW h \in T, NEW C \in Seq(T), NEW R, Path(A, {h}, C, R)
    PROVE  Path(A, {}, C, R) /\ Path(Append(A, h), {}, C, R)
<1>1. InOrder(Append(A, h), R) /\ Items(Append(A, h)) = Items(A) \cup {h}
  BY AppendFacts, AppendItems DEF Path
<1>. QED
  BY <1>1 DEF Path

\* A packet is added to its queue.
LEMMA PathSend ==
    ASSUME NEW T, NEW A \in Seq(T), NEW B, NEW C \in Seq(T), NEW p \in T, NEW R,
           Path(A, B, C, R), (Items(A) \cup B \cup Items(C)) \X {p} \subseteq R
    PROVE  Path(A, B, Append(C, p), R)
<1>1. InOrder(Append(C, p), R) /\ Items(Append(C, p)) = Items(C) \cup {p}
  BY AppendFacts, AppendItems DEF Path
<1>. QED
  BY <1>1 DEF Path

\* Only the order of the packets on the way counts.
LEMMA PathOther ==
    ASSUME NEW A, NEW B, NEW C, NEW R, NEW R2, Path(A, B, C, R),
           \A x, y \in Items(A) \cup B \cup Items(C) : <<x, y>> \in R => <<x, y>> \in R2
    PROVE  Path(A, B, C, R2)
<1>1. \A i \in 1 .. Len(A) : A[i] \in Items(A)
  BY DEF Items
<1>2. \A i \in 1 .. Len(C) : C[i] \in Items(C)
  BY DEF Items
<1>. QED
  BY <1>1, <1>2 DEF Path, InOrder

-----------------------------------------------------------------------------
(* Muxers are started once, and packets sent directly after that           *)

\* A started thread was off.
LEMMA StartsOff ==
    ASSUME StartInv, OnceInv, UNCHANGED inst,
           SchStart \/ \E s \in Streams : Starting(s) \/ Sending(s)
    PROVE  /\ \A m \in Muxes : \/ muxPc'[m] = muxPc[m]
                               \/ muxPc[m] = "off" /\ muxPc'[m] = "receive"
           /\ OnceInv'
<1>. USE TypeParts
<1>1. ASSUME NEW m0 \in Muxes, StartThreads({m0}), muxPc[m0] = "off"
      PROVE  \A m \in Muxes : \/ muxPc'[m] = muxPc[m] /\ m # m0
                              \/ muxPc[m] = "off" /\ muxPc'[m] = "receive" /\ m = m0
  BY <1>1 DEF StartThreads
<1>2. ASSUME UNCHANGED <<muxPc, toStart>>
      PROVE  OnceInv' /\ \A m \in Muxes : muxPc'[m] = muxPc[m]
  BY <1>2 DEF OnceInv
<1>3. CASE SchStart
  <2>1. toStart' = <<>> /\ \A m \in Muxes : muxPc[m] = "off"
    BY <1>3 DEF SchStart, StartInv, IdleInv
  <2>2. PICK S : StartThreads(S)
    BY <1>3, SchStartTypes
  <2>. QED
    BY <2>1, <2>2 DEF StartThreads, OnceInv
<1>4. ASSUME NEW s \in Streams, MuxInit(s)
      PROVE  /\ \A m \in Muxes : \/ muxPc'[m] = muxPc[m]
                                 \/ muxPc[m] = "off" /\ muxPc'[m] = "receive"
             /\ OnceInv'
  <2>. DEFINE S == IF Sdp THEN Muxes ELSE {MuxOf[s]}
  <2>1. CASE UNCHANGED <<toStart, muxPc>>
    BY <1>2, <2>1
  <2>2. CASE toStart' = InSequence(S) /\ StartThreads({toStart'[1]})
    <3>1. MuxOf[s] \in Muxes /\ MuxOf[s] \notin headers
      BY <1>4, NotCountedYet DEF MuxInit
    <3>2. \A m \in S : m \in Muxes /\ muxPc[m] = "off"
      BY <3>1 DEF StartInv, SdpBeforeMuxing
    <3>3. S = Muxes \/ \E m \in Muxes : S = {m}
      BY <3>1
    <3>. HIDE DEF S
    <3>4. /\ InSequence(S) \in Seq(S) /\ InSequence(S) # <<>>
          /\ \A i \in 1 .. Len(InSequence(S)) : InSequence(S)[i] \in S
          /\ \A i, j \in 1 .. Len(InSequence(S)) : i # j => InSequence(S)[i] # InSequence(S)[j]
      BY <3>3, InSequenceLists DEF StartInv
    <3>5. 1 \in 1 .. Len(toStart') /\ toStart'[1] \in S
      BY <2>2, <3>4
    <3>6. \A m \in Muxes : \/ muxPc'[m] = muxPc[m] /\ m # toStart'[1]
                           \/ muxPc[m] = "off" /\ muxPc'[m] = "receive" /\ m = toStart'[1]
      BY <1>1, <2>2, <3>2, <3>5
    <3>7. \A i \in 2 .. Len(toStart') : muxPc'[toStart'[i]] = "off"
      <4>1. ASSUME NEW i \in 2 .. Len(toStart')
            PROVE  i \in 1 .. Len(toStart') /\ i # 1
        BY <3>4
      <4>. QED
        BY SMTT(60), <2>2, <3>2, <3>4, <3>5, <3>6, <4>1
    <3>. QED
      BY <2>2, <3>4, <3>6, <3>7 DEF OnceInv
  <2>. QED
    BY <1>4, <2>1, <2>2 DEF MuxInit
<1>5. ASSUME NEW p \in Streams, FlushDone(p)
      PROVE  /\ \A m \in Muxes : \/ muxPc'[m] = muxPc[m]
                                 \/ muxPc[m] = "off" /\ muxPc'[m] = "receive"
             /\ OnceInv'
  <2>1. toStart \in Seq(Muxes) /\ toStart # <<>> /\ toStart' = Tail(toStart)
    <3>1. lock = p /\ p # 0
      BY <1>5 DEF FlushDone, Streams
    <3>. QED
      BY <1>5, <3>1 DEF StartInv, LockInv, FlushDone
  <2>2. /\ Len(Tail(toStart)) = Len(toStart) - 1 /\ Len(toStart) \in Nat
        /\ \A i \in 1 .. Len(Tail(toStart)) :
             Tail(toStart)[i] = toStart[i + 1] /\ i + 1 \in 2 .. Len(toStart)
    BY <2>1
  <2>3. /\ \A i \in 1 .. Len(toStart') : toStart'[i] \in Muxes /\ muxPc[toStart'[i]] = "off"
        /\ \A i, j \in 1 .. Len(toStart') : i # j => toStart'[i] # toStart'[j]
    <3>1. ASSUME NEW i \in 1 .. Len(toStart'), NEW j \in 1 .. Len(toStart'), i # j
          PROVE  toStart'[i] # toStart'[j]
      <4>1. i + 1 \in 1 .. Len(toStart) /\ j + 1 \in 1 .. Len(toStart) /\ i + 1 # j + 1
        BY <2>1, <2>2, <3>1
      <4>. QED
        BY <2>1, <2>2, <4>1 DEF OnceInv
    <3>2. ASSUME NEW i \in 1 .. Len(toStart')
          PROVE  toStart'[i] \in Muxes /\ muxPc[toStart'[i]] = "off"
      BY <2>1, <2>2 DEF OnceInv
    <3>. QED
      BY <3>1, <3>2
  <2>4. CASE toStart' = <<>> /\ UNCHANGED muxPc
    BY <2>3, <2>4 DEF OnceInv
  <2>5. CASE toStart' # <<>> /\ StartThreads({toStart'[1]})
    <3>1. 1 \in 1 .. Len(toStart') /\ toStart' \in Seq(Muxes)
      BY <2>1, <2>5
    <3>2. \A m \in Muxes : \/ muxPc'[m] = muxPc[m] /\ m # toStart'[1]
                           \/ muxPc[m] = "off" /\ muxPc'[m] = "receive" /\ m = toStart'[1]
      BY <1>1, <2>3, <2>5, <3>1
    <3>3. ASSUME NEW i \in 2 .. Len(toStart')
          PROVE  muxPc'[toStart'[i]] = "off"
      <4>1. i \in 1 .. Len(toStart') /\ i # 1
        BY <3>1
      <4>2. toStart'[i] # toStart'[1] /\ toStart'[i] \in Muxes /\ muxPc[toStart'[i]] = "off"
        BY <2>3, <3>1, <4>1
      <4>. QED
        BY <3>2, <4>2
    <3>. QED
      BY <2>3, <3>2, <3>3 DEF OnceInv
  <2>. QED
    BY <1>5, <2>4, <2>5 DEF FlushDone
<1>6. ASSUME NEW s \in Streams, Starting(s) \/ Sending(s), ~MuxInit(s), ~FlushDone(s)
      PROVE  UNCHANGED <<muxPc, toStart>>
  BY <1>6 DEF Starting, StreamReady, MuxInitFails, FlushPacket, FlushEof, Sending, SendPacket,
              SendEof, PreQueue, PreOverflow, FallThrough, DirectPacket, DirectEof, threadVars
<1>. QED
  BY <1>2, <1>3, <1>4, <1>5, <1>6

\* A muxer thread only moves its own pc, and stops for good.
LEMMA MuxingPc ==
    ASSUME StartInv, UNCHANGED inst, NEW m \in Muxes, Muxing(m)
    PROVE  /\ muxPc[m] # "off" /\ muxPc'[m] # "off" /\ UNCHANGED toStart
           /\ \A k \in Muxes : k # m => muxPc'[k] = muxPc[k]
           /\ muxPc[m] \in {"ending", "done"} => muxPc'[m] = "done" /\ UNCHANGED inHand
           /\ recvFinished \subseteq recvFinished'
BY TypeParts DEF Muxing, MuxReceive, MuxBeat, MuxReceiveEof, MuxDone, Mux, threadVars

LEMMA OnceStep ==
    ASSUME StartInv, OnceInv, Next, UNCHANGED inst
    PROVE  OnceInv'
<1>1. ASSUME NEW m \in Muxes, Muxing(m)
      PROVE  OnceInv'
  <2>1. ASSUME NEW i \in 2 .. Len(toStart)
        PROVE  muxPc'[toStart[i]] = "off"
    <3>1. toStart[i] \in Muxes
      BY TypeParts
    <3>. QED
      BY <1>1, <3>1, MuxingPc DEF OnceInv
  <2>. QED
    BY <1>1, <2>1, MuxingPc DEF OnceInv
<1>2. Terminated => OnceInv'
  BY DEF Terminated, vars, threadVars, OnceInv
<1>. QED
  BY <1>1, <1>2, StartsOff DEF Next

LEMMA DirectStep ==
    ASSUME StartInv, DirectInv, Next, UNCHANGED inst
    PROVE  DirectInv'
<1>. USE TypeParts
<1>1. ASSUME UNCHANGED muxStarted, \A s \in Streams : pc'[s] = "direct" => muxStarted[MuxOf[s]]
      PROVE  DirectInv'
  BY <1>1, Same DEF DirectInv
<1>2. CASE SchStart
  BY <1>2, Same DEF SchStart, StartInv, IdleInv, DirectInv
<1>3. ASSUME NEW p \in Streams, FlushDone(p)
      PROVE  DirectInv'
  <2>1. \A m \in Muxes : muxStarted[m] => muxStarted'[m]
    BY <1>3 DEF FlushDone
  <2>2. \A s \in Streams : pc'[s] = "direct" => pc[s] = "direct"
    BY <1>3 DEF FlushDone
  <2>. QED
    BY <2>1, <2>2, Static, Same DEF StartInv, DirectInv
<1>4. ASSUME NEW s \in Streams, Starting(s) \/ Sending(s), ~FlushDone(s)
      PROVE  DirectInv'
  <2>1. UNCHANGED muxStarted
    BY <1>4 DEF Starting, StreamReady, MuxInit, MuxInitFails, FlushPacket, FlushEof, Sending,
                SendPacket, SendEof, PreQueue, PreOverflow, FallThrough, DirectPacket, DirectEof
  <2>2. /\ \A t \in Streams : t # s => pc'[t] = pc[t]
        /\ pc'[s] = "direct" => pc[s] = "direct" \/ muxStarted[MuxOf[s]]
    BY <1>4 DEF Starting, StreamReady, MuxInit, MuxInitFails, FlushPacket, FlushEof, Sending,
                SendPacket, SendEof, PreQueue, PreOverflow, FallThrough, DirectPacket, DirectEof,
                Sent
  <2>. QED
    BY <1>1, <2>1, <2>2 DEF DirectInv
<1>5. ASSUME NEW m \in Muxes, Muxing(m)
      PROVE  DirectInv'
  <2>1. UNCHANGED <<pc, muxStarted>>
    BY <1>5 DEF Muxing, MuxReceive, MuxBeat, MuxReceiveEof, MuxDone
  <2>. QED
    BY <1>1, <2>1 DEF DirectInv
<1>6. Terminated => UNCHANGED <<pc, muxStarted>>
  BY DEF Terminated, vars
<1>. QED
  BY <1>1, <1>2, <1>3, <1>4, <1>5, <1>6 DEF Next, DirectInv

-----------------------------------------------------------------------------
(* What a step does to the packets on their way                            *)

\* No packet moves; a stream may give up the rest of its packets.
Rests ==
    /\ UNCHANGED <<queue, written, preQueue, flushed>>
    /\ \A m \in Muxes : Held(m)' = Held(m)
    /\ UNCHANGED next \/ \E s \in Streams : next' = [next EXCEPT ![s] = LastPacket(s) + 1]

\* The flush drops the packet of a stream that has ended, or an end of stream.
Drops(s) ==
    /\ preQueue[s] # <<>> /\ TakePre(s)
    /\ Head1(s) = NULL \/ s \in recvFinished
    /\ UNCHANGED <<queue, written, flushed, next>>
    /\ \A m \in Muxes : Held(m)' = Held(m)

\* The flush moves a packet to its muxer's queue.
Flushes(s) ==
    /\ preQueue[s] # <<>> /\ TakePre(s) /\ Head1(s) # NULL
    /\ MinStream(MuxOf[s], s)
    /\ lock # 0 /\ toStart # <<>> /\ toStart[1] = MuxOf[s]
    /\ queue' = [queue EXCEPT ![MuxOf[s]] = Append(@, Head1(s))]
    /\ flushed' = flushed \cup {Head1(s)}
    /\ UNCHANGED <<written, next, lock, toStart, muxStarted>>
    /\ \A m \in Muxes : Held(m)' = Held(m)

Advance(s) == next' = [next EXCEPT ![s] = IF IsEof(s) THEN @ ELSE @ + 1]

\* A packet, or the end of its stream, has to wait.
Waits(s) ==
    /\ lock = 0 /\ ~muxStarted[MuxOf[s]]
    /\ preQueue' = [preQueue EXCEPT ![s] = Append(@, ThisPacket(s))]
    /\ Advance(s)
    /\ UNCHANGED <<queue, written, flushed>>
    /\ \A m \in Muxes : Held(m)' = Held(m)

GoesDirectly(s) ==
    /\ pc[s] = "direct" /\ ~IsEof(s)
    /\ queue' = [queue EXCEPT ![MuxOf[s]] = Append(@, ThisPacket(s))]
    /\ Advance(s)
    /\ UNCHANGED <<written, preQueue, flushed>>
    /\ \A m \in Muxes : Held(m)' = Held(m)

LiveNext(s) == s \notin recvFinished' /\ muxPc'[MuxOf[s]] \notin {"ending", "done"}

\* What becomes of a packet p that m's thread takes or holds: it is written,
\* kept, or dropped when its stream or muxer ends.
Becomes(m, p) ==
    \/ /\ written' = [written EXCEPT ![m] = Append(@, p)] /\ Held(m)' = {}
       /\ Live(p.stream)
    \/ UNCHANGED written /\ Held(m)' = {p}
    \/ UNCHANGED written /\ Held(m)' = {} /\ ~LiveNext(p.stream)

Takes(m) ==
    /\ queue[m] # <<>> /\ Held(m) = {}
    /\ queue' = [queue EXCEPT ![m] = Tail(@)]
    /\ Becomes(m, Head(queue[m]))
    /\ UNCHANGED <<preQueue, flushed, next>>
    /\ \A k \in Muxes : k # m => Held(k)' = Held(k)

LetsGo(m) ==
    /\ Held(m) = {inHand[m]} /\ inHand[m] \in Packets
    /\ Becomes(m, inHand[m])
    /\ UNCHANGED <<queue, preQueue, flushed, next>>
    /\ \A k \in Muxes : k # m => Held(k)' = Held(k)

BaseInv == StartInv /\ PlaceInv /\ DirectInv /\ OnceInv /\ EndInv

\* A stream that has ended does not come back.
LEMMA LiveFewer ==
    ASSUME StartInv, OnceInv, EndInv, Next, UNCHANGED inst
    PROVE  \A s \in Streams : Live(s)' => Live(s)
<1>0. \A s \in Streams : MuxOf[s] \in Muxes /\ MuxOf'[s] = MuxOf[s]
  BY Static, Same DEF StartInv
<1>1. ASSUME recvFinished \subseteq recvFinished',
             \A m \in Muxes : muxPc[m] \in {"ending", "done"} => muxPc'[m] \in {"ending", "done"}
      PROVE  \A s \in Streams : Live(s)' => Live(s)
  BY <1>0, <1>1 DEF Live
<1>2. CASE SchStart \/ \E s \in Streams : Starting(s) \/ Sending(s)
  <2>1. UNCHANGED recvFinished
    BY <1>2 DEF SchStart, Starting, StreamReady, MuxInit, MuxInitFails, FlushPacket, FlushEof,
                FlushDone, Sending, SendPacket, SendEof, PreQueue, PreOverflow, FallThrough,
                DirectPacket, DirectEof, queueVars
  <2>. QED
    BY <1>1, <1>2, <2>1, StartsOff
<1>3. ASSUME NEW m \in Muxes, Muxing(m)
      PROVE  \A s \in Streams : Live(s)' => Live(s)
  BY <1>1, <1>3, MuxingPc
<1>4. CASE Terminated
  BY <1>1, <1>4 DEF Terminated, vars, queueVars, threadVars
<1>. QED
  BY <1>2, <1>3, <1>4 DEF Next

\* The steps of threads that are no muxers.
LEMMA SendingSteps ==
    ASSUME StartInv, OnceInv, EndInv, UNCHANGED inst,
           SchStart \/ \E s \in Streams : Starting(s) \/ Sending(s)
    PROVE  Rests \/ \E s \in Streams : Drops(s) \/ Flushes(s) \/ Waits(s) \/ GoesDirectly(s)
<1>. USE TypeParts
<1>1. UNCHANGED inHand /\ UNCHANGED written
  BY DEF SchStart, Starting, StreamReady, MuxInit, MuxInitFails, FlushPacket, FlushEof,
         FlushDone, Sending, SendPacket, SendEof, PreQueue, PreOverflow, FallThrough,
         DirectPacket, DirectEof, threadVars
<1>2. \A m \in Muxes : Held(m)' = Held(m)
  BY <1>1, StartsOff DEF Held
<1>3. ASSUME NEW s \in Streams, Sending(s)
      PROVE  Rests \/ Waits(s) \/ GoesDirectly(s)
  <2>1. CASE SendPacket(s) \/ SendEof(s) \/ PreOverflow(s) \/ FallThrough(s)
    BY <1>1, <1>2, <2>1 DEF SendPacket, SendEof, PreOverflow, FallThrough, preVars, queueVars, Rests
  <2>2. CASE PreQueue(s)
    BY <1>1, <1>2, <2>2 DEF PreQueue, PreWrite, Sent, queueVars, Waits, Advance
  <2>3. CASE DirectPacket(s)
    <3>1. CASE s \in initEof \/ s \in recvFinished
      BY <1>1, <1>2, <2>3, <3>1 DEF DirectPacket, preVars, Rests
    <3>2. CASE ~(s \in initEof \/ s \in recvFinished)
      BY <1>1, <1>2, <2>3, <3>2 DEF DirectPacket, Sent, preVars, GoesDirectly, Advance
    <3>. QED
      BY <3>1, <3>2
  <2>4. CASE DirectEof(s)
    BY <1>1, <1>2, <2>4 DEF DirectEof, Sent, preVars, Rests
  <2>. QED
    BY <1>3, <2>1, <2>2, <2>3, <2>4 DEF Sending
<1>4. ASSUME NEW p \in Streams, FlushPacket(p) \/ FlushEof(p)
      PROVE  \E s \in Streams : Drops(s) \/ Flushes(s)
  <2>1. lock # 0 /\ toStart # <<>>
    BY <1>4 DEF FlushPacket, FlushEof, Streams, StartInv, LockInv
  <2>2. PICK s \in Streams :
          /\ MinStream(toStart[1], s) /\ TakePre(s)
          /\ \/ Head1(s) = NULL /\ UNCHANGED <<queue, flushed>>
             \/ s \in recvFinished /\ UNCHANGED <<queue, flushed>>
             \/ /\ Head1(s) # NULL
                /\ queue' = [queue EXCEPT ![toStart[1]] = Append(@, Head1(s))]
                /\ flushed' = flushed \cup {Head1(s)}
    BY <1>4 DEF FlushPacket, FlushEof, preVars, queueVars, EndInv
  <2>3. preQueue[s] # <<>> /\ toStart[1] = MuxOf[s]
    BY <2>2 DEF MinStream, StreamsOf
  <2>4. UNCHANGED <<next, lock, toStart, muxStarted>>
    BY <1>4 DEF FlushPacket, FlushEof
  <2>. QED
    BY <1>1, <1>2, <2>1, <2>2, <2>3, <2>4 DEF Drops, Flushes
<1>5. ASSUME NEW s \in Streams, StreamReady(s) \/ MuxInit(s) \/ MuxInitFails(s) \/ FlushDone(s)
      PROVE  Rests
  BY <1>1, <1>2, <1>5 DEF StreamReady, MuxInit, MuxInitFails, FlushDone, preVars, queueVars, Rests
<1>6. SchStart => Rests
  BY <1>1, <1>2 DEF SchStart, preVars, queueVars, Rests
<1>. QED
  BY <1>3, <1>4, <1>5, <1>6 DEF Starting

\* The steps of the muxer threads.
LEMMA MuxingSteps ==
    ASSUME StartInv, PlaceInv, EndInv, UNCHANGED inst, NEW m \in Muxes, Muxing(m)
    PROVE  Rests \/ Takes(m) \/ LetsGo(m)
<1>. USE TypeParts
<1>1. UNCHANGED <<preQueue, flushed, next>>
  BY DEF Muxing, MuxReceive, MuxBeat, MuxReceiveEof, MuxDone, preVars
<1>2. \A k \in Muxes : k # m => Held(k)' = Held(k)
  <2>1. \A k \in Muxes : k # m => inHand'[k] = inHand[k]
    BY DEF Muxing, MuxReceive, MuxBeat, MuxReceiveEof, MuxDone, threadVars
  <2>. QED
    BY <2>1, MuxingPc DEF Held
<1>3. ASSUME UNCHANGED <<queue, written>>, Held(m)' = Held(m)
      PROVE  Rests
  BY <1>1, <1>2, <1>3 DEF Rests
<1>4. ASSUME NEW p \in Packets, Mux(m, p), MuxOf[p.stream] = m, p.stream \notin recvFinished,
             muxPc[m] \notin {"ending", "done"}
      PROVE  Becomes(m, p)
  <2>1. p.stream \in Streams /\ MuxOf' = MuxOf
    BY PacketFacts, Same
  <2>2. Live(p.stream)
    BY <1>4 DEF Live
  <2>3. Held(m)' = {}
    BY <1>4 DEF Mux, Held
  <2>4. CASE written' = [written EXCEPT ![m] = Append(@, p)]
    BY <2>2, <2>3, <2>4 DEF Becomes
  <2>5. CASE UNCHANGED written /\ recvFinished' = recvFinished \cup {p.stream}
    BY <2>3, <2>5 DEF Becomes, LiveNext
  <2>6. CASE UNCHANGED written /\ muxPc' = [muxPc EXCEPT ![m] = "ending"]
    BY <1>4, <2>1, <2>3, <2>6 DEF Becomes, LiveNext
  <2>. QED
    BY <1>4, <2>4, <2>5, <2>6 DEF Mux
<1>5. CASE MuxReceive(m)
  <2>1. /\ queue[m] # <<>> /\ Held(m) = {} /\ muxPc[m] = "receive"
        /\ queue' = [queue EXCEPT ![m] = Tail(@)]
    BY <1>5 DEF MuxReceive, Held
  <2>2. Head(queue[m]) \in Packets /\ MuxOf[Head(queue[m]).stream] = m
    <3>1. queue[m] \in Seq(Packets)
      OBVIOUS
    <3>2. Head(queue[m]) \in Packets /\ Head(queue[m]) \in Items(queue[m])
      BY <2>1, <3>1, TailItems
    <3>. QED
      BY <3>2 DEF PlaceInv, Muxed
  <2>3. Becomes(m, Head(queue[m]))
    <3>1. CASE Head(queue[m]).stream \in recvFinished
      BY <1>5, <2>1, <3>1 DEF MuxReceive, Becomes, Held, LiveNext
    <3>2. CASE Head(queue[m]).stream \notin recvFinished /\ muxPc' = [muxPc EXCEPT ![m] = "beat"]
      BY <1>5, <2>1, <3>2 DEF MuxReceive, Becomes, Held, Mux
    <3>3. CASE Head(queue[m]).stream \notin recvFinished /\ Mux(m, Head(queue[m]))
      BY <1>4, <2>1, <2>2, <3>3
    <3>. QED
      BY <1>5, <3>1, <3>2, <3>3 DEF MuxReceive
  <2>. QED
    BY <1>1, <1>2, <2>1, <2>3 DEF Takes
<1>6. CASE MuxBeat(m)
  <2>1. /\ Held(m) = {inHand[m]} /\ inHand[m] \in Packets /\ muxPc[m] = "beat"
        /\ Mux(m, inHand[m]) /\ UNCHANGED queue
    BY <1>6 DEF MuxBeat, Held, StartInv, BeatInv
  <2>2. MuxOf[inHand[m].stream] = m /\ inHand[m].stream \notin recvFinished
    BY <2>1 DEF PlaceInv, Muxed, EndInv
  <2>3. Becomes(m, inHand[m])
    BY <1>4, <2>1, <2>2
  <2>. QED
    BY <1>1, <1>2, <2>1, <2>3 DEF LetsGo
<1>7. CASE MuxReceiveEof(m)
  BY <1>3, <1>7 DEF MuxReceiveEof, threadVars, Held
<1>8. CASE MuxDone(m)
  BY <1>3, <1>8 DEF MuxDone, Held
<1>. QED
  BY <1>5, <1>6, <1>7, <1>8 DEF Muxing

LEMMA Steps ==
    ASSUME BaseInv, Next, UNCHANGED inst
    PROVE  \/ Rests
           \/ \E s \in Streams : Drops(s) \/ Flushes(s) \/ Waits(s) \/ GoesDirectly(s)
           \/ \E m \in Muxes : Takes(m) \/ LetsGo(m)
<1>1. Terminated => Rests
  BY DEF Terminated, vars, queueVars, preVars, threadVars, Rests, Held
<1>. QED
  BY <1>1, SendingSteps, MuxingSteps DEF Next, BaseInv

\* The values of the packets' variables, and of those on their way.
LEMMA WayTypes ==
    ASSUME StartInv
    PROVE  /\ \A s \in Streams : /\ preQueue[s] \in Seq(Packets \cup {NULL})
                                 /\ Waiting(s) \subseteq Packets
                                 /\ MuxOf[s] \in Muxes /\ s \in StreamsOf(MuxOf[s])
                                 /\ LastPacket(s) \in Nat /\ next[s] \in 1 .. LastPacket(s) + 1
                                 /\ ~IsEof(s) => /\ ThisPacket(s) = Packet(s, next[s])
                                                 /\ next[s] \in 1 .. LastPacket(s)
                                 /\ IsEof(s) => ThisPacket(s) = NULL
                                 /\ ThisPacket(s) \in Packets \cup {NULL}
           /\ \A m \in Muxes : /\ queue[m] \in Seq(Packets) /\ written[m] \in Seq(Packets)
                               /\ Items(queue[m]) \subseteq Packets
                               /\ Items(written[m]) \subseteq Packets
                               /\ Held(m) \subseteq Packets /\ Muxed(m) \subseteq Packets
           /\ flushed \subseteq Packets
           /\ preQueue \in [Streams -> Seq(Packets \cup {NULL})]
           /\ queue \in [Muxes -> Seq(Packets)] /\ written \in [Muxes -> Seq(Packets)]
           /\ next \in [Streams -> Nat]
<1>1. ASSUME NEW T, NEW q \in Seq(T)
      PROVE  Items(q) \subseteq T
  BY DEF Items
<1>2. /\ preQueue \in [Streams -> Seq(Packets \cup {NULL})]
      /\ queue \in [Muxes -> Seq(Packets)] /\ written \in [Muxes -> Seq(Packets)]
      /\ next \in [Streams -> Nat] /\ flushed \subseteq Packets
      /\ \A s \in Streams : next[s] \in 1 .. LastPacket(s) + 1
  BY DEF StartInv, TypeOK
<1>3. \A s \in Streams : MuxOf[s] \in Muxes /\ s \in StreamsOf(MuxOf[s]) /\ LastPacket(s) \in Nat
  BY Static DEF StartInv, StreamsOf, LastPacket
<1>4. \A m \in Muxes : Held(m) \subseteq Packets
  BY DEF Held, StartInv, BeatInv
<1>5. ASSUME NEW s \in Streams
      PROVE  /\ ~IsEof(s) => /\ ThisPacket(s) = Packet(s, next[s])
                             /\ next[s] \in 1 .. LastPacket(s)
             /\ IsEof(s) => ThisPacket(s) = NULL
             /\ ThisPacket(s) \in Packets \cup {NULL}
  <2>1. ~IsEof(s) => ThisPacket(s) = Packet(s, next[s]) /\ next[s] \in 1 .. LastPacket(s)
    BY <1>2, <1>3 DEF IsEof, ThisPacket
  <2>2. IsEof(s) => ThisPacket(s) = NULL
    BY DEF ThisPacket
  <2>. QED
    BY <2>1, <2>2, PacketFacts
<1>6. \A s \in Streams : preQueue[s] \in Seq(Packets \cup {NULL}) /\ Waiting(s) \subseteq Packets
  BY <1>1, <1>2 DEF Waiting
<1>7. \A m \in Muxes : /\ queue[m] \in Seq(Packets) /\ written[m] \in Seq(Packets)
                       /\ Items(queue[m]) \subseteq Packets /\ Items(written[m]) \subseteq Packets
  BY <1>1, <1>2
<1>. QED
  BY <1>2, <1>3, <1>4, <1>5, <1>6, <1>7 DEF Muxed

\* A packet is told by its stream and number.
LEMMA PacketNumbers ==
    ASSUME NEW p \in Packets
    PROVE  /\ p.stream \in Streams /\ p.n \in 1 .. LastPacket(p.stream) /\ p.n \in Int
           /\ p = Packet(p.stream, p.n)
BY DEF Packets, Packet

\* The packet a producer sends.
LEMMA NextPacket ==
    ASSUME StartInv, NEW s \in Streams, ~IsEof(s)
    PROVE  /\ ThisPacket(s) \in Packets /\ ThisPacket(s) # NULL
           /\ ThisPacket(s).stream = s /\ ThisPacket(s).n = next[s]
<1>1. ThisPacket(s) = Packet(s, next[s]) /\ next[s] \in 1 .. LastPacket(s)
  BY WayTypes
<1>2. Packet(s, next[s]).stream = s /\ Packet(s, next[s]).n = next[s] /\ s # 0
  BY DEF Packet, Streams
<1>3. NULL.stream = 0
  BY DEF NULL
<1>. QED
  BY <1>1, <1>2, <1>3, PacketFacts

-----------------------------------------------------------------------------
(* How packets move                                                        *)

LEMMA RestsMoves ==
    ASSUME StartInv, UNCHANGED inst, Rests
    PROVE  /\ \A m \in Muxes : Muxed(m)' = Muxed(m)
           /\ \A s \in Streams : /\ preQueue'[s] = preQueue[s] /\ Waiting(s)' = Waiting(s)
                                 /\ next'[s] \in {next[s], LastPacket(s) + 1}
BY WayTypes, Same DEF Rests, Muxed, Waiting

\* The first packet of a pre-muxing queue leaves it.
LEMMA TakeMoves ==
    ASSUME StartInv, UNCHANGED inst, NEW s \in Streams, preQueue[s] # <<>>, TakePre(s)
    PROVE  /\ preQueue'[s] = Tail(preQueue[s])
           /\ \A t \in Streams : t # s => preQueue'[t] = preQueue[t] /\ Waiting(t)' = Waiting(t)
           /\ Waiting(s) = Waiting(s)' \cup ({Head1(s)} \ {NULL})
           /\ Head1(s) # NULL => Head1(s) \in Packets
<1>1. /\ preQueue'[s] = Tail(preQueue[s])
      /\ \A t \in Streams : t # s => preQueue'[t] = preQueue[t]
  BY WayTypes DEF TakePre
<1>2. preQueue[s] \in Seq(Packets \cup {NULL})
  BY WayTypes
<1>3. /\ Items(preQueue[s]) = {Head1(s)} \cup Items(Tail(preQueue[s]))
      /\ Head1(s) \in Packets \cup {NULL}
  BY <1>2, TailItems DEF Head1
<1>. QED
  BY <1>1, <1>3, Same DEF Waiting, NULL, NOPTS

\* A packet arrives at a muxer's queue.
LEMMA ArriveMoves ==
    ASSUME StartInv, UNCHANGED inst, NEW m \in Muxes, NEW p \in Packets,
           queue' = [queue EXCEPT ![m] = Append(@, p)], UNCHANGED written,
           \A k \in Muxes : Held(k)' = Held(k)
    PROVE  /\ queue'[m] = Append(queue[m], p)
           /\ Muxed(m)' = Muxed(m) \cup {p}
           /\ \A k \in Muxes : k # m => queue'[k] = queue[k] /\ Muxed(k)' = Muxed(k)
<1>1. /\ queue'[m] = Append(queue[m], p)
      /\ \A k \in Muxes : k # m => queue'[k] = queue[k]
  BY WayTypes
<1>2. Items(queue'[m]) = Items(queue[m]) \cup {p}
  BY <1>1, WayTypes, AppendItems
<1>. QED
  BY <1>1, <1>2 DEF Muxed

\* A packet, or the end of its stream, starts to wait.
LEMMA WaitMoves ==
    ASSUME StartInv, UNCHANGED inst, NEW s \in Streams, Waits(s)
    PROVE  /\ preQueue'[s] = Append(preQueue[s], ThisPacket(s))
           /\ Waiting(s)' = Waiting(s) \cup (IF IsEof(s) THEN {} ELSE {ThisPacket(s)})
           /\ \A t \in Streams : t # s => preQueue'[t] = preQueue[t] /\ Waiting(t)' = Waiting(t)
           /\ \A m \in Muxes : Muxed(m)' = Muxed(m)
           /\ \A t \in Streams : next'[t] = IF t = s /\ ~IsEof(s) THEN next[s] + 1 ELSE next[t]
<1>1. /\ preQueue'[s] = Append(preQueue[s], ThisPacket(s))
      /\ \A t \in Streams : t # s => preQueue'[t] = preQueue[t]
  BY WayTypes DEF Waits
<1>2. Items(preQueue'[s]) = Items(preQueue[s]) \cup {ThisPacket(s)}
  BY <1>1, WayTypes, AppendItems
<1>3. ~IsEof(s) => ThisPacket(s) # NULL
  BY SMTT(60), WayTypes DEF Packet, NULL, Streams
<1>4. IsEof(s) => ThisPacket(s) = NULL
  BY WayTypes
<1>5. Waiting(s)' = Items(preQueue'[s]) \ {NULL} /\ \A t \in Streams : Waiting(t)' = Items(preQueue'[t]) \ {NULL}
  BY DEF Waiting, NULL, NOPTS
<1>6. \A m \in Muxes : Muxed(m)' = Muxed(m)
  BY DEF Waits, Muxed
<1>7. \A t \in Streams : next'[t] = IF t = s /\ ~IsEof(s) THEN next[s] + 1 ELSE next[t]
  BY WayTypes DEF Waits, Advance
<1>. QED
  BY <1>1, <1>2, <1>3, <1>4, <1>5, <1>6, <1>7 DEF Waiting

\* A muxer thread moves a packet, or loses it.
LEMMA ThreadMoves ==
    ASSUME StartInv, UNCHANGED inst, NEW m \in Muxes, Takes(m) \/ LetsGo(m)
    PROVE  /\ Muxed(m)' \subseteq Muxed(m)
           /\ Items(written[m]) \subseteq Items(written'[m])
           /\ \A k \in Muxes : k # m => /\ queue'[k] = queue[k] /\ written'[k] = written[k]
                                        /\ Muxed(k)' = Muxed(k)
           /\ \A s \in Streams : preQueue'[s] = preQueue[s] /\ Waiting(s)' = Waiting(s)
           /\ UNCHANGED <<next, flushed>>
<1>1. ASSUME NEW p \in Packets, Becomes(m, p)
      PROVE  /\ Items(written[m]) \subseteq Items(written'[m])
             /\ Items(written'[m]) \cup Held(m)' \subseteq Items(written[m]) \cup {p}
             /\ \A k \in Muxes : k # m => written'[k] = written[k]
  <2>1. Items(Append(written[m], p)) = Items(written[m]) \cup {p}
    BY WayTypes, AppendItems
  <2>. QED
    BY <1>1, <2>1, WayTypes DEF Becomes
<1>2. UNCHANGED <<preQueue, next, flushed>> /\ \A k \in Muxes : k # m => Held(k)' = Held(k)
  BY DEF Takes, LetsGo
<1>3. \A s \in Streams : preQueue'[s] = preQueue[s] /\ Waiting(s)' = Waiting(s)
  BY <1>2 DEF Waiting, NULL, NOPTS
<1>4. CASE Takes(m)
  <2>1. /\ Items(queue[m]) = {Head(queue[m])} \cup Items(Tail(queue[m]))
        /\ queue'[m] = Tail(queue[m]) /\ Head(queue[m]) \in Packets
        /\ \A k \in Muxes : k # m => queue'[k] = queue[k]
    <3>1. queue[m] \in Seq(Packets) /\ queue[m] # <<>>
      BY <1>4, WayTypes DEF Takes
    <3>2. queue' = [queue EXCEPT ![m] = Tail(@)]
      BY <1>4 DEF Takes
    <3>. QED
      BY <3>1, <3>2, TailItems, WayTypes
  <2>2. Becomes(m, Head(queue[m]))
    BY <1>4 DEF Takes
  <2>. QED
    BY <1>1, <1>2, <1>3, <2>1, <2>2 DEF Muxed
<1>5. CASE LetsGo(m)
  <2>1. Held(m) = {inHand[m]} /\ inHand[m] \in Packets /\ Becomes(m, inHand[m]) /\ UNCHANGED queue
    BY <1>5 DEF LetsGo
  <2>. QED
    BY <1>1, <1>2, <1>3, <2>1 DEF Muxed
<1>. QED
  BY <1>4, <1>5

LEMMA PlaceStep ==
    ASSUME BaseInv, Next, UNCHANGED inst
    PROVE  PlaceInv'
<1>0. /\ StartInv
      /\ \A m \in Muxes : \A p \in Muxed(m) : MuxOf[p.stream] = m
      /\ \A s \in Streams : \A p \in Waiting(s) : p.stream = s
  BY DEF BaseInv, PlaceInv
<1>1. ASSUME \A m \in Muxes : \A p \in Muxed(m)' : MuxOf[p.stream] = m,
             \A s \in Streams : \A p \in Waiting(s)' : p.stream = s
      PROVE  PlaceInv'
  BY <1>1, Same DEF PlaceInv
<1>2. CASE Rests
  BY <1>0, <1>1, <1>2, RestsMoves
<1>3. ASSUME NEW s \in Streams, Drops(s)
      PROVE  PlaceInv'
  <2>1. \A m \in Muxes : Muxed(m)' = Muxed(m)
    BY <1>3 DEF Drops, Muxed
  <2>2. \A t \in Streams : Waiting(t)' \subseteq Waiting(t)
    BY <1>0, <1>3, TakeMoves DEF Drops
  <2>. QED
    BY <1>0, <1>1, <2>1, <2>2
<1>4. ASSUME NEW s \in Streams, Flushes(s)
      PROVE  PlaceInv'
  <2>1. /\ \A t \in Streams : Waiting(t)' \subseteq Waiting(t)
        /\ Head1(s) \in Waiting(s) /\ Head1(s) \in Packets
    BY <1>0, <1>4, TakeMoves DEF Flushes
  <2>2. PICK m \in Muxes, p \in Packets : m = MuxOf[s] /\ p = Head1(s)
    BY <1>0, <2>1, WayTypes
  <2>3. /\ Muxed(m)' = Muxed(m) \cup {p}
        /\ \A k \in Muxes : k # m => Muxed(k)' = Muxed(k)
    BY <1>0, <1>4, <2>2, ArriveMoves DEF Flushes
  <2>. QED
    BY <1>0, <1>1, <2>1, <2>2, <2>3
<1>5. ASSUME NEW s \in Streams, Waits(s)
      PROVE  PlaceInv'
  <2>1. ~IsEof(s) => ThisPacket(s).stream = s
    BY <1>0, WayTypes DEF Packet
  <2>. QED
    BY <1>0, <1>1, <1>5, <2>1, WaitMoves
<1>6. ASSUME NEW s \in Streams, GoesDirectly(s)
      PROVE  PlaceInv'
  <2>1. PICK m \in Muxes, p \in Packets : m = MuxOf[s] /\ p = ThisPacket(s) /\ p.stream = s
    BY <1>0, <1>6, WayTypes, NextPacket DEF GoesDirectly
  <2>2. /\ Muxed(m)' = Muxed(m) \cup {p}
        /\ \A k \in Muxes : k # m => Muxed(k)' = Muxed(k)
    BY <1>0, <1>6, <2>1, ArriveMoves DEF GoesDirectly
  <2>3. \A t \in Streams : Waiting(t)' = Waiting(t)
    BY <1>6 DEF GoesDirectly, Waiting, NULL, NOPTS
  <2>. QED
    BY <1>0, <1>1, <2>1, <2>2, <2>3
<1>7. ASSUME NEW m \in Muxes, Takes(m) \/ LetsGo(m)
      PROVE  PlaceInv'
  BY <1>0, <1>1, <1>7, ThreadMoves
<1>. QED
  BY <1>2, <1>3, <1>4, <1>5, <1>6, <1>7, Steps

\* A muxer ends its own streams only.
LEMMA EndStep ==
    ASSUME BaseInv, Next, UNCHANGED inst
    PROVE  EndInv'
<1>. USE TypeParts
<1>0. /\ StartInv /\ OnceInv /\ initEof \subseteq recvFinished
      /\ \A m \in Muxes : muxPc[m] = "beat" => /\ inHand[m].stream \notin recvFinished
                                               /\ MuxOf[inHand[m].stream] = m
      /\ \A m \in Muxes : muxPc[m] = "done" => StreamsOf(m) \subseteq recvFinished
      /\ \A m \in Muxes : \A p \in Items(queue[m]) : MuxOf[p.stream] = m
  BY DEF BaseInv, EndInv, PlaceInv, Muxed, Held
<1>1. CASE SchStart \/ \E s \in Streams : Starting(s) \/ Sending(s)
  <2>1. UNCHANGED <<recvFinished, inHand>>
    BY <1>1 DEF SchStart, Starting, StreamReady, MuxInit, MuxInitFails, FlushPacket, FlushEof,
                FlushDone, Sending, SendPacket, SendEof, PreQueue, PreOverflow, FallThrough,
                DirectPacket, DirectEof, queueVars, threadVars
  <2>2. initEof' \subseteq recvFinished
    <3>1. UNCHANGED initEof \/ \E s \in recvFinished : initEof' = initEof \cup {s}
      BY <1>1 DEF SchStart, Starting, StreamReady, MuxInit, MuxInitFails, FlushPacket, FlushEof,
                  FlushDone, Sending, SendPacket, SendEof, PreQueue, PreOverflow, FallThrough,
                  DirectPacket, DirectEof, preVars
    <3>. QED
      BY <1>0, <3>1
  <2>3. \A m \in Muxes : \/ muxPc'[m] = muxPc[m]
                         \/ muxPc[m] = "off" /\ muxPc'[m] = "receive"
    BY <1>0, <1>1, StartsOff
  <2>. QED
    BY <1>0, <2>1, <2>2, <2>3, Same DEF EndInv
<1>2. ASSUME NEW m \in Muxes, Muxing(m)
      PROVE  EndInv'
  <2>1. UNCHANGED initEof /\ \A k \in Muxes : k # m => inHand'[k] = inHand[k]
    BY <1>0, <1>2 DEF Muxing, MuxReceive, MuxBeat, MuxReceiveEof, MuxDone, preVars, threadVars
  <2>2. /\ recvFinished \subseteq recvFinished'
        /\ \A k \in Muxes : k # m => muxPc'[k] = muxPc[k]
    BY <1>0, <1>2, MuxingPc
  <2>3. /\ \A t \in recvFinished' : t \in recvFinished \/ MuxOf[t] = m
        /\ muxPc'[m] = "beat" => inHand'[m].stream \notin recvFinished'
        /\ muxPc'[m] = "done" => StreamsOf(m) \subseteq recvFinished'
    <3>1. ASSUME NEW p, Mux(m, p), MuxOf[p.stream] = m
          PROVE  /\ \A t \in recvFinished' : t \in recvFinished \/ MuxOf[t] = m
                 /\ muxPc'[m] \notin {"beat", "done"}
      BY <1>0, <3>1 DEF Mux
    <3>2. CASE MuxReceive(m)
      <4>1. queue[m] \in Seq(Packets) /\ queue[m] # <<>> /\ muxPc[m] = "receive"
        BY <1>0, <3>2 DEF MuxReceive
      <4>2. Head(queue[m]) \in Items(queue[m])
        BY <4>1, TailItems
      <4>3. MuxOf[Head(queue[m]).stream] = m
        BY <1>0, <4>2
      <4>4. CASE Mux(m, Head(queue[m]))
        BY <3>1, <4>3, <4>4
      <4>5. CASE UNCHANGED <<muxPc, recvFinished>>
        BY <4>1, <4>5
      <4>6. CASE /\ Head(queue[m]).stream \notin recvFinished /\ UNCHANGED recvFinished
                 /\ muxPc' = [muxPc EXCEPT ![m] = "beat"]
                 /\ inHand' = [inHand EXCEPT ![m] = Head(queue[m])]
        BY <1>0, <4>6
      <4>. QED
        BY <3>2, <4>4, <4>5, <4>6 DEF MuxReceive
    <3>3. CASE MuxBeat(m)
      BY <1>0, <3>1, <3>3 DEF MuxBeat
    <3>4. CASE MuxReceiveEof(m)
      BY <1>0, <3>4 DEF MuxReceiveEof, threadVars, StreamsOf
    <3>5. CASE MuxDone(m)
      BY <1>0, <3>5 DEF MuxDone, StreamsOf
    <3>. QED
      BY <1>2, <3>2, <3>3, <3>4, <3>5 DEF Muxing
  <2>4. ASSUME NEW k \in Muxes
        PROVE  /\ muxPc'[k] = "beat" => inHand'[k].stream \notin recvFinished'
               /\ muxPc'[k] = "done" => StreamsOf(k) \subseteq recvFinished'
    <3>1. CASE k = m
      BY <2>3, <3>1
    <3>2. CASE k # m
      <4>1. inHand'[k] = inHand[k] /\ muxPc'[k] = muxPc[k]
        BY <2>1, <2>2, <3>2
      <4>2. muxPc[k] = "beat" => inHand[k].stream \notin recvFinished /\ MuxOf[inHand[k].stream] = k
        BY <1>0
      <4>3. muxPc[k] = "beat" => inHand[k].stream \notin recvFinished'
        BY <2>3, <3>2, <4>2
      <4>4. muxPc[k] = "done" => StreamsOf(k) \subseteq recvFinished'
        BY <1>0, <2>2
      <4>. QED
        BY <4>1, <4>3, <4>4
    <3>. QED
      BY <3>1, <3>2
  <2>5. initEof' \subseteq recvFinished'
    BY <1>0, <2>1, <2>2
  <2>. QED
    BY <2>4, <2>5, Same DEF EndInv
<1>3. Terminated => EndInv'
  BY <1>0, Same DEF Terminated, vars, preVars, queueVars, threadVars, EndInv
<1>. QED
  BY <1>1, <1>2, <1>3 DEF Next

-----------------------------------------------------------------------------
(* The packets of a stream keep their order                                *)

\* Whatever the order is, a muxer thread does not change it.
LEMMA ThreadPath ==
    ASSUME StartInv, NEW m \in Muxes, Takes(m) \/ LetsGo(m), NEW R,
           Path(written[m], Held(m), queue[m], R)
    PROVE  Path(written'[m], Held(m)', queue'[m], R)
<1>1. written[m] \in Seq(Packets) /\ queue[m] \in Seq(Packets)
  BY WayTypes
<1>2. ASSUME NEW p, Becomes(m, p)
      PROVE  \/ written'[m] = Append(written[m], p) /\ Held(m)' = {}
             \/ written'[m] = written[m] /\ Held(m)' \in {{}, {p}}
  BY <1>2, WayTypes DEF Becomes
<1>3. CASE Takes(m)
  <2>1. queue[m] # <<>> /\ Held(m) = {} /\ queue'[m] = Tail(queue[m]) /\ Becomes(m, Head(queue[m]))
    BY <1>3, WayTypes DEF Takes
  <2>2. /\ Path(written[m], {}, Tail(queue[m]), R)
        /\ Path(written[m], {Head(queue[m])}, Tail(queue[m]), R)
        /\ Path(Append(written[m], Head(queue[m])), {}, Tail(queue[m]), R)
    BY <1>1, <2>1, PathReceive
  <2>. QED
    BY <1>2, <2>1, <2>2
<1>4. CASE LetsGo(m)
  <2>1. Held(m) = {inHand[m]} /\ inHand[m] \in Packets /\ queue'[m] = queue[m] /\ Becomes(m, inHand[m])
    BY <1>4 DEF LetsGo
  <2>2. /\ Path(written[m], {}, queue[m], R)
        /\ Path(Append(written[m], inHand[m]), {}, queue[m], R)
    BY <1>1, <2>1, PathBeat
  <2>. QED
    BY <1>2, <2>1, <2>2
<1>. QED
  BY <1>3, <1>4

LEMMA SequelOf ==
    ASSUME NEW p \in Packets \cup {NULL}, NEW q \in Packets \cup {NULL},
           p # NULL /\ p.stream = q.stream => p.n < q.n
    PROVE  <<p, q>> \in Sequel
BY DEF Sequel

LEMMA OrderStep ==
    ASSUME BaseInv, OrderInv, Next, UNCHANGED inst
    PROVE  OrderInv'
<1>0. /\ StartInv /\ Sequel' = Sequel /\ Muxes' = Muxes /\ Streams' = Streams /\ MuxOf' = MuxOf
      /\ \A m \in Muxes : \A p \in Muxed(m) : MuxOf[p.stream] = m
      /\ \A s \in Streams : \A p \in Waiting(s) : p.stream = s
      /\ \A m \in Muxes : Path(written[m], Held(m), queue[m], Sequel)
      /\ \A s \in Streams :
           /\ InOrder(preQueue[s], Sequel)
           /\ Muxed(MuxOf[s]) \X Waiting(s) \subseteq Sequel
           /\ \A p \in Muxed(MuxOf[s]) \cup Waiting(s) : p.stream = s => p.n < next[s]
  <2>1. Sequel' = Sequel
    BY Same DEF Sequel, NULL, NOPTS
  <2>. QED
    BY <2>1, Same DEF BaseInv, PlaceInv, OrderInv
<1>1. ASSUME \A m \in Muxes : Path(written'[m], Held(m)', queue'[m], Sequel),
             \A s \in Streams :
               /\ InOrder(preQueue'[s], Sequel)
               /\ \A m \in Muxes : m = MuxOf[s] => Muxed(m)' \X Waiting(s)' \subseteq Sequel
               /\ \A m \in Muxes : m = MuxOf[s] =>
                    \A p \in Muxed(m)' \cup Waiting(s)' : p.stream = s => p.n < next'[s]
      PROVE  OrderInv'
  <2>1. ASSUME NEW s \in Streams
        PROVE  /\ Muxed(MuxOf[s])' \X Waiting(s)' \subseteq Sequel
               /\ \A p \in Muxed(MuxOf[s])' \cup Waiting(s)' : p.stream = s => p.n < next'[s]
    <3>1. PICK m \in Muxes : m = MuxOf[s]
      BY <1>0, WayTypes
    <3>2. Muxed(MuxOf[s])' = Muxed(m)'
      BY <1>0, <3>1
    <3>. QED
      BY <1>1, <3>1, <3>2
  <2>. QED
    BY <1>0, <1>1, <2>1 DEF OrderInv
<1>2. CASE Rests
  <2>1. \A m \in Muxes : written'[m] = written[m] /\ Held(m)' = Held(m) /\ queue'[m] = queue[m]
    BY <1>2 DEF Rests
  <2>2. \A s \in Streams : next[s] <= next'[s] /\ next[s] \in Nat /\ next'[s] \in Nat
    <3>1. \A s \in Streams : LastPacket(s) \in Nat /\ next[s] \in 1 .. LastPacket(s) + 1
      BY <1>0, WayTypes
    <3>2. \A s \in Streams : next'[s] \in {next[s], LastPacket(s) + 1}
      BY <1>0, <1>2, RestsMoves
    <3>. QED
      BY <3>1, <3>2
  <2>3. ASSUME NEW m \in Muxes, NEW p \in Muxed(m)
        PROVE  p.n \in Int
    BY <1>0, <2>3, WayTypes, PacketNumbers
  <2>4. ASSUME NEW s \in Streams, NEW p \in Waiting(s)
        PROVE  p.n \in Int
    BY <1>0, <2>4, WayTypes, PacketNumbers
  <2>. QED
    BY <1>0, <1>1, <1>2, <2>1, <2>2, <2>3, <2>4, RestsMoves
<1>3. ASSUME NEW s \in Streams, Drops(s)
      PROVE  OrderInv'
  <2>1. /\ \A m \in Muxes : /\ written'[m] = written[m] /\ Held(m)' = Held(m)
                            /\ queue'[m] = queue[m] /\ Muxed(m)' = Muxed(m)
        /\ UNCHANGED next
    BY <1>3 DEF Drops, Muxed
  <2>2. /\ preQueue'[s] = Tail(preQueue[s]) /\ Waiting(s)' \subseteq Waiting(s)
        /\ \A t \in Streams : t # s => preQueue'[t] = preQueue[t] /\ Waiting(t)' = Waiting(t)
    BY <1>0, <1>3, TakeMoves DEF Drops
  <2>3. InOrder(preQueue'[s], Sequel)
    <3>1. preQueue[s] \in Seq(Packets \cup {NULL}) /\ preQueue[s] # <<>>
      BY <1>0, <1>3, WayTypes DEF Drops
    <3>. QED
      BY <1>0, <2>2, <3>1, TailFacts
  <2>4. \A t \in Streams : InOrder(preQueue'[t], Sequel) /\ Waiting(t)' \subseteq Waiting(t)
    BY <1>0, <2>2, <2>3
  <2>. QED
    BY <1>0, <1>1, <2>1, <2>4
<1>4. ASSUME NEW s \in Streams, Flushes(s)
      PROVE  OrderInv'
  <2>1. /\ preQueue'[s] = Tail(preQueue[s])
        /\ \A t \in Streams : t # s => preQueue'[t] = preQueue[t] /\ Waiting(t)' = Waiting(t)
        /\ Waiting(s)' \subseteq Waiting(s) /\ Head1(s) \in Waiting(s) /\ Head1(s) \in Packets
    BY <1>0, <1>4, TakeMoves DEF Flushes
  <2>2. PICK k \in Muxes, p \in Packets : k = MuxOf[s] /\ p = Head1(s)
    BY <1>0, <2>1, WayTypes
  <2>3. /\ queue'[k] = Append(queue[k], p) /\ Muxed(k)' = Muxed(k) \cup {p}
        /\ \A m \in Muxes : m # k => queue'[m] = queue[m] /\ Muxed(m)' = Muxed(m)
    BY <1>0, <1>4, <2>2, ArriveMoves DEF Flushes
  <2>4. \A m \in Muxes : written'[m] = written[m] /\ Held(m)' = Held(m) /\ next' = next
    BY <1>4 DEF Flushes
  <2>5. Muxed(k) \X {p} \subseteq Sequel
    BY <1>0, <2>1, <2>2
  <2>6. Path(written'[k], Held(k)', queue'[k], Sequel)
    BY <1>0, <2>3, <2>4, <2>5, PathSend, WayTypes DEF Muxed
  <2>7. InOrder(preQueue'[s], Sequel) /\ {p} \X Waiting(s)' \subseteq Sequel
    <3>1. preQueue[s] \in Seq(Packets \cup {NULL}) /\ preQueue[s] # <<>> /\ p = Head(preQueue[s])
      BY <1>0, <1>4, <2>2, WayTypes DEF Flushes, Head1
    <3>2. InOrder(Tail(preQueue[s]), Sequel) /\ {p} \X Items(Tail(preQueue[s])) \subseteq Sequel
      BY <1>0, <3>1, TailFacts
    <3>3. Waiting(s)' \subseteq Items(preQueue'[s])
      BY DEF Waiting
    <3>. QED
      BY <2>1, <3>2, <3>3
  <2>8. ASSUME NEW t \in Streams, t # s, k = MuxOf[t]
        PROVE  {p} \X Waiting(t)' \subseteq Sequel /\ p.stream # t
    <3>1. p.stream = s
      BY <1>0, <2>1, <2>2
    <3>2. \A q \in Waiting(t) : q \in Packets /\ q.stream = t
      BY <1>0, WayTypes
    <3>3. \A q \in Waiting(t) : <<p, q>> \in Sequel
      BY <2>8, <3>1, <3>2, SequelOf
    <3>. QED
      BY <2>1, <2>8, <3>1, <3>3
  <2>9. ASSUME NEW t \in Streams
        PROVE  /\ InOrder(preQueue'[t], Sequel)
               /\ \A m \in Muxes : m = MuxOf[t] =>
                    /\ Muxed(m)' \X Waiting(t)' \subseteq Sequel
                    /\ \A q \in Muxed(m)' \cup Waiting(t)' : q.stream = t => q.n < next'[t]
    <3>1. CASE t = s
      BY <1>0, <2>1, <2>2, <2>3, <2>4, <2>7, <3>1
    <3>2. CASE t # s
      BY <1>0, <2>1, <2>3, <2>4, <2>8, <3>2
    <3>. QED
      BY <3>1, <3>2
  <2>. QED
    BY <1>0, <1>1, <2>3, <2>4, <2>6, <2>9
<1>5. ASSUME NEW s \in Streams, Waits(s)
      PROVE  OrderInv'
  <2>. DEFINE p == ThisPacket(s)
  <2>1. /\ p \in Packets \cup {NULL} /\ p.stream \in {s, 0} /\ next[s] \in Nat
        /\ ~IsEof(s) => p.stream = s /\ p.n = next[s]
        /\ IsEof(s) => p = NULL /\ p.stream # s
    <3>1. NULL.stream = 0 /\ s # 0
      BY DEF NULL, Streams
    <3>. QED
      BY <1>0, <3>1, NextPacket, WayTypes
  <2>. HIDE DEF p
  <2>2. /\ preQueue'[s] = Append(preQueue[s], p)
        /\ Waiting(s)' = Waiting(s) \cup (IF IsEof(s) THEN {} ELSE {p})
        /\ \A t \in Streams : t # s => preQueue'[t] = preQueue[t] /\ Waiting(t)' = Waiting(t)
        /\ \A m \in Muxes : Muxed(m)' = Muxed(m)
        /\ \A t \in Streams : next'[t] = IF t = s /\ ~IsEof(s) THEN next[s] + 1 ELSE next[t]
    BY <1>0, <1>5, WaitMoves DEF p
  <2>3. \A m \in Muxes : written'[m] = written[m] /\ Held(m)' = Held(m) /\ queue'[m] = queue[m]
    BY <1>5 DEF Waits
  <2>4. ASSUME NEW x \in Muxed(MuxOf[s]) \cup Waiting(s) \cup {NULL}
        PROVE  <<x, p>> \in Sequel
    <3>1. x \in Packets \cup {NULL}
      BY <1>0, WayTypes
    <3>2. CASE x = NULL
      BY <2>1, <3>1, <3>2, SequelOf
    <3>3. CASE x # NULL
      <4>1. x.stream = s => x.n < next[s]
        BY <1>0, <2>4, <3>3
      <4>2. x.stream # 0
        BY <3>1, <3>3 DEF Packets, Packet, Streams
      <4>. QED
        BY <2>1, <3>1, <4>1, <4>2, SequelOf
    <3>. QED
      BY <3>2, <3>3
  <2>5. InOrder(preQueue'[s], Sequel)
    <3>1. preQueue[s] \in Seq(Packets \cup {NULL})
      BY <1>0, WayTypes
    <3>2. Items(preQueue[s]) \X {p} \subseteq Sequel
      BY <2>4 DEF Waiting
    <3>. QED
      BY <1>0, <2>1, <2>2, <3>1, <3>2, AppendFacts
  <2>6. \A m \in Muxes : m = MuxOf[s] => Muxed(m)' \X Waiting(s)' \subseteq Sequel
    BY <1>0, <2>2, <2>4
  <2>7. ASSUME NEW m \in Muxes, m = MuxOf[s], NEW q \in Muxed(m)' \cup Waiting(s)', q.stream = s
        PROVE  q.n < next'[s]
    <3>1. CASE q \in Muxed(m) \cup Waiting(s)
      <4>1. q \in Packets
        BY <1>0, <3>1, WayTypes
      <4>2. q.n \in Int
        BY <4>1, PacketNumbers
      <4>3. q.n < next[s]
        BY <1>0, <2>7, <3>1
      <4>. QED
        BY <2>1, <2>2, <4>2, <4>3
    <3>2. CASE q = p /\ ~IsEof(s)
      BY <2>1, <2>2, <3>2
    <3>. QED
      BY <2>2, <2>7, <3>1, <3>2
  <2>8. ASSUME NEW t \in Streams
        PROVE  /\ InOrder(preQueue'[t], Sequel)
               /\ \A m \in Muxes : m = MuxOf[t] =>
                    /\ Muxed(m)' \X Waiting(t)' \subseteq Sequel
                    /\ \A q \in Muxed(m)' \cup Waiting(t)' : q.stream = t => q.n < next'[t]
    <3>1. CASE t = s
      BY <2>5, <2>6, <2>7, <3>1
    <3>2. CASE t # s
      BY <1>0, <2>2, <3>2
    <3>. QED
      BY <3>1, <3>2
  <2>. QED
    BY <1>0, <1>1, <2>3, <2>8
<1>6. ASSUME NEW s \in Streams, GoesDirectly(s)
      PROVE  OrderInv'
  <2>1. PICK k \in Muxes, p \in Packets :
          k = MuxOf[s] /\ p = ThisPacket(s) /\ p.stream = s /\ p.n = next[s]
    BY <1>0, <1>6, WayTypes, NextPacket DEF GoesDirectly
  <2>2. /\ queue'[k] = Append(queue[k], p) /\ Muxed(k)' = Muxed(k) \cup {p}
        /\ \A m \in Muxes : m # k => queue'[m] = queue[m] /\ Muxed(m)' = Muxed(m)
    BY <1>0, <1>6, <2>1, ArriveMoves DEF GoesDirectly
  <2>3. /\ \A m \in Muxes : written'[m] = written[m] /\ Held(m)' = Held(m)
        /\ \A t \in Streams : /\ preQueue'[t] = preQueue[t] /\ Waiting(t)' = Waiting(t)
                              /\ next'[t] = IF t = s THEN next[s] + 1 ELSE next[t]
    BY <1>0, <1>6, WayTypes DEF GoesDirectly, Advance, Waiting, NULL, NOPTS
  <2>4. Waiting(s) = {}
    BY <1>6 DEF GoesDirectly, BaseInv, DirectInv, StartInv, NothingStranded, Waiting, Items
  <2>5. Muxed(k) \X {p} \subseteq Sequel
    <3>1. ASSUME NEW x \in Muxed(k)
          PROVE  <<x, p>> \in Sequel
      <4>1. x \in Packets /\ (x.stream = s => x.n < next[s])
        BY <1>0, <2>1, WayTypes
      <4>. QED
        BY <2>1, <4>1, SequelOf
    <3>. QED
      BY <3>1
  <2>6. Path(written'[k], Held(k)', queue'[k], Sequel)
    BY <1>0, <2>2, <2>3, <2>5, PathSend, WayTypes DEF Muxed
  <2>7. ASSUME NEW t \in Streams, t # s, k = MuxOf[t]
        PROVE  {p} \X Waiting(t)' \subseteq Sequel
    <3>1. \A q \in Waiting(t) : q \in Packets /\ q.stream = t
      BY <1>0, WayTypes
    <3>. QED
      BY <2>1, <2>3, <2>7, <3>1, SequelOf
  <2>8. ASSUME NEW t \in Streams
        PROVE  /\ InOrder(preQueue'[t], Sequel)
               /\ \A m \in Muxes : m = MuxOf[t] =>
                    /\ Muxed(m)' \X Waiting(t)' \subseteq Sequel
                    /\ \A q \in Muxed(m)' \cup Waiting(t)' : q.stream = t => q.n < next'[t]
    <3>1. CASE t = s
      <4>1. ASSUME NEW q \in Muxed(k), q.stream = s
            PROVE  q.n < next[s] + 1
        <5>1. q.n \in Int /\ next[s] \in Nat
          BY <1>0, WayTypes, PacketNumbers
        <5>. QED
          BY <1>0, <2>1, <4>1, <5>1
      <4>2. p.n < next[s] + 1
        BY <1>0, <2>1, WayTypes
      <4>. QED
        BY <1>0, <2>1, <2>2, <2>3, <2>4, <3>1, <4>1, <4>2
    <3>2. CASE t # s
      BY <1>0, <2>1, <2>2, <2>3, <2>7, <3>2
    <3>. QED
      BY <3>1, <3>2
  <2>. QED
    BY <1>0, <1>1, <2>2, <2>3, <2>6, <2>8
<1>7. ASSUME NEW m \in Muxes, Takes(m) \/ LetsGo(m)
      PROVE  OrderInv'
  <2>1. /\ Muxed(m)' \subseteq Muxed(m)
        /\ \A k \in Muxes : k # m => /\ queue'[k] = queue[k] /\ written'[k] = written[k]
                                     /\ Muxed(k)' = Muxed(k) /\ Held(k)' = Held(k)
        /\ \A s \in Streams : preQueue'[s] = preQueue[s] /\ Waiting(s)' = Waiting(s)
        /\ UNCHANGED next
    BY <1>0, <1>7, ThreadMoves DEF Takes, LetsGo
  <2>2. PICK R : R = Sequel
    OBVIOUS
  <2>3. Path(written'[m], Held(m)', queue'[m], Sequel)
    BY <1>0, <1>7, <2>2, ThreadPath
  <2>4. \A k \in Muxes : Path(written'[k], Held(k)', queue'[k], Sequel)
    BY <1>0, <2>1, <2>3
  <2>5. \A k \in Muxes : Muxed(k)' \subseteq Muxed(k)
    BY <2>1
  <2>. QED
    BY <1>0, <1>1, <2>1, <2>4, <2>5
<1>. QED
  BY <1>2, <1>3, <1>4, <1>5, <1>6, <1>7, Steps

-----------------------------------------------------------------------------
(* No packet of a stream is missing                                        *)

\* A muxer thread only loses packets of streams that end with it.
LEMMA ThreadKeeps ==
    ASSUME StartInv, UNCHANGED inst, NEW m \in Muxes, Takes(m) \/ LetsGo(m)
    PROVE  \A x \in Muxed(m) : x \in Muxed(m)' \/ ~LiveNext(x.stream)
<1>1. ASSUME NEW p \in Packets, Becomes(m, p)
      PROVE  /\ Items(written[m]) \subseteq Items(written'[m])
             /\ p \in Items(written'[m]) \cup Held(m)' \/ ~LiveNext(p.stream)
  <2>1. Items(Append(written[m], p)) = Items(written[m]) \cup {p}
    BY WayTypes, AppendItems
  <2>. QED
    BY <1>1, <2>1, WayTypes DEF Becomes
<1>2. CASE Takes(m)
  <2>1. queue[m] \in Seq(Packets) /\ queue[m] # <<>> /\ queue'[m] = Tail(queue[m]) /\ Held(m) = {}
    BY <1>2, WayTypes DEF Takes
  <2>2. Items(queue[m]) = {Head(queue[m])} \cup Items(queue'[m]) /\ Head(queue[m]) \in Packets
    BY <2>1, TailItems
  <2>3. Becomes(m, Head(queue[m]))
    BY <1>2 DEF Takes
  <2>. QED
    BY <1>1, <2>1, <2>2, <2>3 DEF Muxed
<1>3. CASE LetsGo(m)
  <2>1. Held(m) = {inHand[m]} /\ inHand[m] \in Packets /\ queue'[m] = queue[m] /\ Becomes(m, inHand[m])
    BY <1>3 DEF LetsGo
  <2>. QED
    BY <1>1, <2>1 DEF Muxed
<1>. QED
  BY <1>2, <1>3

LEMMA NumbersStep ==
    ASSUME BaseInv, Next, UNCHANGED inst, NEW s \in Streams, Live(s)'
    PROVE  \/ Numbers(s)' = Numbers(s) /\ next'[s] \in {next[s], LastPacket(s) + 1}
           \/ /\ ~IsEof(s) /\ next'[s] = next[s] + 1
              /\ Numbers(s)' = Numbers(s) \cup {next[s]}
<1>0. /\ StartInv /\ Live(s) /\ LiveNext(s) /\ s \notin recvFinished
      /\ \A m \in Muxes : \A p \in Muxed(m) : MuxOf[p.stream] = m
      /\ \A t \in Streams : \A p \in Waiting(t) : p.stream = t
  BY LiveFewer, Same DEF BaseInv, PlaceInv, Live, LiveNext
<1>1. PICK k \in Muxes : k = MuxOf[s]
  BY <1>0, WayTypes
<1>2. /\ \A n : Packet(s, n)' = Packet(s, n) /\ Packet(s, n).stream = s /\ Packet(s, n).n = n
      /\ LastPacket(s)' = LastPacket(s)
      /\ Numbers(s) = {n \in 1 .. LastPacket(s) : Packet(s, n) \in Muxed(k) \cup Waiting(s)}
      /\ Numbers(s)' = {n \in 1 .. LastPacket(s) : Packet(s, n) \in Muxed(k)' \cup Waiting(s)'}
  BY <1>1, Same DEF Packet, Numbers
<1>3. ASSUME \A n \in 1 .. LastPacket(s) : Packet(s, n) \in Muxed(k)' \cup Waiting(s)'
                                             <=> Packet(s, n) \in Muxed(k) \cup Waiting(s)
      PROVE  Numbers(s)' = Numbers(s)
  BY <1>2, <1>3
<1>4. ASSUME ~IsEof(s),
             Muxed(k)' \cup Waiting(s)' = Muxed(k) \cup Waiting(s) \cup {ThisPacket(s)}
      PROVE  Numbers(s)' = Numbers(s) \cup {next[s]}
  <2>1. next[s] \in 1 .. LastPacket(s) /\ ThisPacket(s) = Packet(s, next[s])
    BY <1>0, <1>4, WayTypes
  <2>2. \A n \in 1 .. LastPacket(s) : Packet(s, n) = ThisPacket(s) <=> n = next[s]
    BY <1>2, <2>1
  <2>. QED
    BY <1>2, <1>4, <2>1, <2>2
<1>5. CASE Rests
  BY <1>0, <1>3, <1>5, RestsMoves
<1>6. ASSUME NEW t \in Streams, Drops(t)
      PROVE  Numbers(s)' = Numbers(s) /\ UNCHANGED next
  <2>1. Muxed(k)' = Muxed(k)
    BY <1>6 DEF Drops, Muxed
  <2>2. Waiting(s)' = Waiting(s)
    BY <1>0, <1>6, TakeMoves DEF Drops
  <2>. QED
    BY <1>3, <1>6, <2>1, <2>2 DEF Drops
<1>7. ASSUME NEW t \in Streams, Flushes(t)
      PROVE  Numbers(s)' = Numbers(s) /\ UNCHANGED next
  <2>1. /\ \A r \in Streams : r # t => Waiting(r)' = Waiting(r)
        /\ Waiting(t) = Waiting(t)' \cup {Head1(t)} /\ Head1(t) \in Packets
    BY <1>0, <1>7, TakeMoves DEF Flushes
  <2>2. PICK m \in Muxes, p \in Packets : m = MuxOf[t] /\ p = Head1(t)
    BY <1>0, <2>1, WayTypes
  <2>3. /\ Muxed(m)' = Muxed(m) \cup {p}
        /\ \A j \in Muxes : j # m => Muxed(j)' = Muxed(j)
    BY <1>0, <1>7, <2>2, ArriveMoves DEF Flushes
  <2>4. p.stream = t
    BY <1>0, <2>1, <2>2
  <2>5. CASE t = s
    BY <1>1, <1>3, <1>7, <2>1, <2>2, <2>3, <2>5 DEF Flushes
  <2>6. CASE t # s
    <3>1. \A n : Packet(s, n) # p
      BY <1>2, <2>4, <2>6
    <3>. QED
      BY <1>3, <1>7, <2>1, <2>3, <2>6, <3>1 DEF Flushes
  <2>. QED
    BY <2>5, <2>6
<1>8. ASSUME NEW t \in Streams, Waits(t)
      PROVE  \/ Numbers(s)' = Numbers(s) /\ next'[s] = next[s]
             \/ /\ ~IsEof(s) /\ next'[s] = next[s] + 1
                /\ Numbers(s)' = Numbers(s) \cup {next[s]}
  <2>1. CASE t = s
    BY <1>0, <1>3, <1>4, <1>8, <2>1, WaitMoves
  <2>2. CASE t # s
    BY <1>0, <1>3, <1>8, <2>2, WaitMoves
  <2>. QED
    BY <2>1, <2>2
<1>9. ASSUME NEW t \in Streams, GoesDirectly(t)
      PROVE  \/ Numbers(s)' = Numbers(s) /\ next'[s] = next[s]
             \/ /\ ~IsEof(s) /\ next'[s] = next[s] + 1
                /\ Numbers(s)' = Numbers(s) \cup {next[s]}
  <2>1. PICK m \in Muxes, p \in Packets : m = MuxOf[t] /\ p = ThisPacket(t) /\ p.stream = t
    BY <1>0, <1>9, WayTypes, NextPacket DEF GoesDirectly
  <2>2. /\ Muxed(m)' = Muxed(m) \cup {p}
        /\ \A j \in Muxes : j # m => Muxed(j)' = Muxed(j)
    BY <1>0, <1>9, <2>1, ArriveMoves DEF GoesDirectly
  <2>3. Waiting(s)' = Waiting(s)
    BY <1>9 DEF GoesDirectly, Waiting, NULL, NOPTS
  <2>4. CASE t = s
    <3>1. ~IsEof(s) /\ next'[s] = next[s] + 1
      BY <1>0, <1>9, <2>4, WayTypes DEF GoesDirectly, Advance
    <3>. QED
      BY <1>1, <1>4, <2>1, <2>2, <2>3, <2>4, <3>1
  <2>5. CASE t # s
    <3>1. next'[s] = next[s]
      BY <1>0, <1>9, <2>5, WayTypes DEF GoesDirectly, Advance
    <3>2. \A n : Packet(s, n) # p
      BY <1>2, <2>1, <2>5
    <3>. QED
      BY <1>3, <2>2, <2>3, <3>1, <3>2
  <2>. QED
    BY <2>4, <2>5
<1>10. ASSUME NEW m \in Muxes, Takes(m) \/ LetsGo(m)
       PROVE  Numbers(s)' = Numbers(s) /\ UNCHANGED next
  <2>1. /\ Muxed(m)' \subseteq Muxed(m) /\ \A j \in Muxes : j # m => Muxed(j)' = Muxed(j)
        /\ Waiting(s)' = Waiting(s) /\ UNCHANGED next
    BY <1>0, <1>10, ThreadMoves
  <2>2. \A x \in Muxed(m) : x \in Muxed(m)' \/ ~LiveNext(x.stream)
    BY <1>0, <1>10, ThreadKeeps
  <2>3. \A n : Packet(s, n) \in Muxed(k) <=> Packet(s, n) \in Muxed(k)'
    BY <1>0, <1>2, <2>1, <2>2
  <2>. QED
    BY <1>3, <2>1, <2>3
<1>. QED
  BY <1>0, <1>3, <1>5, <1>6, <1>7, <1>8, <1>9, <1>10, RestsMoves, Steps

LEMMA GapStep ==
    ASSUME BaseInv, GapInv, Next, UNCHANGED inst
    PROVE  GapInv'
<1>. SUFFICES ASSUME NEW s \in Streams, Live(s)'
              PROVE  \E e \in 0 .. LastPacket(s) :
                       Numbers(s)' = 1 .. e /\ (~(next'[s] > LastPacket(s)) => next'[s] = e + 1)
  BY Same DEF GapInv, IsEof
<1>1. StartInv /\ Live(s)
  BY LiveFewer DEF BaseInv
<1>2. PICK e \in 0 .. LastPacket(s) : Numbers(s) = 1 .. e /\ (~IsEof(s) => next[s] = e + 1)
  BY <1>1 DEF GapInv
<1>3. LastPacket(s) \in Nat /\ next[s] \in 1 .. LastPacket(s) + 1
  BY <1>1, WayTypes
<1>4. CASE Numbers(s)' = Numbers(s) /\ next'[s] \in {next[s], LastPacket(s) + 1}
  BY <1>2, <1>3, <1>4 DEF IsEof
<1>5. CASE /\ ~IsEof(s) /\ next'[s] = next[s] + 1
           /\ Numbers(s)' = Numbers(s) \cup {next[s]}
  <2>1. e + 1 \in 0 .. LastPacket(s) /\ next[s] = e + 1 /\ next'[s] = e + 2
    BY <1>2, <1>3, <1>5 DEF IsEof
  <2>2. Numbers(s)' = 1 .. e + 1
    BY <1>2, <1>3, <1>5, <2>1
  <2>. QED
    BY <2>1, <2>2
<1>. QED
  BY <1>4, <1>5, NumbersStep

\* A packet that is written has all earlier ones of its stream before it.
LEMMA WrittenNext ==
    ASSUME BaseInv, OrderInv, GapInv, NEW m \in Muxes, NEW p \in Muxed(m), Live(p.stream),
           NEW later, Muxed(m) = Items(written[m]) \cup {p} \cup later, {p} \X later \subseteq Sequel
    PROVE  \A n \in 1 .. p.n : n < p.n => Packet(p.stream, n) \in Items(written[m])
<1>1. /\ StartInv /\ p \in Packets /\ MuxOf[p.stream] = m
      /\ p.stream \in Streams /\ p.n \in 1 .. LastPacket(p.stream) /\ p.n \in Int
      /\ p = Packet(p.stream, p.n)
  BY WayTypes, PacketNumbers DEF BaseInv, PlaceInv
<1>2. PICK s \in Streams : s = p.stream
  BY <1>1
<1>3. PICK e \in 0 .. LastPacket(s) : Numbers(s) = 1 .. e
  BY <1>2 DEF GapInv
<1>4. p.n \in 1 .. e
  BY <1>1, <1>2, <1>3 DEF Numbers
<1>5. LastPacket(s) \in Nat
  BY <1>1, WayTypes
<1>6. ASSUME NEW n \in 1 .. p.n, n < p.n
      PROVE  Packet(s, n) \in Items(written[m])
  <2>1. n \in 1 .. e
    BY <1>4, <1>5, <1>6
  <2>2. Packet(s, n) \in Muxed(m) \cup Waiting(s)
    BY <1>1, <1>2, <1>3, <2>1 DEF Numbers
  <2>3. Packet(s, n).stream = s /\ Packet(s, n).n = n
    BY DEF Packet
  <2>4. p # NULL
    BY <1>1 DEF NULL, Streams
  <2>5. ASSUME <<p, Packet(s, n)>> \in Sequel
        PROVE  FALSE
    <3>1. p.n < n
      BY <1>2, <2>3, <2>4, <2>5 DEF Sequel
    <3>. QED
      BY <1>4, <1>6, <3>1
  <2>6. Muxed(m) \X Waiting(s) \subseteq Sequel
    BY <1>1, <1>2 DEF OrderInv
  <2>7. Packet(s, n) # p
    BY <1>6, <1>4, <2>3
  <2>. QED
    BY <2>2, <2>5, <2>6, <2>7
<1>. QED
  BY <1>2, <1>6

LEMMA WholeStep ==
    ASSUME BaseInv, OrderInv, GapInv, WholeInv, Next, UNCHANGED inst
    PROVE  WholeInv'
<1>0. StartInv
  BY DEF BaseInv
<1>1. ASSUME \A m \in Muxes : \A p \in Items(written'[m]) : \A n \in 1 .. p.n :
                Packet(p.stream, n) \in Items(written'[m])
      PROVE  WholeInv'
  <2>1. \A s, n : Packet(s, n)' = Packet(s, n)
    BY Same DEF Packet
  <2>. QED
    BY <1>1, <2>1, Same DEF WholeInv
<1>2. ASSUME UNCHANGED written
      PROVE  WholeInv'
  BY <1>1, <1>2 DEF WholeInv
<1>3. ASSUME NEW m \in Muxes, NEW p \in Packets, written' = [written EXCEPT ![m] = Append(@, p)],
             \A n \in 1 .. p.n : n < p.n => Packet(p.stream, n) \in Items(written[m])
      PROVE  WholeInv'
  <2>1. /\ Items(written'[m]) = Items(written[m]) \cup {p}
        /\ \A k \in Muxes : k # m => written'[k] = written[k]
    BY <1>0, <1>3, WayTypes, AppendItems
  <2>2. p = Packet(p.stream, p.n) /\ p.n \in Int
    BY PacketNumbers
  <2>3. \A n \in 1 .. p.n : Packet(p.stream, n) \in Items(written'[m])
    BY <1>3, <2>1, <2>2
  <2>. QED
    BY <1>1, <2>1, <2>3 DEF WholeInv
<1>4. ASSUME NEW m \in Muxes, Takes(m)
      PROVE  WholeInv'
  <2>1. /\ queue[m] \in Seq(Packets) /\ queue[m] # <<>> /\ Held(m) = {}
        /\ Becomes(m, Head(queue[m]))
    BY <1>0, <1>4, WayTypes DEF Takes
  <2>2. PICK p \in Packets : p = Head(queue[m])
    BY <2>1
  <2>3. Items(queue[m]) = {p} \cup Items(Tail(queue[m]))
    BY <2>1, <2>2, TailItems
  <2>4. {p} \X Items(Tail(queue[m])) \subseteq Sequel
    BY <2>1, <2>2, TailFacts DEF OrderInv, Path
  <2>5. /\ p \in Muxed(m)
        /\ Muxed(m) = Items(written[m]) \cup {p} \cup Items(Tail(queue[m]))
    BY <2>1, <2>3 DEF Muxed
  <2>6. CASE UNCHANGED written
    BY <1>2, <2>6
  <2>7. CASE written' = [written EXCEPT ![m] = Append(@, p)] /\ Live(p.stream)
    <3>1. \A n \in 1 .. p.n : n < p.n => Packet(p.stream, n) \in Items(written[m])
      BY <2>4, <2>5, <2>7, WrittenNext
    <3>. QED
      BY <1>3, <2>7, <3>1
  <2>. QED
    BY <2>1, <2>2, <2>6, <2>7 DEF Becomes
<1>5. ASSUME NEW m \in Muxes, LetsGo(m)
      PROVE  WholeInv'
  <2>1. PICK p \in Packets : p = inHand[m] /\ Held(m) = {p} /\ Becomes(m, inHand[m])
    BY <1>5 DEF LetsGo
  <2>2. {p} \X Items(queue[m]) \subseteq Sequel
    BY <2>1 DEF OrderInv, Path
  <2>3. /\ p \in Muxed(m)
        /\ Muxed(m) = Items(written[m]) \cup {p} \cup Items(queue[m])
    BY <2>1 DEF Muxed
  <2>4. CASE UNCHANGED written
    BY <1>2, <2>4
  <2>5. CASE written' = [written EXCEPT ![m] = Append(@, p)] /\ Live(p.stream)
    <3>1. \A n \in 1 .. p.n : n < p.n => Packet(p.stream, n) \in Items(written[m])
      BY <2>2, <2>3, <2>5, WrittenNext
    <3>. QED
      BY <1>3, <2>5, <3>1
  <2>. QED
    BY <2>1, <2>4, <2>5 DEF Becomes
<1>6. Rests \/ (\E s \in Streams : Drops(s) \/ Flushes(s) \/ Waits(s) \/ GoesDirectly(s))
        => UNCHANGED written
  BY DEF Rests, Drops, Flushes, Waits, GoesDirectly
<1>. QED
  BY <1>2, <1>4, <1>5, <1>6, Steps

-----------------------------------------------------------------------------
(* The invariant, and the order of what is written                         *)

OrderedInv == BaseInv /\ OrderInv /\ GapInv /\ WholeInv

LEMMA InitOrdered == Init => OrderedInv
<1>. SUFFICES ASSUME Init PROVE OrderedInv
  OBVIOUS
<1>1. StartInv
  BY InitStart
<1>2. Items(<<>>) = {}
  BY DEF Items
<1>3. /\ \A m \in Muxes : /\ written[m] = <<>> /\ queue[m] = <<>> /\ Held(m) = {} /\ Muxed(m) = {}
                          /\ muxPc[m] = "off"
      /\ \A s \in Streams : preQueue[s] = <<>> /\ Waiting(s) = {} /\ MuxOf[s] \in Muxes
      /\ toStart = <<>> /\ initEof = {}
  BY <1>1, <1>2, WayTypes DEF Init, Held, Muxed, Waiting
<1>4. PlaceInv
  BY <1>3 DEF PlaceInv
<1>5. DirectInv
  BY DEF Init, DirectInv
<1>6. OnceInv
  BY <1>3 DEF OnceInv
<1>7. EndInv
  BY <1>3 DEF EndInv
<1>8. OrderInv
  BY <1>2, <1>3 DEF OrderInv, Path, InOrder
<1>9. GapInv
  <2>. SUFFICES ASSUME NEW s \in Streams
                PROVE  /\ 0 \in 0 .. LastPacket(s) /\ Numbers(s) = 1 .. 0
                       /\ ~IsEof(s) => next[s] = 0 + 1
    BY DEF GapInv
  <2>1. Numbers(s) = {}
    BY <1>3 DEF Numbers
  <2>2. LastPacket(s) \in Nat
    BY <1>1, WayTypes
  <2>. QED
    BY <2>1, <2>2 DEF Init
<1>10. WholeInv
  BY <1>2, <1>3 DEF WholeInv
<1>. QED
  BY <1>1, <1>4, <1>5, <1>6, <1>7, <1>8, <1>9, <1>10 DEF OrderedInv, BaseInv

\* A step that changes no variable.
LEMMA OrderedStutter ==
    ASSUME OrderedInv, UNCHANGED <<vars, inst>>, StartInv'
    PROVE  OrderedInv'
<1>1. /\ Muxes' = Muxes /\ Streams' = Streams /\ MuxOf' = MuxOf /\ Sequel' = Sequel
      /\ \A m : Held(m)' = Held(m) /\ Muxed(m)' = Muxed(m) /\ StreamsOf(m)' = StreamsOf(m)
      /\ \A s : /\ Waiting(s)' = Waiting(s) /\ Numbers(s)' = Numbers(s) /\ Live(s)' = Live(s)
                /\ IsEof(s)' = IsEof(s) /\ LastPacket(s)' = LastPacket(s)
      /\ \A s, n : Packet(s, n)' = Packet(s, n)
  BY Same DEF vars, schVars, preVars, queueVars, threadVars, Held, Muxed, Waiting, Numbers, Live,
              IsEof, Packet, Sequel, NULL, NOPTS
<1>2. UNCHANGED <<toStart, muxStarted, pc, next, initEof, recvFinished, muxPc, inHand, queue,
                  written, preQueue>>
  BY DEF vars, preVars, queueVars, threadVars
<1>3. BaseInv'
  BY <1>1, <1>2 DEF OrderedInv, BaseInv, PlaceInv, DirectInv, OnceInv, EndInv
<1>4. OrderInv'
  BY <1>1, <1>2 DEF OrderedInv, OrderInv
<1>5. GapInv'
  BY <1>1, <1>2 DEF OrderedInv, GapInv
<1>6. WholeInv'
  BY <1>1, <1>2 DEF OrderedInv, WholeInv
<1>. QED
  BY <1>3, <1>4, <1>5, <1>6 DEF OrderedInv

\* The inductive invariant of the packets' order.
THEOREM OrderedInvariant == Spec => []OrderedInv
<1>1. OrderedInv /\ StartInv' /\ [Next /\ UNCHANGED inst]_<<vars, inst>> => OrderedInv'
  <2>1. ASSUME OrderedInv, StartInv', Next, UNCHANGED inst
        PROVE  OrderedInv'
    <3>1. BaseInv /\ StartInv /\ OnceInv /\ DirectInv /\ OrderInv /\ GapInv /\ WholeInv
      BY <2>1 DEF OrderedInv, BaseInv
    <3>2. BaseInv'
      BY <2>1, <3>1, PlaceStep, DirectStep, OnceStep, EndStep DEF BaseInv
    <3>. QED
      BY <2>1, <3>1, <3>2, OrderStep, GapStep, WholeStep DEF OrderedInv
  <2>. QED
    BY <2>1, OrderedStutter
<1>. QED
  BY <1>1, InitOrdered, StartInvariant, PTL DEF Spec

\* A muxer gets every stream from its start, in order and without a gap.
THEOREM StreamsInOrder == Spec => []StreamOrder
<1>1. OrderedInv => StreamOrder
  <2>. SUFFICES ASSUME OrderedInv, NEW m \in Muxes, NEW i \in 1 .. Len(written[m])
                PROVE  written[m][i].n =
                         Cardinality({j \in 1 .. i : written[m][j].stream = written[m][i].stream})
    BY DEF StreamOrder
  <2>. DEFINE p == written[m][i]
              J == {j \in 1 .. i : written[m][j].stream = p.stream}
              f == [j \in J |-> written[m][j].n]
  <2>1. /\ StartInv /\ written[m] \in Seq(Packets) /\ Len(written[m]) \in Nat
        /\ \A j \in 1 .. Len(written[m]) : /\ written[m][j] \in Packets
                                           /\ written[m][j] \in Items(written[m])
    <3>1. StartInv
      BY DEF OrderedInv, BaseInv
    <3>2. written[m] \in Seq(Packets)
      BY <3>1, WayTypes
    <3>. QED
      BY <3>1, <3>2 DEF Items
  <2>2. \A j \in 1 .. Len(written[m]) :
          /\ written[m][j].n \in Nat \ {0} /\ written[m][j].stream \in Streams
          /\ written[m][j] # NULL
    <3>1. \A x \in Packets : x.n \in Int /\ x.n >= 1 /\ x.stream \in Streams
      BY PacketNumbers
    <3>2. NULL.stream = 0 /\ 0 \notin Streams
      BY DEF NULL, Streams
    <3>. QED
      BY <2>1, <3>1, <3>2
  <2>3. \A j, k \in 1 .. Len(written[m]) :
          j < k /\ written[m][j].stream = written[m][k].stream => written[m][j].n < written[m][k].n
    <3>1. InOrder(written[m], Sequel)
      BY DEF OrderedInv, OrderInv, Path
    <3>. QED
      BY <2>2, <3>1 DEF InOrder, Sequel
  <2>4. i \in Nat /\ i <= Len(written[m]) /\ 1 .. i \subseteq 1 .. Len(written[m])
    BY <2>1
  <2>5. \A n \in 1 .. p.n : \E j \in J : written[m][j].n = n
    <3>. SUFFICES ASSUME NEW n \in 1 .. p.n
                  PROVE  \E j \in J : written[m][j].n = n
      OBVIOUS
    <3>1. Packet(p.stream, n) \in Items(written[m])
      BY <2>1, <2>4 DEF OrderedInv, WholeInv
    <3>2. PICK j \in 1 .. Len(written[m]) : written[m][j] = Packet(p.stream, n)
      BY <3>1 DEF Items
    <3>3. written[m][j].stream = p.stream /\ written[m][j].n = n
      BY <3>2 DEF Packet
    <3>4. ~(i < j)
      <4>1. i < j => p.n < n
        BY <2>3, <3>3
      <4>. QED
        BY <2>2, <4>1
    <3>5. j \in 1 .. i
      BY <2>1, <3>4
    <3>. QED
      BY <3>3, <3>5
  <2>6. f \in Bijection(J, 1 .. p.n)
    <3>1. \A j \in J : f[j] \in 1 .. p.n
      <4>. SUFFICES ASSUME NEW j \in J PROVE written[m][j].n \in 1 .. p.n
        OBVIOUS
      <4>1. j = i \/ written[m][j].n < p.n
        BY <2>3, <2>4
      <4>. QED
        BY <2>2, <2>4, <4>1
    <3>2. \A j, k \in J : f[j] = f[k] => j = k
      <4>. SUFFICES ASSUME NEW j \in J, NEW k \in J, j # k PROVE written[m][j].n # written[m][k].n
        OBVIOUS
      <4>1. j < k \/ k < j
        OBVIOUS
      <4>. QED
        BY <2>2, <2>3, <2>4, <4>1
    <3>3. \A n \in 1 .. p.n : \E j \in J : f[j] = n
      BY <2>5
    <3>. HIDE DEF f, J, p
    <3>4. f \in [J -> 1 .. p.n]
      BY <3>1 DEF f
    <3>. QED
      BY <3>2, <3>3, <3>4 DEF Bijection, Injection, Surjection, IsInjective
  <2>7. IsFiniteSet(1 .. p.n) /\ Cardinality(1 .. p.n) = p.n
    <3>1. PICK n \in Nat : n = p.n
      BY <2>2
    <3>2. IsFiniteSet(1 .. n) /\ Cardinality(1 .. n) = n
      BY FS_Interval
    <3>. QED
      BY <3>1, <3>2
  <2>8. IsFiniteSet(J)
    <3>1. IsFiniteSet(1 .. i) /\ J \in SUBSET (1 .. i)
      BY <2>4, FS_Interval
    <3>. HIDE DEF J
    <3>. QED
      BY <3>1, FS_Subset
  <2>. QED
    BY <2>6, <2>7, <2>8, FS_Bijection DEF ExistsBijection
<1>. QED
  BY <1>1, OrderedInvariant, PTL

-----------------------------------------------------------------------------
(* The packets that waited go by their dts                                 *)

LEMMA BegunStep ==
    ASSUME StartInv, phase # "uninit", Next, UNCHANGED inst
    PROVE  \A m \in Muxes : Begun(m) => Begun(m)'
<1>. USE TypeParts
<1>1. ASSUME UNCHANGED <<muxStarted, lock, toStart>>
      PROVE  \A m \in Muxes : Begun(m) => Begun(m)'
  BY <1>1 DEF Begun
<1>2. ~SchStart
  BY DEF SchStart
<1>3. ASSUME NEW s \in Streams, MuxInit(s)
      PROVE  \A m \in Muxes : Begun(m) => Begun(m)'
  BY <1>3 DEF MuxInit, Begun
<1>4. ASSUME NEW p \in Streams, FlushDone(p)
      PROVE  \A m \in Muxes : Begun(m) => Begun(m)'
  BY <1>4 DEF FlushDone, Begun
<1>5. ASSUME NEW s \in Streams, Starting(s) \/ Sending(s), ~MuxInit(s), ~FlushDone(s)
      PROVE  UNCHANGED <<muxStarted, lock, toStart>>
  BY <1>5 DEF Starting, StreamReady, MuxInitFails, FlushPacket, FlushEof, Sending, SendPacket,
              SendEof, PreQueue, PreOverflow, FallThrough, DirectPacket, DirectEof
<1>6. ASSUME NEW m \in Muxes, Muxing(m)
      PROVE  UNCHANGED <<muxStarted, lock, toStart>>
  BY <1>6 DEF Muxing, MuxReceive, MuxBeat, MuxReceiveEof, MuxDone
<1>7. Terminated => UNCHANGED <<muxStarted, lock, toStart>>
  BY DEF Terminated, vars
<1>. QED
  BY <1>1, <1>2, <1>3, <1>4, <1>5, <1>6, <1>7 DEF Next

LEMMA DtsFacts ==
    ASSUME StartInv
    PROVE  /\ \A p \in Packets : p.dts \in Int
           /\ DtsRising => \A p, q \in Packets :
                p.stream = q.stream /\ p.n < q.n /\ p.dts # NOPTS /\ q.dts # NOPTS => p.dts <= q.dts
<1>1. inst \in Instances
  BY DEF StartInv
<1>2. ASSUME NEW p \in Packets
      PROVE  /\ p.dts = Dts[p.stream][p.n] /\ p.stream \in Streams
             /\ p.n \in 1 .. Len(Dts[p.stream]) /\ p.dts \in Int
  <2>1. /\ p.stream \in Streams /\ p.n \in 1 .. Len(Dts[p.stream])
        /\ p.dts = Dts[p.stream][p.n]
    BY PacketNumbers DEF Packet, LastPacket
  <2>2. Dts[p.stream] \in Seq(Int)
    BY <1>1, <2>1, Static
  <2>. QED
    BY <2>1, <2>2
<1>3. ASSUME DtsRising, NEW s \in Streams, NEW a \in 1 .. Len(Dts[s]), NEW b \in 1 .. Len(Dts[s]),
             a < b, Dts[s][a] # NOPTS, Dts[s][b] # NOPTS
      PROVE  Dts[s][a] <= Dts[s][b]
  BY <1>1, <1>3 DEF DtsRising, Dts, Streams, NbStreams
<1>. QED
  BY <1>2, <1>3

\* The packet taken by the flush has the earliest dts of all that wait.
LEMMA FlushTakesEarliest ==
    ASSUME BaseInv, OrderInv, DtsRising, NEW s \in Streams, NEW r \in StreamsOf(MuxOf[s]),
           preQueue[s] # <<>>, Head1(s) # NULL, Head1(s) \in Packets, MinStream(MuxOf[s], s),
           Head1(s).dts # NOPTS, NEW q \in Waiting(r), q.dts # NOPTS
    PROVE  Head1(s).dts <= q.dts
<1>1. /\ StartInv /\ r \in Streams /\ q \in Packets /\ q.stream = r /\ q # NULL
      /\ q \in Items(preQueue[r]) /\ preQueue[r] \in Seq(Packets \cup {NULL})
  BY WayTypes DEF BaseInv, PlaceInv, Waiting, StreamsOf
<1>2. preQueue[r] # <<>>
  BY <1>1 DEF Items
<1>. DEFINE Q == {t \in StreamsOf(MuxOf[s]) : preQueue[t] # <<>>}
            U == {t \in Q : AtOnce(t)}
<1>3. U = {}
  BY DEF MinStream, AtOnce
<1>4. ~AtOnce(r)
  BY <1>2, <1>3
<1>5. Head1(r) # NULL /\ Head1(r).dts # NOPTS
  BY <1>4 DEF AtOnce
<1>6. Head1(r) \in Packets /\ Items(preQueue[r]) = {Head1(r)} \cup Items(Tail(preQueue[r]))
  BY <1>1, <1>2, <1>5, TailItems DEF Head1
<1>7. Head1(s).dts < Head1(r).dts \/ Head1(s).dts = Head1(r).dts
  BY <1>2, <1>3 DEF MinStream
<1>8. Head1(r).dts <= q.dts
  <2>1. CASE q = Head1(r)
    BY <1>1, <2>1, DtsFacts
  <2>2. CASE q \in Items(Tail(preQueue[r]))
    <3>1. <<Head1(r), q>> \in Sequel
      BY <1>1, <1>2, <2>2, TailFacts DEF OrderInv, Head1
    <3>2. Head1(r) \in Waiting(r)
      BY <1>5, <1>6 DEF Waiting
    <3>3. Head1(r).stream = r
      BY <1>1, <3>2 DEF BaseInv, PlaceInv
    <3>4. Head1(r).n < q.n
      BY <1>1, <1>5, <3>1, <3>3 DEF Sequel
    <3>. QED
      BY <1>1, <1>5, <1>6, <3>3, <3>4, DtsFacts
  <2>. QED
    BY <1>1, <1>6, <2>1, <2>2
<1>. QED
  BY <1>1, <1>6, <1>7, <1>8, DtsFacts

LEMMA FlushedStep ==
    ASSUME OrderedInv, FlushedInv, DtsRising, Next, UNCHANGED inst
    PROVE  FlushedInv'
<1>0. /\ BaseInv /\ StartInv /\ OrderInv /\ MuxOf' = MuxOf
      /\ \A m : StreamsOf(m)' = StreamsOf(m)
      /\ flushed \subseteq Packets /\ NOPTS' = NOPTS
  BY Same, WayTypes DEF OrderedInv, BaseInv, NOPTS
<1>1. CASE SchStart
  <2>1. flushed' = {}
    BY <1>1 DEF SchStart, preVars, FlushedInv
  <2>. QED
    BY <2>1 DEF FlushedInv
<1>2. ASSUME ~SchStart
      PROVE  phase = "started" /\ phase' = "started"
  <2>1. phase = "started"
    BY <1>0, <1>2, OnlySchStart DEF StartInv, TypeOK
  <2>2. ASSUME NEW s \in Streams, StreamReady(s) \/ MuxInit(s) \/ MuxInitFails(s)
        PROVE  phase' = phase
    BY <2>2 DEF StreamReady, MuxInit, MuxInitFails
  <2>. QED
    BY <1>0, <1>2, <2>1, <2>2, Running DEF Next, Starting, schVars
<1>3. ASSUME ~SchStart,
             \A p \in flushed' :
               /\ p \in Packets /\ p.n < next'[p.stream]
               /\ \A m \in Muxes : m = MuxOf[p.stream] => Begun(m)
               /\ \A s \in StreamsOf(MuxOf[p.stream]) : \A q \in Waiting(s)' :
                    p.dts # NOPTS /\ q.dts # NOPTS => p.dts <= q.dts
      PROVE  FlushedInv'
  <2>1. \A m \in Muxes : Begun(m) => Begun(m)'
    BY <1>0, <1>2, <1>3, BegunStep
  <2>2. ASSUME NEW p \in flushed'
        PROVE  Begun(MuxOf[p.stream])'
    <3>1. p.stream \in Streams
      BY <1>3, <2>2, PacketNumbers
    <3>2. PICK m \in Muxes : m = MuxOf[p.stream]
      BY <1>0, <3>1, WayTypes
    <3>3. Begun(m)'
      BY <1>3, <2>1, <3>2
    <3>. QED
      BY <1>0, <3>2, <3>3 DEF Begun
  <2>. QED
    BY <1>0, <1>2, <1>3, <2>2 DEF FlushedInv
<1>4. \A p \in flushed :
        /\ p \in Packets /\ p.n < next[p.stream] /\ p.n \in Int
        /\ p.stream \in Streams /\ MuxOf[p.stream] \in Muxes
        /\ Begun(MuxOf[p.stream])
        /\ \A s \in StreamsOf(MuxOf[p.stream]) : \A q \in Waiting(s) :
             p.dts # NOPTS /\ q.dts # NOPTS => p.dts <= q.dts
  BY <1>0, WayTypes, PacketNumbers DEF FlushedInv
<1>5. ASSUME ~SchStart, UNCHANGED flushed,
             \A s \in Streams : /\ next[s] \in Nat /\ next'[s] \in Nat /\ next[s] <= next'[s]
                                /\ Waiting(s)' \subseteq Waiting(s)
      PROVE  FlushedInv'
  <2>1. ASSUME NEW p \in flushed
        PROVE  p.n < next'[p.stream]
    BY <1>4, <1>5
  <2>2. \A m : StreamsOf(m) \subseteq Streams
    BY DEF StreamsOf
  <2>. QED
    BY <1>3, <1>4, <1>5, <2>1, <2>2
<1>6. CASE ~SchStart /\ Rests
  <2>1. \A s \in Streams : LastPacket(s) \in Nat /\ next[s] \in 1 .. LastPacket(s) + 1
    BY <1>0, WayTypes
  <2>2. \A s \in Streams : next'[s] \in {next[s], LastPacket(s) + 1} /\ Waiting(s)' = Waiting(s)
    BY <1>0, <1>6, RestsMoves
  <2>3. \A s \in Streams : next[s] \in Nat /\ next'[s] \in Nat /\ next[s] <= next'[s]
    BY <2>1, <2>2
  <2>. QED
    BY <1>5, <1>6, <2>2, <2>3 DEF Rests
<1>7. ASSUME ~SchStart, NEW s \in Streams, Drops(s)
      PROVE  FlushedInv'
  <2>1. UNCHANGED <<next, flushed>>
    BY <1>7 DEF Drops
  <2>2. \A t \in Streams : Waiting(t)' \subseteq Waiting(t) /\ next[t] \in Nat
    BY <1>0, <1>7, TakeMoves, WayTypes DEF Drops
  <2>. QED
    BY <1>5, <1>7, <2>1, <2>2
<1>8. ASSUME ~SchStart, NEW s \in Streams, Flushes(s)
      PROVE  FlushedInv'
  <2>1. /\ \A t \in Streams : Waiting(t)' \subseteq Waiting(t)
        /\ Head1(s) \in Waiting(s) /\ Head1(s) \in Packets
        /\ UNCHANGED next /\ flushed' = flushed \cup {Head1(s)}
        /\ preQueue[s] # <<>> /\ Head1(s) # NULL /\ MinStream(MuxOf[s], s)
        /\ lock # 0 /\ toStart # <<>> /\ toStart[1] = MuxOf[s]
    BY <1>0, <1>8, TakeMoves DEF Flushes
  <2>2. Head1(s).stream = s /\ Head1(s).n < next[s]
    BY <1>0, <2>1 DEF BaseInv, PlaceInv, OrderInv
  <2>3. \A t \in StreamsOf(MuxOf[s]) : \A q \in Waiting(t) :
          Head1(s).dts # NOPTS /\ q.dts # NOPTS => Head1(s).dts <= q.dts
    BY <1>0, <2>1, FlushTakesEarliest
  <2>4. \A m \in Muxes : m = MuxOf[s] => Begun(m)
    BY <2>1 DEF Begun
  <2>5. \A m : StreamsOf(m) \subseteq Streams
    BY DEF StreamsOf
  <2>6. ASSUME NEW p \in flushed'
        PROVE  /\ p \in Packets /\ p.n < next'[p.stream]
               /\ \A m \in Muxes : m = MuxOf[p.stream] => Begun(m)
               /\ \A t \in StreamsOf(MuxOf[p.stream]) : \A q \in Waiting(t)' :
                    p.dts # NOPTS /\ q.dts # NOPTS => p.dts <= q.dts
    <3>1. CASE p \in flushed
      BY <1>4, <2>1, <2>5, <3>1
    <3>2. CASE p = Head1(s)
      BY <2>1, <2>2, <2>3, <2>4, <2>5, <3>2
    <3>. QED
      BY <2>1, <3>1, <3>2
  <2>. QED
    BY <1>3, <1>8, <2>6
<1>9. ASSUME ~SchStart, NEW s \in Streams, Waits(s)
      PROVE  FlushedInv'
  <2>1. /\ UNCHANGED flushed /\ ~Begun(MuxOf[s])
    BY <1>9 DEF Waits, Begun
  <2>2. /\ \A t \in Streams : t # s => Waiting(t)' = Waiting(t)
        /\ \A t \in Streams : next[t] \in Nat /\ next'[t] \in {next[t], next[t] + 1}
    BY <1>0, <1>9, WaitMoves, WayTypes
  <2>3. ASSUME NEW p \in flushed
        PROVE  p.n < next'[p.stream] /\ s \notin StreamsOf(MuxOf[p.stream])
    BY <1>4, <2>1, <2>2 DEF StreamsOf
  <2>4. \A m : StreamsOf(m) \subseteq Streams
    BY DEF StreamsOf
  <2>. QED
    BY <1>3, <1>4, <1>9, <2>1, <2>2, <2>3, <2>4
<1>10. ASSUME ~SchStart, NEW s \in Streams, GoesDirectly(s)
       PROVE  FlushedInv'
  <2>1. UNCHANGED <<flushed, preQueue>> /\ Advance(s)
    BY <1>10 DEF GoesDirectly
  <2>2. \A t \in Streams : /\ Waiting(t)' = Waiting(t)
                           /\ next[t] \in Nat /\ next'[t] \in {next[t], next[t] + 1}
    BY <1>0, <2>1, WayTypes DEF Advance, Waiting, NULL, NOPTS
  <2>3. \A t \in Streams : next[t] <= next'[t] /\ next'[t] \in Nat
    BY <2>2
  <2>. QED
    BY <1>5, <1>10, <2>1, <2>2, <2>3
<1>11. ASSUME ~SchStart, NEW m \in Muxes, Takes(m) \/ LetsGo(m)
       PROVE  FlushedInv'
  <2>1. /\ UNCHANGED <<next, flushed>>
        /\ \A s \in Streams : Waiting(s)' = Waiting(s) /\ next[s] \in Nat
    BY <1>0, <1>11, ThreadMoves, WayTypes
  <2>. QED
    BY <1>5, <1>11, <2>1
<1>. QED
  BY <1>0, <1>1, <1>6, <1>7, <1>8, <1>9, <1>10, <1>11, Steps

LEMMA DtsStep ==
    ASSUME OrderedInv, FlushedInv, DtsInv, Next, UNCHANGED inst
    PROVE  DtsInv'
<1>0. /\ BaseInv /\ StartInv /\ OrderInv /\ Packets' = Packets /\ Muxes' = Muxes /\ NOPTS' = NOPTS
      /\ \A m \in Muxes : Path(written[m], Held(m), queue[m], FlushOrder)
  BY Same DEF OrderedInv, BaseInv, DtsInv, NOPTS
<1>1. ASSUME UNCHANGED flushed,
             \A m \in Muxes : Path(written'[m], Held(m)', queue'[m], FlushOrder)
      PROVE  DtsInv'
  <2>1. FlushOrder' = FlushOrder
    BY <1>0, <1>1 DEF FlushOrder
  <2>. QED
    BY <1>0, <1>1, <2>1 DEF DtsInv
<1>2. CASE Rests
  BY <1>0, <1>1, <1>2 DEF Rests
<1>3. ASSUME NEW s \in Streams, Drops(s) \/ Waits(s)
      PROVE  DtsInv'
  BY <1>0, <1>1, <1>3 DEF Drops, Waits
<1>4. ASSUME NEW s \in Streams, Flushes(s)
      PROVE  DtsInv'
  <2>1. Head1(s) \in Waiting(s) /\ Head1(s) \in Packets
    BY <1>0, <1>4, TakeMoves DEF Flushes
  <2>2. PICK k \in Muxes, p \in Packets : k = MuxOf[s] /\ p = Head1(s)
    BY <1>0, <2>1, WayTypes
  <2>3. /\ queue'[k] = Append(queue[k], p)
        /\ \A m \in Muxes : m # k => queue'[m] = queue[m]
        /\ flushed' = flushed \cup {p}
        /\ \A m \in Muxes : written'[m] = written[m] /\ Held(m)' = Held(m)
    BY <1>0, <1>4, <2>2, ArriveMoves DEF Flushes
  <2>4. p.stream = s /\ p # NULL
    BY <1>0, <1>4, <2>1, <2>2 DEF BaseInv, PlaceInv, Flushes
  <2>5. \A m \in Muxes : p \notin Muxed(m)
    <3>. SUFFICES ASSUME NEW m \in Muxes, p \in Muxed(m) PROVE FALSE
      OBVIOUS
    <3>1. m = k
      BY <1>0, <2>2, <2>4 DEF BaseInv, PlaceInv
    <3>2. <<p, p>> \in Sequel
      BY <1>0, <2>1, <2>2, <3>1 DEF OrderInv
    <3>3. p.n < p.n /\ p.n \in Int
      BY <2>4, <3>2, PacketNumbers DEF Sequel
    <3>. QED
      BY <3>3
  <2>6. PICK R : R = FlushOrder'
    OBVIOUS
  <2>7. R = {x \in Packets \X Packets :
               {x[1], x[2]} \subseteq flushed \cup {p} /\ x[1].dts # NOPTS /\ x[2].dts # NOPTS
                   => x[1].dts <= x[2].dts}
    BY <1>0, <2>3, <2>6 DEF FlushOrder
  <2>8. ASSUME NEW m \in Muxes
        PROVE  Path(written[m], Held(m), queue[m], R)
    <3>1. \A x, y \in Muxed(m) : <<x, y>> \in FlushOrder => <<x, y>> \in R
      BY <2>5, <2>7 DEF FlushOrder
    <3>. QED
      BY <1>0, <3>1, PathOther DEF Muxed
  <2>9. Muxed(k) \X {p} \subseteq R
    <3>. SUFFICES ASSUME NEW x \in Muxed(k), x \in flushed, x.dts # NOPTS, p.dts # NOPTS
                  PROVE  x.dts <= p.dts
      <4>1. Muxed(k) \subseteq Packets
        BY <1>0, WayTypes
      <4>. QED
        BY <2>5, <2>7, <4>1
    <3>1. MuxOf[x.stream] = k /\ s \in StreamsOf(k)
      BY <1>0, <2>2, WayTypes DEF BaseInv, PlaceInv
    <3>. QED
      BY <2>1, <2>2, <3>1 DEF FlushedInv
  <2>10. Path(written'[k], Held(k)', queue'[k], R)
    BY <1>0, <2>3, <2>8, <2>9, PathSend, WayTypes DEF Muxed
  <2>11. \A m \in Muxes : Path(written'[m], Held(m)', queue'[m], R)
    BY <2>3, <2>8, <2>10
  <2>. QED
    BY <1>0, <2>6, <2>11 DEF DtsInv
<1>5. ASSUME NEW s \in Streams, GoesDirectly(s)
      PROVE  DtsInv'
  <2>1. PICK k \in Muxes, p \in Packets :
          k = MuxOf[s] /\ p = ThisPacket(s) /\ p.stream = s /\ p.n = next[s]
    BY <1>0, <1>5, WayTypes, NextPacket DEF GoesDirectly
  <2>2. /\ queue'[k] = Append(queue[k], p)
        /\ \A m \in Muxes : m # k => queue'[m] = queue[m]
        /\ \A m \in Muxes : written'[m] = written[m] /\ Held(m)' = Held(m)
        /\ UNCHANGED flushed
    BY <1>0, <1>5, <2>1, ArriveMoves DEF GoesDirectly
  <2>3. p \notin flushed
    <3>1. p.n \in Int
      BY PacketNumbers
    <3>. QED
      BY <2>1, <3>1 DEF FlushedInv
  <2>4. Muxed(k) \X {p} \subseteq FlushOrder
    <3>1. Muxed(k) \subseteq Packets
      BY <1>0, WayTypes
    <3>. QED
      BY <2>3, <3>1 DEF FlushOrder
  <2>5. Path(written'[k], Held(k)', queue'[k], FlushOrder)
    BY <1>0, <2>2, <2>4, PathSend, WayTypes DEF Muxed
  <2>. QED
    BY <1>0, <1>1, <2>2, <2>5
<1>6. ASSUME NEW m \in Muxes, Takes(m) \/ LetsGo(m)
      PROVE  DtsInv'
  <2>1. /\ \A k \in Muxes : k # m => /\ queue'[k] = queue[k] /\ written'[k] = written[k]
                                     /\ Held(k)' = Held(k)
        /\ UNCHANGED flushed
    BY <1>0, <1>6, ThreadMoves DEF Takes, LetsGo
  <2>2. PICK R : R = FlushOrder
    OBVIOUS
  <2>3. Path(written'[m], Held(m)', queue'[m], FlushOrder)
    BY <1>0, <1>6, <2>2, ThreadPath
  <2>. QED
    BY <1>0, <1>1, <2>1, <2>3
<1>. QED
  BY <1>0, <1>2, <1>3, <1>4, <1>5, <1>6, Steps

\* The packets that waited for the start are muxed by their dts, across the
\* streams of the muxer, if those of each stream do not decrease.
THEOREM FlushedByDts ==
    ASSUME DtsRising
    PROVE  Spec => []FlushInDtsOrder
<1>1. Init => FlushedInv /\ DtsInv
  <2>. SUFFICES ASSUME Init PROVE FlushedInv /\ DtsInv
    OBVIOUS
  <2>1. \A m \in Muxes : written[m] = <<>> /\ queue[m] = <<>> /\ Held(m) = {}
    BY DEF Init, Held
  <2>2. Items(<<>>) = {}
    BY DEF Items
  <2>. QED
    BY <2>1, <2>2 DEF Init, FlushedInv, DtsInv, Path, InOrder
<1>2. /\ FlushedInv /\ DtsInv /\ OrderedInv /\ [Next /\ UNCHANGED inst]_<<vars, inst>>
      => (FlushedInv /\ DtsInv)'
  <2>. SUFFICES ASSUME FlushedInv, DtsInv, OrderedInv, UNCHANGED <<vars, inst>>
                PROVE  (FlushedInv /\ DtsInv)'
    BY FlushedStep, DtsStep
  <2>1. /\ Muxes' = Muxes /\ MuxOf' = MuxOf /\ FlushOrder' = FlushOrder
        /\ \A m : /\ Held(m)' = Held(m) /\ StreamsOf(m)' = StreamsOf(m) /\ Begun(m)' = Begun(m)
                  /\ Waiting(m)' = Waiting(m)
    BY Same DEF vars, preVars, queueVars, threadVars, Held, Begun, Waiting, FlushOrder, NULL, NOPTS
  <2>2. UNCHANGED <<phase, flushed, next, queue, written>>
    BY DEF vars, schVars, preVars, queueVars, threadVars
  <2>. QED
    BY <2>1, <2>2 DEF FlushedInv, DtsInv, NOPTS
<1>3. FlushedInv /\ DtsInv /\ OrderedInv => FlushInDtsOrder
  <2>. SUFFICES ASSUME DtsInv, StartInv, NEW m \in Muxes,
                       NEW j \in 1 .. Len(written[m]), NEW i \in 1 .. j - 1,
                       written[m][i].dts # NOPTS, written[m][j].dts # NOPTS,
                       {written[m][i], written[m][j]} \subseteq flushed
                PROVE  written[m][i].dts <= written[m][j].dts
    BY DEF FlushInDtsOrder, OrderedInv, BaseInv
  <2>1. written[m] \in Seq(Packets)
    BY WayTypes
  <2>2. i \in 1 .. Len(written[m]) /\ i < j
    BY <2>1
  <2>3. InOrder(written[m], FlushOrder)
    BY DEF DtsInv, Path
  <2>. QED
    BY <2>2, <2>3 DEF InOrder, FlushOrder
<1>. QED
  BY <1>1, <1>2, <1>3, OrderedInvariant, PTL DEF Spec

=============================================================================
