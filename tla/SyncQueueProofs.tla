--------------------------- MODULE SyncQueueProofs ---------------------------
(***************************************************************************)
(* Proofs about sync_queue.c for any number of streams, frames, time bases *)
(* and lengths of frames.                                                  *)
(***************************************************************************)
EXTENDS SyncQueue, SequenceTheorems, WellFoundedInduction, TLAPS

\* Frames that have a timestamp that is not negative, or no duration.
ProperFrames ==
    {f \in Frame : f.pts \in Nat \/ (f.pts = NOPTS /\ f.dur = 0 /\ f.samples = 0)}

\* The sources' frames are proper.  All theorems assume this: NOPTS with a
\* duration added is a timestamp in frame_end (sync_queue.c:127).
ProperSources == \A s \in Streams : \A i \in 1 .. Len(Frames[s]) : Frames[s][i] \in ProperFrames

-----------------------------------------------------------------------------
(* Arithmetic                                                              *)

Less == {p \in Nat \X Nat : p[1] < p[2]}

LEMMA LessWellFounded == IsWellFoundedOn(Less, Nat)
<1>1. OpToRel(<, Nat) = Less
  BY DEF OpToRel, Less
<1>. QED  BY <1>1, NatLessThanWellFounded

\* A nonempty set of naturals has a least element.
LEMMA LeastOf ==
    ASSUME NEW T \in SUBSET Nat, T # {}
    PROVE  \E x \in T : \A y \in T : x <= y
<1>1. PICK x \in T : \A y \in T : <<y, x>> \notin Less
  BY LessWellFounded, WFMin
<1>2. ASSUME NEW y \in T PROVE x <= y
  <2>1. x \in Nat /\ y \in Nat
    OBVIOUS
  <2>2. <<y, x>> \in Nat \X Nat /\ <<y, x>>[1] = y /\ <<y, x>>[2] = x
    BY <2>1
  <2>3. y < x => <<y, x>> \in Less
    BY <2>2 DEF Less
  <2>. QED  BY <1>1, <2>1, <2>3
<1>. QED  BY <1>2

LEMMA ScaleMonotone ==
    ASSUME NEW a \in Int, NEW b \in Int, NEW t \in Nat \ {0}
    PROVE  /\ a * t \in Int
           /\ a \in Nat => a * t \in Nat
           /\ a <= b => a * t <= b * t
OBVIOUS

\* A conversion is off by half a tick at most.
LEMMA RescaleBounds ==
    ASSUME NEW t \in Nat, NEW tb \in Nat \ {0}
    PROVE  /\ 2 * (Rescale(t, tb) * tb) <= 2 * t + tb
           /\ 2 * t <= 2 * (Rescale(t, tb) * tb) + tb
<1>. DEFINE x == (2 * t + tb) \div (2 * tb)
<1>1. 2 * t + tb \in Nat /\ 2 * tb \in Nat \ {0}
  OBVIOUS
<1>2. ASSUME NEW a \in Nat, NEW b \in Nat \ {0}
      PROVE  a \div b \in Nat /\ b * (a \div b) <= a /\ a < b * (a \div b) + b
  OBVIOUS
<1>3. x \in Nat /\ (2 * tb) * x <= 2 * t + tb /\ 2 * t + tb < (2 * tb) * x + 2 * tb
  BY <1>1, <1>2
<1>. HIDE DEF x
<1>4. (2 * tb) * x = 2 * (x * tb) /\ x * tb \in Nat
  BY <1>3
<1>5. Rescale(t, tb) = x
  BY DEF Rescale, x
<1>. QED  BY <1>3, <1>4, <1>5

\* It is exact where the time base divides.
LEMMA RescaleExact ==
    ASSUME NEW h \in Nat, NEW k \in Nat \ {0}, NEW tb \in Nat \ {0}
    PROVE  Rescale(h * (k * tb), tb) = h * k
<1>1. h * (k * tb) = (h * k) * tb /\ h * k \in Nat
  OBVIOUS
<1>2. ASSUME NEW a \in Nat PROVE (2 * (a * tb) + tb) \div (2 * tb) = a
  <2>1. 2 * (a * tb) + tb = (2 * tb) * a + tb
    OBVIOUS
  <2>2. tb >= 0 /\ tb < 2 * tb
    OBVIOUS
  <2>3. (2 * (a * tb) + tb) \div (2 * tb) \in Int
    OBVIOUS
  <2>. QED  BY <2>1, <2>2, <2>3
<1>. QED  BY <1>1, <1>2 DEF Rescale

LEMMA RescaleType ==
    ASSUME NEW t \in Nat, NEW tb \in Nat \ {0}
    PROVE  Rescale(t, tb) \in Nat
<1>1. 2 * t + tb \in Nat /\ 2 * tb \in Nat \ {0}
  OBVIOUS
<1>2. ASSUME NEW x \in Nat, NEW y \in Nat \ {0} PROVE x \div y \in Nat
  OBVIOUS
<1>. QED  BY <1>1, <1>2 DEF Rescale

-----------------------------------------------------------------------------
(* The fields of a queue                                                   *)

QueueType(q) ==
    /\ q \in [head : [Streams -> Nat \cup {NOPTS}], tb : [Streams -> Nat \ {0}],
              finished : SUBSET Streams, finHead : Streams \cup {None},
              headStream : Streams \cup {None}]
    /\ \A s \in Streams : q.tb[s] \in {StartTb, Tb[s]}

\* Twice what the head of s may be at, were it not rounded.
Reach(q, s) == 2 * Time(q, s) + Rounded(q, s)

HeadMin(q) ==
    q.headStream # None =>
        /\ q.headStream \in Limiting
        /\ \A l \in Limiting :
             Known(q, l) /\ 2 * Time(q, q.headStream) <= Reach(q, l) + Rounded(q, q.headStream)

\* The ends of streams are as they should be, but perhaps that of stream x.
EndsBut(q, x) ==
    /\ \A l \in Limiting \cap q.finished : Known(q, l) =>
         q.finHead # None /\ Time(q, q.finHead) <= Time(q, l)
    /\ q.finHead # None =>
         /\ q.finHead \in Limiting \cap q.finished
         /\ \A s \in Streams \ q.finished : s # x /\ Known(q, s) =>
              2 * Time(q, s) < 2 * Time(q, q.finHead) + Rounded(q, s)

Ends(q) == EndsBut(q, None)

\* Queue r is queue q later: time has not gone back, but by rounding, nothing has
\* reopened, and what was finished has not moved.
Later(q, r) ==
    /\ \A s \in Streams : Known(q, s) => Known(r, s) /\ Reach(q, s) <= Reach(r, s)
    /\ q.finished \subseteq r.finished
    /\ \A s \in q.finished : r.head[s] = q.head[s]

LEMMA StreamFacts == Limiting \subseteq Streams /\ None \notin Streams
BY StreamsAssumption DEF Streams, None

LEMMA TimeType ==
    ASSUME NEW q, QueueType(q), NEW s \in Streams
    PROVE  /\ Time(q, s) \in Int
           /\ Known(q, s) => Time(q, s) \in Nat /\ q.head[s] \in Nat
<1>1. q.head[s] \in Nat \cup {NOPTS} /\ q.tb[s] \in Nat \ {0}
  BY DEF QueueType
<1>. QED  BY <1>1, ScaleMonotone DEF Time, Known, NOPTS

LEMMA RoundedType ==
    ASSUME NEW q, QueueType(q), NEW s \in Streams
    PROVE  /\ Rounding(s) \in Nat /\ Rounded(q, s) \in Nat /\ Rounded(q, s) <= Rounding(s)
           /\ Reach(q, s) \in Int
<1>1. Rounding(s) \in Nat
  BY TbAssumption DEF Rounding
<1>2. Rounded(q, s) \in {0, Rounding(s)}
  BY DEF Rounded
<1>3. Time(q, s) \in Int
  BY TimeType
<1>4. Reach(q, s) \in Int
  <2>. DEFINE a == Rounded(q, s)
  <2>1. a \in Nat /\ Reach(q, s) = 2 * Time(q, s) + a
    BY <1>1, <1>2 DEF Reach
  <2>. HIDE DEF a
  <2>. QED  BY <1>3, <2>1
<1>. QED  BY <1>1, <1>2, <1>4

\* What a stream may have reached goes by its time and its time base.
LEMMA SameReach ==
    ASSUME NEW q, NEW r, NEW s \in Streams, r.tb[s] = q.tb[s], Time(r, s) = Time(q, s)
    PROVE  Rounded(r, s) = Rounded(q, s) /\ Reach(r, s) = Reach(q, s)
BY DEF Rounded, Reach

LEMMA LaterReflexive ==
    ASSUME NEW q, QueueType(q)
    PROVE  Later(q, q)
BY RoundedType DEF Later

\* finish_stream makes stream s, and what must end with it, end as it should.
LEMMA FinishStreamCorrect ==
    ASSUME NEW q, QueueType(q), NEW s \in Streams
    PROVE  LET r == FinishStream(q, s)
           IN  /\ QueueType(r)
               /\ r.head = q.head /\ r.tb = q.tb /\ r.headStream = q.headStream
               /\ q.finished \cup {s} \subseteq r.finished
               /\ EndsBut(q, s) => Ends(r)
               /\ HeadMin(q) => HeadMin(r)
               /\ Later(q, r)
<1>. DEFINE r == FinishStream(q, s)
            h == IF q.finHead = None \/ Time(q, s) < Time(q, q.finHead) THEN s
                 ELSE q.finHead
            with == {x \in Streams : Known(q, x) /\ Time(q, h) <= Time(q, x)}
<1>1. CASE s \in Limiting /\ Known(q, s)
  <2>1. r = [q EXCEPT !.finHead = h, !.finished = @ \cup {s} \cup with]
    BY <1>1 DEF FinishStream
  <2>2. /\ r.finHead = h /\ r.finished = q.finished \cup {s} \cup with
        /\ r.head = q.head /\ r.tb = q.tb /\ r.headStream = q.headStream
    BY <2>1 DEF QueueType
  <2>3. QueueType(r)
    BY <2>1, <2>2 DEF QueueType
  <2>4. \A x \in Streams : Time(r, x) = Time(q, x) /\ (Known(r, x) <=> Known(q, x))
    BY <2>2 DEF Time, Known
  <2>5. h \in Streams /\ h # None
    BY StreamFacts DEF QueueType
  <2>6. ASSUME EndsBut(q, s) PROVE Ends(r)
    <3>1. Time(q, h) <= Time(q, s)
      BY TimeType DEF QueueType
    <3>2. q.finHead # None => Time(q, h) <= Time(q, q.finHead)
      BY TimeType DEF QueueType
    <3>3. h \in Limiting \cap r.finished
      BY <1>1, <2>2, <2>6 DEF EndsBut
    <3>4. ASSUME NEW l \in Limiting \cap r.finished, Known(r, l)
          PROVE  r.finHead # None /\ Time(r, r.finHead) <= Time(r, l)
      <4>1. l \in Streams /\ Known(q, l)
        BY <3>4, <2>4, StreamFacts
      <4>2. CASE l \in q.finished
        <5>1. q.finHead # None /\ Time(q, q.finHead) <= Time(q, l)
          BY <4>1, <4>2, <2>6 DEF EndsBut
        <5>2. q.finHead \in Streams
          BY <5>1 DEF QueueType
        <5>3. Time(q, h) <= Time(q, l)
          BY <5>1, <5>2, <3>2, <4>1, <2>5, TimeType
        <5>. QED  BY <5>3, <2>2, <2>4, <2>5, <4>1
      <4>3. CASE l \notin q.finished
        <5>1. Time(q, h) <= Time(q, l)
          BY <4>3, <3>4, <2>2, <3>1
        <5>. QED  BY <5>1, <2>2, <2>4, <2>5, <4>1
      <4>. QED  BY <4>2, <4>3
    <3>5. ASSUME NEW x \in Streams \ r.finished, Known(r, x)
          PROVE  2 * Time(r, x) < 2 * Time(r, r.finHead) + Rounded(r, x)
      <4>1. Known(q, x) /\ x \notin with
        BY <3>5, <2>2, <2>4
      <4>2. /\ Time(q, x) < Time(q, h) /\ Time(q, x) \in Int /\ Time(q, h) \in Int
            /\ Rounded(r, x) \in Nat
        BY <4>1, <2>3, <2>5, TimeType, RoundedType
      <4>3. Time(r, x) = Time(q, x) /\ Time(r, r.finHead) = Time(q, h)
        BY <2>2, <2>4, <2>5
      <4>. HIDE DEF r, h
      <4>. QED  BY <4>2, <4>3
    <3>. QED  BY <3>3, <3>4, <3>5, <2>2, <2>5 DEF Ends, EndsBut
  <2>7. HeadMin(q) => HeadMin(r)
    BY <2>2, <2>4, SameReach, StreamFacts DEF HeadMin, QueueType
  <2>8. Later(q, r)
    BY <2>2, <2>4, SameReach, RoundedType DEF Later, QueueType
  <2>. QED  BY <2>2, <2>3, <2>6, <2>7, <2>8
<1>2. CASE ~(s \in Limiting /\ Known(q, s))
  <2>1. r = [q EXCEPT !.finished = @ \cup {s}]
    BY <1>2 DEF FinishStream
  <2>2. /\ r.finHead = q.finHead /\ r.finished = q.finished \cup {s}
        /\ r.head = q.head /\ r.tb = q.tb /\ r.headStream = q.headStream
    BY <2>1 DEF QueueType
  <2>3. QueueType(r)
    BY <2>1, <2>2 DEF QueueType
  <2>4. \A x \in Streams : Time(r, x) = Time(q, x) /\ (Known(r, x) <=> Known(q, x))
    BY <2>2 DEF Time, Known
  <2>6. ASSUME EndsBut(q, s) PROVE Ends(r)
    <3>1. ASSUME NEW l \in Limiting \cap r.finished, Known(r, l)
          PROVE  r.finHead # None /\ Time(r, r.finHead) <= Time(r, l)
      <4>1. l \in Streams /\ Known(q, l) /\ l \in q.finished
        BY <3>1, <2>2, <2>4, <1>2, StreamFacts
      <4>2. q.finHead # None /\ Time(q, q.finHead) <= Time(q, l)
        BY <4>1, <2>6 DEF EndsBut
      <4>. QED  BY <4>1, <4>2, <2>2, <2>4 DEF QueueType
    <3>2. ASSUME r.finHead # None
          PROVE  /\ r.finHead \in Limiting \cap r.finished
                 /\ \A x \in Streams \ r.finished : x # None /\ Known(r, x) =>
                      2 * Time(r, x) < 2 * Time(r, r.finHead) + Rounded(r, x)
      BY <3>2, <2>2, <2>4, <2>6, SameReach DEF EndsBut, QueueType
    <3>. QED  BY <3>1, <3>2 DEF Ends, EndsBut
  <2>7. HeadMin(q) => HeadMin(r)
    BY <2>2, <2>4, SameReach, StreamFacts DEF HeadMin, QueueType
  <2>8. Later(q, r)
    BY <2>2, <2>4, SameReach, RoundedType DEF Later, QueueType
  <2>. QED  BY <2>2, <2>3, <2>6, <2>7, <2>8
<1>. QED  BY <1>1, <1>2

\* A set of streams has a first stream, and one whose head is lowest.
LEMMA FirstOf ==
    ASSUME NEW S \in SUBSET Streams, S # {}
    PROVE  \E s \in S : \A r \in S : s <= r
<1>1. S \in SUBSET Nat
  BY DEF Streams
<1>. QED  BY <1>1, LeastOf

LEMMA LowestExists ==
    ASSUME NEW q, QueueType(q), Limiting # {}, \A l \in Limiting : Known(q, l)
    PROVE  Lowest(q) # {}
<1>. DEFINE T == {Time(q, l) : l \in Limiting}
<1>1. T \in SUBSET Nat /\ T # {}
  BY StreamFacts, TimeType
<1>2. PICK x \in T : \A y \in T : x <= y
  BY <1>1, LeastOf
<1>3. PICK l \in Limiting : x = Time(q, l)
  BY <1>2
<1>4. \A k \in Limiting : Time(q, l) <= Time(q, k)
  BY <1>2, <1>3
<1>. QED  BY <1>3, <1>4 DEF Lowest

LEMMA LowestIsMin ==
    ASSUME NEW q, QueueType(q), q.headStream \in Limiting,
           \A l \in Limiting : Known(q, l) /\ Time(q, q.headStream) <= Time(q, l)
    PROVE  HeadMin(q)
<1>1. ASSUME NEW l \in Limiting
      PROVE  2 * Time(q, q.headStream) <= Reach(q, l) + Rounded(q, q.headStream)
  <2>. DEFINE h == q.headStream
  <2>1. /\ Time(q, h) \in Int /\ Time(q, l) \in Int
        /\ Rounded(q, h) \in Nat /\ Rounded(q, l) \in Nat
        /\ Time(q, h) <= Time(q, l)
    BY TimeType, RoundedType, StreamFacts
  <2>. HIDE DEF h
  <2>. QED  BY <2>1 DEF Reach, h
<1>. QED  BY <1>1 DEF HeadMin

\* queue_head_update finds the limiting stream with the lowest head.
LEMMA QueueHeadUpdateCorrect ==
    ASSUME NEW q, QueueType(q), Limiting # {},
           q.headStream # None => \A l \in Limiting : Known(q, l),
           q.headStream # None => q.headStream \in Limiting
    PROVE  LET r == QueueHeadUpdate(q)
           IN  /\ QueueType(r) /\ HeadMin(r)
               /\ r.head = q.head /\ r.tb = q.tb
               /\ r.finished = q.finished /\ r.finHead = q.finHead
<1>. DEFINE r == QueueHeadUpdate(q)
            c == CHOOSE l \in Lowest(q) : \A k \in Lowest(q) : l <= k
<1>1. CASE q.headStream = None /\ \E l \in Limiting : ~Known(q, l)
  <2>1. r = q
    BY <1>1 DEF QueueHeadUpdate
  <2>. QED  BY <2>1, <1>1 DEF HeadMin
<1>2. CASE ~(q.headStream = None /\ \E l \in Limiting : ~Known(q, l))
  <2>1. \A l \in Limiting : Known(q, l)
    BY <1>2
  <2>2. CASE q.headStream \in Lowest(q)
    <3>1. r = q
      BY <1>2, <2>2 DEF QueueHeadUpdate
    <3>2. /\ q.headStream \in Limiting
          /\ \A k \in Limiting : Time(q, q.headStream) <= Time(q, k)
      BY <2>2 DEF Lowest
    <3>. QED  BY <3>1, <3>2, <2>1, LowestIsMin
  <2>3. CASE q.headStream \notin Lowest(q)
    <3>1. r = [q EXCEPT !.headStream = c]
      BY <1>2, <2>3 DEF QueueHeadUpdate
    <3>2. Lowest(q) \in SUBSET Streams /\ Lowest(q) # {}
      BY StreamFacts, LowestExists, <2>1 DEF Lowest
    <3>3. c \in Lowest(q)
      BY <3>2, FirstOf
    <3>4. c \in Limiting /\ \A k \in Limiting : Time(q, c) <= Time(q, k)
      BY <3>3 DEF Lowest
    <3>5. /\ r.headStream = c /\ r.head = q.head /\ r.tb = q.tb
          /\ r.finished = q.finished /\ r.finHead = q.finHead
      BY <3>1 DEF QueueType
    <3>6. QueueType(r)
      BY <3>1, <3>4, <3>5, StreamFacts DEF QueueType
    <3>7. \A x \in Streams : Time(r, x) = Time(q, x) /\ (Known(r, x) <=> Known(q, x))
      BY <3>5 DEF Time, Known
    <3>. QED  BY <2>1, <3>4, <3>5, <3>6, <3>7, LowestIsMin, StreamFacts
  <2>. QED  BY <2>2, <2>3
<1>. QED  BY <1>1, <1>2

\* stream_update_ts keeps the head stream lowest and the ends as they should be.
LEMMA StreamUpdateTsCorrect ==
    ASSUME NEW q, QueueType(q), HeadMin(q), Ends(q),
           NEW s \in Streams \ q.finished, NEW ts \in Nat \cup {NOPTS}
    PROVE  LET r == StreamUpdateTs(q, s, ts)
           IN  QueueType(r) /\ HeadMin(r) /\ Ends(r) /\ Later(q, r)
<1>. DEFINE r == StreamUpdateTs(q, s, ts)
            q1 == [q EXCEPT !.head[s] = ts]
            past == q1.finHead # None /\ Time(q1, q1.finHead) <= Time(q1, s)
            q2 == IF past THEN FinishStream(q1, s) ELSE q1
<1>1. CASE ts = NOPTS \/ (Known(q, s) /\ q.head[s] >= ts)
  <2>1. r = q
    BY <1>1 DEF StreamUpdateTs
  <2>. QED  BY <2>1, LaterReflexive
<1>2. CASE ~(ts = NOPTS \/ (Known(q, s) /\ q.head[s] >= ts))
  <2>1. ts \in Nat /\ (Known(q, s) => q.head[s] <= ts)
    BY <1>2 DEF QueueType, Known, NOPTS
  <2>2. r = IF s \in Limiting /\ q2.headStream \in {None, s}
            THEN QueueHeadUpdate(q2) ELSE q2
    BY <1>2 DEF StreamUpdateTs
  <2>3. /\ q1.head[s] = ts /\ \A x \in Streams : x # s => q1.head[x] = q.head[x]
        /\ q1.tb = q.tb /\ q1.finished = q.finished
        /\ q1.finHead = q.finHead /\ q1.headStream = q.headStream
    BY DEF QueueType
  <2>4. QueueType(q1)
    BY <2>1, <2>3 DEF QueueType
  <2>5. \A x \in Streams : x # s => Time(q1, x) = Time(q, x) /\ (Known(q1, x) <=> Known(q, x))
    BY <2>3 DEF Time, Known
  <2>6. Known(q1, s)
    BY <2>1, <2>3 DEF Known, NOPTS
  <2>7. Known(q, s) => Time(q, s) <= Time(q1, s)
    <3>1. SUFFICES ASSUME Known(q, s) PROVE q.head[s] * q.tb[s] <= ts * q.tb[s]
      BY <2>3 DEF Time
    <3>2. q.head[s] \in Int /\ q.tb[s] \in Nat \ {0} /\ q.head[s] <= ts
      BY <3>1, <2>1, TimeType DEF QueueType
    <3>. QED  BY <3>2, <2>1, ScaleMonotone
  <2>8. Later(q, q1)
    <3>1. \A x \in Streams : x # s => Reach(q1, x) = Reach(q, x)
      BY <2>3, <2>5, SameReach
    <3>2. Known(q, s) => Reach(q, s) <= Reach(q1, s)
      <4>1. Rounded(q1, s) = Rounded(q, s)
        BY <2>3 DEF Rounded
      <4>2. Rounded(q, s) \in Nat /\ Time(q, s) \in Int /\ Time(q1, s) \in Int
        BY <2>4, TimeType, RoundedType
      <4>. HIDE DEF q1
      <4>. QED  BY <4>1, <4>2, <2>7 DEF Reach
    <3>3. \A x \in q.finished : x \in Streams /\ x # s
      BY DEF QueueType
    <3>4. \A x \in Streams : Known(q, x) => Known(q1, x) /\ Reach(q, x) <= Reach(q1, x)
      <4>1. \A x \in Streams : Reach(q, x) \in Int
        BY RoundedType
      <4>. HIDE DEF q1
      <4>. QED  BY <4>1, <3>1, <3>2, <2>5, <2>6
    <3>. HIDE DEF q1
    <3>. QED  BY <3>3, <3>4, <2>3 DEF Later
  <2>9. EndsBut(q1, s)
    <3>1. ASSUME NEW l \in Limiting \cap q1.finished, Known(q1, l)
          PROVE  q1.finHead # None /\ Time(q1, q1.finHead) <= Time(q1, l)
      <4>1. l \in Streams /\ l # s /\ Known(q, l)
        BY <3>1, <2>3, <2>5, StreamFacts
      <4>2. q.finHead # None /\ Time(q, q.finHead) <= Time(q, l) /\ q.finHead \in q.finished
        BY <3>1, <4>1, <2>3 DEF Ends, EndsBut
      <4>3. q.finHead # s /\ q.finHead \in Streams
        BY <4>2 DEF QueueType
      <4>. QED  BY <4>1, <4>2, <4>3, <2>3, <2>5
    <3>2. ASSUME q1.finHead # None
          PROVE  /\ q1.finHead \in Limiting \cap q1.finished
                 /\ \A x \in Streams \ q1.finished : x # s /\ Known(q1, x) =>
                      2 * Time(q1, x) < 2 * Time(q1, q1.finHead) + Rounded(q1, x)
      <4>1. q.finHead \in Limiting \cap q.finished /\ q.finHead \in Streams /\ q.finHead # s
        BY <3>2, <2>3, StreamFacts DEF Ends, EndsBut
      <4>2. \A x \in Streams \ q.finished : Known(q, x) =>
              2 * Time(q, x) < 2 * Time(q, q.finHead) + Rounded(q, x)
        BY <3>2, <2>3, StreamFacts DEF Ends, EndsBut
      <4>. QED  BY <4>1, <4>2, <2>3, <2>5, SameReach
    <3>. QED  BY <3>1, <3>2 DEF EndsBut
  <2>10. /\ QueueType(q2) /\ Ends(q2)
         /\ q2.head = q1.head /\ q2.tb = q1.tb /\ q2.headStream = q1.headStream
         /\ Later(q1, q2)
    <3>1. CASE past
      <4>1. q2 = FinishStream(q1, s)
        BY <3>1
      <4>. HIDE DEF q1, q2
      <4>2. s \in Streams
        OBVIOUS
      <4>. QED  BY <4>1, <4>2, <2>4, <2>9, FinishStreamCorrect
    <3>2. CASE ~past
      <4>1. q2 = q1
        BY <3>2
      <4>2. q1.finHead # None => Time(q1, s) < Time(q1, q1.finHead)
        BY <3>2, <2>4, TimeType DEF QueueType
      <4>3. q1.finHead # None => 2 * Time(q1, s) < 2 * Time(q1, q1.finHead) + Rounded(q1, s)
        <5>1. SUFFICES ASSUME q1.finHead # None
                       PROVE  2 * Time(q1, s) < 2 * Time(q1, q1.finHead) + Rounded(q1, s)
          OBVIOUS
        <5>2. /\ Time(q1, s) \in Int /\ Time(q1, q1.finHead) \in Int
              /\ Rounded(q1, s) \in Nat /\ Time(q1, s) < Time(q1, q1.finHead)
          BY <5>1, <4>2, <2>4, TimeType, RoundedType DEF QueueType
        <5>. HIDE DEF q1
        <5>. QED  BY <5>2
      <4>4. Ends(q1)
        BY <2>9, <4>3 DEF Ends, EndsBut
      <4>. QED  BY <4>1, <4>4, <2>4, LaterReflexive
    <3>. QED  BY <3>1, <3>2
  <2>11. Later(q, q2)
    <3>1. \A x \in Streams : Known(q, x) => Known(q2, x) /\ Reach(q, x) <= Reach(q2, x)
      <4>1. TAKE x \in Streams
      <4>2. HAVE Known(q, x)
      <4>3. Known(q1, x) /\ Reach(q, x) <= Reach(q1, x)
        BY <4>2, <2>8 DEF Later
      <4>4. Known(q2, x) /\ Reach(q1, x) <= Reach(q2, x)
        BY <4>3, <2>10 DEF Later
      <4>. QED  BY <4>2, <4>3, <4>4, <2>4, <2>10, RoundedType
    <3>. QED  BY <3>1, <2>8, <2>10 DEF Later
  <2>12. \A x \in Streams : Time(q2, x) = Time(q1, x) /\ (Known(q2, x) <=> Known(q1, x))
    BY <2>10 DEF Time, Known
  <2>13. CASE s \in Limiting /\ q2.headStream \in {None, s}
    <3>1. r = QueueHeadUpdate(q2)
      BY <2>2, <2>13
    <3>2. q2.headStream # None => /\ q2.headStream \in Limiting
                                  /\ \A l \in Limiting : Known(q2, l)
      BY <2>3, <2>10, <2>11, StreamFacts DEF HeadMin, Later
    <3>3. /\ QueueType(r) /\ HeadMin(r) /\ r.head = q2.head /\ r.tb = q2.tb
          /\ r.finished = q2.finished /\ r.finHead = q2.finHead
      BY <2>10, <2>13, <3>1, <3>2, QueueHeadUpdateCorrect
    <3>4. \A x \in Streams : Time(r, x) = Time(q2, x) /\ (Known(r, x) <=> Known(q2, x))
      BY <3>3 DEF Time, Known
    <3>5. Ends(r)
      <4>1. /\ Ends(q2) /\ r.finished = q2.finished /\ r.finHead = q2.finHead
            /\ q2.finHead \in Streams \cup {None}
        BY <2>10, <3>3 DEF QueueType
      <4>2. \A x \in Streams : Rounded(r, x) = Rounded(q2, x)
        BY <3>3 DEF Rounded
      <4>. HIDE DEF r, q2
      <4>. QED  BY <4>1, <4>2, <3>4, StreamFacts DEF Ends, EndsBut
    <3>6. Later(q, r)
      BY <2>11, <3>3, <3>4, SameReach DEF Later
    <3>. QED  BY <3>3, <3>5, <3>6
  <2>14. CASE ~(s \in Limiting /\ q2.headStream \in {None, s})
    <3>1. r = q2
      BY <2>2, <2>14
    <3>2. HeadMin(q2)
      <4>1. SUFFICES ASSUME q.headStream # None
                     PROVE  /\ q.headStream \in Limiting
                            /\ \A l \in Limiting :
                                 /\ Known(q2, l)
                                 /\ 2 * Time(q2, q.headStream) <=
                                        Reach(q2, l) + Rounded(q2, q.headStream)
        BY <2>3, <2>10 DEF HeadMin
      <4>. DEFINE h == q.headStream
      <4>2. /\ h \in Limiting /\ h \in Streams /\ h # s
            /\ \A l \in Limiting :
                 Known(q, l) /\ 2 * Time(q, h) <= Reach(q, l) + Rounded(q, h)
        BY <4>1, <2>3, <2>10, <2>14, StreamFacts DEF HeadMin
      <4>3. Time(q2, h) = Time(q, h) /\ q2.tb[h] = q.tb[h]
        BY <4>2, <2>3, <2>5, <2>10, <2>12
      <4>4. Rounded(q2, h) = Rounded(q, h) /\ Time(q, h) \in Int /\ Rounded(q, h) \in Nat
        BY <4>2, <4>3, SameReach, TimeType, RoundedType
      <4>5. ASSUME NEW l \in Limiting
            PROVE  Known(q2, l) /\ 2 * Time(q2, h) <= Reach(q2, l) + Rounded(q2, h)
        <5>1. /\ l \in Streams /\ Known(q, l)
              /\ 2 * Time(q, h) <= Reach(q, l) + Rounded(q, h)
          BY <4>2, StreamFacts
        <5>2. Known(q2, l) /\ Reach(q, l) <= Reach(q2, l)
          BY <5>1, <2>11 DEF Later
        <5>3. Reach(q, l) \in Int /\ Reach(q2, l) \in Int
          BY <5>1, <2>10, RoundedType
        <5>. HIDE DEF h, q2
        <5>. QED  BY <5>1, <5>2, <5>3, <4>3, <4>4
      <4>. QED  BY <4>2, <4>5
    <3>. QED  BY <3>1, <3>2, <2>10, <2>11
  <2>. QED  BY <2>13, <2>14
<1>. QED  BY <1>1, <1>2

\* tb_update moves the head of its stream by the rounding at most.
LEMMA TbUpdateCorrect ==
    ASSUME NEW q, QueueType(q), NEW s \in Streams \ q.finished
    PROVE  LET r == TbUpdate(q, s)
           IN  /\ QueueType(r)
               /\ r.finished = q.finished
               /\ HeadMin(q) => HeadMin(r)
               /\ Ends(q) => Ends(r)
               /\ Later(q, r)
<1>. DEFINE r == TbUpdate(q, s)
<1>1. CASE q.tb[s] = Tb[s]
  <2>1. r = q
    BY <1>1 DEF TbUpdate
  <2>. QED  BY <2>1, LaterReflexive
<1>2. CASE q.tb[s] # Tb[s]
  <2>1. q.tb[s] = StartTb
    BY <1>2 DEF QueueType
  <2>3. DEFINE h == IF Known(q, s) THEN Rescale(Time(q, s), Tb[s]) ELSE q.head[s]
  <2>4. r = [q EXCEPT !.tb[s] = Tb[s], !.head[s] = h]
    BY <1>2 DEF TbUpdate
  <2>5. Tb[s] \in Nat \ {0}
    BY TbAssumption
  <2>6. Known(q, s) => h \in Nat
    BY <2>5, TimeType, RescaleType
  <2>7. /\ r.head[s] = h /\ r.tb[s] = Tb[s]
        /\ \A x \in Streams : x # s => r.head[x] = q.head[x] /\ r.tb[x] = q.tb[x]
        /\ r.finished = q.finished /\ r.finHead = q.finHead /\ r.headStream = q.headStream
    BY <2>4 DEF QueueType
  <2>8. h \in Nat \cup {NOPTS}
    BY <2>6 DEF QueueType
  <2>9. QueueType(r)
    <3>. HIDE DEF h, r
    <3>1. r.head \in [Streams -> Nat \cup {NOPTS}]
      BY <2>4, <2>8 DEF QueueType
    <3>2. r.tb \in [Streams -> Nat \ {0}]
      BY <2>4, <2>5 DEF QueueType
    <3>3. \A x \in Streams : r.tb[x] \in {StartTb, Tb[x]}
      BY <2>7 DEF QueueType
    <3>4. r = [head |-> r.head, tb |-> r.tb, finished |-> q.finished,
               finHead |-> q.finHead, headStream |-> q.headStream]
      BY <2>4 DEF QueueType
    <3>. QED  BY <3>1, <3>2, <3>3, <3>4 DEF QueueType
  <2>10. \A x \in Streams : Known(r, x) <=> Known(q, x)
    BY <2>6, <2>7 DEF Known, NOPTS
  <2>11. /\ Rounded(q, s) = 0 /\ Rounded(r, s) = Rounding(s)
         /\ Known(q, s) => /\ 2 * Time(r, s) <= 2 * Time(q, s) + Rounding(s)
                           /\ 2 * Time(q, s) <= 2 * Time(r, s) + Rounding(s)
    <3>1. Rounded(q, s) = 0 /\ Rounded(r, s) = Rounding(s)
      BY <1>2, <2>7 DEF Rounded
    <3>2. SUFFICES ASSUME Known(q, s)
                   PROVE  /\ 2 * Time(r, s) <= 2 * Time(q, s) + Rounding(s)
                          /\ 2 * Time(q, s) <= 2 * Time(r, s) + Rounding(s)
      BY <3>1
    <3>3. /\ q.head[s] \in Nat /\ Time(q, s) \in Nat /\ Time(q, s) = q.head[s] * StartTb
          /\ Time(r, s) = Rescale(Time(q, s), Tb[s]) * Tb[s]
      BY <3>2, <2>1, <2>7, TimeType DEF Time
    <3>4. CASE \E k \in 1 .. StartTb : StartTb = k * Tb[s]
      <4>1. PICK k \in 1 .. StartTb : StartTb = k * Tb[s]
        BY <3>4
      <4>2. k \in Nat \ {0} /\ Rounding(s) = 0
        BY <3>4 DEF Rounding
      <4>3. Rescale(q.head[s] * (k * Tb[s]), Tb[s]) = q.head[s] * k
        BY <3>3, <4>2, <2>5, RescaleExact
      <4>4. (q.head[s] * k) * Tb[s] = q.head[s] * (k * Tb[s])
        BY <3>3, <4>2, <2>5
      <4>5. Time(r, s) = Time(q, s)
        BY <3>3, <4>1, <4>3, <4>4
      <4>. QED  BY <3>3, <4>2, <4>5
    <3>5. CASE ~\E k \in 1 .. StartTb : StartTb = k * Tb[s]
      <4>1. Rounding(s) = Tb[s]
        BY <3>5 DEF Rounding
      <4>. QED  BY <3>3, <4>1, <2>5, RescaleBounds
    <3>. QED  BY <3>4, <3>5
  <2>12. \A x \in Streams : x # s =>
           Time(r, x) = Time(q, x) /\ Rounded(r, x) = Rounded(q, x) /\ Reach(r, x) = Reach(q, x)
    BY <2>7 DEF Time, Rounded, Reach
  <2>13. \A x \in Streams : Known(q, x) =>
           /\ 2 * Time(r, x) <= 2 * Time(q, x) + (Rounded(r, x) - Rounded(q, x))
           /\ Reach(q, x) <= Reach(r, x)
    <3>1. TAKE x \in Streams
    <3>2. HAVE Known(q, x)
    <3>3. /\ Time(q, x) \in Int /\ Time(r, x) \in Int /\ Rounded(q, x) \in Nat
          /\ Rounded(r, x) \in Nat /\ Rounding(x) \in Nat
      BY <2>9, TimeType, RoundedType
    <3>. HIDE DEF r
    <3>4. CASE x = s
      BY <3>2, <3>3, <3>4, <2>11 DEF Reach
    <3>5. CASE x # s
      BY <3>3, <3>5, <2>12 DEF Reach
    <3>. QED  BY <3>4, <3>5
  <2>14. HeadMin(q) => HeadMin(r)
    <3>1. SUFFICES ASSUME HeadMin(q), q.headStream # None
                   PROVE  /\ q.headStream \in Limiting
                          /\ \A l \in Limiting :
                               /\ Known(r, l)
                               /\ 2 * Time(r, q.headStream) <=
                                      Reach(r, l) + Rounded(r, q.headStream)
      BY <2>7 DEF HeadMin
    <3>. DEFINE m == q.headStream
    <3>2. m \in Limiting /\ m \in Streams
      BY <3>1, StreamFacts DEF HeadMin
    <3>3. ASSUME NEW l \in Limiting
          PROVE  Known(r, l) /\ 2 * Time(r, m) <= Reach(r, l) + Rounded(r, m)
      <4>1. /\ l \in Streams /\ Known(q, l) /\ Known(q, m)
            /\ 2 * Time(q, m) <= Reach(q, l) + Rounded(q, m)
        BY <3>1, <3>2, StreamFacts DEF HeadMin
      <4>2. /\ 2 * Time(r, m) <= 2 * Time(q, m) + (Rounded(r, m) - Rounded(q, m))
            /\ Reach(q, l) <= Reach(r, l)
        BY <4>1, <3>2, <2>13
      <4>3. /\ Time(q, m) \in Int /\ Time(r, m) \in Int /\ Rounded(q, m) \in Int
            /\ Rounded(r, m) \in Int /\ Reach(q, l) \in Int /\ Reach(r, l) \in Int
        BY <4>1, <3>2, <2>9, TimeType, RoundedType
      <4>4. Known(r, l)
        BY <4>1, <2>10
      <4>. HIDE DEF m, r
      <4>. QED  BY <4>1, <4>2, <4>3, <4>4
    <3>. QED  BY <3>2, <3>3
  <2>15. Ends(q) => Ends(r)
    <3>1. SUFFICES ASSUME Ends(q) PROVE Ends(r)
      OBVIOUS
    <3>2. q.finHead # None => q.finHead \in Streams /\ q.finHead # s
      BY <3>1, StreamFacts DEF Ends, EndsBut
    <3>3. ASSUME NEW l \in Limiting \cap r.finished, Known(r, l)
          PROVE  r.finHead # None /\ Time(r, r.finHead) <= Time(r, l)
      <4>1. l \in Streams /\ l # s /\ Known(q, l) /\ l \in q.finished
        BY <3>3, <2>7, <2>10, StreamFacts
      <4>2. q.finHead # None /\ Time(q, q.finHead) <= Time(q, l)
        BY <3>1, <4>1 DEF Ends, EndsBut
      <4>. QED  BY <4>1, <4>2, <3>2, <2>7, <2>12
    <3>4. ASSUME r.finHead # None
          PROVE  /\ r.finHead \in Limiting \cap r.finished
                 /\ \A x \in Streams \ r.finished : Known(r, x) =>
                      2 * Time(r, x) < 2 * Time(r, r.finHead) + Rounded(r, x)
      <4>1. q.finHead # None /\ q.finHead \in Limiting \cap q.finished
        BY <3>1, <3>4, <2>7 DEF Ends, EndsBut
      <4>2. ASSUME NEW x \in Streams \ r.finished, Known(r, x)
            PROVE  2 * Time(r, x) < 2 * Time(r, r.finHead) + Rounded(r, x)
        <5>. DEFINE f == q.finHead
        <5>1. /\ x \in Streams /\ x \notin q.finished /\ x # None /\ Known(q, x)
              /\ f \in Streams /\ r.finHead = f /\ Time(r, f) = Time(q, f)
          BY <3>2, <4>1, <4>2, <2>7, <2>10, <2>12, StreamFacts
        <5>2. 2 * Time(q, x) < 2 * Time(q, f) + Rounded(q, x)
          BY <3>1, <4>1, <5>1 DEF Ends, EndsBut
        <5>3. 2 * Time(r, x) <= 2 * Time(q, x) + (Rounded(r, x) - Rounded(q, x))
          BY <5>1, <2>13
        <5>4. /\ Time(q, x) \in Int /\ Time(r, x) \in Int /\ Time(q, f) \in Int
              /\ Rounded(q, x) \in Int /\ Rounded(r, x) \in Int
          BY <5>1, <2>9, TimeType, RoundedType
        <5>. HIDE DEF f, r
        <5>. QED  BY <5>1, <5>2, <5>3, <5>4
      <4>. QED  BY <4>1, <4>2, <2>7
    <3>. QED  BY <3>3, <3>4 DEF Ends, EndsBut
  <2>16. Later(q, r)
    <3>1. \A x \in q.finished : x \in Streams /\ x # s
      BY DEF QueueType
    <3>. QED  BY <3>1, <2>7, <2>10, <2>13 DEF Later
  <2>. QED  BY <2>7, <2>9, <2>14, <2>15, <2>16
<1>. QED  BY <1>1, <1>2

-----------------------------------------------------------------------------
(* The invariant                                                           *)

Good(q) == QueueType(q) /\ HeadMin(q) /\ Ends(q)

\* end is not after what any limiting stream has reached, but for the rounding
Released(q, end) ==
    end # NOPTS => \A l \in Limiting :
        Known(q, l) /\ \E h \in Limiting : 2 * end <= Reach(q, l) + Rounding(h)

\* NotAhead is inductive with the order of the heads, the release of the
\* samples that are being copied, and what a heartbeat in progress works on.
SafeInv ==
    /\ TypeOK
    /\ Good(sq)
    /\ fifo \in [Streams -> Seq(ProperFrames)]
    /\ \A s \in Streams : Released(sq, out[s].end)
    /\ pc = "copy" => copy.st \in Streams /\ Released(sq, copy.end)
    /\ pc = "beat" => beat.at \in Streams /\ beat.st \in Streams /\ beat.ts \in Nat

LEMMA LaterTransitive ==
    ASSUME NEW p, QueueType(p), NEW q, QueueType(q), NEW r, QueueType(r),
           Later(p, q), Later(q, r)
    PROVE  Later(p, r)
<1>1. ASSUME NEW x \in Streams, Known(p, x)
      PROVE  Known(r, x) /\ Reach(p, x) <= Reach(r, x)
  <2>1. Known(q, x) /\ Reach(p, x) <= Reach(q, x)
    BY <1>1 DEF Later
  <2>2. Known(r, x) /\ Reach(q, x) <= Reach(r, x)
    BY <2>1 DEF Later
  <2>. QED  BY <1>1, <2>1, <2>2, RoundedType
<1>. QED  BY <1>1 DEF Later

LEMMA FinishStreamGood ==
    ASSUME NEW q, Good(q), NEW s \in Streams
    PROVE  /\ Good(FinishStream(q, s)) /\ Later(q, FinishStream(q, s))
           /\ s \in FinishStream(q, s).finished
           /\ FinishStream(q, s).head = q.head
<1>1. EndsBut(q, s)
  BY DEF Good, Ends, EndsBut, Streams, None
<1>. QED  BY <1>1, FinishStreamCorrect DEF Good

LEMMA ReleasedStays ==
    ASSUME NEW q, QueueType(q), NEW r, QueueType(r), Later(q, r),
           NEW end \in Int, Released(q, end)
    PROVE  Released(r, end)
<1>1. SUFFICES ASSUME end # NOPTS, NEW l \in Limiting
               PROVE  Known(r, l) /\ \E h \in Limiting : 2 * end <= Reach(r, l) + Rounding(h)
  BY DEF Released
<1>2. l \in Streams /\ Known(q, l)
  BY <1>1, StreamFacts DEF Released
<1>3. PICK h \in Limiting : 2 * end <= Reach(q, l) + Rounding(h)
  BY <1>1 DEF Released
<1>4. Known(r, l) /\ Reach(q, l) <= Reach(r, l)
  BY <1>2 DEF Later
<1>5. Reach(q, l) \in Int /\ Reach(r, l) \in Int /\ Rounding(h) \in Nat
  BY <1>2, <1>3, RoundedType, StreamFacts
<1>6. 2 * end <= Reach(r, l) + Rounding(h)
  BY <1>3, <1>4, <1>5
<1>. QED  BY <1>4, <1>6

LEMMA SamplesDurType ==
    ASSUME NEW s \in Streams, NEW nb \in Nat
    PROVE  SamplesDur(s, nb) \in Nat
<1>1. nb * SampleTime[s] \in Nat
  BY SampleAssumption, ScaleMonotone
<1>2. Tb[s] \in Nat \ {0}
  BY TbAssumption
<1>. QED  BY <1>1, <1>2, RescaleType DEF SamplesDur

LEMMA FrameEndType ==
    ASSUME NEW s \in Streams, NEW f \in ProperFrames, NEW nb \in Int
    PROVE  /\ FrameEnd(s, f, nb) \in Int
           /\ FrameEnd(s, f, 0) \in Nat \cup {NOPTS}
           /\ f.pts # NOPTS => FrameEnd(s, f, nb) \in Nat
<1>1. nb > 0 => SamplesDur(s, nb) \in Nat
  BY SamplesDurType
<1>2. f.dur \in Nat /\ (f.pts \in Nat \/ (f.pts = NOPTS /\ f.dur = 0))
  BY DEF ProperFrames, Frame
<1>3. FrameEnd(s, f, 0) = f.pts + f.dur
  BY DEF FrameEnd
<1>4. CASE nb > 0
  <2>1. FrameEnd(s, f, nb) = f.pts + SamplesDur(s, nb)
    BY <1>4 DEF FrameEnd
  <2>. QED  BY <2>1, <1>1, <1>2, <1>3, <1>4 DEF NOPTS
<1>5. CASE ~(nb > 0)
  <2>1. FrameEnd(s, f, nb) = f.pts + f.dur
    BY <1>5 DEF FrameEnd
  <2>. QED  BY <2>1, <1>2, <1>3 DEF NOPTS
<1>. QED  BY <1>4, <1>5

\* What offset_audio leaves of a frame that has samples is a proper frame.
LEMMA OffsetProper ==
    ASSUME NEW s \in Streams, NEW f \in ProperFrames, NEW n \in Nat, n < f.samples
    PROVE  LET e == OffsetAudio(s, f, n)
           IN  e \in ProperFrames /\ e.samples > 0 /\ f.samples = e.samples + n
<1>. DEFINE e == OffsetAudio(s, f, n)
            p == f.pts + SamplesDur(s, n)
            d == SamplesDur(s, f.samples - n)
<1>1. f \in Frame /\ f.pts \in Nat /\ f.samples \in Nat
  BY DEF ProperFrames, Frame
<1>2. f.samples - n \in Nat /\ f.samples - n > 0
  BY <1>1
<1>3. p \in Nat /\ d \in Nat
  BY <1>1, <1>2, SamplesDurType
<1>4. e = [[[f EXCEPT !.pts = p] EXCEPT !.samples = f.samples - n] EXCEPT !.dur = d]
  BY DEF OffsetAudio
<1>. HIDE DEF p, d, e
<1>5. e \in Frame /\ e.pts = p /\ e.samples = f.samples - n
  <2>. DEFINE g == [f EXCEPT !.pts = p]
              h == [g EXCEPT !.samples = f.samples - n]
  <2>1. g \in Frame /\ g.pts = p
    BY <1>1, <1>3 DEF Frame
  <2>. HIDE DEF g
  <2>2. h \in Frame /\ h.pts = p /\ h.samples = f.samples - n
    BY <1>2, <2>1 DEF Frame
  <2>3. e = [h EXCEPT !.dur = d]
    BY <1>4 DEF g
  <2>. HIDE DEF h
  <2>. QED  BY <1>3, <2>2, <2>3 DEF Frame
<1>. QED  BY <1>1, <1>2, <1>3, <1>5 DEF ProperFrames, e

LEMMA TailTsType ==
    ASSUME SafeInv, NEW s \in Streams, HasTail(s)
    PROVE  TailTs(s) \in Nat
<1>. DEFINE D == {i \in 1 .. Len(fifo[s]) : FrameEnd(s, fifo[s][i], 0) # NOPTS}
            P(i) == /\ FrameEnd(s, fifo[s][i], 0) # NOPTS
                    /\ \A j \in 1 .. i - 1 : FrameEnd(s, fifo[s][j], 0) = NOPTS
            i0 == CHOOSE i \in 1 .. Len(fifo[s]) : P(i)
<1>1. fifo[s] \in Seq(ProperFrames)
  BY DEF SafeInv
<1>2. D \in SUBSET Nat /\ D # {}
  BY <1>1 DEF HasTail
<1>3. PICK i \in D : \A j \in D : i <= j
  BY <1>2, LeastOf
<1>4. i \in 1 .. Len(fifo[s]) /\ P(i)
  BY <1>1, <1>3
<1>5. i0 \in 1 .. Len(fifo[s]) /\ FrameEnd(s, fifo[s][i0], 0) # NOPTS
  BY <1>4
<1>6. TailTs(s) = FrameEnd(s, fifo[s][i0], 0)
  BY DEF TailTs
<1>7. fifo[s][i0] \in ProperFrames
  <2>. HIDE DEF i0
  <2>. QED  BY <1>1, <1>5
<1>. QED  BY <1>5, <1>6, <1>7, FrameEndType

\* What is ready for release ends before every limiting stream's head.
LEMMA ReadyReleased ==
    ASSUME SafeInv, NEW s \in Streams, Ready(s), NbSamples(s) \in Nat
    PROVE  LET end == EndOf(Head(fifo[s]), NbSamples(s), s)
           IN  end \in Int /\ Released(sq, end)
<1>. DEFINE f == Head(fifo[s])
            end == EndOf(f, NbSamples(s), s)
<1>1. f \in ProperFrames
  BY DEF SafeInv, Ready, Available
<1>2. QueueType(sq) /\ HeadMin(sq)
  BY DEF SafeInv, Good
<1>3. sq.tb[s] \in Nat \ {0}
  BY <1>2 DEF QueueType
<1>4. CASE f.pts = NOPTS
  BY <1>4 DEF EndOf, Released, NOPTS
<1>5. CASE f.pts # NOPTS
  <2>1. NextEnd(s) \in Nat /\ end = NextEnd(s) * sq.tb[s]
    BY <1>1, <1>5, FrameEndType DEF NextEnd, EndOf
  <2>2. end \in Int
    BY <2>1, <1>3, ScaleMonotone
  <2>3. ASSUME NEW l \in Limiting
        PROVE  Known(sq, l) /\ \E k \in Limiting : 2 * end <= Reach(sq, l) + Rounding(k)
    <3>. DEFINE h == sq.headStream
    <3>1. h # None /\ end <= Time(sq, h)
      BY <2>1, <2>3 DEF Ready, NOPTS
    <3>2. /\ Known(sq, l) /\ h \in Limiting
          /\ 2 * Time(sq, h) <= Reach(sq, l) + Rounded(sq, h)
      BY <3>1, <1>2 DEF HeadMin
    <3>3. l \in Streams /\ h \in Streams
      BY <3>2, StreamFacts
    <3>4. /\ Time(sq, h) \in Int /\ Reach(sq, l) \in Int
          /\ Rounded(sq, h) \in Nat /\ Rounding(h) \in Nat /\ Rounded(sq, h) <= Rounding(h)
      BY <3>3, <1>2, TimeType, RoundedType
    <3>. HIDE DEF h, end
    <3>5. 2 * end <= Reach(sq, l) + Rounding(h)
      BY <3>1, <3>2, <3>4, <2>2
    <3>. QED  BY <3>2, <3>5
  <2>. QED  BY <2>2, <2>3 DEF Released
<1>. QED  BY <1>4, <1>5

-----------------------------------------------------------------------------
(* Steps                                                                   *)

\* The frame that a source has next.
LEMMA NextFrame ==
    ASSUME ProperSources, SafeInv, NEW s \in Streams, accepted[s] < Len(Frames[s])
    PROVE  /\ accepted[s] + 1 \in 0 .. Len(Frames[s])
           /\ Frames[s][accepted[s] + 1] \in ProperFrames
<1>1. Frames[s] \in Seq([pts : Int, dur : Nat, samples : Nat])
  BY FramesAssumption
<1>2. Len(Frames[s]) \in Nat
  BY <1>1
<1>3. accepted[s] \in 0 .. Len(Frames[s])
  BY DEF SafeInv, TypeOK
<1>4. accepted[s] + 1 \in 1 .. Len(Frames[s])
  BY <1>2, <1>3
<1>. QED  BY <1>4 DEF ProperSources

\* The fields of the queue stay good in every step, and only move forward.
LEMMA QueueStep ==
    ASSUME ProperSources, SafeInv, Next
    PROVE  Good(sq') /\ Later(sq, sq')
<1>. USE DEF SafeInv
<1>0. sq' = sq => Good(sq') /\ Later(sq, sq')
  BY LaterReflexive DEF Good
<1>1. ASSUME NEW s \in Streams, Send(s) PROVE Good(sq') /\ Later(sq, sq')
  <2>. DEFINE f == Frames[s][accepted[s] + 1]
              q1 == TbUpdate(sq, s)
              q2 == StreamUpdateTs(q1, s, FrameEnd(s, f, 0))
  <2>1. f \in ProperFrames /\ s \in Streams \ sq.finished
    BY <1>1, NextFrame DEF Send
  <2>2. FrameEnd(s, f, 0) \in Nat \cup {NOPTS}
    BY <2>1, FrameEndType
  <2>3. Good(q1) /\ Later(sq, q1) /\ q1.finished = sq.finished
    BY <2>1, TbUpdateCorrect DEF Good
  <2>4. Good(q2) /\ Later(q1, q2)
    <3>. HIDE DEF q1, f
    <3>1. s \in Streams \ q1.finished
      BY <2>1, <2>3
    <3>. QED  BY <3>1, <2>2, <2>3, StreamUpdateTsCorrect DEF Good
  <2>5. Later(sq, q2)
    <3>. HIDE DEF q1, q2
    <3>. QED  BY <2>3, <2>4, LaterTransitive DEF Good
  <2>6. sq' = q2 \/ sq' = FinishStream(q2, s)
    BY <1>1 DEF Send
  <2>7. Good(FinishStream(q2, s)) /\ Later(sq, FinishStream(q2, s))
    <3>. HIDE DEF q2
    <3>1. Good(FinishStream(q2, s)) /\ Later(q2, FinishStream(q2, s))
      BY <2>4, FinishStreamGood
    <3>. QED  BY <3>1, <2>4, <2>5, LaterTransitive DEF Good
  <2>. QED  BY <2>4, <2>5, <2>6, <2>7
<1>2. ASSUME NEW s \in Streams, SendNull(s) PROVE Good(sq') /\ Later(sq, sq')
  BY <1>2, FinishStreamGood DEF SendNull
<1>3. ASSUME NEW s \in Streams, Receive(s) PROVE Good(sq') /\ Later(sq, sq')
  BY <1>0, <1>3, FinishStreamGood DEF Receive, HandOn
<1>4. ASSUME CopySamples PROVE Good(sq') /\ Later(sq, sq')
  BY <1>0, <1>4, FinishStreamGood DEF CopySamples, HandOn
<1>5. ASSUME Heartbeat PROVE Good(sq') /\ Later(sq, sq')
  <2>. DEFINE s == beat.at
              r == StreamUpdateTs(sq, s, FakeTs(s))
  <2>1. sq' = sq \/ (s \notin sq.finished /\ sq' = r)
    BY <1>5 DEF Heartbeat
  <2>2. s \in Streams /\ beat.st \in Streams /\ beat.ts \in Nat
    BY <1>5 DEF Heartbeat
  <2>3. sq.tb[s] \in Nat \ {0} /\ sq.tb[beat.st] \in Nat \ {0}
    BY <2>2 DEF Good, QueueType
  <2>4. BeatTime \in Nat
    BY <2>2, <2>3, ScaleMonotone DEF BeatTime
  <2>5. FakeTs(s) \in Nat
    <3>1. Rescale(BeatTime, sq.tb[s]) \in Nat
      BY <2>3, <2>4, RescaleType
    <3>2. sq.head[s] \in Nat \cup {NOPTS}
      BY <2>2 DEF Good, QueueType
    <3>3. Known(sq, s) => sq.head[s] + 1 \in Nat
      BY <3>2 DEF Known
    <3>. QED  BY <3>1, <3>3 DEF FakeTs
  <2>6. s \notin sq.finished => Good(r) /\ Later(sq, r)
    BY <2>2, <2>5, StreamUpdateTsCorrect DEF Good
  <2>. QED  BY <1>0, <2>1, <2>6
<1>6. ASSUME NEW s \in Streams, ReceiveSamples(s) \/ Overflow(s) PROVE sq' = sq
  BY <1>6 DEF ReceiveSamples, Overflow
<1>7. ASSUME ReceiveEof \/ ReceiveAgain \/ RetryAgain \/ Terminated PROVE sq' = sq
  BY <1>7 DEF ReceiveEof, ReceiveAgain, RetryAgain, Terminated, vars
<1>. QED  BY <1>0, <1>1, <1>2, <1>3, <1>4, <1>5, <1>6, <1>7 DEF Next

\* What is handed on goes into the history of its stream.
LEMMA HandOnStep ==
    ASSUME SafeInv, NEW s \in Streams, NEW nb \in Nat, NEW end \in Int,
           Released(sq, end), HandOn(s, nb, end)
    PROVE  /\ out' \in [Streams -> [count : Nat, last : Nat, end : Int]]
           /\ \A x \in Streams : Released(sq, out'[x].end)
<1>. DEFINE e == IF out[s].end < end THEN end ELSE out[s].end
            h == [count |-> out[s].count + 1, last |-> nb, end |-> e]
<1>1. out \in [Streams -> [count : Nat, last : Nat, end : Int]]
  BY DEF SafeInv, TypeOK
<1>2. out' = [out EXCEPT ![s] = h]
  BY DEF HandOn
<1>3. e \in {end, out[s].end}
  OBVIOUS
<1>4. e \in Int /\ Released(sq, e)
  BY <1>1, <1>3 DEF SafeInv
<1>5. h \in [count : Nat, last : Nat, end : Int] /\ h.end = e
  BY <1>1, <1>4
<1>6. /\ out' \in [Streams -> [count : Nat, last : Nat, end : Int]]
      /\ out'[s].end = e
      /\ \A x \in Streams \ {s} : out'[x] = out[x]
  <2>. HIDE DEF h, e
  <2>. QED  BY <1>1, <1>2, <1>5
<1>. QED  BY <1>4, <1>6 DEF SafeInv

\* Nothing comes out too early, and nothing is copied too early.
LEMMA OutStep ==
    ASSUME ProperSources, SafeInv, Next
    PROVE  /\ out' \in [Streams -> [count : Nat, last : Nat, end : Int]]
           /\ \A x \in Streams : Released(sq', out'[x].end)
           /\ copy' \in [st : Streams \cup {None}, nb : Nat, left : Nat, end : Int]
           /\ pc' = "copy" => copy'.st \in Streams /\ Released(sq', copy'.end)
<1>. DEFINE OutType == out' \in [Streams -> [count : Nat, last : Nat, end : Int]]
            CopyType == copy' \in [st : Streams \cup {None}, nb : Nat, left : Nat, end : Int]
            OutRel(q) == \A x \in Streams : Released(q, out'[x].end)
            CopyRel(q) == pc' = "copy" => copy'.st \in Streams /\ Released(q, copy'.end)
<1>1. QueueType(sq) /\ QueueType(sq') /\ Later(sq, sq')
  BY QueueStep DEF SafeInv, Good
<1>2. SUFFICES OutType /\ CopyType /\ OutRel(sq) /\ CopyRel(sq)
  <2>1. ASSUME OutType, OutRel(sq) PROVE OutRel(sq')
    BY <1>1, <2>1, ReleasedStays
  <2>2. ASSUME CopyType, CopyRel(sq) PROVE CopyRel(sq')
    BY <1>1, <2>2, ReleasedStays
  <2>. QED  BY <2>1, <2>2
<1>3. CASE UNCHANGED <<out, copy>> /\ (pc' = "copy" => pc = "copy")
  BY <1>3 DEF SafeInv, TypeOK
<1>4. ASSUME NEW s \in Streams, Receive(s) PROVE OutType /\ CopyType /\ OutRel(sq) /\ CopyRel(sq)
  <2>. DEFINE f == Head(fifo[s])
  <2>1. copy' = copy /\ pc' = "receive"
    BY <1>4 DEF Receive, HandOn
  <2>2. Ready(s) /\ NbSamples(s) = 0
    BY <1>4 DEF Receive, FirstReady
  <2>3. EndOf(f, 0, s) \in Int /\ Released(sq, EndOf(f, 0, s))
    BY <2>2, ReadyReleased
  <2>4. f.samples \in Nat
    <3>1. fifo[s] \in Seq(ProperFrames) /\ fifo[s] # <<>>
      BY <2>2 DEF SafeInv, Ready, Available
    <3>2. f \in ProperFrames
      BY <3>1
    <3>. QED  BY <3>2 DEF ProperFrames, Frame
  <2>5. HandOn(s, f.samples, EndOf(f, 0, s))
    BY <1>4 DEF Receive
  <2>6. OutType /\ OutRel(sq)
    <3>. HIDE DEF f
    <3>. QED  BY <2>3, <2>4, <2>5, HandOnStep
  <2>. QED  BY <2>1, <2>6 DEF SafeInv, TypeOK
<1>5. ASSUME NEW s \in Streams, ReceiveSamples(s)
      PROVE  OutType /\ CopyType /\ OutRel(sq) /\ CopyRel(sq)
  <2>. DEFINE end == EndOf(Head(fifo[s]), NbSamples(s), s)
  <2>1. out' = out
    BY <1>5 DEF ReceiveSamples
  <2>2. samplesQueued[s] \in Int /\ FrameSamples[s] \in Nat
    BY LimitAssumption DEF SafeInv, TypeOK
  <2>3. NbSamples(s) \in Nat
    BY <1>5, <2>2 DEF ReceiveSamples, NbSamples
  <2>4. end \in Int /\ Released(sq, end)
    BY <1>5, <2>3, ReadyReleased DEF ReceiveSamples, FirstReady
  <2>5. copy' = [st |-> s, nb |-> NbSamples(s), left |-> NbSamples(s), end |-> end]
    BY <1>5 DEF ReceiveSamples
  <2>6. CopyType /\ CopyRel(sq)
    <3>. HIDE DEF end
    <3>. QED  BY <2>3, <2>4, <2>5
  <2>. QED  BY <2>1, <2>6 DEF SafeInv, TypeOK
<1>6. ASSUME CopySamples PROVE OutType /\ CopyType /\ OutRel(sq) /\ CopyRel(sq)
  <2>. DEFINE s == copy.st
              f == Head(fifo[s])
              n == IF copy.left < f.samples THEN copy.left ELSE f.samples
  <2>1. s \in Streams /\ Released(sq, copy.end)
        /\ copy \in [st : Streams \cup {None}, nb : Nat, left : Nat, end : Int]
    BY <1>6 DEF CopySamples, SafeInv, TypeOK
  <2>2. f.samples \in Nat
    <3>1. fifo[s] \in Seq(ProperFrames) /\ fifo[s] # <<>>
      BY <1>6, <2>1 DEF CopySamples, SafeInv
    <3>2. f \in ProperFrames
      BY <3>1
    <3>. QED  BY <3>2 DEF ProperFrames, Frame
  <2>3. copy.left - n \in Nat
    BY <2>1, <2>2
  <2>4. copy' = [copy EXCEPT !.left = copy.left - n]
    BY <1>6 DEF CopySamples
  <2>5. CopyType /\ copy'.st = s /\ copy'.end = copy.end
    <3>. HIDE DEF n
    <3>. QED  BY <2>1, <2>3, <2>4
  <2>6. HandOn(s, copy.nb, copy.end) \/ UNCHANGED <<out, pc>>
    BY <1>6 DEF CopySamples
  <2>7. OutType /\ OutRel(sq)
    <3>1. CASE HandOn(s, copy.nb, copy.end)
      BY <2>1, <3>1, HandOnStep
    <3>2. CASE UNCHANGED <<out, pc>>
      BY <3>2 DEF SafeInv, TypeOK
    <3>. QED  BY <2>6, <3>1, <3>2
  <2>. QED  BY <2>1, <2>5, <2>7
<1>7. ASSUME NEW s \in Streams, Send(s) \/ SendNull(s) \/ Overflow(s)
      PROVE  UNCHANGED <<out, copy>> /\ (pc' = "copy" => pc = "copy")
  BY <1>7 DEF Send, SendNull, Overflow
<1>8. ASSUME ReceiveEof \/ ReceiveAgain \/ Heartbeat \/ RetryAgain \/ Terminated
      PROVE  UNCHANGED <<out, copy>> /\ (pc' = "copy" => pc = "copy")
  BY <1>8 DEF ReceiveEof, ReceiveAgain, Heartbeat, RetryAgain, Terminated, vars
<1>. QED  BY <1>3, <1>4, <1>5, <1>6, <1>7, <1>8 DEF Next

\* The FIFOs go on to hold proper frames.
LEMMA FifoStep ==
    ASSUME ProperSources, SafeInv, Next
    PROVE  /\ fifo' \in [Streams -> Seq(ProperFrames)]
           /\ samplesQueued' \in [Streams -> Int]
<1>1. /\ fifo \in [Streams -> Seq(ProperFrames)]
      /\ samplesQueued \in [Streams -> Int]
  BY DEF SafeInv, TypeOK
<1>2. ASSUME NEW f \in ProperFrames PROVE f.samples \in Nat
  BY DEF ProperFrames, Frame
<1>3. ASSUME NEW s \in Streams, Send(s)
      PROVE  fifo' \in [Streams -> Seq(ProperFrames)] /\ samplesQueued' \in [Streams -> Int]
  <2>. DEFINE f == Frames[s][accepted[s] + 1]
  <2>3. f \in ProperFrames
    BY <1>3, NextFrame DEF Send
  <2>4. fifo' = [fifo EXCEPT ![s] = Append(fifo[s], f)]
        /\ samplesQueued' = [samplesQueued EXCEPT ![s] = samplesQueued[s] + f.samples]
    BY <1>3 DEF Send
  <2>. HIDE DEF f
  <2>5. Append(fifo[s], f) \in Seq(ProperFrames) /\ samplesQueued[s] + f.samples \in Int
    BY <1>1, <1>2, <2>3
  <2>. QED  BY <1>1, <2>4, <2>5
<1>4. ASSUME NEW s \in Streams, Receive(s)
      PROVE  fifo' \in [Streams -> Seq(ProperFrames)] /\ samplesQueued' \in [Streams -> Int]
  <2>1. fifo[s] # <<>> /\ fifo[s] \in Seq(ProperFrames)
    BY <1>1, <1>4 DEF Receive, FirstReady, Ready, Available
  <2>2. Tail(fifo[s]) \in Seq(ProperFrames) /\ Head(fifo[s]) \in ProperFrames
    BY <2>1
  <2>3. samplesQueued[s] - Head(fifo[s]).samples \in Int
    BY <1>1, <1>2, <2>2
  <2>. QED  BY <1>1, <1>4, <2>2, <2>3 DEF Receive
<1>5. ASSUME CopySamples
      PROVE  fifo' \in [Streams -> Seq(ProperFrames)] /\ samplesQueued' \in [Streams -> Int]
  <2>. DEFINE s == copy.st
              f == Head(fifo[s])
              n == IF copy.left < f.samples THEN copy.left ELSE f.samples
              rest == IF n < f.samples THEN <<OffsetAudio(s, f, n)>> \o Tail(fifo[s])
                      ELSE Tail(fifo[s])
  <2>1. s \in Streams /\ fifo[s] # <<>> /\ copy.left \in Nat
    BY <1>5 DEF CopySamples, SafeInv, TypeOK
  <2>2. f \in ProperFrames /\ Tail(fifo[s]) \in Seq(ProperFrames)
    BY <1>1, <2>1
  <2>3. n \in Nat /\ f.samples \in Nat
    BY <1>2, <2>1, <2>2
  <2>4. n < f.samples => OffsetAudio(s, f, n) \in ProperFrames
    BY <2>1, <2>2, <2>3, OffsetProper
  <2>5. rest \in Seq(ProperFrames)
    <3>. HIDE DEF n, f
    <3>1. CASE n < f.samples
      <4>1. <<OffsetAudio(s, f, n)>> \in Seq(ProperFrames)
        BY <2>4, <3>1
      <4>. QED  BY <2>2, <3>1, <4>1
    <3>2. CASE ~(n < f.samples)
      BY <2>2, <3>2
    <3>. QED  BY <3>1, <3>2
  <2>6. fifo' = [fifo EXCEPT ![s] = rest]
        /\ samplesQueued' = [samplesQueued EXCEPT ![s] = samplesQueued[s] - n]
    BY <1>5 DEF CopySamples
  <2>7. samplesQueued[s] - n \in Int
    BY <1>1, <2>1, <2>3
  <2>. HIDE DEF rest, n
  <2>. QED  BY <1>1, <2>5, <2>6, <2>7
<1>6. ASSUME NEW s \in Streams, SendNull(s) \/ ReceiveSamples(s) \/ Overflow(s)
      PROVE  fifo' = fifo /\ samplesQueued' = samplesQueued
  BY <1>6 DEF SendNull, ReceiveSamples, Overflow, fifoVars
<1>7. ASSUME ReceiveEof \/ ReceiveAgain \/ Heartbeat \/ RetryAgain \/ Terminated
      PROVE  fifo' = fifo /\ samplesQueued' = samplesQueued
  BY <1>7 DEF ReceiveEof, ReceiveAgain, Heartbeat, RetryAgain, Terminated, fifoVars, vars
<1>. QED  BY <1>1, <1>3, <1>4, <1>5, <1>6, <1>7 DEF Next

\* The counters of what was sent stay within what there is to send.
LEMMA SentStep ==
    ASSUME ProperSources, SafeInv, Next
    PROVE  /\ samplesSent' \in [Streams -> Nat] /\ framesSent' \in [Streams -> Nat]
           /\ \A s \in Streams : accepted'[s] \in 0 .. Len(Frames[s])
<1>1. /\ samplesSent \in [Streams -> Nat] /\ framesSent \in [Streams -> Nat]
      /\ \A s \in Streams : accepted[s] \in 0 .. Len(Frames[s])
  BY DEF SafeInv, TypeOK
<1>2. ASSUME NEW s \in Streams, Send(s)
      PROVE  /\ samplesSent' \in [Streams -> Nat] /\ framesSent' \in [Streams -> Nat]
             /\ \A x \in Streams : accepted'[x] \in 0 .. Len(Frames[x])
  <2>. DEFINE f == Frames[s][accepted[s] + 1]
              fs == IF FrameSamples[s] > 0 THEN samplesSent'[s] \div FrameSamples[s]
                    ELSE framesSent[s] + 1
  <2>1. f \in ProperFrames /\ accepted[s] + 1 \in 0 .. Len(Frames[s])
    BY <1>2, NextFrame DEF Send
  <2>2. samplesSent' = [samplesSent EXCEPT ![s] = samplesSent[s] + f.samples]
    BY <1>2 DEF Send
  <2>3. samplesSent[s] + f.samples \in Nat
    BY <1>1, <2>1 DEF ProperFrames, Frame
  <2>4. samplesSent' \in [Streams -> Nat]
    <3>. HIDE DEF f
    <3>. QED  BY <1>1, <2>2, <2>3
  <2>5. fs \in Nat
    <3>1. ASSUME NEW x \in Nat, NEW y \in Nat \ {0} PROVE x \div y \in Nat
      OBVIOUS
    <3>2. FrameSamples[s] \in Nat /\ samplesSent'[s] \in Nat /\ framesSent[s] \in Nat
      BY <1>1, <2>4, LimitAssumption
    <3>3. CASE FrameSamples[s] > 0
      BY <3>1, <3>2, <3>3
    <3>4. CASE ~(FrameSamples[s] > 0)
      BY <3>2, <3>4
    <3>. QED  BY <3>3, <3>4
  <2>6. framesSent' = [framesSent EXCEPT ![s] = fs]
    BY <1>2 DEF Send
  <2>7. framesSent' \in [Streams -> Nat]
    <3>. HIDE DEF fs
    <3>. QED  BY <1>1, <2>5, <2>6
  <2>8. accepted' = [accepted EXCEPT ![s] = accepted[s] + 1]
    BY <1>2 DEF Send
  <2>. QED  BY <1>1, <2>1, <2>4, <2>7, <2>8
<1>3. ASSUME NEW s \in Streams,
             SendNull(s) \/ Receive(s) \/ ReceiveSamples(s) \/ Overflow(s)
      PROVE  UNCHANGED sentVars
  BY <1>3 DEF SendNull, Receive, ReceiveSamples, Overflow
<1>4. ASSUME CopySamples \/ ReceiveEof \/ ReceiveAgain \/ Heartbeat \/ RetryAgain \/ Terminated
      PROVE  UNCHANGED sentVars
  BY <1>4 DEF CopySamples, ReceiveEof, ReceiveAgain, Heartbeat, RetryAgain, Terminated, vars
<1>5. UNCHANGED sentVars => /\ samplesSent' \in [Streams -> Nat] /\ framesSent' \in [Streams -> Nat]
                            /\ \A x \in Streams : accepted'[x] \in 0 .. Len(Frames[x])
  BY <1>1 DEF sentVars
<1>. QED  BY <1>2, <1>3, <1>4, <1>5 DEF Next

\* A heartbeat in progress has a stream to work on.
LEMMA ControlStep ==
    ASSUME ProperSources, SafeInv, Next
    PROVE  /\ closed' \subseteq sq'.finished
           /\ pc' \in {"idle", "receive", "copy", "beat", "retry"}
           /\ beat' \in [st : Streams \cup {None}, ts : Int, at : 1 .. NbStreams + 1]
           /\ pc' = "beat" => beat'.at \in Streams /\ beat'.st \in Streams /\ beat'.ts \in Nat
           /\ eof' \in BOOLEAN
<1>. DEFINE PcType == pc' \in {"idle", "receive", "copy", "beat", "retry"}
            BeatType == beat' \in [st : Streams \cup {None}, ts : Int, at : 1 .. NbStreams + 1]
            BeatOn == pc' = "beat" => beat'.at \in Streams /\ beat'.st \in Streams /\ beat'.ts \in Nat
<1>1. closed' \subseteq sq'.finished
  <2>1. sq.finished \subseteq sq'.finished
    BY QueueStep DEF Later
  <2>2. closed' = closed \/ \E s \in Streams : SendNull(s)
    BY DEF Next, Send, Receive, ReceiveSamples, Overflow, CopySamples, ReceiveEof,
           ReceiveAgain, Heartbeat, RetryAgain, Terminated, vars
  <2>3. ASSUME NEW s \in Streams, SendNull(s) PROVE closed' \subseteq sq'.finished
    BY <2>1, <2>3, FinishStreamGood DEF SendNull, SafeInv, TypeOK
  <2>. QED  BY <2>1, <2>2, <2>3 DEF SafeInv, TypeOK
<1>3. ASSUME NEW s \in Streams, Overflow(s) PROVE PcType /\ BeatType /\ BeatOn
  <2>1. TailTs(s) \in Nat
    BY <1>3, TailTsType DEF Overflow, Overflowing
  <2>2. 1 \in Streams /\ 1 \in 1 .. NbStreams + 1 /\ TailTs(s) + 1 \in Nat
    BY <2>1, StreamsAssumption DEF Streams
  <2>. QED  BY <1>3, <2>2 DEF Overflow
<1>4. ASSUME Heartbeat PROVE PcType /\ BeatType /\ BeatOn
  <2>1. beat.at \in Streams /\ beat.st \in Streams /\ beat.ts \in Nat
        /\ beat \in [st : Streams \cup {None}, ts : Int, at : 1 .. NbStreams + 1]
    BY <1>4 DEF Heartbeat, SafeInv, TypeOK
  <2>2. beat' = [beat EXCEPT !.at = beat.at + 1]
    BY <1>4 DEF Heartbeat
  <2>3. beat.at + 1 \in 1 .. NbStreams + 1
    BY <2>1, StreamsAssumption DEF Streams
  <2>4. BeatType /\ beat'.at = beat.at + 1 /\ beat'.st = beat.st /\ beat'.ts = beat.ts
    BY <2>1, <2>2, <2>3
  <2>5. pc' = IF beat'.at > NbStreams THEN "retry" ELSE "beat"
    BY <1>4 DEF Heartbeat
  <2>6. beat'.at > NbStreams \/ beat'.at \in Streams
    BY <2>3, <2>4, StreamsAssumption DEF Streams
  <2>. QED  BY <2>1, <2>4, <2>5, <2>6
<1>5. ASSUME NEW s \in Streams, Send(s) \/ SendNull(s) \/ Receive(s) \/ ReceiveSamples(s)
      PROVE  PcType /\ beat' = beat /\ pc' # "beat"
  BY <1>5 DEF Send, SendNull, Receive, ReceiveSamples, HandOn
<1>6. ASSUME CopySamples \/ ReceiveEof \/ ReceiveAgain \/ RetryAgain \/ Terminated
      PROVE  PcType /\ beat' = beat /\ pc' # "beat"
  BY <1>6 DEF CopySamples, HandOn, ReceiveEof, ReceiveAgain, RetryAgain, Terminated, vars,
              SafeInv, TypeOK
<1>7. beat' = beat => BeatType
  BY DEF SafeInv, TypeOK
<1>8. eof' \in BOOLEAN
  BY DEF SafeInv, TypeOK, Next, Send, SendNull, Receive, ReceiveSamples, Overflow, CopySamples,
         ReceiveEof, ReceiveAgain, Heartbeat, RetryAgain, Terminated, vars
<1>. QED  BY <1>1, <1>3, <1>4, <1>5, <1>6, <1>7, <1>8 DEF Next

-----------------------------------------------------------------------------
(* Theorems                                                                *)

LEMMA SafeInit == Init => SafeInv
<1>. SUFFICES ASSUME Init PROVE SafeInv
  OBVIOUS
<1>. USE DEF Init
<1>1. /\ sq.finished = {} /\ sq.finHead = None /\ sq.headStream = None
      /\ sq.head = [s \in Streams |-> NOPTS] /\ sq.tb = [s \in Streams |-> StartTb]
  OBVIOUS
<1>2. QueueType(sq)
  BY <1>1, TbAssumption DEF QueueType
<1>3. HeadMin(sq) /\ Ends(sq)
  BY <1>1 DEF HeadMin, Ends, EndsBut
<1>4. \A s \in Streams : fifo[s] \in Seq(ProperFrames) /\ fifo[s] \in Seq(Frame)
  BY EmptySeq
<1>5. fifo \in [Streams -> Seq(ProperFrames)] /\ fifo \in [Streams -> Seq(Frame)]
  BY <1>4
<1>6. ASSUME NEW s \in Streams PROVE accepted[s] \in 0 .. Len(Frames[s])
  <2>1. Frames[s] \in Seq([pts : Int, dur : Nat, samples : Nat])
    BY FramesAssumption
  <2>2. Len(Frames[s]) \in Nat
    BY <2>1
  <2>. QED  BY <2>2
<1>7. sq \in [head : [Streams -> Int], tb : [Streams -> Nat \ {0}],
             finished : SUBSET Streams, finHead : Streams \cup {None},
             headStream : Streams \cup {None}]
  BY <1>2 DEF QueueType, NOPTS
<1>8. beat \in [st : Streams \cup {None}, ts : Int, at : 1 .. NbStreams + 1]
  BY StreamsAssumption
<1>9. /\ copy \in [st : Streams \cup {None}, nb : Nat, left : Nat, end : Int]
      /\ out \in [Streams -> [count : Nat, last : Nat, end : Int]]
  BY DEF NOPTS
<1>10. TypeOK
  BY <1>5, <1>6, <1>7, <1>8, <1>9 DEF TypeOK
<1>. QED  BY <1>2, <1>3, <1>5, <1>10 DEF SafeInv, Good, Released

LEMMA SafeNext == ASSUME ProperSources PROVE SafeInv /\ [Next]_vars => SafeInv'
<1>1. SUFFICES ASSUME SafeInv, [Next]_vars PROVE SafeInv'
  OBVIOUS
<1>2. CASE Next
  <2>1. Good(sq')
    BY <1>1, <1>2, QueueStep
  <2>2. sq' \in [head : [Streams -> Int], tb : [Streams -> Nat \ {0}],
                finished : SUBSET Streams, finHead : Streams \cup {None},
                headStream : Streams \cup {None}]
    BY <2>1 DEF Good, QueueType, NOPTS
  <2>3. fifo' \in [Streams -> Seq(Frame)]
    <3>1. ProperFrames \subseteq Frame
      BY DEF ProperFrames
    <3>2. ASSUME NEW x \in Seq(ProperFrames) PROVE x \in Seq(Frame)
      BY <3>1, SeqDef
    <3>3. fifo' \in [Streams -> Seq(ProperFrames)]
      BY <1>1, <1>2, FifoStep
    <3>. QED  BY <3>2, <3>3
  <2>4. TypeOK'
    BY <1>1, <1>2, <2>2, <2>3, FifoStep, SentStep, OutStep, ControlStep DEF TypeOK
  <2>. QED  BY <1>1, <1>2, <2>1, <2>4, FifoStep, OutStep, ControlStep DEF SafeInv
<1>3. CASE UNCHANGED vars
  BY <1>1, <1>3 DEF SafeInv, TypeOK, Good, QueueType, HeadMin, Ends, EndsBut, Known, Time,
     Released, Reach, Rounded, vars, fifoVars, sentVars
<1>. QED  BY <1>1, <1>2, <1>3

LEMMA SafeAlways == ASSUME ProperSources PROVE Spec => []SafeInv
<1>. QED  BY SafeInit, SafeNext, PTL DEF Spec

\* The state is well typed: the counters do not go negative, the indices and
\* the time bases stay in range, and a stream whose source is at its end is
\* finished.
THEOREM SyncTypeCorrect == ASSUME ProperSources PROVE Spec => []TypeOK
<1>1. SafeInv => TypeOK
  BY DEF SafeInv
<1>. QED  BY <1>1, SafeAlways, PTL

\* The head stream is the limiting stream with the smallest head timestamp, for
\* any time bases: queue_head_update is called wherever that can change, but
\* when a new time base rounds a head, by which alone the order may be off.
THEOREM HeadIsSmallest == ASSUME ProperSources PROVE Spec => []HeadIsMin
<1>1. SafeInv => HeadIsMin
  <2>. SUFFICES ASSUME SafeInv, sq.headStream # None
                PROVE  /\ sq.headStream \in Limiting
                       /\ \A l \in Limiting :
                            /\ Known(sq, l)
                            /\ 2 * Time(sq, sq.headStream) <=
                                 2 * Time(sq, l) + Rounded(sq, sq.headStream) + Rounded(sq, l)
    BY DEF HeadIsMin
  <2>. DEFINE h == sq.headStream
  <2>1. QueueType(sq) /\ h \in Limiting /\ h \in Streams
    BY StreamFacts DEF SafeInv, Good, HeadMin
  <2>2. ASSUME NEW l \in Limiting
        PROVE  /\ Known(sq, l)
               /\ 2 * Time(sq, h) <= 2 * Time(sq, l) + Rounded(sq, h) + Rounded(sq, l)
    <3>1. Known(sq, l) /\ 2 * Time(sq, h) <= Reach(sq, l) + Rounded(sq, h)
      BY DEF SafeInv, Good, HeadMin
    <3>2. /\ Time(sq, h) \in Int /\ Time(sq, l) \in Int
          /\ Rounded(sq, h) \in Nat /\ Rounded(sq, l) \in Nat
      BY <2>1, StreamFacts, TimeType, RoundedType
    <3>. HIDE DEF h
    <3>. QED  BY <3>1, <3>2 DEF Reach
  <2>. QED  BY <2>1, <2>2
<1>. QED  BY <1>1, SafeAlways, PTL

\* What sq_receive returns never ended after what any limiting stream has
\* reached, whatever the order of the sends and the heartbeats, but for what
\* the conversion to a new time base rounded off two heads: at most half a tick
\* of each, and nothing where the time bases divide the initial one.
THEOREM NoStreamGetsAhead == ASSUME ProperSources PROVE Spec => []NotAhead
<1>1. SafeInv => NotAhead
  <2>. SUFFICES ASSUME SafeInv, NEW s \in Streams, NEW l \in Limiting, out[s].end # NOPTS
                PROVE  /\ Known(sq, l)
                       /\ \E h \in Limiting :
                            2 * out[s].end <= 2 * Time(sq, l) + Rounding(h) + Rounded(sq, l)
    BY DEF NotAhead
  <2>1. /\ Known(sq, l) /\ l \in Streams /\ QueueType(sq)
        /\ \E h \in Limiting : 2 * out[s].end <= Reach(sq, l) + Rounding(h)
    BY StreamFacts DEF SafeInv, Good, Released
  <2>2. PICK h \in Limiting : 2 * out[s].end <= Reach(sq, l) + Rounding(h)
    BY <2>1
  <2>3. /\ Time(sq, l) \in Int /\ Rounded(sq, l) \in Nat /\ Rounding(h) \in Nat
        /\ out[s].end \in Int
    BY <2>1, <2>2, StreamFacts, TimeType, RoundedType DEF SafeInv, TypeOK
  <2>4. 2 * out[s].end <= 2 * Time(sq, l) + Rounding(h) + Rounded(sq, l)
    BY <2>2, <2>3 DEF Reach
  <2>. QED  BY <2>1, <2>4
<1>. QED  BY <1>1, SafeAlways, PTL

\* finish_stream and stream_update_ts keep the finished head at the shortest
\* limiting stream and finish every stream that has reached it, but for half a
\* tick of a stream whose head a new time base rounded up.
THEOREM AllEndWithShortest == ASSUME ProperSources PROVE Spec => []EndsWithShortest
<1>1. SafeInv => EndsWithShortest
  BY StreamFacts DEF SafeInv, Good, Ends, EndsBut, EndsWithShortest
<1>. QED  BY <1>1, SafeAlways, PTL

\* A finished stream stays finished and its head stays where it is: neither
\* frames nor heartbeats move it.
THEOREM FinishedDoNotMove == ASSUME ProperSources PROVE Spec => FinishedStays
<1>1. SafeInv /\ [Next]_vars =>
        [\A s \in sq.finished : s \in sq'.finished /\ sq'.head[s] = sq.head[s]]_vars
  BY QueueStep DEF Later
<1>. QED  BY <1>1, SafeAlways, PTL DEF Spec, FinishedStays
-----------------------------------------------------------------------------
(* What is released, and when                                              *)

\* The head stream is determined once all limiting streams have a timestamp.
HeadSet(q) ==
    Limiting # {} /\ (\A l \in Limiting : Known(q, l)) => q.headStream # None

\* Every try of sq_receive until EAGAIN or EOF has released what it can, and
\* after EOF no stream is left that could make more of it ready.
ReleaseInv ==
    /\ SafeInv
    /\ HeadSet(sq)
    /\ pc = "idle" => NothingReady
    /\ eof => pc \in {"idle", "receive"} /\ QueueFinished(sq) /\ NothingReady

LEMMA QueueHeadUpdateSets ==
    ASSUME NEW q, QueueType(q), Limiting # {},
           q.headStream # None => \A l \in Limiting : Known(q, l),
           q.headStream # None => q.headStream \in Limiting
    PROVE  HeadSet(QueueHeadUpdate(q))
<1>. DEFINE r == QueueHeadUpdate(q)
            c == CHOOSE l \in Lowest(q) : \A k \in Lowest(q) : l <= k
<1>1. r.head = q.head
  BY QueueHeadUpdateCorrect
<1>2. SUFFICES ASSUME \A l \in Limiting : Known(q, l) PROVE r.headStream # None
  BY <1>1 DEF HeadSet, Known
<1>3. Lowest(q) # {} /\ Lowest(q) \subseteq Streams
  BY <1>2, LowestExists, StreamFacts DEF Lowest
<1>4. c \in Lowest(q)
  BY <1>3, FirstOf
<1>5. CASE q.headStream \in Lowest(q)
  <2>1. r = q
    BY <1>2, <1>5 DEF QueueHeadUpdate
  <2>. QED  BY <1>3, <1>5, <2>1, StreamFacts
<1>6. CASE q.headStream \notin Lowest(q)
  <2>1. r = [q EXCEPT !.headStream = c]
    BY <1>2, <1>6 DEF QueueHeadUpdate
  <2>2. r.headStream = c
    BY <2>1 DEF QueueType
  <2>. QED  BY <1>3, <1>4, <2>2, StreamFacts
<1>. QED  BY <1>5, <1>6

LEMMA FinishStreamKeeps ==
    ASSUME NEW q, QueueType(q), NEW s \in Streams
    PROVE  LET r == FinishStream(q, s)
           IN  /\ QueueType(r)
               /\ r.head = q.head /\ r.tb = q.tb /\ r.headStream = q.headStream
               /\ q.finished \cup {s} \subseteq r.finished
BY FinishStreamCorrect

LEMMA StreamUpdateTsSets ==
    ASSUME NEW q, QueueType(q), HeadMin(q), HeadSet(q),
           NEW s \in Streams, NEW ts \in Nat \cup {NOPTS}
    PROVE  HeadSet(StreamUpdateTs(q, s, ts))
<1>. DEFINE r == StreamUpdateTs(q, s, ts)
            q1 == [q EXCEPT !.head[s] = ts]
            past == q1.finHead # None /\ Time(q1, q1.finHead) <= Time(q1, s)
            q2 == IF past THEN FinishStream(q1, s) ELSE q1
<1>1. CASE ts = NOPTS \/ (Known(q, s) /\ q.head[s] >= ts)
  BY <1>1 DEF StreamUpdateTs
<1>2. CASE ~(ts = NOPTS \/ (Known(q, s) /\ q.head[s] >= ts))
  <2>1. r = IF s \in Limiting /\ q2.headStream \in {None, s}
            THEN QueueHeadUpdate(q2) ELSE q2
    BY <1>2 DEF StreamUpdateTs
  <2>2. ts \in Nat
    BY <1>2
  <2>3. QueueType(q1) /\ q1.headStream = q.headStream
        /\ q1.head = [q.head EXCEPT ![s] = ts]
    BY <2>2 DEF QueueType
  <2>4. QueueType(q2) /\ q2.headStream = q.headStream /\ q2.head = q1.head
    <3>. HIDE DEF q1
    <3>. QED  BY <2>3, FinishStreamKeeps
  <2>5. Known(q2, s) /\ \A x \in Streams \ {s} : Known(q2, x) <=> Known(q, x)
    BY <2>2, <2>3, <2>4 DEF Known, QueueType, NOPTS
  <2>6. CASE s \in Limiting /\ q2.headStream \in {None, s}
    <3>1. q2.headStream # None =>
            q2.headStream \in Limiting /\ \A l \in Limiting : Known(q2, l)
      BY <2>4, <2>5, StreamFacts DEF HeadMin
    <3>2. r = QueueHeadUpdate(q2) /\ Limiting # {}
      BY <2>1, <2>6
    <3>. QED
      <4>. HIDE DEF q2
      <4>. QED  BY <2>4, <3>1, <3>2, QueueHeadUpdateSets
  <2>7. CASE ~(s \in Limiting /\ q2.headStream \in {None, s})
    <3>1. r = q2
      BY <2>1, <2>7
    <3>2. CASE s \in Limiting
      BY <2>7, <3>1, <3>2 DEF HeadSet
    <3>3. CASE s \notin Limiting
      <4>1. \A l \in Limiting : Known(q2, l) <=> Known(q, l)
        BY <2>5, <3>3, StreamFacts
      <4>. QED  BY <2>4, <3>1, <4>1 DEF HeadSet
    <3>. QED  BY <3>2, <3>3
  <2>. QED  BY <2>6, <2>7
<1>. QED  BY <1>1, <1>2

LEMMA TbUpdateSets ==
    ASSUME NEW q, QueueType(q), HeadSet(q), NEW s \in Streams
    PROVE  HeadSet(TbUpdate(q, s))
<1>. DEFINE r == TbUpdate(q, s)
<1>1. CASE q.tb[s] = Tb[s]
  BY <1>1 DEF TbUpdate
<1>2. CASE q.tb[s] # Tb[s]
  <2>. DEFINE h == IF Known(q, s) THEN Rescale(Time(q, s), Tb[s]) ELSE q.head[s]
  <2>1. r.headStream = q.headStream /\ r.head = [q.head EXCEPT ![s] = h]
    BY <1>2 DEF TbUpdate, QueueType
  <2>2. \A x \in Streams : Known(r, x) => Known(q, x)
    BY <2>1 DEF Known, QueueType
  <2>. QED  BY <2>1, <2>2, StreamFacts DEF HeadSet
<1>. QED  BY <1>1, <1>2

LEMMA FinishStreamSets ==
    ASSUME NEW q, QueueType(q), HeadSet(q), NEW s \in Streams
    PROVE  HeadSet(FinishStream(q, s))
BY FinishStreamKeeps DEF HeadSet, Known

\* The fake timestamp of a heartbeat is a timestamp.
LEMMA FakeTsType ==
    ASSUME SafeInv, Heartbeat
    PROVE  beat.at \in Streams /\ FakeTs(beat.at) \in Nat
<1>. DEFINE s == beat.at
<1>1. s \in Streams /\ beat.st \in Streams /\ beat.ts \in Nat
  BY DEF Heartbeat, SafeInv
<1>2. sq.tb[s] \in Nat \ {0} /\ sq.tb[beat.st] \in Nat \ {0}
  BY <1>1 DEF SafeInv, Good, QueueType
<1>3. Rescale(BeatTime, sq.tb[s]) \in Nat
  BY <1>1, <1>2, ScaleMonotone, RescaleType DEF BeatTime
<1>4. Known(sq, s) => sq.head[s] + 1 \in Nat
  BY <1>1 DEF SafeInv, Good, QueueType, Known
<1>. QED  BY <1>1, <1>3, <1>4 DEF FakeTs

\* The head stream is determined as soon as it can be, in every step.
LEMMA HeadSetStep ==
    ASSUME ProperSources, SafeInv, HeadSet(sq), Next
    PROVE  HeadSet(sq')
<1>0. QueueType(sq) /\ HeadMin(sq)
  BY DEF SafeInv, Good
<1>1. ASSUME NEW s \in Streams, Send(s) PROVE HeadSet(sq')
  <2>. DEFINE f == Frames[s][accepted[s] + 1]
              q1 == TbUpdate(sq, s)
              q2 == StreamUpdateTs(q1, s, FrameEnd(s, f, 0))
  <2>1. f \in ProperFrames /\ s \in Streams \ sq.finished
    BY <1>1, NextFrame DEF Send
  <2>2. FrameEnd(s, f, 0) \in Nat \cup {NOPTS}
    BY <2>1, FrameEndType
  <2>3. Good(q1) /\ HeadSet(q1) /\ q1.finished = sq.finished
    BY <2>1, <1>0, TbUpdateCorrect, TbUpdateSets DEF Good, SafeInv
  <2>4. QueueType(q2) /\ HeadSet(q2)
    <3>. HIDE DEF q1, f
    <3>. QED  BY <2>1, <2>2, <2>3, StreamUpdateTsCorrect, StreamUpdateTsSets DEF Good
  <2>5. sq' = q2 \/ sq' = FinishStream(q2, s)
    BY <1>1 DEF Send
  <2>. QED
    <3>. HIDE DEF q2
    <3>. QED  BY <2>4, <2>5, FinishStreamSets
<1>2. ASSUME NEW s \in Streams, SendNull(s) PROVE HeadSet(sq')
  BY <1>0, <1>2, FinishStreamSets DEF SendNull
<1>3. ASSUME NEW s \in Streams, Receive(s) PROVE HeadSet(sq')
  BY <1>0, <1>3, FinishStreamSets DEF Receive, HandOn
<1>4. ASSUME CopySamples PROVE HeadSet(sq')
  <2>1. copy.st \in Streams
    BY <1>4 DEF CopySamples, SafeInv
  <2>2. sq' = sq \/ sq' = FinishStream(sq, copy.st)
    BY <1>4 DEF CopySamples, HandOn
  <2>. QED  BY <1>0, <2>1, <2>2, FinishStreamSets
<1>5. ASSUME Heartbeat PROVE HeadSet(sq')
  <2>1. sq' = sq \/ sq' = StreamUpdateTs(sq, beat.at, FakeTs(beat.at))
    BY <1>5 DEF Heartbeat
  <2>. QED  BY <1>0, <1>5, <2>1, FakeTsType, StreamUpdateTsSets
<1>6. ASSUME NEW s \in Streams, ReceiveSamples(s) \/ Overflow(s) PROVE sq' = sq
  BY <1>6 DEF ReceiveSamples, Overflow
<1>7. ASSUME ReceiveEof \/ ReceiveAgain \/ RetryAgain \/ Terminated PROVE sq' = sq
  BY <1>7 DEF ReceiveEof, ReceiveAgain, RetryAgain, Terminated, vars
<1>. QED  BY <1>1, <1>2, <1>3, <1>4, <1>5, <1>6, <1>7 DEF Next

\* Whether a frame is ready is a matter of the queue and of the FIFOs.
LEMMA ReadyDepends ==
    ASSUME UNCHANGED <<sq, fifoVars>>, NothingReady
    PROVE  NothingReady'
BY DEF fifoVars, NothingReady, Ready, Available, NextEnd, NbSamples, Time

\* When all streams are finished, the end of a source makes nothing ready.
LEMMA SendNullAfterEnd ==
    ASSUME SafeInv, QueueFinished(sq), NothingReady, NEW s \in Streams, SendNull(s)
    PROVE  QueueFinished(sq') /\ NothingReady'
<1>1. QueueType(sq) /\ sq' = FinishStream(sq, s) /\ UNCHANGED fifoVars
  BY DEF SafeInv, Good, SendNull
<1>2. /\ QueueType(sq')
      /\ sq'.head = sq.head /\ sq'.tb = sq.tb /\ sq'.headStream = sq.headStream
      /\ sq.finished \subseteq sq'.finished
  BY <1>1, FinishStreamKeeps
<1>3. sq'.finished = Streams /\ sq.finished = Streams
  BY <1>2 DEF QueueFinished, QueueType
<1>4. ASSUME NEW r \in Streams PROVE Ready(r)' <=> Ready(r)
  BY <1>1, <1>2, <1>3 DEF fifoVars, Ready, Available, NextEnd, NbSamples, Time
<1>. QED  BY <1>3, <1>4 DEF QueueFinished, NothingReady

\* The thread goes idle only when nothing is ready.
LEMMA IdleStep ==
    ASSUME ReleaseInv, Next, pc' = "idle"
    PROVE  NothingReady'
<1>1. ASSUME NEW s \in Streams,
             Send(s) \/ SendNull(s) \/ Receive(s) \/ ReceiveSamples(s) \/ Overflow(s)
      PROVE  FALSE
  BY <1>1 DEF Send, SendNull, Receive, ReceiveSamples, Overflow, HandOn
<1>2. ASSUME CopySamples PROVE FALSE
  BY <1>2 DEF CopySamples, HandOn
<1>3. ASSUME Heartbeat PROVE FALSE
  BY <1>3 DEF Heartbeat
<1>4. ASSUME ReceiveEof \/ ReceiveAgain \/ RetryAgain
      PROVE  NothingReady /\ UNCHANGED <<sq, fifoVars>>
  BY <1>4 DEF ReceiveEof, ReceiveAgain, RetryAgain
<1>5. ASSUME Terminated PROVE NothingReady /\ UNCHANGED <<sq, fifoVars>>
  BY <1>5 DEF Terminated, ReleaseInv, vars
<1>6. NothingReady /\ UNCHANGED <<sq, fifoVars>>
  BY <1>1, <1>2, <1>3, <1>4, <1>5 DEF Next
<1>. QED  BY <1>6, ReadyDepends

\* sq_receive answers EOF when all streams are finished, and what was ready
\* before or becomes ready then does not come out.
LEMMA EofStep ==
    ASSUME ReleaseInv, Next, eof'
    PROVE  /\ pc' \in {"idle", "receive"} /\ QueueFinished(sq') /\ NothingReady'
           /\ eof => out' = out
<1>. DEFINE Final == pc' \in {"idle", "receive"} /\ QueueFinished(sq') /\ NothingReady'
<1>1. CASE ReceiveEof
  <2>1. pc' = "idle" /\ out' = out /\ UNCHANGED <<sq, fifoVars>> /\ NothingReady /\ AllEof
    BY <1>1 DEF ReceiveEof
  <2>2. QueueFinished(sq)
    BY <2>1 DEF AllEof, QueueFinished, ReleaseInv, SafeInv, TypeOK
  <2>. QED  BY <2>1, <2>2, ReadyDepends DEF QueueFinished
<1>2. CASE ~ReceiveEof
  <2>1. eof
    BY <1>2 DEF Next, Send, SendNull, Receive, ReceiveSamples, Overflow, CopySamples,
           ReceiveAgain, Heartbeat, RetryAgain, Terminated, vars
  <2>2. pc \in {"idle", "receive"} /\ QueueFinished(sq) /\ NothingReady
    BY <2>1 DEF ReleaseInv
  <2>3. ASSUME NEW s \in Streams, Send(s) PROVE FALSE
    BY <2>2, <2>3 DEF Send, QueueFinished
  <2>4. ASSUME NEW s \in Streams, SendNull(s) PROVE Final /\ out' = out
    BY <2>2, <2>4, SendNullAfterEnd DEF ReleaseInv, SendNull
  <2>5. ASSUME NEW s \in Streams, Receive(s) \/ ReceiveSamples(s) PROVE FALSE
    BY <2>2, <2>5 DEF Receive, ReceiveSamples, FirstReady, NothingReady
  <2>6. ASSUME NEW s \in Streams, Overflow(s) PROVE FALSE
    BY <2>2, <2>6 DEF Overflow, AllEof
  <2>7. ASSUME CopySamples \/ Heartbeat \/ ReceiveAgain \/ RetryAgain PROVE FALSE
    BY <2>2, <2>7 DEF CopySamples, Heartbeat, ReceiveAgain, RetryAgain, AllEof
  <2>8. ASSUME Terminated PROVE Final /\ out' = out
    BY <2>2, <2>8, ReadyDepends DEF Terminated, vars, QueueFinished
  <2>. QED  BY <1>2, <2>3, <2>4, <2>5, <2>6, <2>7, <2>8 DEF Next
<1>. QED  BY <1>1, <1>2

LEMMA ReleaseAlways == ASSUME ProperSources PROVE Spec => []ReleaseInv
<1>1. Init => ReleaseInv
  <2>. SUFFICES ASSUME Init PROVE ReleaseInv
    OBVIOUS
  <2>1. HeadSet(sq)
    BY StreamFacts DEF Init, HeadSet, Known
  <2>2. NothingReady
    BY DEF Init, NothingReady, Ready, Available
  <2>. QED  BY <2>1, <2>2, SafeInit DEF Init, ReleaseInv
<1>2. ReleaseInv /\ [Next]_vars => ReleaseInv'
  <2>. SUFFICES ASSUME ReleaseInv, [Next]_vars PROVE ReleaseInv'
    OBVIOUS
  <2>1. SafeInv'
    BY SafeNext DEF ReleaseInv
  <2>2. CASE Next
    BY <2>1, <2>2, HeadSetStep, IdleStep, EofStep DEF ReleaseInv
  <2>3. CASE UNCHANGED vars
    BY <2>1, <2>3, ReadyDepends DEF ReleaseInv, HeadSet, Known, QueueFinished, vars
  <2>. QED  BY <2>2, <2>3
<1>. QED  BY <1>1, <1>2, PTL DEF Spec

\* Between calls no stream's frame is held back that ends before the heads of
\* all limiting streams: the head stream is known as soon as it can be, and the
\* callers' loops go on until nothing is ready.
THEOREM AllReleased == ASSUME ProperSources PROVE Spec => []NothingHeldBack
<1>1. ReleaseInv => NothingHeldBack
  <2>. SUFFICES ASSUME ReleaseInv, pc = "idle", \A l \in Limiting : Known(sq, l),
                       NEW s \in Streams, Available(s)
                PROVE  \E l \in Limiting : NextEnd(s) * sq.tb[s] > Time(sq, l)
    BY DEF NothingHeldBack
  <2>1. ~Ready(s)
    BY DEF ReleaseInv, NothingReady
  <2>2. Limiting # {}
    BY <2>1 DEF Ready
  <2>3. sq.headStream # None
    BY <2>2 DEF ReleaseInv, HeadSet
  <2>4. sq.headStream \in Limiting
    BY <2>3 DEF ReleaseInv, SafeInv, Good, HeadMin
  <2>5. ~(NextEnd(s) * sq.tb[s] <= Time(sq, sq.headStream))
    BY <2>1, <2>3 DEF Ready
  <2>6. Time(sq, sq.headStream) \in Int
    BY <2>4, StreamFacts, TimeType DEF ReleaseInv, SafeInv, Good
  <2>7. NextEnd(s) * sq.tb[s] \in Int
    <3>1. Head(fifo[s]) \in ProperFrames /\ sq.tb[s] \in Nat \ {0}
      BY DEF ReleaseInv, SafeInv, Available, Good, QueueType
    <3>2. NbSamples(s) \in Int
      BY LimitAssumption DEF NbSamples, ReleaseInv, SafeInv, TypeOK
    <3>3. NextEnd(s) \in Int
      BY <3>1, <3>2, FrameEndType DEF NextEnd
    <3>. QED  BY <3>1, <3>3, ScaleMonotone
  <2>. QED  BY <2>4, <2>5, <2>6, <2>7
<1>. QED  BY <1>1, ReleaseAlways, PTL

\* After sq_receive has answered EOF no frame comes out any more, whichever
\* sources end later.
THEOREM NothingAfterEof == ASSUME ProperSources PROVE Spec => EofIsFinal
<1>1. ReleaseInv /\ [Next]_vars => [eof => out' = out]_vars
  <2>. SUFFICES ASSUME ReleaseInv, Next, eof PROVE out' = out
    OBVIOUS
  <2>1. eof'
    BY DEF Next, Send, SendNull, Receive, ReceiveSamples, Overflow, CopySamples, ReceiveEof,
           ReceiveAgain, Heartbeat, RetryAgain, Terminated, vars
  <2>. QED  BY <2>1, EofStep
<1>. QED  BY <1>1, ReleaseAlways, PTL DEF Spec, EofIsFinal
-----------------------------------------------------------------------------
(* Samples                                                                 *)

\* f holds q samples: some h counts those from each frame of f on.
Holds(f, q) ==
    \E h \in [0 .. Len(f) -> Nat] :
        /\ h[0] = q /\ h[Len(f)] = 0
        /\ \A i \in 1 .. Len(f) : h[i - 1] = h[i] + f[i].samples

\* samples_queued counts what the FIFO holds, of which a copy in progress takes
\* no more than there is.
SamplesInv ==
    /\ SafeInv
    /\ \A s \in Streams : Holds(fifo[s], samplesQueued[s])
    /\ pc = "copy" => copy.left > 0 /\ copy.left <= samplesQueued[copy.st]

\* Audio frames have samples.
AudioFrames ==
    \A s \in Streams : FrameSamples[s] > 0 =>
        \A i \in 1 .. Len(Frames[s]) : Frames[s][i].samples > 0

\* ConstantSize is inductive with the following: only a stream that is finished
\* and has no more samples than those being copied gets a short frame.
SizeInv ==
    /\ SamplesInv
    /\ \A s \in Streams : FrameSamples[s] > 0 =>
         \A i \in 1 .. Len(fifo[s]) : fifo[s][i].samples > 0
    /\ pc = "copy" =>
         /\ copy.nb \in 1 .. FrameSamples[copy.st]
         /\ copy.nb # FrameSamples[copy.st] =>
              copy.st \in sq.finished /\ copy.left = samplesQueued[copy.st]
    /\ \A s \in Streams :
         FrameSamples[s] > 0 /\ out[s].count > 0 /\ out[s].last # FrameSamples[s] =>
             s \in sq.finished /\ samplesQueued[s] = 0

LEMMA HoldsNone == \A q : Holds(<<>>, q) <=> q = 0
<1>1. ASSUME NEW q, Holds(<<>>, q) PROVE q = 0
  BY <1>1 DEF Holds
<1>2. Holds(<<>>, 0)
  <2>. DEFINE h == [i \in 0 .. 0 |-> 0]
  <2>1. h \in [0 .. 0 -> Nat] /\ h[0] = 0 /\ Len(<<>>) = 0
    OBVIOUS
  <2>2. 1 .. 0 = {}
    OBVIOUS
  <2>. HIDE DEF h
  <2>. QED  BY <2>1, <2>2 DEF Holds
<1>. QED  BY <1>1, <1>2

LEMMA HoldsType ==
    ASSUME NEW f \in Seq(ProperFrames), NEW q, Holds(f, q)
    PROVE  /\ q \in Nat
           /\ q > 0 => f # <<>>
           /\ f # <<>> => Head(f) \in ProperFrames /\ Head(f).samples \in 0 .. q
<1>1. PICK h \in [0 .. Len(f) -> Nat] :
        /\ h[0] = q /\ h[Len(f)] = 0
        /\ \A i \in 1 .. Len(f) : h[i - 1] = h[i] + f[i].samples
  BY DEF Holds
<1>2. q \in Nat
  BY <1>1
<1>3. f = <<>> => q = 0
  BY HoldsNone
<1>4. ASSUME f # <<>> PROVE Head(f) \in ProperFrames /\ Head(f).samples \in 0 .. q
  <2>1. 1 \in 1 .. Len(f) /\ Head(f) = f[1] /\ f[1] \in ProperFrames
    BY <1>4
  <2>2. h[0] = h[1] + f[1].samples /\ h[1] \in Nat
    BY <1>1, <2>1
  <2>3. f[1].samples \in Nat
    BY <2>1 DEF ProperFrames, Frame
  <2>. QED  BY <1>1, <2>1, <2>2, <2>3
<1>. QED  BY <1>2, <1>3, <1>4

LEMMA HoldsAppend ==
    ASSUME NEW f \in Seq(ProperFrames), NEW q, Holds(f, q), NEW e \in ProperFrames
    PROVE  Holds(Append(f, e), q + e.samples)
<1>1. PICK h \in [0 .. Len(f) -> Nat] :
        /\ h[0] = q /\ h[Len(f)] = 0
        /\ \A i \in 1 .. Len(f) : h[i - 1] = h[i] + f[i].samples
  BY DEF Holds
<1>. DEFINE g == Append(f, e)
            k == [i \in 0 .. Len(g) |-> IF i <= Len(f) THEN h[i] + e.samples ELSE 0]
<1>2. /\ Len(f) \in Nat /\ Len(g) = Len(f) + 1
      /\ \A i \in 1 .. Len(f) : g[i] = f[i]
      /\ g[Len(f) + 1] = e
  BY AppendProperties
<1>3. e.samples \in Nat
  BY DEF ProperFrames, Frame
<1>. HIDE DEF g
<1>4. k \in [0 .. Len(g) -> Nat]
  BY <1>2, <1>3
<1>5. k[0] = q + e.samples /\ k[Len(g)] = 0
  BY <1>1, <1>2
<1>6. ASSUME NEW i \in 1 .. Len(g) PROVE k[i - 1] = k[i] + g[i].samples
  <2>1. CASE i <= Len(f)
    <3>1. i \in 1 .. Len(f) /\ i - 1 \in 0 .. Len(f)
      BY <1>2, <2>1
    <3>2. f[i].samples \in Nat
      BY <3>1 DEF ProperFrames, Frame
    <3>3. h[i - 1] = h[i] + f[i].samples /\ h[i] \in Nat /\ g[i] = f[i]
      BY <1>1, <1>2, <3>1
    <3>4. k[i - 1] = h[i - 1] + e.samples /\ k[i] = h[i] + e.samples
      BY <1>2, <3>1
    <3>. QED  BY <1>3, <3>2, <3>3, <3>4
  <2>2. CASE i = Len(f) + 1
    <3>1. k[i - 1] = 0 + e.samples /\ k[i] = 0 /\ g[i] = e
      BY <1>1, <1>2, <2>2
    <3>. QED  BY <1>3, <3>1
  <2>. QED  BY <1>2, <2>1, <2>2
<1>. QED  BY <1>4, <1>5, <1>6 DEF Holds, g

LEMMA HoldsTail ==
    ASSUME NEW f \in Seq(ProperFrames), NEW q, Holds(f, q), f # <<>>
    PROVE  Holds(Tail(f), q - Head(f).samples)
<1>1. PICK h \in [0 .. Len(f) -> Nat] :
        /\ h[0] = q /\ h[Len(f)] = 0
        /\ \A i \in 1 .. Len(f) : h[i - 1] = h[i] + f[i].samples
  BY DEF Holds
<1>. DEFINE g == Tail(f)
            k == [i \in 0 .. Len(g) |-> h[i + 1]]
<1>2. Len(f) \in Nat /\ Len(g) = Len(f) - 1 /\ \A i \in 1 .. Len(g) : g[i] = f[i + 1]
  BY HeadTailProperties
<1>3. Head(f) = f[1] /\ Len(f) >= 1 /\ f[1] \in ProperFrames
  OBVIOUS
<1>. HIDE DEF g
<1>4. k \in [0 .. Len(g) -> Nat]
  BY <1>2, <1>3
<1>5. k[0] = q - Head(f).samples
  <2>0. 1 \in 0 .. Len(f) /\ f[1].samples \in Nat
    BY <1>2, <1>3 DEF ProperFrames, Frame
  <2>1. 1 \in 1 .. Len(f) /\ h[1] \in Nat /\ f[1].samples \in Nat
    BY <1>2, <1>3, <2>0
  <2>2. q = h[1] + f[1].samples
    BY <1>1, <2>1
  <2>. QED  BY <1>2, <1>3, <2>1, <2>2
<1>6. k[Len(g)] = 0
  BY <1>1, <1>2, <1>3
<1>7. ASSUME NEW i \in 1 .. Len(g) PROVE k[i - 1] = k[i] + g[i].samples
  <2>1. i + 1 \in 1 .. Len(f) /\ (i + 1) - 1 = i /\ g[i] = f[i + 1]
    BY <1>2
  <2>2. h[i] = h[i + 1] + f[i + 1].samples
    BY <1>1, <2>1
  <2>. QED  BY <1>2, <2>1, <2>2
<1>. QED  BY <1>4, <1>5, <1>6, <1>7 DEF Holds, g

\* Samples are taken from the first frame, which stays.
LEMMA HoldsOffset ==
    ASSUME NEW f \in Seq(ProperFrames), NEW q, Holds(f, q), f # <<>>,
           NEW e \in ProperFrames, NEW n \in Nat, Head(f).samples = e.samples + n
    PROVE  Holds(<<e>> \o Tail(f), q - n)
<1>1. PICK h \in [0 .. Len(f) -> Nat] :
        /\ h[0] = q /\ h[Len(f)] = 0
        /\ \A i \in 1 .. Len(f) : h[i - 1] = h[i] + f[i].samples
  BY DEF Holds
<1>. DEFINE g == <<e>> \o Tail(f)
            k == [h EXCEPT ![0] = q - n]
<1>2. Len(f) \in Nat \ {0} /\ Head(f) = f[1]
  OBVIOUS
<1>3. Len(g) = Len(f) /\ g[1] = e /\ \A i \in 2 .. Len(f) : g[i] = f[i]
  <2>1. Tail(f) \in Seq(ProperFrames) /\ <<e>> \in Seq(ProperFrames)
    OBVIOUS
  <2>2. Len(Tail(f)) = Len(f) - 1 /\ Len(<<e>>) = 1
        /\ \A i \in 1 .. Len(f) - 1 : Tail(f)[i] = f[i + 1]
    BY HeadTailProperties
  <2>3. Len(g) = 1 + (Len(f) - 1)
        /\ \A i \in 1 .. 1 + (Len(f) - 1) : g[i] = IF i <= 1 THEN <<e>>[i] ELSE Tail(f)[i - 1]
    BY <2>1, <2>2, ConcatProperties
  <2>. HIDE DEF g
  <2>4. Len(g) = Len(f) /\ g[1] = e
    BY <1>2, <2>3
  <2>5. ASSUME NEW i \in 2 .. Len(f) PROVE g[i] = f[i]
    <3>1. i \in 1 .. 1 + (Len(f) - 1) /\ ~(i <= 1) /\ i - 1 \in 1 .. Len(f) - 1 /\ (i - 1) + 1 = i
      BY <1>2
    <3>. QED  BY <2>2, <2>3, <3>1
  <2>. QED  BY <2>4, <2>5
<1>4. e.samples \in Nat /\ h[1] \in Nat
  BY <1>2 DEF ProperFrames, Frame
<1>5. q = h[1] + (e.samples + n)
  BY <1>1, <1>2
<1>. HIDE DEF g
<1>6. q - n = h[1] + e.samples /\ q - n \in Nat
  BY <1>4, <1>5
<1>7. /\ k \in [0 .. Len(f) -> Nat]
      /\ k[0] = q - n /\ \A i \in 1 .. Len(f) : k[i] = h[i]
  BY <1>2, <1>6
<1>8. ASSUME NEW i \in 1 .. Len(f) PROVE k[i - 1] = k[i] + g[i].samples
  <2>1. CASE i = 1
    BY <1>3, <1>6, <1>7, <2>1
  <2>2. CASE i # 1
    <3>1. i \in 2 .. Len(f) /\ i - 1 \in 1 .. Len(f)
      BY <1>2, <2>2
    <3>. QED  BY <1>1, <1>3, <1>7, <3>1
  <2>. QED  BY <2>1, <2>2
<1>9. k[Len(g)] = 0
  BY <1>1, <1>2, <1>3, <1>7
<1>10. Holds(g, q - n)
  <2>. HIDE DEF k
  <2>1. k \in [0 .. Len(g) -> Nat] /\ k[0] = q - n
    BY <1>3, <1>7
  <2>2. \A i \in 1 .. Len(g) : k[i - 1] = k[i] + g[i].samples
    BY <1>3, <1>8
  <2>. QED  BY <2>1, <2>2, <1>9 DEF Holds
<1>. QED  BY <1>10 DEF g

\* A turn of the loop of receive_samples takes the samples from the first frame.
LEMMA CopyStep ==
    ASSUME SamplesInv, CopySamples
    PROVE  \E n \in Nat :
             /\ copy.st \in Streams
             /\ n <= copy.left
             /\ fifo' = [fifo EXCEPT ![copy.st] = fifo'[copy.st]]
             /\ samplesQueued' = [samplesQueued EXCEPT ![copy.st] = @ - n]
             /\ Holds(fifo'[copy.st], samplesQueued'[copy.st])
             /\ copy'.left = copy.left - n /\ copy'.st = copy.st /\ copy'.nb = copy.nb
             /\ copy'.left = 0 => HandOn(copy.st, copy.nb, copy.end)
             /\ copy'.left # 0 => UNCHANGED <<sq, out, pc>>
             /\ (\A i \in 1 .. Len(fifo[copy.st]) : fifo[copy.st][i].samples > 0) =>
                  \A i \in 1 .. Len(fifo'[copy.st]) : fifo'[copy.st][i].samples > 0
<1>. DEFINE s == copy.st
            f == Head(fifo[s])
            n == IF copy.left < f.samples THEN copy.left ELSE f.samples
            e == OffsetAudio(s, f, n)
            rest == IF n < f.samples THEN <<e>> \o Tail(fifo[s]) ELSE Tail(fifo[s])
<1>1. /\ s \in Streams /\ fifo[s] # <<>> /\ copy.left \in Nat
      /\ fifo \in [Streams -> Seq(ProperFrames)] /\ samplesQueued \in [Streams -> Int]
      /\ Holds(fifo[s], samplesQueued[s])
  BY DEF CopySamples, SamplesInv, SafeInv, TypeOK
<1>2. f \in ProperFrames /\ f.samples \in Nat
  BY <1>1, HoldsType
<1>3. n \in Nat /\ n <= copy.left /\ n <= f.samples
  BY <1>1, <1>2
<1>4. /\ fifo' = [fifo EXCEPT ![s] = rest]
      /\ samplesQueued' = [samplesQueued EXCEPT ![s] = samplesQueued[s] - n]
      /\ copy' = [copy EXCEPT !.left = copy.left - n]
      /\ IF copy'.left = 0 THEN HandOn(s, copy.nb, copy.end) ELSE UNCHANGED <<sq, out, pc>>
  BY DEF CopySamples
<1>5. fifo'[s] = rest /\ samplesQueued'[s] = samplesQueued[s] - n
  BY <1>1, <1>4
<1>6. copy'.left = copy.left - n /\ copy'.st = s /\ copy'.nb = copy.nb
  <2>1. copy \in [st : Streams \cup {None}, nb : Nat, left : Nat, end : Int]
    BY DEF SamplesInv, SafeInv, TypeOK
  <2>. HIDE DEF n
  <2>. QED  BY <1>4, <2>1
<1>7. ASSUME n < f.samples
      PROVE  e \in ProperFrames /\ e.samples > 0 /\ f.samples = e.samples + n
  BY <1>1, <1>2, <1>3, <1>7, OffsetProper
<1>8. Holds(rest, samplesQueued[s] - n)
  <2>. HIDE DEF e, f
  <2>1. CASE n < f.samples
    <3>1. Holds(<<e>> \o Tail(fifo[s]), samplesQueued[s] - n)
      <4>. HIDE DEF n
      <4>. QED  BY <1>1, <1>3, <1>7, <2>1, HoldsOffset DEF f
    <3>. QED  BY <2>1, <3>1
  <2>2. CASE ~(n < f.samples)
    <3>1. n = f.samples
      BY <1>2, <2>2
    <3>. HIDE DEF n
    <3>. QED  BY <1>1, <2>2, <3>1, HoldsTail DEF f
  <2>. QED  BY <2>1, <2>2
<1>9. ASSUME \A i \in 1 .. Len(fifo[s]) : fifo[s][i].samples > 0
      PROVE  \A i \in 1 .. Len(rest) : rest[i].samples > 0
  <2>1. /\ Tail(fifo[s]) \in Seq(ProperFrames) /\ Len(Tail(fifo[s])) = Len(fifo[s]) - 1
        /\ \A i \in 1 .. Len(Tail(fifo[s])) : Tail(fifo[s])[i] = fifo[s][i + 1]
    BY <1>1, HeadTailProperties
  <2>2. \A i \in 1 .. Len(Tail(fifo[s])) : Tail(fifo[s])[i].samples > 0
    <3>1. Len(fifo[s]) \in Nat
      BY <1>1
    <3>. QED  BY <1>9, <2>1, <3>1
  <2>. HIDE DEF e, f, n
  <2>3. CASE n < f.samples
    <3>1. <<e>> \in Seq(ProperFrames) /\ Len(<<e>>) = 1 /\ e.samples > 0
      BY <1>7, <2>3
    <3>. DEFINE t == Tail(fifo[s])
    <3>. HIDE DEF t
    <3>2. Len(<<e>> \o t) = 1 + Len(t)
          /\ \A i \in 1 .. 1 + Len(t) : (<<e>> \o t)[i] = IF i <= 1 THEN <<e>>[i] ELSE t[i - 1]
      BY <2>1, <3>1, ConcatProperties DEF t
    <3>3. ASSUME NEW i \in 1 .. 1 + Len(t) PROVE (<<e>> \o t)[i].samples > 0
      <4>0. Len(t) \in Nat
        BY <2>1 DEF t
      <4>1. CASE i = 1
        <5>1. (<<e>> \o t)[i] = e
          BY <3>2, <4>1
        <5>. QED  BY <3>1, <5>1
      <4>2. CASE i # 1
        <5>1. (<<e>> \o t)[i] = t[i - 1] /\ i - 1 \in 1 .. Len(t)
          BY <3>2, <4>0, <4>2
        <5>. QED  BY <2>2, <5>1 DEF t
      <4>. QED  BY <4>1, <4>2
    <3>. QED  BY <2>3, <3>2, <3>3 DEF t
  <2>4. CASE ~(n < f.samples)
    BY <2>2, <2>4
  <2>. QED  BY <2>3, <2>4
<1>. HIDE DEF n, rest
<1>10. fifo' = [fifo EXCEPT ![s] = fifo'[s]]
  BY <1>1, <1>4, <1>5
<1>. QED
  <2>1. samplesQueued' = [samplesQueued EXCEPT ![copy.st] = @ - n]
    BY <1>4
  <2>2. copy'.left = 0 => HandOn(copy.st, copy.nb, copy.end)
    BY <1>4
  <2>3. copy'.left # 0 => UNCHANGED <<sq, out, pc>>
    BY <1>4
  <2>. QED  BY <1>1, <1>3, <1>5, <1>6, <1>8, <1>9, <1>10, <2>1, <2>2, <2>3

\* A copy begins with no more samples than are queued, and with fewer than a
\* frame's only when a finished stream has no more.
LEMMA NbSamplesFits ==
    ASSUME SamplesInv, NEW s \in Streams, Ready(s)
    PROVE  /\ NbSamples(s) \in 0 .. FrameSamples[s] /\ NbSamples(s) <= samplesQueued[s]
           /\ NbSamples(s) # FrameSamples[s] =>
                s \in sq.finished /\ NbSamples(s) = samplesQueued[s]
<1>1. samplesQueued[s] \in Nat /\ FrameSamples[s] \in Nat
  BY HoldsType, LimitAssumption DEF SamplesInv, SafeInv
<1>. QED  BY <1>1 DEF Ready, Available, NbSamples

\* The steps that leave the FIFOs and the copy alone.
LEMMA OtherSteps ==
    ASSUME Next,
           ~(\E s \in Streams : Send(s) \/ Receive(s) \/ ReceiveSamples(s)),
           ~CopySamples
    PROVE  UNCHANGED <<fifoVars, copy, out>> /\ pc' # "copy"
<1>1. ASSUME NEW s \in Streams, SendNull(s) \/ Overflow(s)
      PROVE  UNCHANGED <<fifoVars, copy, out>> /\ pc' # "copy"
  BY <1>1 DEF SendNull, Overflow
<1>2. ASSUME ReceiveEof \/ ReceiveAgain \/ Heartbeat \/ RetryAgain \/ Terminated
      PROVE  UNCHANGED <<fifoVars, copy, out>> /\ pc' # "copy"
  BY <1>2 DEF ReceiveEof, ReceiveAgain, Heartbeat, RetryAgain, Terminated, vars
<1>. QED  BY <1>1, <1>2 DEF Next

LEMMA SamplesStep ==
    ASSUME ProperSources, SamplesInv, Next
    PROVE  /\ \A s \in Streams : Holds(fifo'[s], samplesQueued'[s])
           /\ pc' = "copy" => copy'.left > 0 /\ copy'.left <= samplesQueued'[copy'.st]
<1>. DEFINE Counted == \A s \in Streams : Holds(fifo'[s], samplesQueued'[s])
            Copied == pc' = "copy" => copy'.left > 0 /\ copy'.left <= samplesQueued'[copy'.st]
<1>0. /\ SafeInv
      /\ fifo \in [Streams -> Seq(ProperFrames)] /\ samplesQueued \in [Streams -> Int]
      /\ \A s \in Streams : Holds(fifo[s], samplesQueued[s])
  BY DEF SamplesInv, SafeInv, TypeOK
<1>1. ASSUME NEW s \in Streams, Send(s) PROVE Counted /\ Copied
  <2>. DEFINE f == Frames[s][accepted[s] + 1]
  <2>1. f \in ProperFrames
    BY <1>0, <1>1, NextFrame DEF Send
  <2>2. fifo' = [fifo EXCEPT ![s] = Append(fifo[s], f)]
        /\ samplesQueued' = [samplesQueued EXCEPT ![s] = samplesQueued[s] + f.samples]
        /\ pc' = "receive"
    BY <1>1 DEF Send
  <2>. HIDE DEF f
  <2>. QED  BY <1>0, <2>1, <2>2, HoldsAppend
<1>2. ASSUME NEW s \in Streams, Receive(s) PROVE Counted /\ Copied
  <2>1. fifo' = [fifo EXCEPT ![s] = Tail(fifo[s])]
        /\ samplesQueued' = [samplesQueued EXCEPT ![s] = samplesQueued[s] - Head(fifo[s]).samples]
        /\ pc' = "receive" /\ fifo[s] # <<>>
    BY <1>2 DEF Receive, FirstReady, Ready, Available, HandOn
  <2>. QED  BY <1>0, <2>1, HoldsTail
<1>3. ASSUME NEW s \in Streams, ReceiveSamples(s) PROVE Counted /\ Copied
  <2>1. /\ UNCHANGED fifoVars /\ Ready(s) /\ NbSamples(s) > 0
        /\ copy'.st = s /\ copy'.left = NbSamples(s)
    BY <1>3 DEF ReceiveSamples, FirstReady
  <2>. QED  BY <1>0, <2>1, NbSamplesFits DEF fifoVars
<1>4. ASSUME CopySamples PROVE Counted /\ Copied
  <2>1. PICK n \in Nat :
          /\ copy.st \in Streams /\ n <= copy.left
          /\ fifo' = [fifo EXCEPT ![copy.st] = fifo'[copy.st]]
          /\ samplesQueued' = [samplesQueued EXCEPT ![copy.st] = samplesQueued[copy.st] - n]
          /\ Holds(fifo'[copy.st], samplesQueued'[copy.st])
          /\ copy'.left = copy.left - n /\ copy'.st = copy.st
          /\ copy'.left = 0 => HandOn(copy.st, copy.nb, copy.end)
    BY <1>4, CopyStep
  <2>2. Counted
    <3>1. ASSUME NEW x \in Streams, x # copy.st
          PROVE  fifo'[x] = fifo[x] /\ samplesQueued'[x] = samplesQueued[x]
      BY <1>0, <2>1, <3>1
    <3>. QED  BY <1>0, <2>1, <3>1
  <2>3. copy.left \in Nat /\ copy.left <= samplesQueued[copy.st]
        /\ samplesQueued[copy.st] \in Int
    BY <1>0, <1>4, <2>1 DEF CopySamples, SamplesInv, SafeInv, TypeOK
  <2>4. copy'.left = 0 => pc' = "receive"
    BY <2>1 DEF HandOn
  <2>5. samplesQueued'[copy.st] = samplesQueued[copy.st] - n
    BY <1>0, <2>1
  <2>. QED  BY <2>1, <2>2, <2>3, <2>4, <2>5
<1>5. ASSUME UNCHANGED <<fifoVars, copy>>, pc' # "copy" PROVE Counted /\ Copied
  BY <1>0, <1>5 DEF fifoVars
<1>. QED  BY <1>1, <1>2, <1>3, <1>4, <1>5, OtherSteps

LEMMA SamplesAlways == ASSUME ProperSources PROVE Spec => []SamplesInv
<1>1. Init => SamplesInv
  BY SafeInit, HoldsNone DEF Init, SamplesInv
<1>2. SamplesInv /\ [Next]_vars => SamplesInv'
  <2>. SUFFICES ASSUME SamplesInv, [Next]_vars PROVE SamplesInv'
    OBVIOUS
  <2>1. SafeInv'
    BY SafeNext DEF SamplesInv
  <2>2. CASE Next
    BY <2>1, <2>2, SamplesStep DEF SamplesInv
  <2>3. CASE UNCHANGED vars
    BY <2>1, <2>3 DEF SamplesInv, vars, fifoVars
  <2>. QED  BY <2>2, <2>3
<1>. QED  BY <1>1, <1>2, PTL DEF Spec

\* Frames of a stream with a constant frame size have samples when they are
\* queued.
LEMMA QueuedAudio ==
    ASSUME ProperSources, AudioFrames, SizeInv, Next, NEW s \in Streams, FrameSamples[s] > 0
    PROVE  \A i \in 1 .. Len(fifo'[s]) : fifo'[s][i].samples > 0
<1>0. /\ SamplesInv /\ SafeInv
      /\ fifo \in [Streams -> Seq(ProperFrames)]
      /\ \A i \in 1 .. Len(fifo[s]) : fifo[s][i].samples > 0
  BY DEF SizeInv, SamplesInv, SafeInv
<1>1. ASSUME NEW x \in Streams, Send(x)
      PROVE  \A i \in 1 .. Len(fifo'[s]) : fifo'[s][i].samples > 0
  <2>. DEFINE f == Frames[x][accepted[x] + 1]
  <2>1. f \in ProperFrames /\ accepted[x] + 1 \in 0 .. Len(Frames[x])
    BY <1>0, <1>1, NextFrame DEF Send
  <2>2. fifo' = [fifo EXCEPT ![x] = Append(fifo[x], f)]
    BY <1>1 DEF Send
  <2>3. CASE x = s
    <3>1. accepted[x] \in Nat
      <4>1. Len(Frames[x]) \in Nat
        BY FramesAssumption
      <4>. QED  BY <1>0, <4>1 DEF SafeInv, TypeOK
    <3>2. accepted[x] + 1 \in 1 .. Len(Frames[x])
      BY <2>1, <3>1
    <3>3. f.samples > 0
      BY <2>3, <3>2 DEF AudioFrames
    <3>. HIDE DEF f
    <3>4. /\ Len(Append(fifo[s], f)) = Len(fifo[s]) + 1
          /\ \A i \in 1 .. Len(fifo[s]) : Append(fifo[s], f)[i] = fifo[s][i]
          /\ Append(fifo[s], f)[Len(fifo[s]) + 1] = f
      BY <1>0, <2>1, AppendProperties
    <3>5. fifo'[s] = Append(fifo[s], f) /\ Len(fifo[s]) \in Nat
      BY <1>0, <2>2, <2>3
    <3>6. ASSUME NEW i \in 1 .. Len(fifo[s]) + 1 PROVE Append(fifo[s], f)[i].samples > 0
      <4>1. i \in 1 .. Len(fifo[s]) \/ i = Len(fifo[s]) + 1
        BY <3>5
      <4>. QED  BY <1>0, <3>3, <3>4, <4>1
    <3>. QED  BY <3>4, <3>5, <3>6
  <2>4. CASE x # s
    <3>1. fifo'[s] = fifo[s]
      BY <1>0, <2>2, <2>4
    <3>. QED  BY <1>0, <3>1
  <2>. QED  BY <2>3, <2>4
<1>2. ASSUME NEW x \in Streams, Receive(x)
      PROVE  \A i \in 1 .. Len(fifo'[s]) : fifo'[s][i].samples > 0
  <2>1. fifo' = [fifo EXCEPT ![x] = Tail(fifo[x])] /\ fifo[x] # <<>>
    BY <1>2 DEF Receive, FirstReady, Ready, Available
  <2>2. CASE x = s
    <3>1. Len(fifo[s]) \in Nat /\ Len(Tail(fifo[s])) = Len(fifo[s]) - 1
          /\ \A i \in 1 .. Len(Tail(fifo[s])) : Tail(fifo[s])[i] = fifo[s][i + 1]
      BY <1>0, <2>1, <2>2, HeadTailProperties
    <3>2. fifo'[s] = Tail(fifo[s])
      BY <1>0, <2>1, <2>2
    <3>. QED  BY <1>0, <3>1, <3>2
  <2>3. CASE x # s
    <3>1. fifo'[s] = fifo[s]
      BY <1>0, <2>1, <2>3
    <3>. QED  BY <1>0, <3>1
  <2>. QED  BY <2>2, <2>3
<1>3. ASSUME CopySamples
      PROVE  \A i \in 1 .. Len(fifo'[s]) : fifo'[s][i].samples > 0
  <2>1. /\ fifo' = [fifo EXCEPT ![copy.st] = fifo'[copy.st]]
        /\ (\A i \in 1 .. Len(fifo[copy.st]) : fifo[copy.st][i].samples > 0) =>
             \A i \in 1 .. Len(fifo'[copy.st]) : fifo'[copy.st][i].samples > 0
    BY <1>0, <1>3, CopyStep
  <2>2. CASE copy.st = s
    BY <1>0, <2>1, <2>2
  <2>3. CASE copy.st # s
    <3>1. fifo'[s] = fifo[s]
      BY <1>0, <2>1, <2>3
    <3>. QED  BY <1>0, <3>1
  <2>. QED  BY <2>2, <2>3
<1>4. ASSUME UNCHANGED fifoVars
      PROVE  \A i \in 1 .. Len(fifo'[s]) : fifo'[s][i].samples > 0
  BY <1>0, <1>4 DEF fifoVars
<1>5. ASSUME NEW x \in Streams, ReceiveSamples(x) PROVE UNCHANGED fifoVars
  BY <1>5 DEF ReceiveSamples
<1>. QED  BY <1>1, <1>2, <1>3, <1>4, <1>5, OtherSteps

\* A stream whose frames are to have a constant size is never given a whole
\* frame.
LEMMA NoWholeFrames ==
    ASSUME SizeInv, NEW s \in Streams, FrameSamples[s] > 0
    PROVE  ~Receive(s)
<1>. SUFFICES ASSUME Receive(s) PROVE FALSE
  OBVIOUS
<1>1. Ready(s) /\ NbSamples(s) = 0 /\ fifo[s] # <<>>
  BY DEF Receive, FirstReady, Ready, Available
<1>2. FrameSamples[s] \in Nat
  BY LimitAssumption
<1>3. samplesQueued[s] = 0
  BY <1>1, <1>2, NbSamplesFits DEF SizeInv
<1>4. /\ fifo[s] \in Seq(ProperFrames) /\ Holds(fifo[s], samplesQueued[s])
      /\ \A i \in 1 .. Len(fifo[s]) : fifo[s][i].samples > 0
  BY DEF SizeInv, SamplesInv, SafeInv
<1>5. Head(fifo[s]).samples \in 0 .. 0
  BY <1>1, <1>3, <1>4, HoldsType
<1>6. Head(fifo[s]) = fifo[s][1] /\ 1 \in 1 .. Len(fifo[s])
  BY <1>1, <1>4
<1>. QED  BY <1>4, <1>5, <1>6

\* Only CopySamples gives out frames of such a stream, with the size it should
\* have, and not after a shorter one.
LEMMA SizeStep ==
    ASSUME ProperSources, AudioFrames, SizeInv, Next,
           NEW s \in Streams, FrameSamples[s] > 0
    PROVE  \/ out'[s] = out[s]
           \/ /\ CopySamples /\ copy.st = s /\ copy'.left = 0
              /\ out'[s].last = copy.nb
              /\ out[s].count > 0 => out[s].last = FrameSamples[s]
<1>0. out \in [Streams -> [count : Nat, last : Nat, end : Int]]
  BY DEF SizeInv, SamplesInv, SafeInv, TypeOK
<1>1. ASSUME NEW x \in Streams, Send(x) \/ ReceiveSamples(x) PROVE out' = out
  BY <1>1 DEF Send, ReceiveSamples
<1>2. ASSUME NEW x \in Streams, Receive(x) PROVE out'[s] = out[s]
  <2>1. x # s
    BY <1>2, NoWholeFrames
  <2>. QED  BY <1>0, <1>2, <2>1 DEF Receive, HandOn
<1>3. ASSUME CopySamples, out'[s] # out[s]
      PROVE  /\ copy.st = s /\ copy'.left = 0 /\ out'[s].last = copy.nb
             /\ out[s].count > 0 => out[s].last = FrameSamples[s]
  <2>1. /\ copy.st \in Streams
        /\ copy'.left = 0 => HandOn(copy.st, copy.nb, copy.end)
        /\ copy'.left # 0 => UNCHANGED <<sq, out, pc>>
    BY <1>3, CopyStep DEF SizeInv
  <2>2. copy'.left = 0 /\ HandOn(copy.st, copy.nb, copy.end)
    BY <1>3, <2>1
  <2>3. copy.st = s
    BY <1>0, <1>3, <2>1, <2>2 DEF HandOn
  <2>4. out'[s].last = copy.nb
    BY <1>0, <2>2, <2>3 DEF HandOn
  <2>5. copy.left > 0 /\ copy.left <= samplesQueued[s] /\ samplesQueued[s] \in Int
        /\ copy.left \in Nat
    BY <1>3, <2>3 DEF CopySamples, SizeInv, SamplesInv, SafeInv, TypeOK
  <2>6. samplesQueued[s] # 0
    BY <2>5
  <2>7. out[s].count > 0 => out[s].last = FrameSamples[s]
    BY <2>6 DEF SizeInv
  <2>. QED  BY <2>2, <2>3, <2>4, <2>7
<1>. QED  BY <1>1, <1>2, <1>3, OtherSteps

\* The frame being copied has the size it should have.
LEMMA CopySizeStep ==
    ASSUME ProperSources, SizeInv, Next, pc' = "copy"
    PROVE  /\ copy'.nb \in 1 .. FrameSamples[copy'.st]
           /\ copy'.nb # FrameSamples[copy'.st] =>
                copy'.st \in sq'.finished /\ copy'.left = samplesQueued'[copy'.st]
<1>1. ASSUME NEW s \in Streams, Send(s) \/ Receive(s) PROVE FALSE
  BY <1>1 DEF Send, Receive, HandOn
<1>2. ASSUME NEW s \in Streams, ReceiveSamples(s)
      PROVE  /\ copy'.nb \in 1 .. FrameSamples[copy'.st]
             /\ copy'.nb # FrameSamples[copy'.st] =>
                  copy'.st \in sq'.finished /\ copy'.left = samplesQueued'[copy'.st]
  <2>1. /\ Ready(s) /\ NbSamples(s) > 0
        /\ copy'.st = s /\ copy'.nb = NbSamples(s) /\ copy'.left = NbSamples(s)
        /\ sq' = sq /\ samplesQueued' = samplesQueued
    BY <1>2 DEF ReceiveSamples, FirstReady, fifoVars
  <2>2. /\ NbSamples(s) \in 0 .. FrameSamples[s]
        /\ NbSamples(s) # FrameSamples[s] =>
             s \in sq.finished /\ NbSamples(s) = samplesQueued[s]
    BY <2>1, NbSamplesFits DEF SizeInv
  <2>3. NbSamples(s) \in 1 .. FrameSamples[s]
    BY <2>1, <2>2, LimitAssumption
  <2>. QED  BY <2>1, <2>2, <2>3
<1>3. ASSUME CopySamples
      PROVE  /\ copy'.nb \in 1 .. FrameSamples[copy'.st]
             /\ copy'.nb # FrameSamples[copy'.st] =>
                  copy'.st \in sq'.finished /\ copy'.left = samplesQueued'[copy'.st]
  <2>1. PICK n \in Nat :
          /\ copy.st \in Streams
          /\ samplesQueued' = [samplesQueued EXCEPT ![copy.st] = samplesQueued[copy.st] - n]
          /\ copy'.left = copy.left - n /\ copy'.st = copy.st /\ copy'.nb = copy.nb
          /\ copy'.left = 0 => HandOn(copy.st, copy.nb, copy.end)
          /\ copy'.left # 0 => UNCHANGED <<sq, out, pc>>
    BY <1>3, CopyStep DEF SizeInv
  <2>2. sq' = sq
    BY <2>1 DEF HandOn
  <2>3. samplesQueued'[copy.st] = samplesQueued[copy.st] - n
    BY <2>1 DEF SizeInv, SamplesInv, SafeInv, TypeOK
  <2>4. /\ copy.nb \in 1 .. FrameSamples[copy.st]
        /\ copy.nb # FrameSamples[copy.st] =>
             copy.st \in sq.finished /\ copy.left = samplesQueued[copy.st]
    BY <1>3 DEF CopySamples, SizeInv
  <2>. QED  BY <2>1, <2>2, <2>3, <2>4
<1>. QED  BY <1>1, <1>2, <1>3, OtherSteps

\* After a short frame its stream is finished and has no samples left.
LEMMA ShortIsLastStep ==
    ASSUME ProperSources, AudioFrames, SizeInv, Next, NEW s \in Streams, FrameSamples[s] > 0,
           out'[s].count > 0, out'[s].last # FrameSamples[s]
    PROVE  s \in sq'.finished /\ samplesQueued'[s] = 0
<1>0. SamplesInv /\ SafeInv /\ samplesQueued \in [Streams -> Int]
      /\ sq.finished \subseteq sq'.finished
  BY QueueStep DEF SizeInv, SamplesInv, SafeInv, TypeOK, Later
<1>1. CASE out'[s] # out[s]
  <2>1. CopySamples /\ copy.st = s /\ copy'.left = 0 /\ copy.nb # FrameSamples[s]
    BY <1>1, SizeStep
  <2>2. PICK n \in Nat :
          /\ samplesQueued' = [samplesQueued EXCEPT ![copy.st] = samplesQueued[copy.st] - n]
          /\ copy'.left = copy.left - n
    BY <1>0, <2>1, CopyStep
  <2>3. s \in sq.finished /\ copy.left = samplesQueued[s]
    BY <2>1 DEF CopySamples, SizeInv
  <2>4. samplesQueued'[s] = copy'.left
    BY <1>0, <2>1, <2>2, <2>3
  <2>. QED  BY <1>0, <2>1, <2>3, <2>4
<1>2. CASE out'[s] = out[s]
  <2>1. s \in sq.finished /\ samplesQueued[s] = 0
    BY <1>2 DEF SizeInv
  <2>2. ASSUME NEW x \in Streams, Send(x) PROVE samplesQueued'[s] = samplesQueued[s]
    BY <1>0, <2>1, <2>2 DEF Send
  <2>3. ASSUME NEW x \in Streams, Receive(x) PROVE samplesQueued'[s] = samplesQueued[s]
    <3>1. x # s
      BY <2>3, NoWholeFrames
    <3>. QED  BY <1>0, <2>3, <3>1 DEF Receive
  <2>4. ASSUME CopySamples PROVE samplesQueued'[s] = samplesQueued[s]
    <3>1. copy.left > 0 /\ copy.left <= samplesQueued[copy.st] /\ copy.left \in Nat
      BY <1>0, <2>4 DEF CopySamples, SamplesInv, SafeInv, TypeOK
    <3>2. copy.st # s
      BY <2>1, <3>1
    <3>. QED  BY <1>0, <2>4, <3>2 DEF CopySamples
  <2>5. ASSUME NEW x \in Streams, ReceiveSamples(x) PROVE samplesQueued'[s] = samplesQueued[s]
    BY <2>5 DEF ReceiveSamples, fifoVars
  <2>. QED  BY <1>0, <2>1, <2>2, <2>3, <2>4, <2>5, OtherSteps DEF fifoVars
<1>. QED  BY <1>1, <1>2

LEMMA SizeAlways == ASSUME ProperSources, AudioFrames PROVE Spec => []SizeInv
<1>1. Init => SizeInv
  <2>. SUFFICES ASSUME Init PROVE SizeInv
    OBVIOUS
  <2>1. SamplesInv
    BY SafeInit, HoldsNone DEF Init, SamplesInv
  <2>2. /\ pc # "copy" /\ \A s \in Streams : fifo[s] = <<>> /\ out[s].count = 0
    BY DEF Init
  <2>. QED  BY <2>1, <2>2 DEF SizeInv
<1>2. SizeInv /\ [Next]_vars => SizeInv'
  <2>. SUFFICES ASSUME SizeInv, [Next]_vars PROVE SizeInv'
    OBVIOUS
  <2>1. CASE Next
    <3>1. SamplesInv'
      BY <2>1, SafeNext, SamplesStep DEF SizeInv, SamplesInv
    <3>. QED  BY <2>1, <3>1, QueuedAudio, CopySizeStep, ShortIsLastStep DEF SizeInv
  <2>2. CASE UNCHANGED vars
    <3>1. SamplesInv'
      BY <2>2, SafeNext DEF SizeInv, SamplesInv, vars, fifoVars
    <3>. QED  BY <2>2, <3>1 DEF SizeInv, vars, fifoVars
  <2>. QED  BY <2>1, <2>2
<1>. QED  BY <1>1, <1>2, PTL DEF Spec

\* The counter of queued samples does not run apart from the FIFO, and a copy
\* always finds the frames it needs: the assertions of receive_samples hold.
THEOREM CopiesFindSamples == ASSUME ProperSources PROVE Spec => []SamplesThere
<1>1. SamplesInv => SamplesThere
  <2>. SUFFICES ASSUME SamplesInv PROVE SamplesThere
    OBVIOUS
  <2>1. \A s \in Streams : samplesQueued[s] \in Nat
    BY HoldsType DEF SamplesInv, SafeInv
  <2>2. ASSUME pc = "copy" PROVE fifo[copy.st] # <<>> /\ copy.left <= samplesQueued[copy.st]
    <3>1. copy.st \in Streams /\ copy.left > 0 /\ copy.left <= samplesQueued[copy.st]
          /\ copy.left \in Nat
      BY <2>2 DEF SamplesInv, SafeInv, TypeOK
    <3>2. samplesQueued[copy.st] > 0
      BY <2>1, <3>1
    <3>. QED  BY <3>1, <3>2, HoldsType DEF SamplesInv, SafeInv
  <2>. QED  BY <2>1, <2>2 DEF SamplesThere
<1>. QED  BY <1>1, SamplesAlways, PTL

\* All frames that come out of a stream with a constant frame size have that
\* size, but perhaps the last: it is shorter only when the stream has ended.
THEOREM SizesAreConstant == ASSUME ProperSources, AudioFrames PROVE Spec => ConstantSize
<1>. DEFINE Const == \A s \in Streams : FrameSamples[s] > 0 /\ out'[s].count > out[s].count =>
                       /\ out'[s].last \in 1 .. FrameSamples[s]
                       /\ out[s].count > 0 => out[s].last = FrameSamples[s]
<1>1. ASSUME SizeInv, [Next]_vars PROVE [Const]_vars
  <2>. SUFFICES ASSUME Next, NEW s \in Streams, FrameSamples[s] > 0,
                       out'[s].count > out[s].count
                PROVE  /\ out'[s].last \in 1 .. FrameSamples[s]
                       /\ out[s].count > 0 => out[s].last = FrameSamples[s]
    BY <1>1
  <2>1. out[s].count \in Nat
    BY <1>1 DEF SizeInv, SamplesInv, SafeInv, TypeOK
  <2>2. out'[s] # out[s]
    BY <2>1
  <2>3. /\ CopySamples /\ copy.st = s /\ out'[s].last = copy.nb
        /\ out[s].count > 0 => out[s].last = FrameSamples[s]
    BY <1>1, <2>2, SizeStep
  <2>. QED  BY <1>1, <2>3 DEF CopySamples, SizeInv
<1>. QED  BY <1>1, SizeAlways, PTL DEF Spec, ConstantSize
=============================================================================
