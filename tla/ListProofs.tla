----------------------------- MODULE ListProofs -----------------------------
(***************************************************************************)
(* Sequences, as the models use them: what is in a sequence after an item  *)
(* was added or taken, which elements Kept keeps and in which order, and   *)
(* the same of FlattenSeq.  Both are recursive; that the functions they    *)
(* are defined with exist is shown by induction over a set of numbers.     *)
(***************************************************************************)
EXTENDS Lists, TLAPS, SequenceTheorems, WellFoundedInduction

IsSeq(s) == s \in Seq(Range(s))

-----------------------------------------------------------------------------
(* Sequences                                                               *)

\* A sequence over some set is a sequence of its own elements.
LEMMA InSeq ==
    ASSUME NEW S, NEW s \in Seq(S)
    PROVE  IsSeq(s)
<1>1. \A i \in 1 .. Len(s) : s[i] \in Range(s)
  BY DEF Range
<1>. QED  BY <1>1 DEF IsSeq

\* Length and domain of a sequence.
LEMMA SeqDomain ==
    ASSUME NEW s, IsSeq(s)
    PROVE  Len(s) \in Nat /\ DOMAIN s = 1 .. Len(s)
BY DEF IsSeq

\* The empty sequence.
LEMMA NoSeq == IsSeq(<<>>) /\ DOMAIN <<>> = {} /\ Len(<<>>) = 0
<1>1. <<>> \in Seq({}) /\ Len(<<>>) = 0
  OBVIOUS
<1>2. IsSeq(<<>>)
  BY <1>1, InSeq
<1>. QED  BY <1>1, <1>2

\* A sequence of one.
LEMMA OneSeq ==
    ASSUME NEW a
    PROVE  IsSeq(<<a>>) /\ DOMAIN <<a>> = {1} /\ <<a>>[1] = a
<1>1. <<a>> \in Seq({a}) /\ DOMAIN <<a>> = {1}
  OBVIOUS
<1>2. IsSeq(<<a>>)
  BY <1>1, InSeq
<1>. QED  BY <1>1, <1>2

\* A sequence of two.
LEMMA TwoSeq ==
    ASSUME NEW a, NEW b
    PROVE  IsSeq(<<a, b>>) /\ DOMAIN <<a, b>> = {1, 2} /\ <<a, b>>[1] = a /\ <<a, b>>[2] = b
<1>1. <<a, b>> \in Seq({a, b}) /\ DOMAIN <<a, b>> = {1, 2}
  OBVIOUS
<1>2. IsSeq(<<a, b>>)
  BY <1>1, InSeq
<1>. QED  BY <1>1, <1>2

\* A function on 1 .. n is a sequence.
LEMMA ListSeq ==
    ASSUME NEW n \in Nat, NEW s, s = [i \in 1 .. n |-> s[i]]
    PROVE  IsSeq(s) /\ Len(s) = n /\ DOMAIN s = 1 .. n
<1>1. s \in [1 .. n -> Range(s)]
  BY DEF Range
<1>2. s \in Seq(Range(s)) /\ Len(s) = n
  BY <1>1
<1>. QED  BY <1>2, SeqDomain DEF IsSeq

\* What Head and Tail take apart.
LEMMA TailSeq ==
    ASSUME NEW s, IsSeq(s), s # <<>>
    PROVE  /\ IsSeq(Tail(s)) /\ 1 \in DOMAIN s /\ Head(s) = s[1]
           /\ DOMAIN Tail(s) = 1 .. Len(s) - 1
           /\ \A i \in DOMAIN Tail(s) : i + 1 \in DOMAIN s /\ Tail(s)[i] = s[i + 1]
<1>1. s \in Seq(Range(s)) /\ Len(s) \in Nat /\ Len(s) > 0
  BY DEF IsSeq
<1>2. Tail(s) \in Seq(Range(s)) /\ Len(Tail(s)) = Len(s) - 1
  BY <1>1
<1>3. IsSeq(Tail(s)) /\ DOMAIN Tail(s) = 1 .. Len(s) - 1
  BY <1>2, InSeq, SeqDomain
<1>4. \A i \in 1 .. Len(s) - 1 : Tail(s)[i] = s[i + 1]
  BY <1>1
<1>5. DOMAIN s = 1 .. Len(s) /\ Head(s) = s[1]
  BY <1>1
<1>. QED  BY <1>1, <1>3, <1>4, <1>5

\* What Append adds.
LEMMA AppendSeq ==
    ASSUME NEW s, IsSeq(s), NEW a
    PROVE  /\ IsSeq(Append(s, a)) /\ DOMAIN Append(s, a) = 1 .. Len(s) + 1
           /\ \A i \in DOMAIN s : Append(s, a)[i] = s[i]
           /\ Append(s, a)[Len(s) + 1] = a
<1> DEFINE S == Range(s) \cup {a}
<1>1. s \in Seq(S) /\ a \in S
  BY DEF IsSeq
<1>2. Append(s, a) \in Seq(S) /\ Len(Append(s, a)) = Len(s) + 1
  BY <1>1
<1>3. IsSeq(Append(s, a)) /\ DOMAIN Append(s, a) = 1 .. Len(s) + 1
  BY <1>2, InSeq, SeqDomain
<1>4. DOMAIN s = 1 .. Len(s)
  BY <1>1
<1>5. (\A i \in 1 .. Len(s) : Append(s, a)[i] = s[i]) /\ Append(s, a)[Len(s) + 1] = a
  BY <1>1
<1>. QED  BY <1>3, <1>4, <1>5

\* Each element of s \o r is one of s or of r.
LEMMA ConcatSeq ==
    ASSUME NEW s, IsSeq(s), NEW r, IsSeq(r)
    PROVE  /\ IsSeq(s \o r) /\ DOMAIN (s \o r) = 1 .. Len(s) + Len(r)
           /\ \A i \in DOMAIN s : (s \o r)[i] = s[i]
           /\ \A i \in DOMAIN r : (s \o r)[Len(s) + i] = r[i]
           /\ \A i \in DOMAIN (s \o r) : i \in DOMAIN s \/ i - Len(s) \in DOMAIN r
<1> DEFINE S == Range(s) \cup Range(r)
<1>1. s \in Seq(S) /\ r \in Seq(S)
  BY DEF IsSeq
<1>2. s \o r \in Seq(S) /\ Len(s \o r) = Len(s) + Len(r)
  BY <1>1
<1>3. IsSeq(s \o r) /\ DOMAIN (s \o r) = 1 .. Len(s) + Len(r)
  BY <1>2, InSeq, SeqDomain
<1>4. DOMAIN s = 1 .. Len(s) /\ DOMAIN r = 1 .. Len(r) /\ Len(s) \in Nat /\ Len(r) \in Nat
  BY <1>1
<1>5. \A i \in 1 .. Len(s) : (s \o r)[i] = s[i]
  BY <1>1
<1>6. ASSUME NEW i \in 1 .. Len(r) PROVE (s \o r)[Len(s) + i] = r[i]
  BY <1>1
<1>7. \A i \in 1 .. Len(s) + Len(r) : i \in 1 .. Len(s) \/ i - Len(s) \in 1 .. Len(r)
  BY <1>4
<1>. QED  BY <1>3, <1>4, <1>5, <1>6, <1>7

\* What is left after the first m.
LEMMA SuffixSeq ==
    ASSUME NEW s, IsSeq(s), NEW m \in 1 .. Len(s)
    PROVE  /\ IsSeq(SubSeq(s, m + 1, Len(s)))
           /\ \A i \in DOMAIN SubSeq(s, m + 1, Len(s)) :
                 m + i \in DOMAIN s /\ SubSeq(s, m + 1, Len(s))[i] = s[m + i]
<1>1. s \in Seq(Range(s)) /\ Len(s) \in Nat /\ DOMAIN s = 1 .. Len(s) /\ m + 1 \in 1 .. Len(s) + 1
  BY SeqDomain DEF IsSeq
<1> DEFINE r == SubSeq(s, m + 1, Len(s))
<1>2. r \in Seq(Range(s)) /\ Len(r) = Len(s) - m /\ \A i \in 1 .. Len(s) - m : r[i] = s[m + i]
  <2>0. PICK n \in Nat : n = Len(s)
    BY <1>1
  <2>1. m + 1 \in Int /\ n \in Int /\ \A i \in m + 1 .. n : s[i] \in Range(s)
    BY <1>1, <2>0
  <2>2. /\ r \in Seq(Range(s))
        /\ Len(r) = IF m + 1 <= n THEN n - (m + 1) + 1 ELSE 0
        /\ \A i \in 1 .. n - (m + 1) + 1 : r[i] = s[m + 1 + i - 1]
    BY <2>0, <2>1, SubSeqProperties
  <2> HIDE DEF r
  <2>3. m \in Nat /\ m <= n /\ n - (m + 1) + 1 = n - m
    BY <2>0
  <2>4. Len(r) = n - m
    BY <2>2, <2>3
  <2>5. \A i \in 1 .. n - m : i \in 1 .. n - (m + 1) + 1 /\ m + 1 + i - 1 = m + i
    BY <2>3
  <2>6. \A i \in 1 .. n - m : r[i] = s[m + i]
    BY <2>2, <2>5
  <2>. QED  BY <2>0, <2>2, <2>4, <2>6
<1> HIDE DEF r
<1>3. IsSeq(r) /\ DOMAIN r = 1 .. Len(s) - m
  BY <1>2, InSeq, SeqDomain
<1>4. \A i \in 1 .. Len(s) - m : m + i \in 1 .. Len(s)
  BY <1>1
<1>. QED  BY <1>1, <1>2, <1>3, <1>4 DEF r

\* The order of the numbers as a relation.
Less == {p \in Nat \X Nat : p[1] < p[2]}

\* Induction over the numbers, from the theorem on well-founded relations.
LEMMA LessWellFounded == IsWellFoundedOn(Less, Nat)
<1>1. OpToRel(<, Nat) = Less
  BY DEF OpToRel, Less
<1>. QED  BY <1>1, NatLessThanWellFounded

\* A nonempty set of naturals has a least element.
LEMMA LeastOf ==
    ASSUME NEW T \in SUBSET Nat, T # {}
    PROVE  /\ Min(T) \in T
           /\ \A y \in T : Min(T) <= y
<1>1. PICK x \in T : \A y \in T : <<y, x>> \notin Less
  BY LessWellFounded, WFMin
<1>2. ASSUME NEW y \in T PROVE x <= y
  <2>1. x \in Nat /\ y \in Nat
    OBVIOUS
  <2>2. <<y, x>> \in Nat \X Nat /\ <<y, x>>[1] = y /\ <<y, x>>[2] = x
    BY <2>1
  <2>3. y < x => <<y, x>> \in Less
    BY <2>2 DEF Less
  <2>. QED  BY <1>1, <2>1, <2>3
<1>. QED  BY <1>2 DEF Min

\* Induction up to n, for membership in a set.
LEMMA Induct ==
    ASSUME NEW n \in Nat, NEW P, 0 \in P, \A i \in 1 .. n : i - 1 \in P => i \in P
    PROVE  \A i \in 0 .. n : i \in P
<1> DEFINE T == {i \in 0 .. n : i \notin P}
<1>1. SUFFICES ASSUME T # {} PROVE FALSE
  OBVIOUS
<1>2. T \in SUBSET Nat
  OBVIOUS
<1>3. Min(T) \in T /\ \A y \in T : Min(T) <= y
  BY <1>1, <1>2, LeastOf
<1>4. PICK m : m = Min(T)
  OBVIOUS
<1>5. m \in 1 .. n /\ m \notin P /\ m - 1 \in 0 .. n
  BY <1>3, <1>4
<1>6. m - 1 \notin T
  BY <1>3, <1>4, <1>5
<1>. QED  BY <1>5, <1>6

\* The functions whose next value step makes from the last; there is one.
Runs(A, a, n, step) ==
    {f \in [0 .. n -> A] : f[0] = a /\ \A i \in 1 .. n : f[i] = step[<<i, f[i - 1]>>]}

\* A recursion of n steps has a result.
LEMMA Recursion ==
    ASSUME NEW A, NEW a \in A, NEW n \in Nat, NEW step \in [(1 .. n) \X A -> A]
    PROVE  Runs(A, a, n, step) # {}
<1> DEFINE P == {m \in 0 .. n : Runs(A, a, m, step) # {}}
<1>1. 0 \in P
  <2> DEFINE e == [i \in 0 .. 0 |-> a]
  <2>1. e \in [0 .. 0 -> A] /\ e[0] = a /\ (\A i \in 1 .. 0 : e[i] = step[<<i, e[i - 1]>>])
    OBVIOUS
  <2>2. 0 \in 0 .. n
    OBVIOUS
  <2> HIDE DEF e
  <2>3. e \in Runs(A, a, 0, step)
    BY <2>1 DEF Runs
  <2>. QED  BY <2>2, <2>3
<1>2. ASSUME NEW m \in 1 .. n, m - 1 \in P PROVE m \in P
  <2>0. PICK f \in Runs(A, a, m - 1, step) : TRUE
    BY <1>2
  <2>1. f \in [0 .. m - 1 -> A] /\ f[0] = a /\ \A i \in 1 .. m - 1 : f[i] = step[<<i, f[i - 1]>>]
    BY <2>0 DEF Runs
  <2> DEFINE h == [i \in 0 .. m |-> IF i = m THEN step[<<m, f[m - 1]>>] ELSE f[i]]
  <2>2. step[<<m, f[m - 1]>>] \in A
    BY <2>1
  <2>3. h \in [0 .. m -> A]
    BY <2>1, <2>2
  <2>4. h[0] = a
    BY <2>1
  <2>5. ASSUME NEW i \in 1 .. m PROVE h[i] = step[<<i, h[i - 1]>>]
    <3>1. CASE i = m
      <4>1. m - 1 \in 0 .. m /\ m - 1 # m /\ m \in 0 .. m
        OBVIOUS
      <4>2. h[m] = step[<<m, f[m - 1]>>] /\ h[m - 1] = f[m - 1]
        BY <4>1
      <4>. QED  BY <3>1, <4>2
    <3>2. CASE i # m
      <4>1. i \in 1 .. m - 1 /\ i - 1 \in 0 .. m /\ i - 1 # m
        BY <3>2
      <4>. QED  BY <2>1, <4>1, <3>2
    <3>. QED  BY <3>1, <3>2
  <2> HIDE DEF h
  <2>6. h \in Runs(A, a, m, step)
    BY <2>3, <2>4, <2>5 DEF Runs
  <2>. QED  BY <2>6
<1> HIDE DEF P
<1>3. PICK T : T = P
  OBVIOUS
<1>4. \A i \in 0 .. n : i \in T
  BY <1>1, <1>2, <1>3, Induct
<1>. QED  BY <1>3, <1>4 DEF P

\* Which elements of s the sequence k has: some at keep, in the same order.
Chosen(s, keep, k) ==
    {pos \in [DOMAIN k -> DOMAIN s \cap keep] :
        /\ \A i \in DOMAIN k : k[i] = s[pos[i]]
        /\ \A i, j \in DOMAIN k : i < j => pos[i] < pos[j]}

\* Kept(s, keep) holds elements of s at indices in keep, in their order.
LEMMA KeptSeq ==
    ASSUME NEW s, IsSeq(s), NEW keep
    PROVE  IsSeq(Kept(s, keep)) /\ Chosen(s, keep, Kept(s, keep)) # {}
<1>1. PICK n \in Nat : n = Len(s) /\ DOMAIN s = 1 .. n
  BY SeqDomain
<1>2. PICK R : \A i \in 1 .. n : s[i] \in R
  <2>1. \A i \in 1 .. n : s[i] \in Range(s)
    BY <1>1 DEF Range
  <2>. QED  BY <2>1
<1>3. PICK step \in [(1 .. n) \X Seq(R) -> Seq(R)] :
         \A i \in 1 .. n : \A v \in Seq(R) : step[<<i, v>>] = IF i \in keep THEN Append(v, s[i]) ELSE v
  <2> DEFINE st == [p \in (1 .. n) \X Seq(R) |-> IF p[1] \in keep THEN Append(p[2], s[p[1]]) ELSE p[2]]
  <2>1. ASSUME NEW p \in (1 .. n) \X Seq(R)
        PROVE  (IF p[1] \in keep THEN Append(p[2], s[p[1]]) ELSE p[2]) \in Seq(R)
    <3>1. p[1] \in 1 .. n /\ p[2] \in Seq(R)
      OBVIOUS
    <3>2. s[p[1]] \in R
      BY <1>2, <3>1
    <3>. QED  BY <3>1, <3>2
  <2>2. st \in [(1 .. n) \X Seq(R) -> Seq(R)]
    BY <2>1
  <2>3. \A i \in 1 .. n : \A v \in Seq(R) : st[<<i, v>>] = IF i \in keep THEN Append(v, s[i]) ELSE v
    OBVIOUS
  <2>. QED  BY <2>2, <2>3
<1>4. PICK f \in [0 .. n -> Seq(R)] : f[0] = <<>> /\ \A i \in 1 .. n : f[i] = step[<<i, f[i - 1]>>]
  <2>1. PICK A : A = Seq(R)
    OBVIOUS
  <2>2. PICK a : a = <<>>
    OBVIOUS
  <2>0. a \in A /\ step \in [(1 .. n) \X A -> A]
    BY <2>1, <2>2
  <2>3. Runs(A, a, n, step) # {}
    BY <2>0, Recursion
  <2>4. PICK f \in Runs(A, a, n, step) : TRUE
    BY <2>3
  <2>5. f \in [0 .. n -> A] /\ f[0] = a /\ \A i \in 1 .. n : f[i] = step[<<i, f[i - 1]>>]
    BY <2>4 DEF Runs
  <2>. QED  BY <2>1, <2>2, <2>5
<1>5. ASSUME NEW i \in 1 .. n
      PROVE  i - 1 \in 0 .. n /\ i \in 0 .. n /\ i # 0
             /\ f[i] = IF i \in keep THEN Append(f[i - 1], s[i]) ELSE f[i - 1]
  <2>1. i - 1 \in 0 .. n /\ i \in 0 .. n /\ i # 0
    OBVIOUS
  <2>2. f[i - 1] \in Seq(R) /\ f[i] = step[<<i, f[i - 1]>>]
    BY <2>1, <1>4
  <2>. QED  BY <2>1, <2>2, <1>3
<1> DEFINE Def(h) == [i \in 0 .. n |->
                        IF i = 0 THEN <<>> ELSE IF i \in keep THEN Append(h[i - 1], s[i]) ELSE h[i - 1]]
           g == CHOOSE h : h = Def(h)
<1>6. f = Def(f)
  <2>1. ASSUME NEW i \in 0 .. n PROVE f[i] = Def(f)[i]
    <3>1. CASE i = 0
      BY <3>1, <1>4
    <3>2. CASE i # 0
      <4>1. i \in 1 .. n
        BY <3>2
      <4>. QED  BY <4>1, <1>5
    <3>. QED  BY <3>1, <3>2
  <2>2. DOMAIN f = 0 .. n /\ f = [i \in 0 .. n |-> f[i]]
    BY <1>4
  <2>. QED  BY <2>1, <2>2
<1>7. g = Def(g)
  BY <1>6
<1>8. Kept(s, keep) = g[n]
  BY <1>1 DEF Kept
<1>9. PICK e : e = g
  OBVIOUS
<1>10. e = Def(e) /\ Kept(s, keep) = e[n]
  BY <1>7, <1>8, <1>9
<1> HIDE DEF g
<1>11. e[0] = <<>>
  BY <1>10
<1>12. ASSUME NEW i \in 1 .. n
       PROVE  e[i] = IF i \in keep THEN Append(e[i - 1], s[i]) ELSE e[i - 1]
  <2>1. i \in 0 .. n /\ i # 0
    OBVIOUS
  <2>. QED  BY <2>1, <1>10
<1> HIDE DEF Def
<1> DEFINE Ok(i) == /\ IsSeq(e[i])
                    /\ \E pos \in [DOMAIN e[i] -> (1 .. i) \cap keep] :
                          /\ \A a \in DOMAIN pos : e[i][a] = s[pos[a]]
                          /\ \A a, b \in DOMAIN pos : a < b => pos[a] < pos[b]
           P == {i \in 0 .. n : Ok(i)}
<1>13. 0 \in P
  <2> DEFINE pos == [a \in {} |-> a]
  <2>1. IsSeq(e[0]) /\ DOMAIN e[0] = {}
    BY <1>11, NoSeq
  <2>2. pos \in [DOMAIN e[0] -> (1 .. 0) \cap keep] /\ DOMAIN pos = {}
    BY <2>1
  <2> HIDE DEF pos
  <2>3. Ok(0)
    BY <2>1, <2>2
  <2>4. 0 \in 0 .. n
    OBVIOUS
  <2>. QED  BY <2>3, <2>4
<1>14. ASSUME NEW i \in 1 .. n, i - 1 \in P PROVE i \in P
  <2>1. i - 1 \in 0 .. n /\ Ok(i - 1) /\ i \in 0 .. n
    <3> HIDE DEF Ok
    <3>. QED  BY <1>14
  <2>2. PICK o : o = e[i - 1]
    OBVIOUS
  <2>3. PICK pos \in [DOMAIN o -> (1 .. i - 1) \cap keep] :
           /\ \A a \in DOMAIN pos : o[a] = s[pos[a]]
           /\ \A a, b \in DOMAIN pos : a < b => pos[a] < pos[b]
    BY <2>1, <2>2
  <2>4. IsSeq(o) /\ DOMAIN o = 1 .. Len(o) /\ Len(o) \in Nat
    BY <2>1, <2>2, SeqDomain
  <2>5. CASE i \notin keep
    <3>1. e[i] = o
      BY <2>5, <2>2, <1>12
    <3>2. pos \in [DOMAIN o -> (1 .. i) \cap keep]
      BY <2>3
    <3>. QED  BY <2>1, <2>3, <2>4, <3>1, <3>2
  <2>6. CASE i \in keep
    <3>1. e[i] = Append(o, s[i])
      BY <2>6, <2>2, <1>12
    <3>2. PICK r : r = Append(o, s[i])
      OBVIOUS
    <3>3. PICK l \in Nat : l = Len(o) /\ DOMAIN o = 1 .. l
      BY <2>4
    <3>4. /\ IsSeq(r) /\ DOMAIN r = 1 .. l + 1
          /\ \A a \in 1 .. l : r[a] = o[a]
          /\ r[l + 1] = s[i]
      BY <2>4, <3>2, <3>3, AppendSeq
    <3> DEFINE new == [a \in 1 .. l + 1 |-> IF a = l + 1 THEN i ELSE pos[a]]
    <3>5. ASSUME NEW a \in 1 .. l + 1
          PROVE  new[a] \in (1 .. i) \cap keep /\ r[a] = s[new[a]] /\ (a # l + 1 => new[a] < i)
      <4>1. CASE a = l + 1
        BY <4>1, <3>4, <2>6
      <4>2. CASE a # l + 1
        <5>0. DOMAIN pos = 1 .. l
          BY <3>3, <2>3
        <5>1. a \in 1 .. l /\ a \in DOMAIN pos
          BY <4>2, <5>0
        <5>2. pos[a] \in 1 .. i - 1 /\ pos[a] \in keep /\ o[a] = s[pos[a]]
          BY <5>1, <2>3
        <5>. QED  BY <4>2, <5>1, <5>2, <3>4
      <4>. QED  BY <4>1, <4>2
    <3>6. ASSUME NEW a \in 1 .. l + 1, NEW b \in 1 .. l + 1, a < b PROVE new[a] < new[b]
      <4>1. CASE b = l + 1
        BY <4>1, <3>5, <3>6
      <4>2. CASE b # l + 1
        <5>1. a \in 1 .. l /\ b \in 1 .. l /\ a # l + 1
          BY <4>2, <3>6
        <5>2. a \in DOMAIN pos /\ b \in DOMAIN pos
          BY <5>1, <3>3, <2>3
        <5>3. pos[a] < pos[b]
          BY <5>2, <2>3, <3>6
        <5>. QED  BY <5>1, <5>3, <4>2
      <4>. QED  BY <4>1, <4>2
    <3>7. new \in [1 .. l + 1 -> (1 .. i) \cap keep] /\ DOMAIN new = 1 .. l + 1
      BY <3>5
    <3> HIDE DEF new
    <3>8. \A a \in DOMAIN new : r[a] = s[new[a]]
      BY <3>5, <3>7
    <3>9. \A a, b \in DOMAIN new : a < b => new[a] < new[b]
      BY <3>6, <3>7
    <3>10. Ok(i)
      BY <3>1, <3>2, <3>4, <3>7, <3>8, <3>9
    <3>. QED  BY <2>1, <3>10
  <2>. QED  BY <2>5, <2>6
<1>15. PICK T : T = P
  OBVIOUS
<1> HIDE DEF P
<1>16. 0 \in T /\ \A i \in 1 .. n : i - 1 \in T => i \in T
  BY <1>13, <1>14, <1>15
<1>17. n \in T
  <2>1. \A i \in 0 .. n : i \in T
    BY <1>16, Induct
  <2>. QED  BY <2>1
<1>18. Ok(n)
  BY <1>15, <1>17 DEF P
<1>19. PICK k : k = e[n] /\ k = Kept(s, keep)
  BY <1>10
<1>20. PICK pos \in [DOMAIN k -> (1 .. n) \cap keep] :
          /\ \A a \in DOMAIN pos : k[a] = s[pos[a]]
          /\ \A a, b \in DOMAIN pos : a < b => pos[a] < pos[b]
  BY <1>18, <1>19
<1>21. pos \in Chosen(s, keep, k)
  BY <1>1, <1>20 DEF Chosen
<1>. QED  BY <1>18, <1>19, <1>21

\* Which elements of the sequences of ss the sequence r has: some, in the same order.
Drawn(ss, r) ==
    {p \in [DOMAIN r -> (DOMAIN ss) \X Nat] :
        /\ \A x \in DOMAIN r : p[x][2] \in DOMAIN ss[p[x][1]] /\ r[x] = ss[p[x][1]][p[x][2]]
        /\ \A x, y \in DOMAIN r : x < y => \/ p[x][1] < p[y][1]
                                           \/ p[x][1] = p[y][1] /\ p[x][2] < p[y][2]}

\* If all of r is drawn from the first m sequences, r \o ss[m + 1] is drawn from m + 1.
LEMMA DrawnMore ==
    ASSUME NEW ss, NEW m \in Nat, m + 1 \in DOMAIN ss, NEW r, IsSeq(r), NEW e, e = ss[m + 1], IsSeq(e),
           NEW p \in Drawn(ss, r), \A x \in DOMAIN r : p[x][1] \in 1 .. m
    PROVE  \E o \in Drawn(ss, r \o e) : \A x \in DOMAIN (r \o e) : o[x][1] \in 1 .. m + 1
<1>1. PICK l \in Nat : l = Len(r) /\ DOMAIN r = 1 .. l
  BY SeqDomain
<1>2. PICK n \in Nat : n = Len(e) /\ DOMAIN e = 1 .. n
  BY SeqDomain
<1>3. PICK c : c = r \o e
  OBVIOUS
<1>4. /\ DOMAIN c = 1 .. l + n
      /\ \A x \in 1 .. l : c[x] = r[x]
      /\ \A x \in 1 .. n : c[l + x] = e[x]
  BY <1>1, <1>2, <1>3, ConcatSeq
<1>5. /\ p \in [1 .. l -> (DOMAIN ss) \X Nat]
      /\ \A x \in 1 .. l : p[x][2] \in DOMAIN ss[p[x][1]] /\ r[x] = ss[p[x][1]][p[x][2]]
      /\ \A x, y \in 1 .. l : x < y => \/ p[x][1] < p[y][1]
                                       \/ p[x][1] = p[y][1] /\ p[x][2] < p[y][2]
  BY <1>1 DEF Drawn
<1> DEFINE o == [x \in 1 .. l + n |-> IF x <= l THEN p[x] ELSE <<m + 1, x - l>>]
<1>6. ASSUME NEW x \in 1 .. l + n, x <= l
      PROVE  x \in 1 .. l /\ o[x] = p[x]
  BY <1>6
<1>7. ASSUME NEW x \in 1 .. l + n, ~ x <= l
      PROVE  x - l \in 1 .. n /\ o[x][1] = m + 1 /\ o[x][2] = x - l /\ c[x] = e[x - l]
  <2>1. x - l \in 1 .. n /\ l + (x - l) = x
    BY <1>7
  <2>2. c[x] = e[x - l]
    BY <2>1, <1>4
  <2>. QED  BY <2>1, <2>2, <1>7
<1>8. o \in [1 .. l + n -> (DOMAIN ss) \X Nat]
  <2>1. ASSUME NEW x \in 1 .. l + n PROVE (IF x <= l THEN p[x] ELSE <<m + 1, x - l>>) \in (DOMAIN ss) \X Nat
    <3>1. CASE x <= l
      <4>1. x \in 1 .. l
        BY <3>1
      <4>. QED  BY <3>1, <4>1, <1>5
    <3>2. CASE ~ x <= l
      <4>1. x - l \in Nat
        BY <3>2
      <4>. QED  BY <3>2, <4>1
    <3>. QED  BY <3>1, <3>2
  <2>. QED  BY <2>1
<1> HIDE DEF o
<1>9. ASSUME NEW x \in 1 .. l + n
      PROVE  /\ o[x][2] \in DOMAIN ss[o[x][1]] /\ c[x] = ss[o[x][1]][o[x][2]]
             /\ o[x][1] \in 1 .. m + 1
  <2>1. CASE x <= l
    <3>1. x \in 1 .. l /\ o[x] = p[x]
      BY <2>1, <1>6
    <3>2. p[x][1] \in 1 .. m /\ c[x] = r[x]
      BY <3>1, <1>1, <1>4
    <3>3. p[x][2] \in DOMAIN ss[p[x][1]] /\ r[x] = ss[p[x][1]][p[x][2]]
      BY <3>1, <1>5
    <3>4. p[x][1] \in 1 .. m + 1
      BY <3>2
    <3>. QED  BY <3>1, <3>2, <3>3, <3>4
  <2>2. CASE ~ x <= l
    <3>1. x - l \in 1 .. n /\ o[x][1] = m + 1 /\ o[x][2] = x - l /\ c[x] = e[x - l]
      BY <2>2, <1>7
    <3>. QED  BY <3>1, <1>2
  <2>. QED  BY <2>1, <2>2
<1>10. ASSUME NEW x \in 1 .. l + n, NEW y \in 1 .. l + n, x < y
       PROVE  o[x][1] < o[y][1] \/ (o[x][1] = o[y][1] /\ o[x][2] < o[y][2])
  <2>1. CASE y <= l
    <3>1. x <= l
      BY <2>1, <1>10
    <3>2. x \in 1 .. l /\ y \in 1 .. l /\ o[x] = p[x] /\ o[y] = p[y]
      BY <2>1, <3>1, <1>6
    <3>. QED  BY <3>2, <1>5, <1>10
  <2>2. CASE ~ y <= l /\ x <= l
    <3>1. x \in 1 .. l /\ o[x] = p[x] /\ o[y][1] = m + 1
      BY <2>2, <1>6, <1>7
    <3>2. p[x][1] \in 1 .. m
      BY <3>1, <1>1
    <3>3. p[x][1] < m + 1
      BY <3>2
    <3>. QED  BY <3>1, <3>3
  <2>3. CASE ~ y <= l /\ ~ x <= l
    <3>1. o[x][1] = m + 1 /\ o[x][2] = x - l /\ o[y][1] = m + 1 /\ o[y][2] = y - l
      BY <2>3, <1>7
    <3>. QED  BY <3>1, <1>10
  <2>. QED  BY <2>1, <2>2, <2>3
<1>11. o \in Drawn(ss, c)
  BY <1>4, <1>8, <1>9, <1>10 DEF Drawn
<1>. QED  BY <1>3, <1>4, <1>9, <1>11

\* FlattenSeq(ss) holds elements of the sequences of ss, in their order.
LEMMA FlatSeq ==
    ASSUME NEW ss, IsSeq(ss), \A i \in DOMAIN ss : IsSeq(ss[i])
    PROVE  IsSeq(FlattenSeq(ss)) /\ Drawn(ss, FlattenSeq(ss)) # {}
<1>1. PICK n \in Nat : n = Len(ss) /\ DOMAIN ss = 1 .. n
  BY SeqDomain
<1>2. CASE n = 0
  <2>1. FlattenSeq(ss) = ss /\ DOMAIN ss = {}
    BY <1>1, <1>2 DEF FlattenSeq
  <2> DEFINE p == [x \in {} |-> x]
  <2>2. p \in [DOMAIN ss -> (DOMAIN ss) \X Nat]
    BY <2>1
  <2>3. p \in Drawn(ss, ss)
    BY <2>1, <2>2 DEF Drawn
  <2>. QED  BY <2>1, <2>3
<1>3. CASE n # 0
  <2>1. PICK U : \A i \in 1 .. n : ss[i] \in Seq(U)
    <3> DEFINE W == UNION {Range(ss[i]) : i \in 1 .. n}
    <3>1. ASSUME NEW i \in 1 .. n PROVE ss[i] \in Seq(W)
      <4>1. PICK t : t = ss[i]
        OBVIOUS
      <4>2. t \in Seq(Range(t)) /\ Range(t) \subseteq W
        BY <4>1, <1>1 DEF IsSeq
      <4>3. PICK V : V = W
        OBVIOUS
      <4>4. Range(t) \subseteq V
        BY <4>2, <4>3
      <4> HIDE DEF W
      <4>5. t \in Seq(V)
        BY <4>2, <4>4
      <4>. QED  BY <4>1, <4>3, <4>5
    <3>. QED  BY <3>1
  <2>2. PICK A : A = Seq(U)
    OBVIOUS
  <2>3. PICK a : a = <<>>
    OBVIOUS
  <2>4. PICK step \in [(1 .. n) \X A -> A] :
           \A i \in 1 .. n : \A v \in A : step[<<i, v>>] = v \o ss[i]
    <3> DEFINE st == [x \in (1 .. n) \X A |-> x[2] \o ss[x[1]]]
    <3>1. ASSUME NEW x \in (1 .. n) \X A PROVE x[2] \o ss[x[1]] \in A
      <4>1. x[1] \in 1 .. n /\ x[2] \in Seq(U)
        BY <2>2
      <4>2. ss[x[1]] \in Seq(U)
        BY <4>1, <2>1
      <4>. QED  BY <4>1, <4>2, <2>2
    <3>2. st \in [(1 .. n) \X A -> A]
      BY <3>1
    <3>3. \A i \in 1 .. n : \A v \in A : st[<<i, v>>] = v \o ss[i]
      OBVIOUS
    <3>. QED  BY <3>2, <3>3
  <2>5. PICK f \in Runs(A, a, n, step) : TRUE
    <3>1. a \in A /\ step \in [(1 .. n) \X A -> A]
      BY <2>2, <2>3
    <3>2. Runs(A, a, n, step) # {}
      BY <3>1, Recursion
    <3>. QED  BY <3>2
  <2>6. f \in [0 .. n -> A] /\ f[0] = a /\ \A i \in 1 .. n : f[i] = step[<<i, f[i - 1]>>]
    BY <2>5 DEF Runs
  <2>7. ASSUME NEW i \in 1 .. n
        PROVE  f[i - 1] \in Seq(U) /\ f[i] = f[i - 1] \o ss[i] /\ f[i] \in Seq(U)
    <3>1. i - 1 \in 0 .. n /\ i \in 0 .. n
      OBVIOUS
    <3>2. f[i - 1] \in A /\ f[i] \in A /\ f[i] = step[<<i, f[i - 1]>>]
      BY <3>1, <2>6
    <3>. QED  BY <3>2, <2>2, <2>4
  <2> DEFINE Def(h) == [i \in 1 .. n |-> IF i = 1 THEN ss[i] ELSE h[i - 1] \o ss[i]]
             h0 == [i \in 1 .. n |-> f[i]]
             g == CHOOSE h : h = Def(h)
  <2>8. h0 = Def(h0)
    <3>1. ASSUME NEW i \in 1 .. n PROVE h0[i] = Def(h0)[i]
      <4>1. CASE i = 1
        <5>1. f[1] = f[0] \o ss[1] /\ f[0] = <<>> /\ ss[1] \in Seq(U)
          <6>1. 1 \in 1 .. n /\ 1 - 1 = 0
            BY <4>1
          <6>. QED  BY <6>1, <2>1, <2>3, <2>6, <2>7
        <5>2. f[1] = ss[1]
          BY <5>1
        <5>. QED  BY <4>1, <5>2
      <4>2. CASE i # 1
        <5>1. i - 1 \in 1 .. n
          BY <4>2
        <5>2. f[i] = f[i - 1] \o ss[i]
          BY <2>7
        <5>. QED  BY <4>2, <5>1, <5>2
      <4>. QED  BY <4>1, <4>2
    <3>. QED  BY <3>1
  <2>9. g = Def(g)
    BY <2>8
  <2>10. FlattenSeq(ss) = g[n]
    BY <1>1, <1>3 DEF FlattenSeq
  <2>11. PICK e : e = g
    OBVIOUS
  <2>12. e = Def(e) /\ FlattenSeq(ss) = e[n]
    BY <2>9, <2>10, <2>11
  <2> HIDE DEF g, h0
  <2>13. \A i \in 1 .. n : e[i] = IF i = 1 THEN ss[i] ELSE e[i - 1] \o ss[i]
    BY <2>12
  <2> HIDE DEF Def
  <2> DEFINE Ok(i) == /\ IsSeq(e[i])
                      /\ \E p \in Drawn(ss, e[i]) : \A x \in DOMAIN e[i] : p[x][1] \in 1 .. i
             P == {0} \cup {i \in 1 .. n : Ok(i)}
  <2>14. ASSUME NEW i \in 1 .. n, i - 1 \in P PROVE i \in P
    <3>1. PICK t : t = ss[i]
      OBVIOUS
    <3>2. IsSeq(t)
      BY <3>1, <1>1
    <3>3. CASE i = 1
      <4>1. e[i] = <<>> \o t
        <5>1. t \in Seq(U)
          BY <3>1, <2>1
        <5>. QED  BY <5>1, <3>1, <3>3, <2>13
      <4>2. IsSeq(<<>>) /\ DOMAIN <<>> = {}
        BY NoSeq
      <4> DEFINE p0 == [x \in {} |-> x]
      <4>3. p0 \in Drawn(ss, <<>>)
        <5>1. p0 \in [DOMAIN <<>> -> (DOMAIN ss) \X Nat]
          BY <4>2
        <5>. QED  BY <5>1, <4>2 DEF Drawn
      <4> HIDE DEF p0
      <4>4. 0 + 1 \in DOMAIN ss /\ t = ss[0 + 1] /\ 0 \in Nat
        BY <3>1, <3>3, <1>1
      <4>5. \A x \in DOMAIN <<>> : p0[x][1] \in 1 .. 0
        BY <4>2
      <4>6. PICK r : r = <<>>
        OBVIOUS
      <4>7. \E o \in Drawn(ss, r \o t) : \A x \in DOMAIN (r \o t) : o[x][1] \in 1 .. 0 + 1
        BY <3>2, <4>2, <4>3, <4>4, <4>5, <4>6, DrawnMore
      <4>8. IsSeq(e[i])
        BY <4>1, <4>2, <3>2, ConcatSeq
      <4>9. 0 + 1 = i
        BY <3>3
      <4>. QED  BY <4>1, <4>6, <4>7, <4>8, <4>9
    <3>4. CASE i # 1
      <4>1. i - 1 \in 1 .. n /\ i - 1 \in Nat /\ (i - 1) + 1 = i
        BY <3>4
      <4>2. Ok(i - 1)
        BY <4>1, <2>14
      <4>3. PICK r : r = e[i - 1]
        OBVIOUS
      <4>4. PICK p \in Drawn(ss, r) : \A x \in DOMAIN r : p[x][1] \in 1 .. i - 1
        BY <4>2, <4>3
      <4>5. IsSeq(r) /\ e[i] = r \o t
        BY <4>2, <4>3, <3>1, <3>4, <2>13
      <4>6. PICK m \in Nat : m = i - 1
        BY <4>1
      <4>7. m + 1 \in DOMAIN ss /\ t = ss[m + 1] /\ m + 1 = i
        BY <4>1, <4>6, <3>1, <1>1
      <4>10. p \in Drawn(ss, r) /\ \A x \in DOMAIN r : p[x][1] \in 1 .. m
        BY <4>4, <4>6
      <4>11. IsSeq(r)
        BY <4>5
      <4>8. \E o \in Drawn(ss, r \o t) : \A x \in DOMAIN (r \o t) : o[x][1] \in 1 .. m + 1
        BY <3>2, <4>7, <4>10, <4>11, DrawnMore
      <4>9. IsSeq(e[i])
        BY <4>5, <3>2, ConcatSeq
      <4>. QED  BY <4>5, <4>7, <4>8, <4>9
    <3>. QED  BY <3>3, <3>4
  <2> HIDE DEF Ok
  <2>15. PICK T : T = P
    OBVIOUS
  <2>16. \A i \in 0 .. n : i \in T
    <3>1. 0 \in T /\ \A i \in 1 .. n : i - 1 \in T => i \in T
      BY <2>14, <2>15
    <3> HIDE DEF P
    <3>. QED  BY <3>1, Induct
  <2>17. Ok(n)
    <3>1. n \in 0 .. n
      OBVIOUS
    <3>2. n \in P
      BY <3>1, <2>15, <2>16
    <3>. QED  BY <3>2, <1>3
  <2>. QED  BY <2>12, <2>17 DEF Ok
<1>. QED  BY <1>2, <1>3
=============================================================================
