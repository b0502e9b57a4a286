------------------------------ MODULE Folding ------------------------------
(***************************************************************************)
(* What holds after each step of FoldLeft holds of its result.  Op is the  *)
(* step, of a value and an item, Good what holds of the value after n      *)
(* items; a, b and c are what both may refer to, w is the value at first.  *)
(* To use the lemma of some operators is to make an instance for them: it  *)
(* extends next to nothing, for each instance is another copy of all that. *)
(***************************************************************************)
EXTENDS Integers, TLAPS

CONSTANTS Op(_, _, _, _, _), Good(_, _, _, _, _, _)

\* The greatest of some numbers, the last of the items to be folded.
Last(s) == CHOOSE x \in s : \A y \in s : x >= y

\* FoldLeft, as it is defined in the community modules.
Fold(a, b, c, w, seq) ==
    LET iter[s \in SUBSET DOMAIN seq] ==
            IF s = {} THEN w ELSE Op(a, b, c, iter[s \ {Last(s)}], seq[Last(s)])
    IN  iter[DOMAIN seq]

\* A number that is not exceeded is the last.
LEMMA LastIs ==
    ASSUME NEW n \in Nat, NEW s \in SUBSET (1 .. n), n \in s
    PROVE  Last(s) = n
<1>1. \A y \in s : n >= y
  OBVIOUS
<1>2. Last(s) \in s /\ \A y \in s : Last(s) >= y
  BY <1>1 DEF Last
<1>3. PICK x : x = Last(s)
  OBVIOUS
<1>4. x \in 1 .. n /\ x >= n
  BY <1>2, <1>3
<1>. QED  BY <1>3, <1>4

\* Induction up to n, for membership in a set (Induct of ListProofs).
Inductive(n) == \A P : 0 \in P /\ (\A i \in 1 .. n : i - 1 \in P => i \in P) => \A i \in 0 .. n : i \in P

\* The equation of the recursion in FoldLeft, over the subsets of 1 .. n.
Iter(a, b, c, w, seq, n, h) ==
    [s \in SUBSET (1 .. n) |->
        IF s = {} THEN w ELSE Op(a, b, c, h[s \ {Last(s)}], seq[Last(s)])]

\* It has a solution.
LEMMA IterHas ==
    ASSUME NEW a, NEW b, NEW c, NEW w, NEW seq, NEW n \in Nat, Inductive(n)
    PROVE  \E h : h = Iter(a, b, c, w, seq, n, h)
<1> DEFINE P == {m \in 0 .. n : \E h : h = Iter(a, b, c, w, seq, m, h)}
<1>1. 0 \in P
  <2> DEFINE h == [s \in SUBSET (1 .. 0) |-> w]
  <2>1. \A s \in SUBSET (1 .. 0) : s = {}
    OBVIOUS
  <2>2. h = Iter(a, b, c, w, seq, 0, h)
    BY <2>1 DEF Iter
  <2>3. 0 \in 0 .. n
    OBVIOUS
  <2>. QED  BY <2>2, <2>3
<1>2. ASSUME NEW m \in 1 .. n, m - 1 \in P PROVE m \in P
  <2>1. PICK h : h = Iter(a, b, c, w, seq, m - 1, h)
    BY <1>2
  <2>2. \A s \in SUBSET (1 .. m - 1) : h[s] = IF s = {} THEN w ELSE Op(a, b, c, h[s \ {Last(s)}], seq[Last(s)])
    BY <2>1 DEF Iter
  <2> DEFINE g == [s \in SUBSET (1 .. m) |->
                     IF m \in s THEN Op(a, b, c, h[s \ {m}], seq[m]) ELSE h[s]]
  <2>3. ASSUME NEW s \in SUBSET (1 .. m)
        PROVE  g[s] = IF s = {} THEN w ELSE Op(a, b, c, g[s \ {Last(s)}], seq[Last(s)])
    <3>0. m \in Nat
      OBVIOUS
    <3>1. CASE m \in s
      <4>4. Last(s) = m
        BY <3>0, <3>1, LastIs
      <4>5. s \ {m} \in SUBSET (1 .. m) /\ m \notin s \ {m}
        OBVIOUS
      <4>6. g[s \ {m}] = h[s \ {m}]
        BY <4>5
      <4>7. g[s] = Op(a, b, c, h[s \ {m}], seq[m])
        BY <3>1
      <4> HIDE DEF g
      <4>. QED  BY <3>1, <4>4, <4>6, <4>7
    <3>2. CASE m \notin s
      <4>1. s \in SUBSET (1 .. m - 1)
        BY <3>0, <3>2
      <4>2. s \ {Last(s)} \in SUBSET (1 .. m) /\ m \notin s \ {Last(s)}
        BY <3>2
      <4>3. g[s \ {Last(s)}] = h[s \ {Last(s)}] /\ g[s] = h[s]
        BY <3>2, <4>2
      <4> HIDE DEF g
      <4>. QED  BY <2>2, <4>1, <4>3
    <3>. QED  BY <3>1, <3>2
  <2>4. g = Iter(a, b, c, w, seq, m, g)
    <3>1. DOMAIN g = SUBSET (1 .. m) /\ g = [s \in SUBSET (1 .. m) |-> g[s]]
      OBVIOUS
    <3> HIDE DEF g
    <3>. QED  BY <2>3, <3>1 DEF Iter
  <2> HIDE DEF g
  <2>. QED  BY <2>4
<1>3. PICK T : T = P
  OBVIOUS
<1>4. \A i \in 0 .. n : i \in T
  <2>1. 0 \in T /\ \A i \in 1 .. n : i - 1 \in T => i \in T
    BY <1>1, <1>2, <1>3
  <2> HIDE DEF P
  <2>. QED  BY <2>1 DEF Inductive
<1>5. n \in P
  BY <1>3, <1>4
<1>. QED  BY <1>5

\* Good goes from each step to the next, so it goes to the end.
LEMMA FoldGood ==
    ASSUME NEW a, NEW b, NEW c, NEW w, NEW seq, NEW n \in Nat, Inductive(n), DOMAIN seq = 1 .. n,
           Good(a, b, c, w, 0, w),
           \A i \in 1 .. n : \A v :
              Good(a, b, c, w, i - 1, v) => Good(a, b, c, w, i, Op(a, b, c, v, seq[i]))
    PROVE  Good(a, b, c, w, n, Fold(a, b, c, w, seq))
<1> DEFINE g == CHOOSE h : h = Iter(a, b, c, w, seq, n, h)
<1>2. g = Iter(a, b, c, w, seq, n, g)
  BY IterHas
<1>3. Fold(a, b, c, w, seq) = g[1 .. n]
  BY DEF Fold, Iter
<1>4. PICK e : e = g
  OBVIOUS
<1>5. e = Iter(a, b, c, w, seq, n, e) /\ Fold(a, b, c, w, seq) = e[1 .. n]
  BY <1>2, <1>3, <1>4
<1> HIDE DEF g
<1>6. \A s \in SUBSET (1 .. n) : e[s] = IF s = {} THEN w ELSE Op(a, b, c, e[s \ {Last(s)}], seq[Last(s)])
  BY <1>5 DEF Iter
<1> DEFINE P == {i \in 0 .. n : Good(a, b, c, w, i, e[1 .. i])}
<1>7. 0 \in P
  <2>1. 1 .. 0 = {} /\ 1 .. 0 \in SUBSET (1 .. n) /\ 0 \in 0 .. n
    OBVIOUS
  <2>2. e[1 .. 0] = w
    BY <1>6, <2>1
  <2>. QED  BY <2>1, <2>2
<1>8. ASSUME NEW i \in 1 .. n, i - 1 \in P PROVE i \in P
  <2>1. PICK s : s = 1 .. i
    OBVIOUS
  <2>2. s \in SUBSET (1 .. i) /\ i \in s /\ i \in Nat
    BY <2>1
  <2>3. s \in SUBSET (1 .. n) /\ s # {}
    <3>1. \A x \in s : x \in 1 .. n
      BY <2>1
    <3>. QED  BY <2>2, <3>1
  <2>4. Last(s) = i
    BY <2>2, LastIs
  <2>5. s \ {i} = 1 .. i - 1
    BY <2>1
  <2>6. e[s] = Op(a, b, c, e[s \ {Last(s)}], seq[Last(s)])
    BY <1>6, <2>3
  <2>7. e[1 .. i] = Op(a, b, c, e[1 .. i - 1], seq[i])
    BY <2>1, <2>4, <2>5, <2>6
  <2>8. Good(a, b, c, w, i - 1, e[1 .. i - 1])
    BY <1>8
  <2>9. i \in 0 .. n
    OBVIOUS
  <2>10. Good(a, b, c, w, i, Op(a, b, c, e[1 .. i - 1], seq[i]))
    BY <2>8, <2>9
  <2>. QED  BY <2>7, <2>9, <2>10
<1>9. PICK T : T = P
  OBVIOUS
<1>10. \A i \in 0 .. n : i \in T
  <2>1. 0 \in T /\ \A i \in 1 .. n : i - 1 \in T => i \in T
    BY <1>7, <1>8, <1>9
  <2> HIDE DEF P
  <2>. QED  BY <2>1 DEF Inductive
<1>11. n \in P
  BY <1>9, <1>10
<1>. QED  BY <1>5, <1>11
=============================================================================
