----------------------------- MODULE ResultsProofs -----------------------------
(***************************************************************************)
(* What InOrder, Without, Sorted and Merged compute, for all sequences.    *)
(* Induction rests on the least element of a set of naturals.              *)
(***************************************************************************)
EXTENDS Results, SequenceTheorems, FiniteSetTheorems, WellFoundedInduction, TLAPS

-----------------------------------------------------------------------------
(* Induction.                                                                *)

\* A set of naturals that is not empty has a least element.
LEMMA LeastElement ==
  ASSUME NEW S, S \subseteq Nat, S # {}
  PROVE  \E x \in S : \A y \in S : x <= y
  <1>1. PICK x \in S : \A y \in S : <<y, x>> \notin OpToRel(<, Nat)
    BY NatLessThanWellFounded, WFMin
  <1>2. \A y \in S : ~(y < x)
    BY <1>1 DEF OpToRel
  <1>3. QED
    BY <1>2

\* What holds of 0, and of the successor of each number up to n that it holds of,
\* holds of all up to n.
LEMMA UpTo ==
  ASSUME NEW n \in Nat, NEW S, 0 \in S, \A i \in 0..(n - 1) : i \in S => i + 1 \in S
  PROVE  0..n \subseteq S
  <1> SUFFICES ASSUME {i \in 0..n : i \notin S} # {} PROVE FALSE
    OBVIOUS
  <1>1. PICK i \in 0..n : i \notin S /\ \A j \in 0..n : j \notin S => i <= j
    <2>1. {i \in 0..n : i \notin S} \subseteq Nat
      OBVIOUS
    <2>2. QED
      BY <2>1, LeastElement
  <1>2. i # 0 /\ i - 1 \in 0..(n - 1) /\ i - 1 \in 0..n /\ (i - 1) + 1 = i
    BY <1>1
  <1>3. i - 1 \in S
    BY <1>1, <1>2
  <1>4. QED
    BY <1>1, <1>2, <1>3

\* What a recursion over 0..n computes, each step from the number and the value before.
Iterates(f, n, first, step) ==
    /\ f[0] = first
    /\ \A i \in 1..n : f[i] = step[<<i, f[i - 1]>>]

\* A function that repeats a step exists.
LEMMA Iterated ==
  ASSUME NEW n \in Nat, NEW S, NEW first \in S, NEW step \in [(1..n) \X S -> S]
  PROVE  \E f \in [0..n -> S] : Iterates(f, n, first, step)
  <1> USE DEF Iterates
  <1> DEFINE Is(f, m) == Iterates(f, m, first, step)
             Good == {m \in 0..n : \E f \in [0..m -> S] : Is(f, m)}
  <1>1. 0 \in Good
    <2>1. Is([i \in 0..0 |-> first], 0) /\ [i \in 0..0 |-> first] \in [0..0 -> S]
      OBVIOUS
    <2>2. 0 \in 0..n
      OBVIOUS
    <2>3. QED
      BY <2>1, <2>2
  <1>2. ASSUME NEW m \in 0..(n - 1), m \in Good PROVE m + 1 \in Good
    <2>1. PICK f \in [0..m -> S] : Is(f, m)
      BY <1>2
    <2> DEFINE g == [i \in 0..(m + 1) |-> IF i = m + 1 THEN step[<<m + 1, f[m]>>] ELSE f[i]]
    <2>2. m \in Nat /\ m + 1 \in 1..n /\ m \in 0..m /\ f[m] \in S
      BY <1>2
    <2>3. step[<<m + 1, f[m]>>] \in S
      BY <2>2
    <2>4. \A i \in 0..m : g[i] = f[i]
      BY <2>2
    <2>5. g[m + 1] = step[<<m + 1, f[m]>>]
      BY <2>2
    <2>6. g \in [0..(m + 1) -> S]
      <3>1. \A i \in 0..(m + 1) : (IF i = m + 1 THEN step[<<m + 1, f[m]>>] ELSE f[i]) \in S
        BY <2>2, <2>3
      <3>2. QED
        BY <3>1
    <2> HIDE DEF g
    <2>7. Is(g, m + 1)
      <3>1. g[0] = first
        BY <2>1, <2>2, <2>4
      <3>2. ASSUME NEW i \in 1..(m + 1) PROVE g[i] = step[<<i, g[i - 1]>>]
        <4>1. CASE i = m + 1
          BY <4>1, <2>2, <2>4, <2>5
        <4>2. CASE i # m + 1
          <5>1. i \in 1..m /\ i \in 0..m /\ i - 1 \in 0..m
            BY <4>2, <2>2
          <5>2. QED
            BY <5>1, <2>1, <2>4
        <4>3. QED
          BY <4>1, <4>2
      <3>3. QED
        BY <3>1, <3>2
    <2>8. m + 1 \in 0..n
      BY <2>2
    <2>9. QED
      BY <2>6, <2>7, <2>8
  <1>3. 0..n \subseteq Good
    BY <1>1, <1>2, UpTo
  <1>4. n \in Good
    BY <1>3
  <1>5. QED
    BY <1>4

-----------------------------------------------------------------------------
(* Reduce: the results in order.                                             *)

\* InOrder (sync.hpp:159-161) joins one part at a time.
LEMMA InOrderSteps ==
  ASSUME NEW n \in Nat, NEW T, NEW parts \in [0..(n - 1) -> Seq(T)]
  PROVE  \E f \in [0..n -> Seq(T)] :
            /\ f[0] = <<>>
            /\ \A i \in 1..n : f[i] = f[i - 1] \o parts[i - 1]
            /\ InOrder(parts, n) = f[n]
  <1> DEFINE Eqn(f) == f = [i \in 0..n |-> IF i = 0 THEN <<>> ELSE f[i - 1] \o parts[i - 1]]
             step == [p \in (1..n) \X Seq(T) |-> p[2] \o parts[p[1] - 1]]
             h == CHOOSE f : Eqn(f)
  <1>1. \A i \in 1..n : i - 1 \in 0..(n - 1) /\ i - 1 \in 0..n
    OBVIOUS
  <1>2. step \in [(1..n) \X Seq(T) -> Seq(T)]
    <2> SUFFICES ASSUME NEW p \in (1..n) \X Seq(T) PROVE p[2] \o parts[p[1] - 1] \in Seq(T)
      OBVIOUS
    <2>1. p[2] \in Seq(T) /\ parts[p[1] - 1] \in Seq(T)
      BY <1>1
    <2>2. QED
      BY <2>1
  <1>3. PICK f \in [0..n -> Seq(T)] : Iterates(f, n, <<>>, step)
    <2>1. <<>> \in Seq(T)
      OBVIOUS
    <2> DEFINE S == Seq(T)
    <2>2. step \in [(1..n) \X S -> S] /\ <<>> \in S
      BY <1>2, <2>1
    <2> HIDE DEF step, S
    <2>3. \E f \in [0..n -> S] : Iterates(f, n, <<>>, step)
      BY <2>2, Iterated
    <2>4. QED
      BY <2>3 DEF S
  <1>4. \A i \in 1..n : f[i] = f[i - 1] \o parts[i - 1]
    <2> SUFFICES ASSUME NEW i \in 1..n PROVE f[i] = f[i - 1] \o parts[i - 1]
      OBVIOUS
    <2>1. <<i, f[i - 1]>> \in (1..n) \X Seq(T)
      BY <1>1
    <2>2. step[<<i, f[i - 1]>>] = f[i - 1] \o parts[i - 1]
      BY <2>1
    <2>3. QED
      BY <1>3, <2>2 DEF Iterates
  <1>5. Eqn(f)
    <2>1. \A i \in 0..n : f[i] = IF i = 0 THEN <<>> ELSE f[i - 1] \o parts[i - 1]
      <3>1. \A i \in 0..n : i = 0 \/ (i # 0 /\ i \in 1..n)
        OBVIOUS
      <3>2. QED
        BY <3>1, <1>3, <1>4 DEF Iterates
    <2> DEFINE g == [i \in 0..n |-> IF i = 0 THEN <<>> ELSE f[i - 1] \o parts[i - 1]]
    <2>2. DOMAIN g = DOMAIN f /\ \A i \in 0..n : g[i] = f[i]
      BY <2>1
    <2>3. g = [i \in 0..n |-> g[i]] /\ f = [i \in 0..n |-> f[i]]
      OBVIOUS
    <2> HIDE DEF g
    <2>4. f = g
      BY <2>2, <2>3
    <2>5. QED
      BY <2>4 DEF g
  <1>6. Eqn(h)
    BY <1>5
  <1>7. InOrder(parts, n) = h[n]
    BY DEF InOrder
  <1> HIDE DEF h
  <1>8. h[0] = <<>> /\ \A i \in 1..n : h[i] = h[i - 1] \o parts[i - 1]
    <2>1. \A i \in 0..n : h[i] = IF i = 0 THEN <<>> ELSE h[i - 1] \o parts[i - 1]
      BY <1>6
    <2>2. 0 \in 0..n /\ \A i \in 1..n : i \in 0..n /\ i # 0
      OBVIOUS
    <2>3. QED
      BY <2>1, <2>2
  <1>9. h \in [0..n -> Seq(T)]
    <2> DEFINE Typed == {i \in 0..n : h[i] \in Seq(T)}
    <2>1. 0 \in Typed
      <3>1. 0 \in 0..n /\ <<>> \in Seq(T)
        OBVIOUS
      <3>2. QED
        BY <3>1, <1>8
    <2>2. \A i \in 0..(n - 1) : i \in Typed => i + 1 \in Typed
      <3> SUFFICES ASSUME NEW i \in 0..(n - 1), h[i] \in Seq(T)
                   PROVE  i + 1 \in 0..n /\ h[i + 1] \in Seq(T)
        OBVIOUS
      <3>1. i + 1 \in 1..n /\ (i + 1) - 1 = i /\ parts[i] \in Seq(T)
        OBVIOUS
      <3>2. QED
        <4>1. h[i + 1] = h[i] \o parts[i]
          BY <3>1, <1>8
        <4>2. i + 1 \in 0..n
          BY <3>1
        <4>3. QED
          BY <3>1, <4>1, <4>2
    <2>3. 0..n \subseteq Typed
      <3> HIDE DEF Typed
      <3>1. QED
        BY <2>1, <2>2, UpTo
    <2>4. QED
      BY <1>6, <2>3
  <1>10. QED
    BY <1>7, <1>8, <1>9

\* Pieces of a sequence, cut at these places.
IsCut(cut, n, s) ==
    /\ cut \in [0..n -> 0..Len(s)]
    /\ cut[0] = 0 /\ cut[n] = Len(s)
    /\ \A i \in 0..(n - 1) : cut[i] <= cut[i + 1]

\* Neighbouring pieces make a longer one.
LEMMA OneMorePiece ==
  ASSUME NEW T, NEW s \in Seq(T), NEW a \in 0..Len(s), NEW b \in 0..Len(s), a <= b
  PROVE  SubSeq(s, 1, a) \o SubSeq(s, a + 1, b) = SubSeq(s, 1, b)
  <1>1. /\ SubSeq(s, 1, a) \in Seq(T) /\ Len(SubSeq(s, 1, a)) = a
        /\ \A k \in 1..a : SubSeq(s, 1, a)[k] = s[k]
    OBVIOUS
  <1>2. /\ SubSeq(s, a + 1, b) \in Seq(T) /\ Len(SubSeq(s, a + 1, b)) = b - a
        /\ \A k \in 1..(b - a) : SubSeq(s, a + 1, b)[k] = s[a + k]
    OBVIOUS
  <1>3. /\ SubSeq(s, 1, b) \in Seq(T) /\ Len(SubSeq(s, 1, b)) = b
        /\ \A k \in 1..b : SubSeq(s, 1, b)[k] = s[k]
    OBVIOUS
  <1> DEFINE x == SubSeq(s, 1, a) y == SubSeq(s, a + 1, b) z == SubSeq(s, 1, b)
  <1> HIDE DEF x, y, z
  <1>4. x \o y \in Seq(T) /\ Len(x \o y) = b
    BY <1>1, <1>2 DEF x, y
  <1>5. ASSUME NEW k \in 1..b PROVE (x \o y)[k] = z[k]
    <2>1. CASE k <= a
      BY <2>1, <1>1, <1>2, <1>3 DEF x, y, z
    <2>2. CASE ~(k <= a)
      <3>1. k - a \in 1..(b - a) /\ a + (k - a) = k /\ k > a
        BY <2>2
      <3>2. (x \o y)[k] = y[k - a]
        BY <3>1, <1>1, <1>2 DEF x, y
      <3>3. QED
        BY <3>1, <3>2, <1>2, <1>3 DEF y, z
    <2>3. QED
      BY <2>1, <2>2
  <1>6. x \o y = z
    BY <1>3, <1>4, <1>5, SeqEqual DEF z
  <1>7. QED
    BY <1>6 DEF x, y, z

ArePieces(parts, s, cut, n) ==
    \A i \in 0..(n - 1) : parts[i] = SubSeq(s, cut[i] + 1, cut[i + 1])

\* The pieces of a sequence, joined in order, are the sequence.
LEMMA PiecesInOrder ==
  ASSUME NEW n \in Nat, NEW T, NEW s \in Seq(T), NEW cut, IsCut(cut, n, s),
         NEW parts \in [0..(n - 1) -> Seq(T)], ArePieces(parts, s, cut, n)
  PROVE  InOrder(parts, n) = s
  <1>1. PICK f \in [0..n -> Seq(T)] :
            /\ f[0] = <<>>
            /\ \A i \in 1..n : f[i] = f[i - 1] \o parts[i - 1]
            /\ InOrder(parts, n) = f[n]
    BY InOrderSteps
  <1> DEFINE Good == {i \in 0..n : f[i] = SubSeq(s, 1, cut[i])}
  <1>2. 0 \in Good
    BY <1>1 DEF IsCut
  <1>3. ASSUME NEW i \in 0..(n - 1), i \in Good PROVE i + 1 \in Good
    <2>1. i + 1 \in 1..n /\ (i + 1) - 1 = i /\ i \in 0..n /\ i + 1 \in 0..n
      OBVIOUS
    <2>2. f[i + 1] = SubSeq(s, 1, cut[i]) \o SubSeq(s, cut[i] + 1, cut[i + 1])
      BY <1>1, <1>3, <2>1 DEF ArePieces
    <2>3. cut[i] \in 0..Len(s) /\ cut[i + 1] \in 0..Len(s) /\ cut[i] <= cut[i + 1]
      BY <2>1 DEF IsCut
    <2>4. f[i + 1] = SubSeq(s, 1, cut[i + 1])
      BY <2>2, <2>3, OneMorePiece
    <2>5. QED
      BY <2>1, <2>4
  <1>4. 0..n \subseteq Good
    <2> HIDE DEF Good
    <2>1. QED
      BY <1>2, <1>3, UpTo
  <1>5. f[n] = SubSeq(s, 1, Len(s))
    BY <1>4 DEF IsCut
  <1>6. QED
    BY <1>1, <1>5

Drops(f, s, S) ==
    /\ f[0] = <<>>
    /\ \A k \in 1..Len(s) : f[k] = IF s[k] \in S THEN f[k - 1] ELSE Append(f[k - 1], s[k])

\* Without takes one element at a time.
LEMMA WithoutSteps ==
  ASSUME NEW T, NEW s \in Seq(T), NEW S
  PROVE  \E f \in [0..Len(s) -> Seq(T)] : Drops(f, s, S) /\ Without(s, S) = f[Len(s)]
  <1> DEFINE n == Len(s)
             Next(x, k) == IF s[k] \in S THEN x ELSE Append(x, s[k])
             Eqn(f) == f = [k \in 0..n |->
                             IF k = 0 THEN <<>>
                             ELSE IF s[k] \in S THEN f[k - 1] ELSE Append(f[k - 1], s[k])]
             step == [p \in (1..n) \X Seq(T) |-> Next(p[2], p[1])]
             h == CHOOSE f : Eqn(f)
  <1>0. n \in Nat /\ \A k \in 1..n : s[k] \in T
    OBVIOUS
  <1>1. \A k \in 1..n : k - 1 \in 0..n /\ k \in 0..n /\ k # 0
    BY <1>0
  <1>2. \A x \in Seq(T), k \in 1..n : Next(x, k) \in Seq(T)
    BY <1>0
  <1>3. PICK f \in [0..n -> Seq(T)] : Iterates(f, n, <<>>, step)
    <2> DEFINE Q == Seq(T)
    <2>1. step \in [(1..n) \X Q -> Q] /\ <<>> \in Q
      <3> HIDE DEF Next
      <3> SUFFICES ASSUME NEW p \in (1..n) \X Seq(T) PROVE Next(p[2], p[1]) \in Seq(T)
        OBVIOUS
      <3>1. p[1] \in 1..n /\ p[2] \in Seq(T)
        OBVIOUS
      <3>2. QED
        BY <3>1, <1>2
    <2> HIDE DEF step, Q, n
    <2>2. \E f \in [0..n -> Q] : Iterates(f, n, <<>>, step)
      BY <2>1, <1>0, Iterated
    <2>3. QED
      BY <2>2 DEF Q
  <1>4. \A k \in 1..n : f[k] = Next(f[k - 1], k)
    <2> HIDE DEF Next
    <2> SUFFICES ASSUME NEW k \in 1..n PROVE f[k] = Next(f[k - 1], k)
      OBVIOUS
    <2>1. <<k, f[k - 1]>> \in (1..n) \X Seq(T)
      BY <1>1
    <2>2. step[<<k, f[k - 1]>>] = Next(f[k - 1], k)
      BY <2>1
    <2>3. QED
      BY <1>3, <2>2 DEF Iterates
  <1>5. Eqn(f)
    <2> HIDE DEF n
    <2>1. \A k \in 0..n : f[k] = IF k = 0 THEN <<>> ELSE Next(f[k - 1], k)
      <3> HIDE DEF Next
      <3>1. \A k \in 0..n : k = 0 \/ (k # 0 /\ k \in 1..n)
        BY <1>0
      <3>2. QED
        BY <3>1, <1>3, <1>4 DEF Iterates
    <2> DEFINE g == [k \in 0..n |-> IF k = 0 THEN <<>> ELSE Next(f[k - 1], k)]
    <2>2. DOMAIN g = DOMAIN f /\ \A k \in 0..n : g[k] = f[k]
      BY <2>1
    <2>3. g = [k \in 0..n |-> g[k]] /\ f = [k \in 0..n |-> f[k]]
      OBVIOUS
    <2>4. f = g
      <3> HIDE DEF g
      <3>1. QED
        BY <2>2, <2>3
    <2>5. QED
      BY <2>4
  <1>6. Eqn(h)
    BY <1>5
  <1>7. Without(s, S) = h[n]
    BY DEF Without
  <1> HIDE DEF h, n
  <1>8. h[0] = <<>> /\ \A k \in 1..n : h[k] = Next(h[k - 1], k)
    <2>1. \A k \in 0..n : h[k] = IF k = 0 THEN <<>> ELSE Next(h[k - 1], k)
      BY <1>6
    <2>2. 0 \in 0..n /\ \A k \in 1..n : k \in 0..n /\ k # 0
      BY <1>0
    <2> HIDE DEF Next
    <2>3. QED
      BY <2>1, <2>2
  <1>9. h \in [0..n -> Seq(T)]
    <2> DEFINE Typed == {k \in 0..n : h[k] \in Seq(T)}
    <2>1. 0 \in Typed
      <3>1. 0 \in 0..n /\ <<>> \in Seq(T)
        BY <1>0
      <3>2. QED
        BY <3>1, <1>8
    <2>2. \A k \in 0..(n - 1) : k \in Typed => k + 1 \in Typed
      <3> SUFFICES ASSUME NEW k \in 0..(n - 1), h[k] \in Seq(T)
                   PROVE  k + 1 \in 0..n /\ h[k + 1] \in Seq(T)
        OBVIOUS
      <3>1. k + 1 \in 1..n /\ k + 1 \in 0..n /\ (k + 1) - 1 = k
        BY <1>0
      <3> HIDE DEF Next
      <3>2. h[k + 1] = Next(h[k], k + 1)
        BY <3>1, <1>8
      <3>3. QED
        BY <3>1, <3>2, <1>2
    <2>3. 0..n \subseteq Typed
      <3> HIDE DEF Typed
      <3>1. QED
        BY <1>0, <2>1, <2>2, UpTo
    <2>4. QED
      BY <1>6, <2>3
  <1>10. QED
    BY <1>7, <1>8, <1>9 DEF n, Drops

IsJoin(r, s, t) == r = s \o t

\* What is left of two sequences is left of the one and then of the other.
LEMMA WithoutConcat ==
  ASSUME NEW T, NEW s \in Seq(T), NEW t \in Seq(T), NEW S, NEW r, IsJoin(r, s, t)
  PROVE  IsJoin(Without(r, S), Without(s, S), Without(t, S))
  <1>0. \A x, y \in Seq(T), e \in T : Append(x \o y, e) = x \o Append(y, e)
    <2> SUFFICES ASSUME NEW x \in Seq(T), NEW y \in Seq(T), NEW e \in T
                 PROVE  Append(x \o y, e) = x \o Append(y, e)
      OBVIOUS
    <2>1. x \o y \in Seq(T) /\ <<e>> \in Seq(T)
      OBVIOUS
    <2>2. Append(x \o y, e) = (x \o y) \o <<e>> /\ Append(y, e) = y \o <<e>>
      BY <2>1, AppendIsConcat
    <2>3. QED
      BY <2>1, <2>2, ConcatAssociative
  <1>1. /\ r \in Seq(T) /\ Len(r) = Len(s) + Len(t)
        /\ \A k \in 1..Len(s) : r[k] = s[k]
        /\ \A k \in 1..Len(t) : r[Len(s) + k] = t[k]
    BY DEF IsJoin
  <1>2. Len(s) \in Nat /\ Len(t) \in Nat
    OBVIOUS
  <1>3. PICK f \in [0..Len(r) -> Seq(T)] : Drops(f, r, S) /\ Without(r, S) = f[Len(r)]
    <2>1. r \in Seq(T)
      BY <1>1
    <2>2. QED
      BY <2>1, WithoutSteps
  <1>4. PICK g \in [0..Len(s) -> Seq(T)] : Drops(g, s, S) /\ Without(s, S) = g[Len(s)]
    BY WithoutSteps
  <1>5. PICK h \in [0..Len(t) -> Seq(T)] : Drops(h, t, S) /\ Without(t, S) = h[Len(t)]
    BY WithoutSteps
  <1>6. f[Len(s)] = g[Len(s)]
    <2> DEFINE Same == {k \in 0..Len(s) : f[k] = g[k]}
    <2>1. 0 \in Same
      BY <1>2, <1>3, <1>4 DEF Drops
    <2>2. ASSUME NEW k \in 0..(Len(s) - 1), k \in Same PROVE k + 1 \in Same
      <3>1. k + 1 \in 1..Len(s) /\ k + 1 \in 1..Len(r) /\ (k + 1) - 1 = k /\ k + 1 \in 0..Len(s)
        BY <1>1, <1>2
      <3>2. f[k + 1] = IF r[k + 1] \in S THEN f[k] ELSE Append(f[k], r[k + 1])
        BY <3>1, <1>3 DEF Drops
      <3>3. g[k + 1] = IF s[k + 1] \in S THEN g[k] ELSE Append(g[k], s[k + 1])
        BY <3>1, <1>4 DEF Drops
      <3>4. r[k + 1] = s[k + 1] /\ f[k] = g[k]
        BY <3>1, <1>1, <2>2
      <3>5. QED
        BY <3>1, <3>2, <3>3, <3>4
    <2>3. 0..Len(s) \subseteq Same
      <3> HIDE DEF Same
      <3>1. QED
        BY <1>2, <2>1, <2>2, UpTo
    <2>4. Len(s) \in 0..Len(s)
      BY <1>2
    <2>5. QED
      BY <2>3, <2>4
  <1>7. f[Len(s) + Len(t)] = g[Len(s)] \o h[Len(t)]
    <2> DEFINE Joined == {k \in 0..Len(t) : f[Len(s) + k] = g[Len(s)] \o h[k]}
    <2>0. g[Len(s)] \in Seq(T)
      <3>1. Len(s) \in 0..Len(s)
        BY <1>2
      <3>2. QED
        BY <3>1
    <2>1. 0 \in Joined
      <3>1. g[Len(s)] \o <<>> = g[Len(s)]
        BY <2>0
      <3>2. 0 \in 0..Len(t) /\ Len(s) + 0 = Len(s)
        BY <1>2
      <3>3. h[0] = <<>>
        BY <1>5 DEF Drops
      <3>4. QED
        BY <3>1, <3>2, <3>3, <1>6
    <2>2. ASSUME NEW k \in 0..(Len(t) - 1), k \in Joined PROVE k + 1 \in Joined
      <3>1. /\ k + 1 \in 1..Len(t) /\ k + 1 \in 0..Len(t) /\ k \in 0..Len(t)
            /\ Len(s) + (k + 1) \in 1..Len(r)
            /\ (k + 1) - 1 = k /\ (Len(s) + (k + 1)) - 1 = Len(s) + k
        BY <1>1, <1>2
      <3>2. f[Len(s) + (k + 1)] =
              IF r[Len(s) + (k + 1)] \in S THEN f[Len(s) + k]
              ELSE Append(f[Len(s) + k], r[Len(s) + (k + 1)])
        BY <3>1, <1>3 DEF Drops
      <3>3. h[k + 1] = IF t[k + 1] \in S THEN h[k] ELSE Append(h[k], t[k + 1])
        BY <3>1, <1>5 DEF Drops
      <3>4. r[Len(s) + (k + 1)] = t[k + 1] /\ f[Len(s) + k] = g[Len(s)] \o h[k]
        BY <3>1, <1>1, <2>2
      <3>5. t[k + 1] \in T /\ h[k] \in Seq(T)
        BY <3>1, ElementOfSeq
      <3>6. Append(g[Len(s)] \o h[k], t[k + 1]) = g[Len(s)] \o Append(h[k], t[k + 1])
        BY <3>5, <2>0, <1>0
      <3>7. f[Len(s) + (k + 1)] = g[Len(s)] \o h[k + 1]
        BY <3>2, <3>3, <3>4, <3>5, <3>6, <2>0
      <3>8. QED
        BY <3>1, <3>7
    <2>3. 0..Len(t) \subseteq Joined
      <3> HIDE DEF Joined
      <3>1. QED
        BY <1>2, <2>1, <2>2, UpTo
    <2>4. Len(t) \in 0..Len(t)
      BY <1>2
    <2>5. QED
      BY <2>3, <2>4
  <1>8. QED
    BY <1>1, <1>3, <1>4, <1>5, <1>7 DEF IsJoin

\* Nothing is dropped from a sequence that has no element in the set.
LEMMA WithoutNone ==
  ASSUME NEW T, NEW s \in Seq(T), NEW S, \A k \in 1..Len(s) : s[k] \notin S
  PROVE  Without(s, S) = s
  <1>1. PICK f \in [0..Len(s) -> Seq(T)] : Drops(f, s, S) /\ Without(s, S) = f[Len(s)]
    BY WithoutSteps
  <1>2. Len(s) \in Nat
    OBVIOUS
  <1> DEFINE Good == {k \in 0..Len(s) : f[k] = SubSeq(s, 1, k)}
  <1>3. 0 \in Good
    BY <1>1, <1>2 DEF Drops
  <1>4. ASSUME NEW k \in 0..(Len(s) - 1), k \in Good PROVE k + 1 \in Good
    <2>1. k + 1 \in 1..Len(s) /\ k + 1 \in 0..Len(s) /\ (k + 1) - 1 = k /\ k \in 0..Len(s)
      BY <1>2
    <2>2. f[k + 1] = Append(SubSeq(s, 1, k), s[k + 1])
      BY <1>1, <1>4, <2>1 DEF Drops
    <2>3. /\ SubSeq(s, 1, k) \in Seq(T) /\ Len(SubSeq(s, 1, k)) = k
          /\ \A j \in 1..k : SubSeq(s, 1, k)[j] = s[j]
      BY <2>1
    <2>4. /\ SubSeq(s, 1, k + 1) \in Seq(T) /\ Len(SubSeq(s, 1, k + 1)) = k + 1
          /\ \A j \in 1..(k + 1) : SubSeq(s, 1, k + 1)[j] = s[j]
      BY <2>1
    <2> DEFINE x == SubSeq(s, 1, k) y == SubSeq(s, 1, k + 1)
    <2> HIDE DEF x, y
    <2>5. /\ Append(x, s[k + 1]) \in Seq(T) /\ Len(Append(x, s[k + 1])) = k + 1
          /\ \A j \in 1..k : Append(x, s[k + 1])[j] = s[j]
          /\ Append(x, s[k + 1])[k + 1] = s[k + 1]
      BY <2>1, <2>3, AppendProperties DEF x
    <2>6. \A j \in 1..(k + 1) : Append(x, s[k + 1])[j] = y[j]
      BY <2>1, <2>4, <2>5 DEF y
    <2>7. Append(x, s[k + 1]) = y
      BY <2>4, <2>5, <2>6, SeqEqual DEF y
    <2>8. QED
      BY <2>1, <2>2, <2>7 DEF x, y
  <1>5. 0..Len(s) \subseteq Good
    <2> HIDE DEF Good
    <2>1. QED
      BY <1>2, <1>3, <1>4, UpTo
  <1>6. Len(s) \in 0..Len(s) /\ SubSeq(s, 1, Len(s)) = s
    BY <1>2
  <1>7. QED
    BY <1>1, <1>5, <1>6

\* Nothing is left of a sequence whose elements are all in the set.
LEMMA WithoutAll ==
  ASSUME NEW T, NEW s \in Seq(T), NEW S, \A k \in 1..Len(s) : s[k] \in S
  PROVE  Without(s, S) = <<>>
  <1>1. PICK f \in [0..Len(s) -> Seq(T)] : Drops(f, s, S) /\ Without(s, S) = f[Len(s)]
    BY WithoutSteps
  <1>2. Len(s) \in Nat
    OBVIOUS
  <1> DEFINE Good == {k \in 0..Len(s) : f[k] = <<>>}
  <1>3. 0 \in Good
    BY <1>1, <1>2 DEF Drops
  <1>4. ASSUME NEW k \in 0..(Len(s) - 1), k \in Good PROVE k + 1 \in Good
    <2>1. k + 1 \in 1..Len(s) /\ k + 1 \in 0..Len(s) /\ (k + 1) - 1 = k
      BY <1>2
    <2>2. QED
      BY <1>1, <1>4, <2>1 DEF Drops
  <1>5. 0..Len(s) \subseteq Good
    <2> HIDE DEF Good
    <2>1. QED
      BY <1>2, <1>3, <1>4, UpTo
  <1>6. QED
    BY <1>1, <1>2, <1>5

\* Each part is the prefix and then a piece of the sequence.
ArePrefixed(parts, prefix, s, cut, n) ==
    \A i \in 0..(n - 1) : parts[i] = prefix \o SubSeq(s, cut[i] + 1, cut[i + 1])

AllIn(s, S) == \A k \in 1..Len(s) : s[k] \in S
NoneIn(s, S) == \A k \in 1..Len(s) : s[k] \notin S

PrefixedPieces(parts, prefix, s, S, cut, n, T) ==
    /\ n \in Nat /\ prefix \in Seq(T) /\ s \in Seq(T)
    /\ AllIn(prefix, S) /\ NoneIn(s, S)
    /\ IsCut(cut, n, s) /\ parts \in [0..(n - 1) -> Seq(T)]
    /\ ArePrefixed(parts, prefix, s, cut, n)

\* The pieces of a sequence, each after the same prefix, joined after another one: without
\* the elements of the prefix that is the sequence, and the prefix is there once for each
\* piece and once more.
LEMMA PrefixedInOrder ==
  ASSUME NEW parts, NEW prefix, NEW s, NEW S, NEW cut, NEW n, NEW T,
         PrefixedPieces(parts, prefix, s, S, cut, n, T),
         NEW result, IsJoin(result, prefix, InOrder(parts, n))
  PROVE  /\ Without(result, S) = s
         /\ Len(result) = Len(s) + (n + 1) * Len(prefix)
  <1> USE DEF PrefixedPieces
  <1>1. PICK f \in [0..n -> Seq(T)] :
            /\ f[0] = <<>>
            /\ \A i \in 1..n : f[i] = f[i - 1] \o parts[i - 1]
            /\ InOrder(parts, n) = f[n]
    BY InOrderSteps
  <1>2. Len(s) \in Nat /\ Len(prefix) \in Nat
    OBVIOUS
  <1>3. Without(prefix, S) = <<>>
    BY WithoutAll DEF AllIn
  <1> DEFINE Good == {i \in 0..n : /\ Without(f[i], S) = SubSeq(s, 1, cut[i])
                                   /\ Len(f[i]) = cut[i] + i * Len(prefix)}
  <1>5. 0 \in Good
    <2> DEFINE e == f[0]
    <2>1. 0 \in 0..n /\ e = <<>> /\ e \in Seq(T) /\ \A k \in 1..Len(e) : e[k] \in S
      BY <1>1
    <2> HIDE DEF e
    <2>2. Without(e, S) = <<>>
      BY <2>1, WithoutAll
    <2>3. cut[0] = 0 /\ SubSeq(s, 1, 0) = <<>> /\ 0 + 0 * Len(prefix) = 0
      BY <1>2 DEF IsCut
    <2>4. QED
      BY <2>1, <2>2, <2>3 DEF e
  <1>6. ASSUME NEW i \in 0..(n - 1), i \in Good PROVE i + 1 \in Good
    <2> DEFINE piece == SubSeq(s, cut[i] + 1, cut[i + 1])
    <2>1. i + 1 \in 1..n /\ (i + 1) - 1 = i /\ i \in 0..n /\ i + 1 \in 0..n
      OBVIOUS
    <2>2. cut[i] \in 0..Len(s) /\ cut[i + 1] \in 0..Len(s) /\ cut[i] <= cut[i + 1]
      BY <2>1 DEF IsCut
    <2>3. /\ piece \in Seq(T) /\ Len(piece) = cut[i + 1] - cut[i]
          /\ \A k \in 1..Len(piece) : piece[k] = s[cut[i] + k] /\ cut[i] + k \in 1..Len(s)
      <3> DEFINE a == cut[i] b == cut[i + 1] p == SubSeq(s, a + 1, b)
      <3>1. a \in 0..Len(s) /\ b \in 0..Len(s) /\ a <= b
        BY <2>2
      <3> HIDE DEF a, b
      <3>2. p \in Seq(T) /\ Len(p) = b - a /\ \A k \in 1..(b - a) : p[k] = s[a + k]
        <4>1. p \in Seq(T) /\ Len(p) = b - a
          BY <3>1
        <4>2. ASSUME NEW k \in 1..(b - a) PROVE p[k] = s[a + k]
          BY <3>1
        <4>3. QED
          BY <4>1, <4>2
      <3> HIDE DEF p
      <3>3. p \in Seq(T) /\ Len(p) = b - a /\ \A k \in 1..Len(p) : p[k] = s[a + k] /\ a + k \in 1..Len(s)
        BY <3>1, <3>2
      <3>4. QED
        BY <3>3 DEF a, b, p
    <2>4. f[i + 1] = f[i] \o (prefix \o piece)
      BY <1>1, <2>1 DEF ArePrefixed
    <2>5. SubSeq(s, 1, cut[i]) \o piece = SubSeq(s, 1, cut[i + 1])
      BY <2>2, OneMorePiece
    <2> HIDE DEF piece
    <2>5a. \A k \in 1..Len(piece) : piece[k] \notin S
      BY <2>3 DEF NoneIn
    <2>6. Without(piece, S) = piece
      BY <2>3, <2>5a, WithoutNone
    <2>7. f[i] \in Seq(T) /\ prefix \o piece \in Seq(T)
      BY <2>1, <2>3
    <2> DEFINE part == prefix \o piece
    <2>8. Without(f[i + 1], S) = SubSeq(s, 1, cut[i]) \o piece
      <3>1. part \in Seq(T) /\ IsJoin(part, prefix, piece) /\ IsJoin(f[i + 1], f[i], part)
        BY <2>4, <2>7 DEF IsJoin
      <3> HIDE DEF part
      <3>2. IsJoin(Without(part, S), <<>>, piece)
        <4>1. IsJoin(Without(part, S), Without(prefix, S), Without(piece, S))
          BY <2>3, <3>1, WithoutConcat
        <4>2. QED
          BY <1>3, <2>6, <4>1
      <3>3. Without(part, S) = piece
        BY <2>3, <3>2 DEF IsJoin
      <3>4. IsJoin(Without(f[i + 1], S), Without(f[i], S), Without(part, S))
        BY <2>7, <3>1, WithoutConcat
      <3>5. Without(f[i], S) = SubSeq(s, 1, cut[i])
        BY <1>6
      <3>6. QED
        BY <3>3, <3>4, <3>5 DEF IsJoin
    <2>10. Len(f[i + 1]) = Len(f[i]) + (Len(prefix) + Len(piece))
      <3>1. Len(part) = Len(prefix) + Len(piece)
        <4>1. piece \in Seq(T)
          BY <2>3
        <4>2. QED
          BY <4>1
      <3>2. part \in Seq(T) /\ f[i + 1] = f[i] \o part
        BY <2>4, <2>7
      <3> HIDE DEF part
      <3>3. Len(f[i + 1]) = Len(f[i]) + Len(part)
        BY <3>2, <2>7
      <3>4. QED
        BY <3>1, <3>3
    <2>11. i * Len(prefix) + Len(prefix) = (i + 1) * Len(prefix) /\ i * Len(prefix) \in Nat
      BY <1>2
    <2>12. Len(f[i + 1]) = cut[i + 1] + (i + 1) * Len(prefix)
      <3>1. Len(f[i]) = cut[i] + i * Len(prefix)
        BY <1>6
      <3> DEFINE a == cut[i] b == cut[i + 1] l == i * Len(prefix) p == Len(prefix)
      <3>2. a \in Nat /\ b \in Nat /\ l \in Nat /\ p \in Nat
        BY <1>2, <2>2, <2>11
      <3> HIDE DEF a, b, l, p
      <3>3. Len(f[i + 1]) = (a + l) + (p + (b - a))
        BY <2>3, <2>10, <3>1 DEF a, b, l, p
      <3>4. Len(f[i + 1]) = b + (l + p)
        BY <3>2, <3>3
      <3>5. QED
        BY <2>11, <3>4 DEF b, l, p
    <2>13. QED
      BY <2>1, <2>5, <2>8, <2>12
  <1>7. 0..n \subseteq Good
    <2> HIDE DEF Good
    <2>1. QED
      BY <1>5, <1>6, UpTo
  <1>8. n \in 0..n /\ cut[n] = Len(s) /\ f[n] \in Seq(T) /\ SubSeq(s, 1, Len(s)) = s
    BY DEF IsCut
  <1>9. Without(f[n], S) = s /\ Len(f[n]) = Len(s) + n * Len(prefix)
    BY <1>7, <1>8
  <1>10. /\ IsJoin(result, prefix, f[n]) /\ result \in Seq(T)
         /\ Len(result) = Len(prefix) + Len(f[n])
    BY <1>1, <1>8 DEF IsJoin
  <1>11. Without(result, S) = s
    <2>1. IsJoin(Without(result, S), Without(prefix, S), Without(f[n], S))
      BY <1>8, <1>10, WithoutConcat
    <2>2. IsJoin(Without(result, S), <<>>, s)
      BY <1>3, <1>9, <2>1
    <2>3. QED
      BY <2>2 DEF IsJoin
  <1>12. Len(result) = Len(s) + (n + 1) * Len(prefix)
    <2>1. n * Len(prefix) + Len(prefix) = (n + 1) * Len(prefix) /\ n * Len(prefix) \in Nat
      BY <1>2
    <2>2. QED
      BY <1>2, <1>9, <1>10, <2>1
  <1>13. QED
    BY <1>11, <1>12

-----------------------------------------------------------------------------
(* Sort: the elements in order, told apart by how many are at most a value.  *)

AtMost(s, v) == {i \in DOMAIN s : s[i] <= v}
LessThan(s, v) == {i \in DOMAIN s : s[i] < v}

\* How many numbers there are from 1 to n.
LEMMA OneTo ==
  ASSUME NEW n \in Nat
  PROVE  IsFiniteSet(1..n) /\ Cardinality(1..n) = n
  <1>1. IsFiniteSet(1..n) /\ Cardinality(1..n) = IF 1 > n THEN 0 ELSE n - 1 + 1
    BY FS_Interval
  <1>2. QED
    BY <1>1

\* The elements at most, and less than, a value are finitely many.
LEMMA Counts ==
  ASSUME NEW s \in Seq(Nat), NEW v \in Nat
  PROVE  /\ AtMost(s, v) \subseteq 1..Len(s) /\ LessThan(s, v) \subseteq AtMost(s, v)
         /\ IsFiniteSet(AtMost(s, v)) /\ IsFiniteSet(LessThan(s, v))
         /\ Cardinality(AtMost(s, v)) \in Nat /\ Cardinality(AtMost(s, v)) <= Len(s)
         /\ Cardinality(LessThan(s, v)) \in Nat
         /\ Cardinality(LessThan(s, v)) <= Cardinality(AtMost(s, v))
  <1>1. DOMAIN s = 1..Len(s) /\ Len(s) \in Nat /\ \A i \in 1..Len(s) : s[i] \in Nat
    OBVIOUS
  <1>2. AtMost(s, v) \subseteq 1..Len(s) /\ LessThan(s, v) \subseteq AtMost(s, v)
    BY <1>1 DEF AtMost, LessThan
  <1>3. IsFiniteSet(1..Len(s)) /\ Cardinality(1..Len(s)) = Len(s)
    BY <1>1, OneTo
  <1>4. IsFiniteSet(AtMost(s, v)) /\ Cardinality(AtMost(s, v)) <= Len(s)
    BY <1>2, <1>3, FS_Subset
  <1>5. /\ IsFiniteSet(LessThan(s, v))
        /\ Cardinality(LessThan(s, v)) <= Cardinality(AtMost(s, v))
    BY <1>2, <1>4, FS_Subset
  <1>6. Cardinality(AtMost(s, v)) \in Nat /\ Cardinality(LessThan(s, v)) \in Nat
    BY <1>4, <1>5, FS_CardinalityType
  <1>7. QED
    BY <1>1, <1>2, <1>4, <1>5, <1>6

\* At most a value, and so less than a greater one.
LEMMA CountsGrow ==
  ASSUME NEW s \in Seq(Nat), NEW v \in Nat, NEW w \in Nat, v < w
  PROVE  Cardinality(AtMost(s, v)) <= Cardinality(LessThan(s, w))
  <1>1. AtMost(s, v) \subseteq LessThan(s, w)
    <2>1. DOMAIN s = 1..Len(s) /\ \A i \in 1..Len(s) : s[i] \in Nat
      OBVIOUS
    <2>2. QED
      BY <2>1 DEF AtMost, LessThan
  <1>2. IsFiniteSet(LessThan(s, w))
    BY Counts
  <1>3. QED
    BY <1>1, <1>2, FS_Subset

IsKth(s, k, v) ==
    /\ v \in {s[i] : i \in DOMAIN s}
    /\ Cardinality(LessThan(s, v)) < k
    /\ Cardinality(AtMost(s, v)) >= k

\* A sequence of naturals has a bound.
LEMMA Bounded ==
  ASSUME NEW s \in Seq(Nat)
  PROVE  \E m \in Nat : \A i \in 1..Len(s) : s[i] <= m
  <1> DEFINE Good == {k \in 0..Len(s) : \E m \in Nat : \A i \in 1..k : s[i] <= m}
  <1>1. Len(s) \in Nat /\ \A i \in 1..Len(s) : s[i] \in Nat
    OBVIOUS
  <1>2. 0 \in Good
    BY <1>1
  <1>3. ASSUME NEW k \in 0..(Len(s) - 1), k \in Good PROVE k + 1 \in Good
    <2>1. k + 1 \in 1..Len(s) /\ k + 1 \in 0..Len(s) /\ s[k + 1] \in Nat
      BY <1>1
    <2>2. PICK m \in Nat : \A i \in 1..k : s[i] <= m
      BY <1>3
    <2>3. PICK m2 \in Nat : m2 >= m /\ m2 >= s[k + 1]
      <3>1. CASE m >= s[k + 1]
        BY <3>1, <2>1
      <3>2. CASE ~(m >= s[k + 1])
        BY <3>2, <2>1
      <3>3. QED
        BY <3>1, <3>2
    <2>4. \A i \in 1..(k + 1) : s[i] <= m2
      <3> SUFFICES ASSUME NEW i \in 1..(k + 1) PROVE s[i] <= m2
        OBVIOUS
      <3>1. i = k + 1 \/ (i \in 1..k /\ s[i] \in Nat)
        BY <1>1, <2>1
      <3>2. QED
        BY <2>1, <2>2, <2>3, <3>1
    <2>5. QED
      BY <2>1, <2>4
  <1>4. 0..Len(s) \subseteq Good
    <2> HIDE DEF Good
    <2>1. QED
      BY <1>1, <1>2, <1>3, UpTo
  <1>5. Len(s) \in 0..Len(s)
    BY <1>1
  <1>6. QED
    BY <1>4, <1>5

\* The k-th element is there,
LEMMA KthExists ==
  ASSUME NEW s \in Seq(Nat), NEW k \in 1..Len(s)
  PROVE  \E v \in Nat : IsKth(s, k, v)
  <1> DEFINE Cand == {v \in Nat : Cardinality(AtMost(s, v)) >= k}
  <1>1. DOMAIN s = 1..Len(s) /\ Len(s) \in Nat /\ \A i \in 1..Len(s) : s[i] \in Nat
    OBVIOUS
  <1>2. Cand # {}
    <2>1. PICK m \in Nat : \A i \in 1..Len(s) : s[i] <= m
      BY Bounded
    <2>2. AtMost(s, m) = 1..Len(s)
      BY <1>1, <2>1 DEF AtMost
    <2>3. Cardinality(1..Len(s)) = Len(s)
      BY <1>1, OneTo
    <2>4. QED
      BY <1>1, <2>2, <2>3
  <1>3. PICK v \in Cand : \A w \in Cand : v <= w
    BY <1>2, LeastElement
  <1>4. v \in Nat /\ Cardinality(AtMost(s, v)) >= k
    OBVIOUS
  <1>5. Cardinality(LessThan(s, v)) < k
    <2>1. CASE v = 0
      <3>1. LessThan(s, v) = {}
        BY <1>1, <2>1 DEF LessThan
      <3>2. QED
        BY <3>1, FS_EmptySet
    <2>2. CASE v # 0
      <3>1. v - 1 \in Nat /\ ~(v <= v - 1)
        BY <1>4, <2>2
      <3>2. v - 1 \notin Cand
        BY <1>3, <3>1
      <3>3. LessThan(s, v) = AtMost(s, v - 1)
        BY <1>1, <1>4, <3>1 DEF LessThan, AtMost
      <3>4. Cardinality(AtMost(s, v - 1)) \in Nat
        BY <3>1, Counts
      <3>5. QED
        BY <3>1, <3>2, <3>3, <3>4
    <2>3. QED
      BY <2>1, <2>2
  <1>6. PICK i \in AtMost(s, v) : i \notin LessThan(s, v)
    <2>1. LessThan(s, v) \subseteq AtMost(s, v) /\ Cardinality(LessThan(s, v)) \in Nat
      BY <1>4, Counts
    <2>2. LessThan(s, v) # AtMost(s, v)
      BY <1>4, <1>5, <2>1
    <2>3. QED
      BY <2>1, <2>2
  <1>7. i \in DOMAIN s /\ s[i] = v
    BY <1>1, <1>4, <1>6 DEF AtMost, LessThan
  <1>8. QED
    BY <1>4, <1>5, <1>7 DEF IsKth

\* and is one value only.
LEMMA KthUnique ==
  ASSUME NEW s \in Seq(Nat), NEW k \in Nat, NEW v \in Nat, NEW w \in Nat,
         IsKth(s, k, v), IsKth(s, k, w)
  PROVE  v = w
  <1>1. \A x, y \in Nat : ~(x < y /\ IsKth(s, k, x) /\ IsKth(s, k, y))
    <2> SUFFICES ASSUME NEW x \in Nat, NEW y \in Nat, x < y, IsKth(s, k, x), IsKth(s, k, y)
                 PROVE  FALSE
      OBVIOUS
    <2>1. Cardinality(AtMost(s, x)) <= Cardinality(LessThan(s, y))
      BY CountsGrow
    <2>2. Cardinality(AtMost(s, x)) \in Nat /\ Cardinality(LessThan(s, y)) \in Nat
      BY Counts
    <2>3. QED
      BY <2>1, <2>2 DEF IsKth
  <1>2. ~(v < w) /\ ~(w < v)
    BY <1>1
  <1>3. QED
    BY <1>2

\* What Sorted has at each place.
LEMMA SortedIsKth ==
  ASSUME NEW s \in Seq(Nat)
  PROVE  /\ Sorted(s) \in Seq(Nat) /\ Len(Sorted(s)) = Len(s)
         /\ \A k \in 1..Len(s) : IsKth(s, k, Sorted(s)[k])
  <1>1. DOMAIN s = 1..Len(s) /\ Len(s) \in Nat /\ \A i \in 1..Len(s) : s[i] \in Nat
    OBVIOUS
  <1> DEFINE K(k, v) == /\ Cardinality({i \in DOMAIN s : s[i] < v}) < k
                        /\ Cardinality({i \in DOMAIN s : s[i] <= v}) >= k
             X == {s[i] : i \in DOMAIN s}
             C(k) == CHOOSE v \in X : K(k, v)
  <1>2. \A k, v : IsKth(s, k, v) <=> v \in X /\ K(k, v)
    BY DEF IsKth, AtMost, LessThan
  <1>3. Sorted(s) = [k \in 1..Len(s) |-> C(k)]
    BY <1>1 DEF Sorted
  <1>4. X \subseteq Nat
    BY <1>1
  <1> HIDE DEF K, X
  <1>5. \A k \in 1..Len(s) : C(k) \in X /\ K(k, C(k))
    <2> SUFFICES ASSUME NEW k \in 1..Len(s) PROVE C(k) \in X /\ K(k, C(k))
      OBVIOUS
    <2>1. PICK v \in Nat : IsKth(s, k, v)
      BY KthExists
    <2>2. v \in X /\ K(k, v)
      BY <1>2, <2>1
    <2>3. QED
      BY <2>2
  <1> HIDE DEF C
  <1>6. \A k \in 1..Len(s) : C(k) \in Nat
    BY <1>4, <1>5
  <1>7. Sorted(s) \in Seq(Nat) /\ Len(Sorted(s)) = Len(s)
    BY <1>1, <1>3, <1>6
  <1>8. \A k \in 1..Len(s) : IsKth(s, k, Sorted(s)[k])
    BY <1>2, <1>3, <1>5
  <1>9. QED
    BY <1>7, <1>8

IsMonotone(s) == \A i, j \in 1..Len(s) : i <= j => s[i] <= s[j]

\* Sorted is in order, and the elements at most a value are its first ones.
LEMMA SortedCounts ==
  ASSUME NEW s \in Seq(Nat)
  PROVE  /\ IsMonotone(Sorted(s))
         /\ \A v \in Nat : AtMost(Sorted(s), v) = 1..Cardinality(AtMost(s, v))
  <1> DEFINE t == Sorted(s)
  <1>1. t \in Seq(Nat) /\ Len(t) = Len(s) /\ \A k \in 1..Len(s) : IsKth(s, k, t[k])
    BY SortedIsKth
  <1> HIDE DEF t
  <1>2. DOMAIN t = 1..Len(s) /\ Len(s) \in Nat /\ \A k \in 1..Len(s) : t[k] \in Nat
    BY <1>1
  <1>3. \A k \in 1..Len(s), v \in Nat : k <= Cardinality(AtMost(s, v)) <=> t[k] <= v
    <2> SUFFICES ASSUME NEW k \in 1..Len(s), NEW v \in Nat
                 PROVE  k <= Cardinality(AtMost(s, v)) <=> t[k] <= v
      OBVIOUS
    <2>1. t[k] \in Nat /\ IsKth(s, k, t[k])
      BY <1>1, <1>2
    <2>2. /\ Cardinality(AtMost(s, v)) \in Nat /\ Cardinality(LessThan(s, v)) \in Nat
          /\ Cardinality(LessThan(s, v)) <= Cardinality(AtMost(s, v))
      BY Counts
    <2>3. Cardinality(AtMost(s, t[k])) \in Nat /\ Cardinality(LessThan(s, t[k])) \in Nat
      BY <2>1, Counts
    <2>4. ASSUME k <= Cardinality(AtMost(s, v)), ~(t[k] <= v) PROVE FALSE
      <3>1. v < t[k]
        BY <2>1, <2>4
      <3>2. Cardinality(AtMost(s, v)) <= Cardinality(LessThan(s, t[k]))
        BY <2>1, <3>1, CountsGrow
      <3>3. QED
        BY <2>1, <2>2, <2>3, <2>4, <3>2 DEF IsKth
    <2>5. ASSUME t[k] <= v PROVE k <= Cardinality(AtMost(s, v))
      <3>1. CASE t[k] = v
        BY <2>1, <3>1 DEF IsKth
      <3>2. CASE t[k] < v
        <4>1. Cardinality(AtMost(s, t[k])) <= Cardinality(LessThan(s, v))
          BY <2>1, <3>2, CountsGrow
        <4>2. QED
          BY <2>1, <2>2, <2>3, <4>1 DEF IsKth
      <3>3. QED
        BY <2>1, <2>5, <3>1, <3>2
    <2>6. QED
      BY <2>4, <2>5
  <1>4. \A v \in Nat : AtMost(t, v) = 1..Cardinality(AtMost(s, v))
    <2> SUFFICES ASSUME NEW v \in Nat
                 PROVE  AtMost(t, v) = 1..Cardinality(AtMost(s, v))
      OBVIOUS
    <2>1. Cardinality(AtMost(s, v)) \in Nat /\ Cardinality(AtMost(s, v)) <= Len(s)
      BY Counts
    <2>2. QED
      <3> DEFINE c == Cardinality(AtMost(s, v))
      <3>1. c \in Nat /\ c <= Len(s) /\ \A k \in 1..Len(s) : k <= c <=> t[k] <= v
        BY <1>3, <2>1
      <3> HIDE DEF c
      <3>2. AtMost(t, v) = 1..c
        BY <1>2, <3>1 DEF AtMost
      <3>3. QED
        BY <3>2 DEF c
  <1>5. IsMonotone(t)
    <2> SUFFICES ASSUME NEW i \in 1..Len(s), NEW j \in 1..Len(s), i <= j PROVE t[i] <= t[j]
      BY <1>1 DEF IsMonotone
    <2>1. t[i] \in Nat /\ t[j] \in Nat
      BY <1>2
    <2>2. Cardinality(AtMost(s, t[j])) \in Nat
      BY <2>1, Counts
    <2>3. j <= Cardinality(AtMost(s, t[j]))
      BY <1>3, <2>1
    <2>4. i <= Cardinality(AtMost(s, t[j]))
      BY <2>2, <2>3
    <2>5. QED
      BY <1>3, <2>1, <2>4
  <1>6. QED
    BY <1>4, <1>5 DEF t

\* A sequence in order that has as many elements at most each value as another one is
\* that one, sorted.
LEMMA IsSorted ==
  ASSUME NEW s \in Seq(Nat), NEW t \in Seq(Nat), Len(t) = Len(s), IsMonotone(t),
         \A v \in Nat : Cardinality(AtMost(t, v)) = Cardinality(AtMost(s, v))
  PROVE  t = Sorted(s)
  <1> DEFINE u == Sorted(s)
  <1>1. u \in Seq(Nat) /\ Len(u) = Len(s) /\ \A k \in 1..Len(s) : IsKth(s, k, u[k])
    BY SortedIsKth
  <1> HIDE DEF u
  <1>2. /\ DOMAIN t = 1..Len(s) /\ Len(s) \in Nat
        /\ \A k \in 1..Len(s) : t[k] \in Nat /\ u[k] \in Nat /\ s[k] \in Nat
    BY <1>1
  <1>3. ASSUME NEW k \in 1..Len(s) PROVE t[k] = u[k]
    <2>1. t[k] \in Nat
      BY <1>2
    <2>2. Cardinality(AtMost(t, t[k])) >= k
      <3>1. 1..k \subseteq AtMost(t, t[k])
        BY <1>2 DEF AtMost, IsMonotone
      <3>2. IsFiniteSet(AtMost(t, t[k])) /\ Cardinality(AtMost(t, t[k])) \in Nat
        BY <2>1, Counts
      <3>3. k \in Nat /\ Cardinality(1..k) = k
        BY OneTo
      <3>4. QED
        BY <3>1, <3>2, <3>3, FS_Subset
    <2>3. Cardinality(LessThan(s, t[k])) < k
      <3>1. CASE t[k] = 0
        <4>1. LessThan(s, t[k]) = {}
          BY <1>2, <3>1 DEF LessThan
        <4>2. QED
          BY <4>1, FS_EmptySet
      <3>2. CASE t[k] # 0
        <4> DEFINE v == t[k] - 1
        <4>1. v \in Nat /\ \A x \in Nat : x < t[k] <=> x <= v
          BY <2>1, <3>2
        <4> HIDE DEF v
        <4>2. LessThan(s, t[k]) = AtMost(s, v)
          BY <1>2, <4>1 DEF LessThan, AtMost
        <4>3. AtMost(t, v) \subseteq 1..(k - 1)
          <5> SUFFICES ASSUME NEW i \in 1..Len(s), t[i] <= v PROVE i \in 1..(k - 1)
            BY <1>2 DEF AtMost
          <5>1. t[i] < t[k] /\ t[i] \in Nat
            BY <1>2, <4>1
          <5>2. ~(k <= i)
            BY <2>1, <5>1 DEF IsMonotone
          <5>3. QED
            BY <5>2
        <4>4. IsFiniteSet(1..(k - 1)) /\ Cardinality(1..(k - 1)) = k - 1
          <5>1. k - 1 \in Nat
            OBVIOUS
          <5>2. QED
            BY <5>1, OneTo
        <4>5. Cardinality(AtMost(t, v)) <= k - 1
          BY <4>3, <4>4, FS_Subset
        <4>6. Cardinality(AtMost(t, v)) \in Nat /\ Cardinality(AtMost(t, v)) = Cardinality(AtMost(s, v))
          BY <4>1, Counts
        <4>7. QED
          BY <4>2, <4>5, <4>6
      <3>3. QED
        BY <3>1, <3>2
    <2>4. Cardinality(AtMost(s, t[k])) >= k
      BY <2>1, <2>2
    <2>5. PICK i \in AtMost(s, t[k]) : i \notin LessThan(s, t[k])
      <3>1. /\ LessThan(s, t[k]) \subseteq AtMost(s, t[k])
            /\ Cardinality(LessThan(s, t[k])) \in Nat
        BY <2>1, Counts
      <3>2. LessThan(s, t[k]) # AtMost(s, t[k])
        BY <2>3, <2>4, <3>1
      <3>3. QED
        BY <3>1, <3>2
    <2>6. i \in DOMAIN s /\ s[i] = t[k]
      BY <1>2, <2>1, <2>5 DEF AtMost, LessThan
    <2>7. IsKth(s, k, t[k])
      BY <2>3, <2>4, <2>6 DEF IsKth
    <2>8. IsKth(s, k, u[k]) /\ u[k] \in Nat
      BY <1>1, <1>2
    <2>9. QED
      BY <2>1, <2>7, <2>8, KthUnique
  <1>4. t = u
    BY <1>1, <1>3, SeqEqual
  <1>5. QED
    BY <1>4 DEF u

-----------------------------------------------------------------------------
(* Sort: the merge.                                                          *)

\* The places the merge has taken elements from, and of them those with an element at
\* most v.
Taken(chunks, indices) == {p \in (DOMAIN chunks) \X Nat : p[2] \in 1..indices[p[1]]}
TakenUpTo(chunks, indices, v) == {p \in Taken(chunks, indices) : chunks[p[1]][p[2]] <= v}

AreMonotone(chunks) == \A i \in DOMAIN chunks : IsMonotone(chunks[i])

MergeType(chunks) == [result : Seq(Nat), indices : [DOMAIN chunks -> Nat]]

\* What holds after each turn of the loop.
IsMerge(chunks, m) ==
    /\ \A i \in DOMAIN chunks : m.indices[i] <= Len(chunks[i])
    /\ IsMonotone(m.result)
    /\ \A i \in Unexhausted(chunks, m.indices), k \in 1..Len(m.result) :
          m.result[k] <= Front(chunks, m.indices, i)
    /\ IsFiniteSet(Taken(chunks, m.indices))
    /\ Cardinality(Taken(chunks, m.indices)) = Len(m.result)
    /\ \A v \in Nat :
          Cardinality(TakenUpTo(chunks, m.indices, v)) = Cardinality(AtMost(m.result, v))

\* The chunk that is found has elements left, and none has a smaller next one.
LEMMA BestIsLeast ==
  ASSUME NEW n \in Nat, NEW chunks \in [0..(n - 1) -> Seq(Nat)],
         NEW indices \in [0..(n - 1) -> Nat], Unexhausted(chunks, indices) # {}
  PROVE  /\ Best(chunks, indices) \in Unexhausted(chunks, indices)
         /\ \A j \in Unexhausted(chunks, indices) :
               Front(chunks, indices, Best(chunks, indices)) <= Front(chunks, indices, j)
  <1> DEFINE U == Unexhausted(chunks, indices)
             F(i) == Front(chunks, indices, i)
  <1>1. U \subseteq 0..(n - 1) /\ \A i \in U : F(i) \in Nat
    <2> SUFFICES ASSUME NEW i \in 0..(n - 1), indices[i] < Len(chunks[i])
                 PROVE  chunks[i][indices[i] + 1] \in Nat
      BY DEF Unexhausted, Front
    <2>1. chunks[i] \in Seq(Nat) /\ indices[i] + 1 \in 1..Len(chunks[i])
      OBVIOUS
    <2>2. QED
      BY <2>1
  <1>2. Best(chunks, indices) =
          CHOOSE i \in U : \A j \in U : F(i) < F(j) \/ (F(i) = F(j) /\ i <= j)
    BY DEF Best
  <1> HIDE DEF U, F
  <1>3. PICK x \in {F(i) : i \in U} : \A y \in {F(i) : i \in U} : x <= y
    <2>1. {F(i) : i \in U} \subseteq Nat
      BY <1>1
    <2>2. {F(i) : i \in U} # {}
      BY DEF U
    <2>3. QED
      BY <2>1, <2>2, LeastElement
  <1>4. PICK i \in {j \in U : F(j) = x} : \A k \in {j \in U : F(j) = x} : i <= k
    <2>1. {j \in U : F(j) = x} \subseteq Nat
      BY <1>1
    <2>2. {j \in U : F(j) = x} # {}
      BY <1>3
    <2>3. QED
      BY <2>1, <2>2, LeastElement
  <1>5. i \in U /\ \A j \in U : F(i) < F(j) \/ (F(i) = F(j) /\ i <= j)
    <2> SUFFICES ASSUME NEW j \in U PROVE F(i) < F(j) \/ (F(i) = F(j) /\ i <= j)
      BY <1>4
    <2>1. F(i) = x /\ x <= F(j) /\ F(i) \in Nat /\ F(j) \in Nat
      BY <1>1, <1>3, <1>4
    <2>2. F(j) = x => i <= j
      BY <1>4
    <2>3. QED
      BY <2>1, <2>2
  <1> DEFINE b == CHOOSE k \in U : \A j \in U : F(k) < F(j) \/ (F(k) = F(j) /\ k <= j)
  <1>6. b \in U /\ \A j \in U : F(b) < F(j) \/ (F(b) = F(j) /\ b <= j)
    BY <1>5
  <1> HIDE DEF b
  <1>7. \A j \in U : F(b) <= F(j)
    <2> SUFFICES ASSUME NEW j \in U PROVE F(b) <= F(j)
      OBVIOUS
    <2>1. F(b) \in Nat /\ F(j) \in Nat /\ (F(b) < F(j) \/ F(b) = F(j))
      BY <1>1, <1>6
    <2>2. QED
      BY <2>1
  <1>8. b = Best(chunks, indices)
    BY <1>2 DEF b
  <1>9. QED
    BY <1>6, <1>7, <1>8 DEF U, F

IsAppend(t, s, x) == t = Append(s, x)

\* An element at the end of a sequence.
LEMMA Appended ==
  ASSUME NEW s \in Seq(Nat), NEW x \in Nat, NEW t, IsAppend(t, s, x), NEW v \in Nat
  PROVE  /\ t \in Seq(Nat) /\ Len(t) = Len(s) + 1 /\ t[Len(s) + 1] = x
         /\ \A k \in 1..Len(s) : t[k] = s[k]
         /\ Cardinality(AtMost(t, v)) = Cardinality(AtMost(s, v)) + (IF x <= v THEN 1 ELSE 0)
  <1>1. /\ t \in Seq(Nat) /\ Len(t) = Len(s) + 1 /\ t[Len(s) + 1] = x
        /\ \A k \in 1..Len(s) : t[k] = s[k]
    BY DEF IsAppend
  <1>2. DOMAIN s = 1..Len(s) /\ DOMAIN t = 1..(Len(s) + 1) /\ Len(s) \in Nat
    BY <1>1
  <1>3. IsFiniteSet(AtMost(s, v)) /\ Cardinality(AtMost(s, v)) \in Nat
    BY Counts
  <1>4. Len(s) + 1 \notin AtMost(s, v)
    BY <1>2 DEF AtMost
  <1>5. CASE x <= v
    <2>1. AtMost(t, v) = AtMost(s, v) \cup {Len(s) + 1}
      BY <1>1, <1>2, <1>5 DEF AtMost
    <2>2. QED
      <3>1. Cardinality(AtMost(t, v)) = Cardinality(AtMost(s, v)) + 1
        BY <1>3, <1>4, <2>1, FS_AddElement
      <3>2. QED
        BY <1>1, <1>5, <3>1
  <1>6. CASE ~(x <= v)
    <2>1. AtMost(t, v) = AtMost(s, v)
      BY <1>1, <1>2, <1>6 DEF AtMost
    <2>2. QED
      BY <1>1, <1>3, <1>6, <2>1
  <1>7. QED
    BY <1>5, <1>6

\* A turn of the loop (sync.hpp:220-241) moves one element, in order.
LEMMA PushedIsMerge ==
  ASSUME NEW n \in Nat, NEW chunks \in [0..(n - 1) -> Seq(Nat)], AreMonotone(chunks),
         NEW m \in MergeType(chunks), IsMerge(chunks, m),
         Unexhausted(chunks, m.indices) # {}
  PROVE  /\ Pushed(chunks, m) \in MergeType(chunks) /\ IsMerge(chunks, Pushed(chunks, m))
         /\ Len(Pushed(chunks, m).result) = Len(m.result) + 1
  <1> DEFINE b == Best(chunks, m.indices)
             x == Front(chunks, m.indices, b)
             r == m.result
             t == Append(r, x)
             old == m.indices
             new == [old EXCEPT ![b] = @ + 1]
             place == <<b, old[b] + 1>>
  <1>1. Pushed(chunks, m) = [result |-> t, indices |-> new]
    BY DEF Pushed
  <1>2. DOMAIN chunks = 0..(n - 1) /\ old \in [0..(n - 1) -> Nat] /\ r \in Seq(Nat)
    BY DEF MergeType
  <1>3. /\ b \in Unexhausted(chunks, old)
        /\ \A j \in Unexhausted(chunks, old) : x <= Front(chunks, old, j)
    BY <1>2, BestIsLeast
  <1>4. b \in 0..(n - 1) /\ old[b] < Len(chunks[b]) /\ x = chunks[b][old[b] + 1]
    BY <1>2, <1>3 DEF Unexhausted, Front
  <1>5. x \in Nat
    <2>0. chunks[b] \in Seq(Nat) /\ old[b] \in Nat /\ Len(chunks[b]) \in Nat
      BY <1>2, <1>4
    <2>1. chunks[b] \in Seq(Nat) /\ old[b] + 1 \in 1..Len(chunks[b])
      BY <1>4, <2>0
    <2>2. QED
      BY <1>4, <2>1
  <1>6. IsAppend(t, r, x)
    BY DEF IsAppend
  <1> HIDE DEF b, x, r, t, old
  <1>7. /\ new \in [0..(n - 1) -> Nat] /\ new[b] = old[b] + 1
        /\ \A i \in 0..(n - 1) : i # b => new[i] = old[i]
    BY <1>2, <1>4
  <1>8. /\ \A i \in 0..(n - 1) : old[i] <= Len(chunks[i])
        /\ IsMonotone(r)
        /\ \A i \in Unexhausted(chunks, old), k \in 1..Len(r) :
              r[k] <= Front(chunks, old, i)
        /\ IsFiniteSet(Taken(chunks, old))
        /\ Cardinality(Taken(chunks, old)) = Len(r)
        /\ \A v \in Nat :
              Cardinality(TakenUpTo(chunks, old, v)) = Cardinality(AtMost(r, v))
    BY <1>2 DEF IsMerge, r, old
  <1> HIDE DEF new
  <1>9. \A v \in Nat :
          /\ t \in Seq(Nat) /\ Len(t) = Len(r) + 1 /\ t[Len(r) + 1] = x
          /\ \A k \in 1..Len(r) : t[k] = r[k]
          /\ Cardinality(AtMost(t, v)) = Cardinality(AtMost(r, v)) + (IF x <= v THEN 1 ELSE 0)
    BY <1>2, <1>5, <1>6, Appended
  <1>10. /\ t \in Seq(Nat) /\ Len(t) = Len(r) + 1 /\ t[Len(r) + 1] = x
         /\ \A k \in 1..Len(r) : t[k] = r[k]
    <2>1. 0 \in Nat
      OBVIOUS
    <2>2. QED
      BY <1>9, <2>1
  <1>11. \A i \in 0..(n - 1) : new[i] <= Len(chunks[i])
    <2> SUFFICES ASSUME NEW i \in 0..(n - 1) PROVE new[i] <= Len(chunks[i])
      OBVIOUS
    <2>1. CASE i = b
      <3>1. chunks[b] \in Seq(Nat) /\ Len(chunks[b]) \in Nat /\ old[b] \in Nat
        BY <1>2, <1>4
      <3>2. QED
        BY <1>4, <1>7, <2>1, <3>1
    <2>2. CASE i # b
      BY <1>7, <1>8, <2>2
    <2>3. QED
      BY <2>1, <2>2
  <1>12. \A k \in 1..Len(r) : r[k] <= x /\ r[k] \in Nat
    <2>1. x = Front(chunks, old, b)
      BY DEF x, b, old
    <2>2. \A k \in 1..Len(r) : r[k] <= x
      BY <1>3, <1>8, <2>1
    <2>3. QED
      BY <1>2, <2>2
  <1>13. IsMonotone(t)
    <2> SUFFICES ASSUME NEW i \in 1..(Len(r) + 1), NEW j \in 1..(Len(r) + 1), i <= j
                 PROVE  t[i] <= t[j]
      BY <1>10 DEF IsMonotone
    <2>0. Len(r) \in Nat
      BY <1>2
    <2>1. i = Len(r) + 1 \/ i \in 1..Len(r)
      BY <2>0
    <2>2. j = Len(r) + 1 \/ (i \in 1..Len(r) /\ j \in 1..Len(r))
      BY <2>0
    <2>3. CASE j = Len(r) + 1 /\ i = Len(r) + 1
      BY <1>5, <1>10, <2>3
    <2>4. CASE j = Len(r) + 1 /\ i \in 1..Len(r)
      <3>1. t[j] = x /\ t[i] = r[i] /\ r[i] <= x
        BY <1>10, <1>12, <2>4
      <3>2. QED
        BY <3>1
    <2>5. CASE i \in 1..Len(r) /\ j \in 1..Len(r)
      <3>1. t[j] = r[j] /\ t[i] = r[i] /\ r[i] <= r[j]
        BY <1>8, <1>10, <2>5 DEF IsMonotone
      <3>2. QED
        BY <3>1
    <2>6. QED
      BY <2>1, <2>2, <2>3, <2>4, <2>5
  <1>14. \A i \in Unexhausted(chunks, new) : x <= Front(chunks, new, i) /\ Front(chunks, new, i) \in Nat
    <2> SUFFICES ASSUME NEW i \in 0..(n - 1), new[i] < Len(chunks[i])
                 PROVE  x <= chunks[i][new[i] + 1] /\ chunks[i][new[i] + 1] \in Nat
      BY <1>2 DEF Unexhausted, Front
    <2>1. chunks[i] \in Seq(Nat) /\ new[i] + 1 \in 1..Len(chunks[i]) /\ new[i] \in Nat
      BY <1>7
    <2>2. CASE i = b
      <3>1. new[i] \in 1..Len(chunks[i]) /\ new[i] <= new[i] + 1 /\ x = chunks[i][new[i]]
        BY <1>2, <1>4, <1>7, <2>1, <2>2
      <3>2. QED
        BY <1>2, <2>1, <3>1 DEF AreMonotone, IsMonotone
    <2>3. CASE i # b
      <3>1. i \in Unexhausted(chunks, old) /\ Front(chunks, old, i) = chunks[i][new[i] + 1]
        BY <1>2, <1>7, <2>3 DEF Unexhausted, Front
      <3>2. QED
        BY <1>3, <2>1, <3>1
    <2>4. QED
      BY <2>2, <2>3
  <1>15. ASSUME NEW i \in Unexhausted(chunks, new), NEW k \in 1..Len(t)
         PROVE  t[k] <= Front(chunks, new, i)
    <2>1. x <= Front(chunks, new, i) /\ Front(chunks, new, i) \in Nat
      BY <1>14
    <2>2. t[k] <= x /\ t[k] \in Nat
      <3>1. k = Len(r) + 1 \/ k \in 1..Len(r)
        BY <1>2, <1>10
      <3>2. QED
        BY <1>5, <1>10, <1>12, <3>1
    <2>3. QED
      BY <1>5, <2>1, <2>2
  <1>16. Taken(chunks, new) = Taken(chunks, old) \cup {place} /\ place \notin Taken(chunks, old)
    <2>1. ASSUME NEW i \in 0..(n - 1), NEW j \in Nat
          PROVE  j \in 1..new[i] <=> (j \in 1..old[i] \/ (i = b /\ j = old[b] + 1))
      BY <1>2, <1>4, <1>7
    <2>2. place \in (0..(n - 1)) \X Nat /\ place[1] = b /\ place[2] = old[b] + 1
      BY <1>2, <1>4
    <2>3. \A p \in (0..(n - 1)) \X Nat : p = place <=> (p[1] = b /\ p[2] = old[b] + 1)
      BY <2>2
    <2> HIDE DEF place
    <2>4. \A p \in (0..(n - 1)) \X Nat :
             p[2] \in 1..new[p[1]] <=> (p[2] \in 1..old[p[1]] \/ p = place)
      BY <2>1, <2>3
    <2>5. place \notin Taken(chunks, old)
      BY <1>2, <1>4, <2>2 DEF Taken
    <2>6. QED
      BY <1>2, <2>2, <2>4, <2>5 DEF Taken
  <1>17. chunks[place[1]][place[2]] = x
    BY <1>4
  <1> HIDE DEF place
  <1>18. /\ IsFiniteSet(Taken(chunks, new))
         /\ Cardinality(Taken(chunks, new)) = Len(t)
    BY <1>2, <1>8, <1>10, <1>16, FS_AddElement
  <1>19. ASSUME NEW v \in Nat
         PROVE  Cardinality(TakenUpTo(chunks, new, v)) = Cardinality(AtMost(t, v))
    <2>1. TakenUpTo(chunks, old, v) \subseteq Taken(chunks, old)
      BY DEF TakenUpTo
    <2>2. IsFiniteSet(TakenUpTo(chunks, old, v)) /\ place \notin TakenUpTo(chunks, old, v)
      BY <1>8, <1>16, <2>1, FS_Subset
    <2>3. Cardinality(TakenUpTo(chunks, old, v)) \in Nat
      BY <2>2, FS_CardinalityType
    <2>4. CASE x <= v
      <3>1. TakenUpTo(chunks, new, v) = TakenUpTo(chunks, old, v) \cup {place}
        BY <1>16, <1>17, <2>4 DEF TakenUpTo
      <3>2. Cardinality(TakenUpTo(chunks, new, v)) = Cardinality(TakenUpTo(chunks, old, v)) + 1
        BY <2>2, <3>1, FS_AddElement
      <3>3. QED
        BY <1>8, <1>9, <2>4, <3>2
    <2>5. CASE ~(x <= v)
      <3>1. TakenUpTo(chunks, new, v) = TakenUpTo(chunks, old, v)
        BY <1>16, <1>17, <2>5 DEF TakenUpTo
      <3>2. QED
        BY <1>8, <1>9, <2>3, <2>5, <3>1
    <2>6. QED
      BY <2>4, <2>5
  <1> DEFINE m2 == [result |-> t, indices |-> new]
  <1>20. m2 \in MergeType(chunks) /\ m2.result = t /\ m2.indices = new
    BY <1>2, <1>7, <1>10 DEF MergeType
  <1> HIDE DEF m2
  <1>21. IsMerge(chunks, m2)
    BY <1>2, <1>11, <1>13, <1>15, <1>18, <1>19, <1>20 DEF IsMerge
  <1>22. Len(m2.result) = Len(m.result) + 1
    BY <1>10, <1>20 DEF r
  <1>23. QED
    BY <1>1, <1>20, <1>21, <1>22 DEF m2

\* The places of all elements.
Places(chunks) == {p \in (DOMAIN chunks) \X Nat : p[2] \in 1..Len(chunks[p[1]])}
PlacesUpTo(chunks, v) == {p \in Places(chunks) : chunks[p[1]][p[2]] <= v}

\* The turns of the loop, up to count of them.
LEMMA MergeSteps ==
  ASSUME NEW n \in Nat, NEW chunks \in [0..(n - 1) -> Seq(Nat)], AreMonotone(chunks),
         NEW count \in Nat
  PROVE  \E m \in MergeType(chunks) :
            /\ Merged(chunks, count) = m.result /\ IsMerge(chunks, m)
            /\ Len(m.result) = count \/ Unexhausted(chunks, m.indices) = {}
  <1> DEFINE first == [result |-> <<>>, indices |-> [i \in DOMAIN chunks |-> 0]]
             S == {m \in MergeType(chunks) : IsMerge(chunks, m)}
             step == [p \in (1..count) \X S |-> Pushed(chunks, p[2])]
             Eqn(f) == f = [k \in 0..count |-> IF k = 0 THEN first ELSE Pushed(chunks, f[k - 1])]
             h == CHOOSE f : Eqn(f)
  <1>1. first \in S
    <2>1. first \in MergeType(chunks) /\ first.result = <<>> /\ Len(first.result) = 0
      BY DEF MergeType
    <2>2. DOMAIN chunks = 0..(n - 1) /\ \A i \in 0..(n - 1) : first.indices[i] = 0 /\ chunks[i] \in Seq(Nat)
      OBVIOUS
    <2> HIDE DEF first
    <2>3. Taken(chunks, first.indices) = {}
      BY <2>2 DEF Taken
    <2>4. \A v \in Nat : TakenUpTo(chunks, first.indices, v) = {} /\ AtMost(first.result, v) = {}
      BY <2>1, <2>3 DEF TakenUpTo, AtMost
    <2>5. \A i \in 0..(n - 1) : first.indices[i] <= Len(chunks[i])
      BY <2>2
    <2>6. IsMerge(chunks, first)
      <3>1. 1..Len(first.result) = {}
        BY <2>1
      <3>2. IsMonotone(first.result)
        BY <3>1 DEF IsMonotone
      <3>3. IsFiniteSet(Taken(chunks, first.indices))
            /\ Cardinality(Taken(chunks, first.indices)) = Len(first.result)
        BY <2>1, <2>3, FS_EmptySet
      <3>4. QED
        BY <2>2, <2>4, <2>5, <3>1, <3>2, <3>3 DEF IsMerge
    <2>7. QED
      BY <2>1, <2>6
  <1>2. \A m \in S : Pushed(chunks, m) \in S
    <2> SUFFICES ASSUME NEW m \in MergeType(chunks), IsMerge(chunks, m)
                 PROVE  Pushed(chunks, m) \in MergeType(chunks) /\ IsMerge(chunks, Pushed(chunks, m))
      OBVIOUS
    <2>1. CASE Unexhausted(chunks, m.indices) = {}
      BY <2>1 DEF Pushed
    <2>2. CASE Unexhausted(chunks, m.indices) # {}
      BY <2>2, PushedIsMerge
    <2>3. QED
      BY <2>1, <2>2
  <1>3. \A m \in S : m \in MergeType(chunks) /\ IsMerge(chunks, m)
    OBVIOUS
  <1> HIDE DEF first, S
  <1>4. step \in [(1..count) \X S -> S]
    <2> SUFFICES ASSUME NEW p \in (1..count) \X S PROVE Pushed(chunks, p[2]) \in S
      OBVIOUS
    <2>1. p[2] \in S
      OBVIOUS
    <2>2. QED
      BY <1>2, <2>1
  <1>5. \A i \in 1..count : i - 1 \in 0..count /\ i \in 0..count /\ i # 0
    OBVIOUS
  <1>6. PICK f \in [0..count -> S] : Iterates(f, count, first, step)
    <2> HIDE DEF step
    <2>1. QED
      BY <1>1, <1>4, Iterated
  <1>7. \A i \in 1..count : f[i] = Pushed(chunks, f[i - 1])
    <2> SUFFICES ASSUME NEW i \in 1..count PROVE f[i] = Pushed(chunks, f[i - 1])
      OBVIOUS
    <2>1. <<i, f[i - 1]>> \in (1..count) \X S
      BY <1>5
    <2>2. step[<<i, f[i - 1]>>] = Pushed(chunks, f[i - 1])
      BY <2>1
    <2>3. QED
      BY <1>6, <2>2 DEF Iterates
  <1>8. Eqn(f)
    <2>1. \A k \in 0..count : f[k] = IF k = 0 THEN first ELSE Pushed(chunks, f[k - 1])
      <3>1. \A k \in 0..count : k = 0 \/ (k # 0 /\ k \in 1..count)
        OBVIOUS
      <3>2. QED
        BY <3>1, <1>6, <1>7 DEF Iterates
    <2> DEFINE g == [k \in 0..count |-> IF k = 0 THEN first ELSE Pushed(chunks, f[k - 1])]
    <2>2. DOMAIN g = DOMAIN f /\ \A k \in 0..count : g[k] = f[k]
      BY <2>1
    <2>3. g = [k \in 0..count |-> g[k]] /\ f = [k \in 0..count |-> f[k]]
      OBVIOUS
    <2>4. f = g
      <3> HIDE DEF g
      <3>1. QED
        BY <2>2, <2>3
    <2>5. QED
      BY <2>4
  <1>9. Eqn(h)
    BY <1>8
  <1>10. Merged(chunks, count) = h[count].result
    BY DEF Merged, first
  <1> HIDE DEF h
  <1>11. h[0] = first /\ \A i \in 1..count : h[i] = Pushed(chunks, h[i - 1])
    <2>1. \A k \in 0..count : h[k] = IF k = 0 THEN first ELSE Pushed(chunks, h[k - 1])
      BY <1>9
    <2>2. 0 \in 0..count
      OBVIOUS
    <2>3. QED
      BY <1>5, <2>1, <2>2
  <1> DEFINE Good == {k \in 0..count :
                         /\ h[k] \in S
                         /\ Len(h[k].result) = k \/ Unexhausted(chunks, h[k].indices) = {}}
  <1>12. 0 \in Good
    <2>1. Len(first.result) = 0
      BY DEF first
    <2>2. 0 \in 0..count
      OBVIOUS
    <2>3. QED
      BY <1>1, <1>11, <2>1, <2>2
  <1>13. ASSUME NEW k \in 0..(count - 1), k \in Good PROVE k + 1 \in Good
    <2>1. k + 1 \in 1..count /\ k + 1 \in 0..count /\ (k + 1) - 1 = k
      OBVIOUS
    <2> DEFINE m == h[k]
    <2>2. m \in S /\ (Len(m.result) = k \/ Unexhausted(chunks, m.indices) = {})
      BY <1>13
    <2>3. h[k + 1] = Pushed(chunks, m)
      BY <1>11, <2>1
    <2> HIDE DEF m
    <2>4. h[k + 1] \in S
      BY <1>2, <2>2, <2>3
    <2>5. CASE Unexhausted(chunks, m.indices) = {}
      <3>1. h[k + 1] = m
        BY <2>3, <2>5 DEF Pushed
      <3>2. QED
        BY <2>1, <2>4, <2>5, <3>1
    <2>6. CASE Unexhausted(chunks, m.indices) # {}
      <3>1. Len(Pushed(chunks, m).result) = Len(m.result) + 1
        BY <1>3, <2>2, <2>6, PushedIsMerge
      <3>2. QED
        BY <2>1, <2>2, <2>3, <2>4, <2>6, <3>1
    <2>7. QED
      BY <2>5, <2>6
  <1>14. 0..count \subseteq Good
    <2> HIDE DEF Good
    <2>1. QED
      BY <1>12, <1>13, UpTo
  <1>15. count \in Good
    <2>1. count \in 0..count
      OBVIOUS
    <2>2. QED
      BY <1>14, <2>1
  <1>16. QED
    BY <1>3, <1>10, <1>15

\* After as many turns as there are elements, the result has them all, in order.
LEMMA MergedCounts ==
  ASSUME NEW n \in Nat, NEW chunks \in [0..(n - 1) -> Seq(Nat)], AreMonotone(chunks),
         NEW count \in Nat,
         IsFiniteSet(Places(chunks)), Cardinality(Places(chunks)) = count
  PROVE  /\ Merged(chunks, count) \in Seq(Nat) /\ Len(Merged(chunks, count)) = count
         /\ IsMonotone(Merged(chunks, count))
         /\ \A v \in Nat :
               Cardinality(AtMost(Merged(chunks, count), v)) = Cardinality(PlacesUpTo(chunks, v))
  <1>1. PICK m \in MergeType(chunks) :
            /\ Merged(chunks, count) = m.result /\ IsMerge(chunks, m)
            /\ Len(m.result) = count \/ Unexhausted(chunks, m.indices) = {}
    BY MergeSteps
  <1>2. /\ DOMAIN chunks = 0..(n - 1) /\ m.indices \in [0..(n - 1) -> Nat]
        /\ m.result \in Seq(Nat)
    BY DEF MergeType
  <1>3. \A i \in 0..(n - 1) :
           /\ m.indices[i] \in Nat /\ Len(chunks[i]) \in Nat
           /\ m.indices[i] <= Len(chunks[i])
    BY <1>1, <1>2 DEF IsMerge
  <1>4. Taken(chunks, m.indices) \subseteq Places(chunks)
    <2>1. \A i \in 0..(n - 1), j \in Nat : j \in 1..m.indices[i] => j \in 1..Len(chunks[i])
      BY <1>3
    <2>2. QED
      BY <1>2, <2>1 DEF Taken, Places
  <1>5. Cardinality(Taken(chunks, m.indices)) = Len(m.result)
    BY <1>1 DEF IsMerge
  <1>6. Taken(chunks, m.indices) = Places(chunks)
    <2>1. CASE Len(m.result) = count
      BY <1>4, <1>5, <2>1, FS_Subset
    <2>2. CASE Unexhausted(chunks, m.indices) = {}
      <3>1. \A i \in 0..(n - 1) : m.indices[i] = Len(chunks[i])
        <4> SUFFICES ASSUME NEW i \in 0..(n - 1) PROVE m.indices[i] = Len(chunks[i])
          OBVIOUS
        <4>1. ~(m.indices[i] < Len(chunks[i]))
          BY <1>2, <2>2 DEF Unexhausted
        <4>2. QED
          BY <1>3, <4>1
      <3>2. \A p \in (0..(n - 1)) \X Nat : m.indices[p[1]] = Len(chunks[p[1]])
        BY <3>1
      <3>3. QED
        BY <1>2, <3>2 DEF Taken, Places
    <2>3. QED
      BY <1>1, <2>1, <2>2
  <1>7. \A v \in Nat : TakenUpTo(chunks, m.indices, v) = PlacesUpTo(chunks, v)
    BY <1>6 DEF TakenUpTo, PlacesUpTo
  <1>8. \A v \in Nat : Cardinality(TakenUpTo(chunks, m.indices, v)) = Cardinality(AtMost(m.result, v))
    BY <1>1 DEF IsMerge
  <1>9. IsMonotone(m.result)
    BY <1>1 DEF IsMerge
  <1>10. QED
    BY <1>1, <1>2, <1>5, <1>6, <1>7, <1>8, <1>9

\* Sets without a common element have the sum of their sizes,
LEMMA DisjointUnion ==
  ASSUME NEW S, IsFiniteSet(S), NEW T, IsFiniteSet(T), S \cap T = {}, NEW U, U = S \cup T
  PROVE  IsFiniteSet(U) /\ Cardinality(U) = Cardinality(S) + Cardinality(T)
  <1>1. Cardinality(S) \in Nat /\ Cardinality(T) \in Nat /\ Cardinality({}) = 0
    BY FS_CardinalityType, FS_EmptySet
  <1>2. /\ IsFiniteSet(U)
        /\ Cardinality(U) = Cardinality(S) + Cardinality(T) - Cardinality(S \cap T)
    BY FS_Union
  <1>3. Cardinality(S \cap T) = 0
    BY <1>1
  <1>4. QED
    BY <1>1, <1>2, <1>3

\* and a bijection keeps the size.
LEMMA SameSize ==
  ASSUME NEW S, IsFiniteSet(S), NEW T, NEW f \in [S -> T],
         \A x, y \in S : f[x] = f[y] => x = y, \A z \in T : \E x \in S : f[x] = z
  PROVE  IsFiniteSet(T) /\ Cardinality(T) = Cardinality(S)
  <1>1. f \in Bijection(S, T)
    BY DEF Bijection, Injection, Surjection, IsInjective
  <1>2. ExistsBijection(S, T)
    BY <1>1 DEF ExistsBijection
  <1>3. QED
    BY <1>2, FS_Bijection

\* The elements of a piece that are at most v, in the sequence and in the piece, sorted.
LEMMA PieceCount ==
  ASSUME NEW s \in Seq(Nat), NEW a \in 0..Len(s), NEW b \in 0..Len(s), a <= b,
         NEW t, t = Sorted(SubSeq(s, a + 1, b)), NEW v \in Nat
  PROVE  /\ t \in Seq(Nat) /\ IsMonotone(t)
         /\ IsFiniteSet(AtMost(t, v)) /\ IsFiniteSet({k \in (a + 1)..b : s[k] <= v})
         /\ Cardinality({k \in (a + 1)..b : s[k] <= v}) = Cardinality(AtMost(t, v))
  <1> DEFINE u == SubSeq(s, a + 1, b)
             here == {k \in (a + 1)..b : s[k] <= v}
             f == [j \in AtMost(u, v) |-> a + j]
  <1>1. u \in Seq(Nat) /\ Len(u) = b - a /\ \A j \in 1..(b - a) : u[j] = s[a + j]
    OBVIOUS
  <1>2. t = Sorted(u)
    OBVIOUS
  <1> HIDE DEF u
  <1>3. t \in Seq(Nat) /\ IsMonotone(t)
    BY <1>1, <1>2, SortedIsKth, SortedCounts
  <1>4. IsFiniteSet(AtMost(u, v)) /\ Cardinality(AtMost(u, v)) \in Nat
    BY <1>1, Counts
  <1>5. IsFiniteSet(AtMost(t, v)) /\ Cardinality(AtMost(t, v)) = Cardinality(AtMost(u, v))
    <2>1. AtMost(t, v) = 1..Cardinality(AtMost(u, v))
      BY <1>1, <1>2, SortedCounts
    <2>2. QED
      BY <1>4, <2>1, OneTo
  <1>6. AtMost(u, v) = {j \in 1..(b - a) : s[a + j] <= v}
    <2>1. DOMAIN u = 1..(b - a)
      BY <1>1
    <2>2. QED
      BY <1>1, <2>1 DEF AtMost
  <1> DEFINE X == AtMost(u, v)
  <1>7. X \subseteq 1..(b - a) /\ \A j \in 1..(b - a) : j \in X <=> s[a + j] <= v
    BY <1>6
  <1> HIDE DEF X
  <1>8. \A j \in X : a + j \in here
    BY <1>7
  <1>9. \A k \in here : k - a \in X /\ a + (k - a) = k
    <2> SUFFICES ASSUME NEW k \in (a + 1)..b, s[k] <= v PROVE k - a \in X /\ a + (k - a) = k
      OBVIOUS
    <2>1. k - a \in 1..(b - a) /\ a + (k - a) = k
      OBVIOUS
    <2>2. QED
      BY <1>7, <2>1
  <1> HIDE DEF here
  <1>10. f = [j \in X |-> a + j]
    BY DEF X
  <1> HIDE DEF f
  <1>11. f \in [X -> here]
    BY <1>8, <1>10
  <1>12. \A x, y \in X : f[x] = f[y] => x = y
    BY <1>7, <1>10
  <1>13. \A z \in here : \E x \in X : f[x] = z
    BY <1>9, <1>10
  <1>14. IsFiniteSet(here) /\ Cardinality(here) = Cardinality(X)
    BY <1>4, <1>11, <1>12, <1>13, SameSize DEF X
  <1>15. QED
    BY <1>3, <1>5, <1>14 DEF X, here

AreSorted(parts, s, cut, n) ==
    \A i \in 0..(n - 1) : parts[i] = Sorted(SubSeq(s, cut[i] + 1, cut[i + 1]))

\* The pieces have, together, as many elements at most v as the sequence.
LEMMA PiecesCount ==
  ASSUME NEW n \in Nat, NEW s \in Seq(Nat), NEW cut, IsCut(cut, n, s),
         NEW parts \in [0..(n - 1) -> Seq(Nat)], AreSorted(parts, s, cut, n), NEW v \in Nat
  PROVE  /\ IsFiniteSet(PlacesUpTo(parts, v))
         /\ Cardinality(PlacesUpTo(parts, v)) = Cardinality(AtMost(s, v))
  <1> DEFINE Before(i) == {p \in PlacesUpTo(parts, v) : p[1] < i}
             Upto(i) == {k \in 1..cut[i] : s[k] <= v}
             Piece(i) == {k \in (cut[i] + 1)..cut[i + 1] : s[k] <= v}
             Good == {i \in 0..n : /\ IsFiniteSet(Before(i)) /\ IsFiniteSet(Upto(i))
                                   /\ Cardinality(Before(i)) = Cardinality(Upto(i))}
  <1>1. /\ \A i \in 0..n : cut[i] \in 0..Len(s)
        /\ \A i \in 0..(n - 1) : cut[i] <= cut[i + 1] /\ i \in 0..n /\ i + 1 \in 0..n
        /\ cut[0] = 0 /\ cut[n] = Len(s) /\ Len(s) \in Nat
    BY DEF IsCut
  <1>2. DOMAIN parts = 0..(n - 1) /\ DOMAIN s = 1..Len(s)
    OBVIOUS
  <1>3. PlacesUpTo(parts, v) = {p \in (0..(n - 1)) \X Nat : p[2] \in AtMost(parts[p[1]], v)}
    <2> SUFFICES ASSUME NEW i \in 0..(n - 1), NEW j \in Nat
                 PROVE  (j \in 1..Len(parts[i]) /\ parts[i][j] <= v) <=> j \in AtMost(parts[i], v)
      BY <1>2 DEF PlacesUpTo, Places
    <2>1. parts[i] \in Seq(Nat)
      OBVIOUS
    <2>2. DOMAIN parts[i] = 1..Len(parts[i])
      BY <2>1
    <2>3. QED
      BY <2>2 DEF AtMost
  <1>4. 0 \in Good
    <2>1. Before(0) = {}
      BY <1>3
    <2>2. Upto(0) = {}
      BY <1>1
    <2>3. 0 \in 0..n
      OBVIOUS
    <2>4. QED
      BY <2>1, <2>2, <2>3, FS_EmptySet
  <1>5. ASSUME NEW i \in 0..(n - 1), i \in Good PROVE i + 1 \in Good
    <2> DEFINE A == AtMost(parts[i], v)
               C == {i} \X A
    <2>1. /\ IsFiniteSet(A) /\ IsFiniteSet(Piece(i)) /\ Cardinality(Piece(i)) = Cardinality(A)
      <3>1. cut[i] \in 0..Len(s) /\ cut[i + 1] \in 0..Len(s) /\ cut[i] <= cut[i + 1]
        BY <1>1
      <3>2. parts[i] = Sorted(SubSeq(s, cut[i] + 1, cut[i + 1]))
        BY DEF AreSorted
      <3>3. QED
        BY <3>1, <3>2, PieceCount
    <2>2. IsFiniteSet(C) /\ Cardinality(C) = Cardinality(A)
      <3>1. IsFiniteSet({i}) /\ Cardinality({i}) = 1
        BY FS_Singleton
      <3>2. Cardinality(A) \in Nat
        BY <2>1, FS_CardinalityType
      <3>3. IsFiniteSet(C) /\ Cardinality(C) = 1 * Cardinality(A)
        BY <2>1, <3>1, FS_Product
      <3>4. QED
        BY <3>2, <3>3
    <2>3. Before(i + 1) = Before(i) \cup C /\ Before(i) \cap C = {}
      <3>1. A \subseteq Nat
        <4>1. parts[i] \in Seq(Nat)
          OBVIOUS
        <4>2. A \subseteq 1..Len(parts[i])
          BY <4>1, Counts
        <4>3. QED
          BY <4>2
      <3>2. ASSUME NEW k \in 0..(n - 1) PROVE k < i + 1 <=> (k < i \/ k = i)
        OBVIOUS
      <3>3. \A p \in (0..(n - 1)) \X Nat : p \in C <=> (p[1] = i /\ p[2] \in AtMost(parts[p[1]], v))
        OBVIOUS
      <3>4. C \subseteq (0..(n - 1)) \X Nat
        BY <3>1
      <3> HIDE DEF C
      <3>5. QED
        BY <1>3, <3>2, <3>3, <3>4
    <2>4. Upto(i + 1) = Upto(i) \cup Piece(i) /\ Upto(i) \cap Piece(i) = {}
      <3> DEFINE a == cut[i] b == cut[i + 1]
      <3>1. a \in Nat /\ b \in Nat /\ a <= b
        BY <1>1
      <3> HIDE DEF a, b
      <3>2. {k \in 1..b : s[k] <= v} = {k \in 1..a : s[k] <= v} \cup {k \in (a + 1)..b : s[k] <= v}
        BY <3>1
      <3>3. {k \in 1..a : s[k] <= v} \cap {k \in (a + 1)..b : s[k] <= v} = {}
        BY <3>1
      <3>4. QED
        BY <3>2, <3>3 DEF a, b
    <2>5. IsFiniteSet(Before(i)) /\ IsFiniteSet(Upto(i)) /\ Cardinality(Before(i)) = Cardinality(Upto(i))
      BY <1>5
    <2>6. i + 1 \in 0..n
      BY <1>1
    <2> HIDE DEF Before, Upto, Piece, A, C
    <2>7. /\ IsFiniteSet(Before(i + 1))
          /\ Cardinality(Before(i + 1)) = Cardinality(Before(i)) + Cardinality(C)
      BY <2>2, <2>3, <2>5, DisjointUnion
    <2>8. /\ IsFiniteSet(Upto(i + 1))
          /\ Cardinality(Upto(i + 1)) = Cardinality(Upto(i)) + Cardinality(Piece(i))
      BY <2>1, <2>4, <2>5, DisjointUnion
    <2>9. QED
      BY <2>1, <2>2, <2>5, <2>6, <2>7, <2>8
  <1>6. 0..n \subseteq Good
    <2> HIDE DEF Good
    <2>1. QED
      BY <1>4, <1>5, UpTo
  <1>7. n \in Good
    <2>1. n \in 0..n
      OBVIOUS
    <2>2. QED
      BY <1>6, <2>1
  <1>8. Before(n) = PlacesUpTo(parts, v)
    BY <1>3
  <1>9. Upto(n) = AtMost(s, v)
    BY <1>1, <1>2 DEF AtMost
  <1>10. QED
    BY <1>7, <1>8, <1>9

\* What std::sort is taken to do, said without the k-th element: the result is in order,
\* has as many elements at most each value as what was sorted, and is the only sequence
\* of which both are true.
THEOREM SortedIsSorting ==
  ASSUME NEW s \in Seq(Nat), NEW t \in Seq(Nat)
  PROVE  t = Sorted(s) <=>
            /\ Len(t) = Len(s) /\ IsMonotone(t)
            /\ \A v \in Nat : Cardinality(AtMost(t, v)) = Cardinality(AtMost(s, v))
  <1>1. ASSUME t = Sorted(s)
        PROVE  /\ Len(t) = Len(s) /\ IsMonotone(t)
               /\ \A v \in Nat : Cardinality(AtMost(t, v)) = Cardinality(AtMost(s, v))
    <2>1. Len(t) = Len(s)
      BY <1>1, SortedIsKth
    <2>2. IsMonotone(t) /\ \A v \in Nat : AtMost(t, v) = 1..Cardinality(AtMost(s, v))
      BY <1>1, SortedCounts
    <2>3. ASSUME NEW v \in Nat PROVE Cardinality(AtMost(t, v)) = Cardinality(AtMost(s, v))
      <3>1. Cardinality(AtMost(s, v)) \in Nat
        BY Counts
      <3>2. QED
        BY <2>2, <3>1, OneTo
    <2>4. QED
      BY <2>1, <2>2, <2>3
  <1>2. QED
    BY <1>1, IsSorted

\* The merge at the end of parallel Sort (sync.hpp:212-244): the pieces of a sequence,
\* however it is cut, each sorted on its own, are merged into the sequence, sorted.
THEOREM PiecesMerged ==
  ASSUME NEW n \in Nat, NEW s \in Seq(Nat), NEW cut, IsCut(cut, n, s),
         NEW parts \in [0..(n - 1) -> Seq(Nat)], AreSorted(parts, s, cut, n)
  PROVE  Merged(parts, Len(s)) = Sorted(s)
  <1>1. /\ \A i \in 0..n : cut[i] \in 0..Len(s)
        /\ \A i \in 0..(n - 1) : cut[i] <= cut[i + 1] /\ i \in 0..n /\ i + 1 \in 0..n
    BY DEF IsCut
  <1>2. DOMAIN parts = 0..(n - 1) /\ Len(s) \in Nat
    OBVIOUS
  <1>3. AreMonotone(parts)
    <2> SUFFICES ASSUME NEW i \in 0..(n - 1) PROVE IsMonotone(parts[i])
      BY <1>2 DEF AreMonotone
    <2>1. cut[i] \in 0..Len(s) /\ cut[i + 1] \in 0..Len(s) /\ cut[i] <= cut[i + 1]
      BY <1>1
    <2>2. parts[i] = Sorted(SubSeq(s, cut[i] + 1, cut[i + 1])) /\ 0 \in Nat
      BY DEF AreSorted
    <2>3. QED
      BY <2>1, <2>2, PieceCount
  <1>4. PICK m \in Nat : \A i \in 1..Len(s) : s[i] <= m
    BY Bounded
  <1>5. AtMost(s, m) = 1..Len(s)
    BY <1>2, <1>4 DEF AtMost
  <1>6. PlacesUpTo(parts, m) = Places(parts)
    <2> SUFFICES ASSUME NEW i \in 0..(n - 1), NEW j \in 1..Len(parts[i])
                 PROVE  parts[i][j] <= m
      BY <1>2 DEF PlacesUpTo, Places
    <2>1. cut[i] \in 0..Len(s) /\ cut[i + 1] \in 0..Len(s) /\ cut[i] <= cut[i + 1]
      BY <1>1
    <2> DEFINE a == cut[i] b == cut[i + 1] u == SubSeq(s, a + 1, b)
    <2>2. parts[i] = Sorted(u)
      BY DEF AreSorted
    <2>a. a \in 0..Len(s) /\ b \in 0..Len(s) /\ a <= b
      BY <2>1
    <2> HIDE DEF a, b
    <2>3. u \in Seq(Nat) /\ Len(u) = b - a /\ \A k \in 1..(b - a) : u[k] = s[a + k]
      <3>1. u \in Seq(Nat) /\ Len(u) = b - a
        BY <2>a
      <3>2. ASSUME NEW k \in 1..(b - a) PROVE u[k] = s[a + k]
        BY <2>a
      <3>3. QED
        BY <3>1, <3>2
    <2> HIDE DEF u
    <2>4. \A k \in 1..(b - a) : u[k] <= m
      <3> SUFFICES ASSUME NEW k \in 1..(b - a) PROVE u[k] <= m
        OBVIOUS
      <3>1. a + k \in 1..Len(s)
        BY <2>a
      <3>2. QED
        BY <1>4, <2>3, <3>1
    <2>5. Len(parts[i]) = Len(u) /\ IsKth(u, j, parts[i][j])
      BY <2>2, <2>3, SortedIsKth
    <2>6. PICK k \in DOMAIN u : parts[i][j] = u[k]
      BY <2>5 DEF IsKth
    <2>7. QED
      BY <2>3, <2>4, <2>6
  <1>7. IsFiniteSet(Places(parts)) /\ Cardinality(Places(parts)) = Len(s)
    BY <1>2, <1>5, <1>6, OneTo, PiecesCount
  <1> DEFINE t == Merged(parts, Len(s))
  <1>8. /\ t \in Seq(Nat) /\ Len(t) = Len(s) /\ IsMonotone(t)
        /\ \A v \in Nat : Cardinality(AtMost(t, v)) = Cardinality(PlacesUpTo(parts, v))
    BY <1>2, <1>3, <1>7, MergedCounts
  <1> HIDE DEF t
  <1>9. \A v \in Nat : Cardinality(AtMost(t, v)) = Cardinality(AtMost(s, v))
    BY <1>8, PiecesCount
  <1>10. t = Sorted(s)
    BY <1>8, <1>9, IsSorted
  <1>11. QED
    BY <1>10 DEF t
===============================================================================
