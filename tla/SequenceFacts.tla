---------------------------- MODULE SequenceFacts ----------------------------
(***************************************************************************)
(* Facts about numbers and sequences that several proofs need: induction,  *)
(* stated with a set in place of a predicate, and what recursive           *)
(* definitions over an interval define.                                    *)
(***************************************************************************)
EXTENDS Integers, SequencesExt, SequenceTheorems, WellFoundedInduction, TLAPS

\* What holds of zero, and of n + 1 where it holds of n, holds of every number.
LEMMA SetInduction ==
  ASSUME NEW S, 0 \in S, \A n \in Nat : n \in S => n + 1 \in S
  PROVE  \A n \in Nat : n \in S
<1> SUFFICES ASSUME \E n \in Nat : n \notin S PROVE FALSE
  OBVIOUS
<1> DEFINE T == {n \in Nat : n \notin S}
           R == OpToRel(<, Nat)
<1>1. T \subseteq Nat /\ T # {}
  OBVIOUS
<1>2. IsWellFoundedOn(R, Nat)
  BY NatLessThanWellFounded
<1> HIDE DEF T, R
<1>3. PICK x \in T : \A y \in T : ~ (<<y, x>> \in R)
  BY <1>1, <1>2, WFMin
<1>4. \A y \in T : ~(y < x)
  BY <1>1, <1>3 DEF R, OpToRel
<1>5. x \in Nat /\ x \notin S
  BY DEF T
<1>6. x # 0
  BY <1>5
<1>7. x - 1 \in Nat /\ x - 1 < x
  BY <1>5, <1>6
<1>8. x - 1 \in S
  BY <1>4, <1>7 DEF T
<1>9. x - 1 + 1 \in S
  BY <1>7, <1>8
<1> QED
  BY <1>5, <1>9

\* The same for the numbers up to N.
LEMMA CountingUp ==
  ASSUME NEW N \in Nat, NEW S, 0 \in S, \A n \in 1 .. N : n - 1 \in S => n \in S
  PROVE  \A n \in 0 .. N : n \in S
<1> DEFINE T == {n \in Nat : n <= N => n \in S}
<1>1. 0 \in T
  OBVIOUS
<1>2. ASSUME NEW n \in Nat, n \in T PROVE n + 1 \in T
  <2> DEFINE p == n + 1
  <2>1. p \in Nat /\ p - 1 = n /\ (p <= N => p \in 1 .. N /\ n \in S)
    BY <1>2
  <2> HIDE DEF p
  <2>2. p <= N => p \in S
    BY <2>1
  <2> QED
    BY <2>2 DEF p
<1> HIDE DEF T
<1>3. \A n \in Nat : n \in T
  BY <1>1, <1>2, SetInduction
<1> QED
  BY <1>3 DEF T

\* f starts with a, and goes by a step from each value to the next.
Iterates(f, N, X, a, step) ==
  f \in [0 .. N -> X] /\ f[0] = a /\ \A n \in 1 .. N : f[n] = step[n][f[n - 1]]

\* What each step makes of the value before it defines a value for each n.
LEMMA RecursionDefines ==
  ASSUME NEW N \in Nat, NEW X, NEW a \in X, NEW step \in [1 .. N -> [X -> X]]
  PROVE  \E f : Iterates(f, N, X, a, step)
<1> DEFINE Up(m, f) == f \in [0 .. m -> X] /\ f[0] = a /\ \A n \in 1 .. m : f[n] = step[n][f[n - 1]]
           S == {m \in Nat : m <= N => \E f : Up(m, f)}
<1>1. 0 \in S
  <2>1. Up(0, [n \in 0 .. 0 |-> a])
    OBVIOUS
  <2> QED
    BY <2>1
<1>2. ASSUME NEW m \in Nat, m \in S PROVE m + 1 \in S
  <2> SUFFICES ASSUME m + 1 <= N PROVE \E f : Up(m + 1, f)
    OBVIOUS
  <2>1. PICK f : Up(m, f)
    BY <1>2
  <2> DEFINE g == [n \in 0 .. m + 1 |-> IF n = m + 1 THEN step[m + 1][f[m]] ELSE f[n]]
  <2>2. m + 1 \in 1 .. N /\ f[m] \in X
    BY <2>1
  <2>3. step[m + 1][f[m]] \in X
    BY <2>2
  <2>4. g \in [0 .. m + 1 -> X]
    BY <2>1, <2>3
  <2>5. g[0] = a
    BY <2>1
  <2>6. ASSUME NEW n \in 1 .. m + 1 PROVE g[n] = step[n][g[n - 1]]
    <3>1. CASE n = m + 1
      BY <3>1
    <3>2. CASE n # m + 1
      <4>1. n \in 1 .. m /\ n - 1 \in 0 .. m
        BY <3>2
      <4> QED
        BY <2>1, <4>1
    <3> QED
      BY <3>1, <3>2
  <2> QED
    BY <2>4, <2>5, <2>6
<1> HIDE DEF S
<1>3. \A m \in Nat : m \in S
  BY <1>1, <1>2, SetInduction
<1> QED
  BY <1>3 DEF S, Iterates

LEMMA Below == \A m, n \in Nat : m < n + 1 => m = n \/ m < n
OBVIOUS

\* A step looks at values of lower rank only.
LooksDown(step, D, rank, X) ==
  \A i \in D : \A f, g \in [D -> X] :
     (\A j \in D : rank[j] < rank[i] => f[j] = g[j]) => step[i][f] = step[i][g]

Solves(f, D, X, step) == f \in [D -> X] /\ \A i \in D : f[i] = step[i][f]

\* A value may depend on all those of lower rank.
LEMMA RankedRecursionDefines ==
  ASSUME NEW D, NEW N \in Nat, NEW rank \in [D -> 0 .. N], NEW X, NEW a \in X,
         NEW step \in [D -> [[D -> X] -> X]], LooksDown(step, D, rank, X)
  PROVE  \E f : Solves(f, D, X, step)
<1> DEFINE Up(m, f) == \A i \in D : rank[i] < m => f[i] = step[i][f]
           S == {m \in Nat : \E f \in [D -> X] : Up(m, f)}
<1>1. 0 \in S
  <2>1. [i \in D |-> a] \in [D -> X]
    OBVIOUS
  <2>2. \A i \in D : ~(rank[i] < 0)
    OBVIOUS
  <2> QED
    BY <2>1, <2>2
<1>2. ASSUME NEW m \in Nat, m \in S PROVE m + 1 \in S
  <2>1. PICK f \in [D -> X] : Up(m, f)
    BY <1>2
  <2> DEFINE g == [i \in D |-> IF rank[i] = m THEN step[i][f] ELSE f[i]]
  <2>2. \A i \in D : step[i][f] \in X
    OBVIOUS
  <2>3. g \in [D -> X]
    BY <2>2
  <2>4. \A i \in D : g[i] = IF rank[i] = m THEN step[i][f] ELSE f[i]
    OBVIOUS
  <2> HIDE DEF g
  <2>5. ASSUME NEW i \in D, rank[i] < m + 1 PROVE g[i] = step[i][g]
    <3>1. rank[i] \in Nat /\ \A j \in D : rank[j] \in Nat
      OBVIOUS
    <3>2. \A j \in D : rank[j] < rank[i] => g[j] = f[j]
      BY <2>4, <2>5, <3>1
    <3>3. step[i][g] = step[i][f]
      BY <2>3, <3>2 DEF LooksDown
    <3>4. CASE rank[i] = m
      BY <2>4, <3>3, <3>4
    <3>5. CASE rank[i] < m
      <4>1. f[i] = step[i][f]
        BY <2>1, <3>5
      <4> QED
        BY <2>4, <3>1, <3>3, <3>5, <4>1
    <3>6. rank[i] = m \/ rank[i] < m
      BY <2>5, <3>1, Below
    <3> QED
      BY <3>4, <3>5, <3>6
  <2>6. Up(m + 1, g)
    BY <2>5
  <2> QED
    BY <2>3, <2>6
<1> HIDE DEF S
<1>3. N + 1 \in S
  BY <1>1, <1>2, SetInduction
<1>4. PICK f \in [D -> X] : Up(N + 1, f)
  BY <1>3 DEF S
<1>5. \A i \in D : rank[i] < N + 1
  OBVIOUS
<1> QED
  BY <1>4, <1>5 DEF Solves

-----------------------------------------------------------------------------
\* Two sequences, one behind the other.
LEMMA Joined ==
  ASSUME NEW S, NEW s \in Seq(S), NEW t \in Seq(S)
  PROVE  /\ s \o t \in Seq(S) /\ Len(s) \in Nat /\ Len(t) \in Nat /\ Len(s \o t) = Len(s) + Len(t)
         /\ \A i \in 1 .. Len(s) : (s \o t)[i] = s[i]
         /\ \A i \in 1 .. Len(t) : (s \o t)[Len(s) + i] = t[i]
BY ConcatProperties

\* It does not matter which two of three sequences are joined first.
Associative(s, t, u) == (s \o t) \o u = s \o (t \o u)

LEMMA Associates ==
  ASSUME NEW S, NEW s \in Seq(S), NEW t \in Seq(S), NEW u \in Seq(S)
  PROVE  Associative(s, t, u)
BY ConcatAssociative DEF Associative

\* A part of a sequence, from behind its first m cells on.
LEMMA Cut ==
  ASSUME NEW S, NEW s \in Seq(S), NEW m \in Nat, NEW n \in Nat, m + n <= Len(s)
  PROVE  LET t == SubSeq(s, m + 1, m + n) IN
         t \in Seq(S) /\ Len(t) = n /\ \A k \in 1 .. n : t[k] = s[m + k]
<1> DEFINE t == SubSeq(s, m + 1, m + n)
<1>1. Len(s) \in Nat /\ \A k \in 1 .. n : m + 1 + k - 1 = m + k /\ m + k \in 1 .. Len(s)
  OBVIOUS
<1>2. t \in Seq(S)
  BY <1>1
<1>3. Len(t) = n
  BY <1>1
<1>4. \A k \in 1 .. n : t[k] = s[m + k]
  BY <1>1
<1> QED
  BY <1>2, <1>3, <1>4

\* The same of a t that is known to be this part.
PartOf(t, s, m, n) == Len(t) = n /\ \A k \in 1 .. n : t[k] = s[m + k]

LEMMA CutIs ==
  ASSUME NEW S, NEW s \in Seq(S), NEW m \in Nat, NEW n \in Nat, m + n <= Len(s),
         NEW t, t = SubSeq(s, m + 1, m + n)
  PROVE  t \in Seq(S) /\ PartOf(t, s, m, n)
BY Cut DEF PartOf

\* Sequences with the same elements are the same.
LEMMA SameElements ==
  ASSUME NEW S, NEW s \in Seq(S), NEW t \in Seq(S), Len(s) = Len(t),
         \A k \in 1 .. Len(s) : s[k] = t[k]
  PROVE  s = t
OBVIOUS

\* The first m and the rest of the first n.
LEMMA Glued ==
  ASSUME NEW S, NEW s \in Seq(S), NEW m \in Nat, NEW n \in Nat, m <= n, n <= Len(s)
  PROVE  /\ SubSeq(s, 1, m) \in Seq(S) /\ SubSeq(s, m + 1, n) \in Seq(S) /\ SubSeq(s, 1, n) \in Seq(S)
         /\ SubSeq(s, 1, m) \o SubSeq(s, m + 1, n) = SubSeq(s, 1, n)
<1> DEFINE a == SubSeq(s, 1, m)
           l == n - m
           b == SubSeq(s, m + 1, n)
           c == SubSeq(s, 1, n)
<1>1. /\ a = SubSeq(s, 0 + 1, 0 + m) /\ b = SubSeq(s, m + 1, m + l) /\ c = SubSeq(s, 0 + 1, 0 + n)
      /\ l \in Nat /\ 0 + m <= Len(s) /\ m + l <= Len(s) /\ 0 + n <= Len(s) /\ n = m + l
  OBVIOUS
<1> HIDE DEF a, b, c, l
<1>2. a \in Seq(S) /\ Len(a) = m /\ \A k \in 1 .. m : a[k] = s[0 + k]
  BY <1>1, Cut
<1>3. b \in Seq(S) /\ Len(b) = l /\ \A k \in 1 .. l : b[k] = s[m + k]
  BY <1>1, Cut
<1>4. c \in Seq(S) /\ Len(c) = n /\ \A k \in 1 .. n : c[k] = s[0 + k]
  BY <1>1, Cut
<1>5. /\ a \o b \in Seq(S) /\ Len(a \o b) = Len(a) + Len(b)
      /\ \A i \in 1 .. Len(a) : (a \o b)[i] = a[i]
      /\ \A i \in 1 .. Len(b) : (a \o b)[Len(a) + i] = b[i]
  <2>1. a \in Seq(S) /\ b \in Seq(S)
    BY <1>2, <1>3
  <2> QED
    BY <2>1, Joined
<1>6. ASSUME NEW i \in 1 .. n PROVE (a \o b)[i] = c[i]
  <2>1. 0 + i = i /\ c[i] = s[i]
    BY <1>4
  <2>2. CASE i \in 1 .. m
    BY <1>2, <1>5, <2>1, <2>2
  <2>3. CASE i \notin 1 .. m
    <3> DEFINE j == i - m
    <3>1. j \in 1 .. l /\ m + j = i
      BY <1>1, <2>3
    <3> HIDE DEF j
    <3>2. (a \o b)[m + j] = b[j] /\ b[j] = s[m + j]
      BY <1>2, <1>3, <1>5, <3>1
    <3> QED
      BY <2>1, <3>1, <3>2
  <2> QED
    BY <2>2, <2>3
<1>7. a \o b = c
  <2>1. a \o b \in Seq(S) /\ Len(a \o b) = Len(c) /\ Len(c) = n
    BY <1>1, <1>2, <1>3, <1>4, <1>5
  <2> DEFINE ab == a \o b
  <2>2. ab \in Seq(S) /\ c \in Seq(S) /\ Len(ab) = Len(c) /\ \A k \in 1 .. Len(ab) : ab[k] = c[k]
    BY <1>4, <1>6, <2>1
  <2> HIDE DEF ab
  <2>3. ab = c
    BY <2>2, SameElements
  <2> QED
    BY <2>3 DEF ab
<1> QED
  BY <1>2, <1>3, <1>4, <1>7 DEF a, b, c

\* The first n of some sequences make up the whole: from the at[n - 1]th cell on is the nth.
LieUpTo(n, whole, es, at) ==
  /\ at[0] = 0 /\ at[n] = Len(whole) /\ \A m \in 0 .. n : at[m] \in 0 .. Len(whole)
  /\ \A m \in 1 .. n :
        /\ at[m] = at[m - 1] + Len(es[m])
        /\ \A k \in 1 .. Len(es[m]) : whole[at[m - 1] + k] = es[m][k]
Lie(whole, es, at) == LieUpTo(Len(es), whole, es, at)

LEMMA LieFurther ==
  ASSUME NEW S, NEW n \in Nat, NEW whole \in Seq(S), NEW es, NEW at, LieUpTo(n, whole, es, at),
         \A m \in 1 .. n + 1 : es[m] \in Seq(S), at[n + 1] = Len(whole \o es[n + 1])
  PROVE  LieUpTo(n + 1, whole \o es[n + 1], es, at)
<1> DEFINE t == es[n + 1]
           w == whole \o t
<1>1. t \in Seq(S)
  OBVIOUS
<1> HIDE DEF t
<1>2. /\ Len(whole) \in Nat /\ Len(t) \in Nat /\ Len(w) = Len(whole) + Len(t)
      /\ \A k \in 1 .. Len(whole) : w[k] = whole[k]
      /\ \A k \in 1 .. Len(t) : w[Len(whole) + k] = t[k]
  BY <1>1, Joined
<1>3. at[n + 1] = Len(w)
  BY DEF t
<1> HIDE DEF w
<1>4. \A m \in 0 .. n + 1 : m = n + 1 \/ m \in 0 .. n
  OBVIOUS
<1>5. /\ at[0] = 0 /\ at[n] = Len(whole) /\ \A m \in 0 .. n : at[m] \in 0 .. Len(whole)
      /\ \A m \in 1 .. n : /\ at[m] = at[m - 1] + Len(es[m])
                           /\ \A k \in 1 .. Len(es[m]) : whole[at[m - 1] + k] = es[m][k]
  BY DEF LieUpTo
<1>6. \A m \in 0 .. n + 1 : at[m] \in 0 .. Len(w)
  BY <1>2, <1>3, <1>4, <1>5
<1>7. ASSUME NEW m \in 1 .. n + 1
      PROVE  at[m] = at[m - 1] + Len(es[m]) /\ \A k \in 1 .. Len(es[m]) : w[at[m - 1] + k] = es[m][k]
  <2>1. CASE m = n + 1
    <3>1. es[m] = t /\ m - 1 = n
      BY <2>1 DEF t
    <3>2. at[m] = Len(w) /\ at[m - 1] = Len(whole)
      BY <1>3, <1>5, <2>1, <3>1
    <3>3. \A k \in 1 .. Len(es[m]) : w[at[m - 1] + k] = es[m][k]
      BY <1>2, <3>1, <3>2
    <3> QED
      BY <1>2, <3>1, <3>2, <3>3
  <2>2. CASE m \in 1 .. n
    <3>1. at[m] = at[m - 1] + Len(es[m])
      BY <1>5, <2>2
    <3>2. ASSUME NEW k \in 1 .. Len(es[m]) PROVE w[at[m - 1] + k] = es[m][k]
      <4>1. Len(es[m]) \in Nat
        OBVIOUS
      <4>2. m - 1 \in 0 .. n /\ m \in 0 .. n
        BY <2>2
      <4>3. at[m - 1] \in 0 .. Len(whole) /\ at[m] \in 0 .. Len(whole)
        BY <1>5, <4>2
      <4>4. at[m - 1] + k \in 1 .. Len(whole)
        <5>1. k \in Nat /\ k >= 1 /\ k <= Len(es[m])
          BY <4>1
        <5> DEFINE a == at[m - 1]
                   l == Len(es[m])
                   b == at[m]
                   z == Len(whole)
        <5>2. a \in 0 .. z /\ b \in 0 .. z /\ b = a + l /\ l \in Nat /\ z \in Nat
          BY <1>2, <3>1, <4>1, <4>3
        <5> HIDE DEF a, b, l, z
        <5>3. a + k \in 1 .. z
          BY <5>1, <5>2 DEF l
        <5> QED
          BY <5>3 DEF a, z
      <4>5. whole[at[m - 1] + k] = es[m][k]
        BY <1>5, <2>2
      <4> QED
        BY <1>2, <4>4, <4>5
    <3> QED
      BY <3>1, <3>2
  <2> QED
    BY <1>4, <2>1, <2>2
<1>8. LieUpTo(n + 1, w, es, at)
  BY <1>3, <1>5, <1>6, <1>7 DEF LieUpTo
<1> QED
  BY <1>8 DEF w, t

\* FlattenSeq lays the sequences one behind the other.
LEMMA Flattened ==
  ASSUME NEW S, NEW es \in Seq(Seq(S))
  PROVE  /\ FlattenSeq(es) \in Seq(S)
         /\ \E at : Lie(FlattenSeq(es), es, at)
<1> DEFINE N == Len(es)
           X == Seq(S)
           Body(f) == [i \in 1 .. N |-> IF i = 1 THEN es[i] ELSE f[i - 1] \o es[i]]
           g == CHOOSE f : f = Body(f)
<1>1. N \in Nat /\ \A n \in 1 .. N : es[n] \in X
  OBVIOUS
<1>2. CASE N = 0
  <2>1. FlattenSeq(es) = es /\ es = << >>
    BY <1>2 DEF FlattenSeq
  <2>2. Lie(<< >>, << >>, [i \in 0 .. 0 |-> 0])
    BY DEF Lie, LieUpTo
  <2> QED
    BY <2>1, <2>2
<1>3. CASE N > 0
  <2>1. FlattenSeq(es) = g[N]
    BY <1>1, <1>3 DEF FlattenSeq
  <2> DEFINE step == [n \in 1 .. N |-> [x \in X |-> IF n = 1 THEN es[n] ELSE x \o es[n]]]
  <2>2. step \in [1 .. N -> [X -> X]]
    BY <1>1
  <2>3. << >> \in X
    OBVIOUS
  <2>4. \A n \in 1 .. N : \A x \in X : step[n][x] = IF n = 1 THEN es[n] ELSE x \o es[n]
    OBVIOUS
  <2> HIDE DEF X, N, step, g, Body
  <2>5. PICK h : Iterates(h, N, X, << >>, step)
    <3>1. N \in Nat
      BY <1>1
    <3> QED
      BY <2>2, <2>3, <3>1, RecursionDefines
  <2>6. \A n \in 1 .. N : h[n] = IF n = 1 THEN es[n] ELSE h[n - 1] \o es[n]
    <3>1. \A n \in 1 .. N : n - 1 \in 0 .. N
      BY <1>1
    <3>2. \A n \in 1 .. N : h[n - 1] \in X /\ h[n] = step[n][h[n - 1]]
      BY <2>5, <3>1 DEF Iterates
    <3> QED
      BY <2>4, <3>2
  <2>7. \E f : f = Body(f)
    <3> DEFINE f == [i \in 1 .. N |-> h[i]]
    <3>1. \A i \in 1 .. N : i # 1 => i - 1 \in 1 .. N
      BY <1>1
    <3>2. \A i \in 1 .. N : f[i] = IF i = 1 THEN es[i] ELSE f[i - 1] \o es[i]
      BY <2>6, <3>1
    <3>3. f = [i \in 1 .. N |-> f[i]]
      OBVIOUS
    <3> HIDE DEF f
    <3>4. f = Body(f)
      BY <3>2, <3>3 DEF Body
    <3> QED
      BY <3>4
  <2>8. g = Body(g)
    BY <2>7 DEF g
  <2>9. \A i \in 1 .. N : g[i] = IF i = 1 THEN es[i] ELSE g[i - 1] \o es[i]
    <3>1. PICK f : f = g /\ g = Body(f)
      BY <2>8
    <3> QED
      BY <3>1 DEF Body
  <2> DEFINE length == [n \in 0 .. N |-> IF n = 0 THEN 0 ELSE Len(g[n])]
             Right(n) == g[n] \in X /\ LieUpTo(n, g[n], es, length)
             T == {n \in Nat : n + 1 <= N => Right(n + 1)}
  <2>10. length[0] = 0 /\ \A n \in 1 .. N : length[n] = Len(g[n])
    <3>1. \A n \in 1 .. N : n \in 0 .. N /\ n # 0
      BY <1>1
    <3>2. 0 \in 0 .. N
      BY <1>1
    <3> QED
      BY <3>1, <3>2
  <2> HIDE DEF length, Right
  <2>11. 0 \in T
    <3>1. ASSUME 1 <= N PROVE Right(1)
      <4>1. 1 \in 1 .. N
        BY <1>1, <3>1
      <4>2. g[1] = es[1] /\ es[1] \in X /\ length[1] = Len(es[1])
        BY <1>1, <2>9, <2>10, <4>1
      <4>3. Len(es[1]) \in Nat
        BY <4>2 DEF X
      <4> DEFINE e == es[1]
      <4>4. g[1] = e /\ length[1] = Len(e) /\ Len(e) \in Nat /\ length[0] = 0
        BY <2>10, <4>2, <4>3
      <4>5. \A m \in 0 .. 1 : length[m] \in 0 .. Len(e)
        <5> HIDE DEF e
        <5>1. \A m \in 0 .. 1 : m = 0 \/ m = 1
          OBVIOUS
        <5> QED
          BY <4>4, <5>1
      <4>6. ASSUME NEW m \in 1 .. 1
            PROVE  /\ length[m] = length[m - 1] + Len(es[m])
                   /\ \A k \in 1 .. Len(es[m]) : e[length[m - 1] + k] = es[m][k]
        <5>1. m = 1 /\ m - 1 = 0 /\ es[m] = e
          OBVIOUS
        <5> HIDE DEF e
        <5>2. length[m - 1] = 0 /\ length[m] = Len(e)
          BY <4>4, <5>1
        <5>3. \A k \in 1 .. Len(e) : 0 + k = k
          BY <4>4
        <5> QED
          BY <4>4, <5>1, <5>2, <5>3
      <4> HIDE DEF e
      <4>7. LieUpTo(1, e, es, length)
        BY <4>4, <4>5, <4>6 DEF LieUpTo
      <4> QED
        BY <4>2, <4>4, <4>7 DEF Right
    <3>2. 0 + 1 = 1
      OBVIOUS
    <3> QED
      BY <3>1, <3>2
  <2>12. ASSUME NEW n \in Nat, n \in T PROVE n + 1 \in T
    <3> DEFINE p == n + 1
    <3>1. p \in Nat /\ (p <= N => Right(p))
      BY <2>12
    <3> HIDE DEF p
    <3>2. ASSUME p + 1 <= N PROVE Right(p + 1)
      <4>1. N \in Nat /\ p >= 1
        BY <1>1 DEF p
      <4>2. p \in 1 .. N /\ p + 1 \in 1 .. N /\ p + 1 # 1 /\ p + 1 - 1 = p /\ p <= N
        BY <3>1, <3>2, <4>1
      <4>3. g[p] \in X /\ LieUpTo(p, g[p], es, length)
        BY <3>1, <4>2 DEF Right
      <4>4. g[p + 1] = g[p] \o es[p + 1]
        <5> DEFINE q == p + 1
        <5>1. q \in 1 .. N /\ q # 1 /\ q - 1 = p
          BY <4>2
        <5> HIDE DEF q
        <5>2. g[q] = g[q - 1] \o es[q]
          BY <2>9, <5>1
        <5> QED
          BY <5>1, <5>2 DEF q
      <4>5. length[p + 1] = Len(g[p] \o es[p + 1])
        BY <2>10, <4>2, <4>4
      <4>6. \A m \in 1 .. p + 1 : es[m] \in X
        <5>1. \A m \in 1 .. p + 1 : m \in 1 .. N
          BY <3>1, <3>2, <4>1
        <5> QED
          BY <1>1, <5>1
      <4>7. LieUpTo(p + 1, g[p] \o es[p + 1], es, length)
        BY <3>1, <4>3, <4>5, <4>6, LieFurther DEF X
      <4>8. es[p + 1] \in X
        BY <1>1, <4>2
      <4>9. g[p] \o es[p + 1] \in X
        <5> DEFINE s == g[p]
                   t == es[p + 1]
        <5>1. s \in Seq(S) /\ t \in Seq(S)
          BY <4>3, <4>8 DEF X
        <5> HIDE DEF s, t
        <5>2. s \o t \in Seq(S)
          BY <5>1, Joined
        <5> QED
          BY <5>2 DEF s, t, X
      <4> QED
        BY <4>4, <4>7, <4>9 DEF Right
    <3> QED
      BY <3>1, <3>2 DEF p
  <2> HIDE DEF T
  <2>13. \A n \in Nat : n \in T
    BY <2>11, <2>12, SetInduction
  <2>14. N - 1 \in Nat /\ N - 1 + 1 <= N /\ N - 1 + 1 = N
    BY <1>1, <1>3
  <2>15. Right(N)
    <3>1. N - 1 \in T
      BY <2>13, <2>14
    <3> QED
      BY <2>14, <3>1 DEF T
  <2> QED
    BY <2>1, <2>15 DEF Right, X, Lie, N
<1> QED
  BY <1>1, <1>2, <1>3
=============================================================================
