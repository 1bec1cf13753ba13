---------------------------- MODULE ValuesProofs ----------------------------
(***************************************************************************)
(* Theorems about Values, for texts of any length, decimal fields of any   *)
(* precision and scale, integers of any width of a byte, and character     *)
(* data of any length.                                                     *)
(***************************************************************************)
EXTENDS Values, SequenceFacts, SequenceTheorems, TLAPS

-----------------------------------------------------------------------------
(***************************************************************************)
(* Powers.                                                                 *)
(***************************************************************************)
\* p[i] is b to the ith, for i up to n.
Powers(p, b, n) == p \in [0 .. n -> Nat] /\ p[0] = 1 /\ \A i \in 1 .. n : p[i] = b * p[i - 1]

LEMMA PowersExist ==
  ASSUME NEW b \in Nat, NEW n \in Nat
  PROVE  \E p : Powers(p, b, n)
<1> DEFINE step == [i \in 1 .. n |-> [x \in Nat |-> b * x]]
<1>1. step \in [1 .. n -> [Nat -> Nat]] /\ 1 \in Nat
  OBVIOUS
<1>2. \A i \in 1 .. n : \A x \in Nat : step[i][x] = b * x
  OBVIOUS
<1> HIDE DEF step
<1>3. PICK p : Iterates(p, n, Nat, 1, step)
  BY <1>1, RecursionDefines
<1>4. \A i \in 1 .. n : p[i - 1] \in Nat /\ p[i] = step[i][p[i - 1]]
  <2>1. \A i \in 1 .. n : i - 1 \in 0 .. n
    OBVIOUS
  <2> QED
    BY <1>3, <2>1 DEF Iterates
<1>5. \A i \in 1 .. n : p[i] = b * p[i - 1]
  BY <1>2, <1>4
<1> QED
  BY <1>3, <1>5 DEF Powers, Iterates

LEMMA PowersAre ==
  ASSUME NEW b \in Nat, NEW n \in Nat, NEW p, Powers(p, b, n)
  PROVE  \A i \in 0 .. n : Power(b, i) = p[i]
<1> SUFFICES ASSUME NEW m \in 0 .. n PROVE Power(b, m) = p[m]
  OBVIOUS
<1> DEFINE Body(f) == [i \in 0 .. m |-> IF i = 0 THEN 1 ELSE b * f[i - 1]]
           g == CHOOSE f : f = Body(f)
           q == [i \in 0 .. m |-> p[i]]
<1>1. Power(b, m) = g[m]
  BY DEF Power
<1>2. p[0] = 1 /\ \A i \in 1 .. m : p[i] = b * p[i - 1]
  BY DEF Powers
<1>3. \A i \in 0 .. m : q[i] = IF i = 0 THEN 1 ELSE b * q[i - 1]
  <2>1. \A i \in 0 .. m : i # 0 => i \in 1 .. m /\ i - 1 \in 0 .. m
    OBVIOUS
  <2> QED
    BY <1>2, <2>1
<1>4. q = [i \in 0 .. m |-> q[i]]
  OBVIOUS
<1> HIDE DEF q
<1>5. q = Body(q)
  BY <1>3, <1>4
<1>6. g = Body(g)
  BY <1>5
<1> HIDE DEF g
<1>7. \A i \in 0 .. m : g[i] = IF i = 0 THEN 1 ELSE b * g[i - 1]
  <2>1. PICK f : f = g /\ g = Body(f)
    BY <1>6
  <2> QED
    BY <2>1
<1> DEFINE S == {i \in 0 .. m : g[i] = p[i]}
<1>8. 0 \in S
  BY <1>2, <1>7
<1>9. ASSUME NEW i \in 1 .. m, i - 1 \in S PROVE i \in S
  <2>1. i \in 0 .. m /\ i # 0
    OBVIOUS
  <2>2. g[i] = b * g[i - 1] /\ p[i] = b * p[i - 1] /\ g[i - 1] = p[i - 1]
    BY <1>2, <1>7, <1>9, <2>1
  <2> QED
    BY <2>1, <2>2
<1> HIDE DEF S
<1>10. \A i \in 0 .. m : i \in S
  BY <1>8, <1>9, CountingUp
<1> QED
  BY <1>1, <1>10 DEF S

LEMMA PowerNext ==
  ASSUME NEW b \in Nat
  PROVE  Power(b, 0) = 1 /\ \A n \in Nat : Power(b, n) \in Nat /\ Power(b, n + 1) = b * Power(b, n)
<1>1. Power(b, 0) = 1
  <2>1. PICK p : Powers(p, b, 0)
    BY PowersExist
  <2>2. 0 \in 0 .. 0
    OBVIOUS
  <2>3. Power(b, 0) = p[0]
    BY <2>1, <2>2, PowersAre
  <2> QED
    BY <2>1, <2>3 DEF Powers
<1>2. ASSUME NEW n \in Nat PROVE Power(b, n) \in Nat /\ Power(b, n + 1) = b * Power(b, n)
  <2> DEFINE m == n + 1
  <2>1. m \in Nat /\ n \in 0 .. m /\ m \in 0 .. m /\ m \in 1 .. m /\ m - 1 = n
    OBVIOUS
  <2> HIDE DEF m
  <2>2. PICK p : Powers(p, b, m)
    BY <2>1, PowersExist
  <2>3. Power(b, n) = p[n] /\ Power(b, m) = p[m]
    BY <2>1, <2>2, PowersAre
  <2>4. p[n] \in Nat /\ p[m] = b * p[n]
    BY <2>1, <2>2 DEF Powers
  <2> QED
    BY <2>3, <2>4 DEF m
<1> QED
  BY <1>1, <1>2

LEMMA PowerSum ==
  ASSUME NEW b \in Nat, NEW m \in Nat
  PROVE  \A n \in Nat : Power(b, m + n) = Power(b, m) * Power(b, n)
<1> DEFINE S == {n \in Nat : Power(b, m + n) = Power(b, m) * Power(b, n)}
<1>1. 0 \in S
  <2>1. Power(b, m) \in Nat /\ Power(b, 0) = 1 /\ m + 0 = m
    BY PowerNext
  <2> QED
    BY <2>1
<1>2. ASSUME NEW n \in Nat, n \in S PROVE n + 1 \in S
  <2>1. m + n \in Nat /\ m + (n + 1) = (m + n) + 1
    OBVIOUS
  <2>2. /\ Power(b, (m + n) + 1) = b * Power(b, m + n) /\ Power(b, n + 1) = b * Power(b, n)
        /\ Power(b, m) \in Nat /\ Power(b, n) \in Nat
    BY <2>1, PowerNext
  <2>3. Power(b, m + n) = Power(b, m) * Power(b, n)
    BY <1>2
  <2> DEFINE x == Power(b, m)
             y == Power(b, n)
  <2>4. b * (x * y) = x * (b * y)
    <3> HIDE DEF x, y
    <3>1. x \in Nat /\ y \in Nat
      BY <2>2 DEF x, y
    <3> QED
      BY <3>1
  <2>5. Power(b, m + (n + 1)) = Power(b, m) * Power(b, n + 1)
    BY <2>1, <2>2, <2>3, <2>4
  <2> QED
    BY <2>5
<1> HIDE DEF S
<1>3. \A n \in Nat : n \in S
  BY <1>1, <1>2, SetInduction
<1> QED
  BY <1>3 DEF S

LEMMA PowerPositive ==
  ASSUME NEW b \in Nat, b > 0
  PROVE  \A n \in Nat : Power(b, n) \in Nat /\ Power(b, n) >= 1
<1> DEFINE S == {n \in Nat : Power(b, n) \in Nat /\ Power(b, n) >= 1}
<1>1. 0 \in S
  BY PowerNext
<1>2. ASSUME NEW n \in Nat, n \in S PROVE n + 1 \in S
  <2> DEFINE x == Power(b, n)
  <2>1. x \in Nat /\ x >= 1 /\ Power(b, n + 1) = b * x
    BY <1>2, PowerNext
  <2> HIDE DEF x
  <2>2. b * x \in Nat /\ b * x >= 1
    BY <2>1
  <2> QED
    BY <2>1, <2>2
<1> HIDE DEF S
<1>3. \A n \in Nat : n \in S
  BY <1>1, <1>2, SetInduction
<1> QED
  BY <1>3 DEF S

LEMMA Tens ==
  Power(10, 0) = 1 /\ \A n \in Nat : Power(10, n) \in Nat /\ Power(10, n) >= 1 /\ Power(10, n + 1) = 10 * Power(10, n)
<1>1. 10 \in Nat /\ 10 > 0
  OBVIOUS
<1>2. Power(10, 0) = 1 /\ \A n \in Nat : Power(10, n + 1) = 10 * Power(10, n)
  BY <1>1, PowerNext
<1>3. \A n \in Nat : Power(10, n) \in Nat /\ Power(10, n) >= 1
  BY <1>1, PowerPositive
<1> QED
  BY <1>2, <1>3

LEMMA PowerGrows ==
  ASSUME NEW b \in Nat, b > 0, NEW m \in Nat, NEW n \in Nat, m <= n
  PROVE  Power(b, m) <= Power(b, n)
<1> DEFINE k == n - m
           x == Power(b, m)
           y == Power(b, k)
<1>1. k \in Nat /\ m + k = n
  OBVIOUS
<1>2. Power(b, m + k) = x * y
  <2> HIDE DEF k
  <2> QED
    BY <1>1, PowerSum
<1>3. x \in Nat /\ y \in Nat /\ y >= 1
  <2> HIDE DEF k
  <2> QED
    BY <1>1, PowerPositive
<1>4. x <= x * y
  <2> HIDE DEF x, y
  <2> QED
    BY <1>3
<1> QED
  BY <1>1, <1>2, <1>4

-----------------------------------------------------------------------------
(***************************************************************************)
(* The number that digits stand for.                                       *)
(***************************************************************************)
\* v[i] is the number that the first i digits stand for.
Counts(v, d) ==
  v \in [0 .. Len(d) -> Nat] /\ v[0] = 0 /\ \A i \in 1 .. Len(d) : v[i] = 10 * v[i - 1] + d[i]

LEMMA CountsExist ==
  ASSUME NEW d \in Seq(Nat)
  PROVE  \E v : Counts(v, d)
<1> DEFINE N == Len(d)
           step == [i \in 1 .. N |-> [x \in Nat |-> 10 * x + d[i]]]
<1>1. N \in Nat /\ \A i \in 1 .. N : d[i] \in Nat
  OBVIOUS
<1>2. step \in [1 .. N -> [Nat -> Nat]] /\ 0 \in Nat
  BY <1>1
<1>3. \A i \in 1 .. N : \A x \in Nat : step[i][x] = 10 * x + d[i]
  OBVIOUS
<1> HIDE DEF step, N
<1>4. PICK v : Iterates(v, N, Nat, 0, step)
  BY <1>1, <1>2, RecursionDefines
<1>5. \A i \in 1 .. N : v[i - 1] \in Nat /\ v[i] = step[i][v[i - 1]]
  <2>1. \A i \in 1 .. N : i - 1 \in 0 .. N
    BY <1>1
  <2> QED
    BY <1>4, <2>1 DEF Iterates
<1>6. \A i \in 1 .. N : v[i] = 10 * v[i - 1] + d[i]
  BY <1>3, <1>5
<1> QED
  BY <1>4, <1>6 DEF Counts, Iterates, N

LEMMA NumberIs ==
  ASSUME NEW d \in Seq(Nat), NEW v, Counts(v, d)
  PROVE  Number(d) = v[Len(d)] /\ Number(d) \in Nat
<1> DEFINE N == Len(d)
           Body(f) == [i \in 0 .. N |-> IF i = 0 THEN 0 ELSE 10 * f[i - 1] + d[i]]
           g == CHOOSE f : f = Body(f)
<1>1. Number(d) = g[N]
  BY DEF Number
<1>2. N \in Nat
  OBVIOUS
<1>3. v \in [0 .. N -> Nat] /\ v[0] = 0 /\ \A i \in 1 .. N : v[i] = 10 * v[i - 1] + d[i]
  BY DEF Counts
<1> HIDE DEF g, N, Body
<1>4. \A i \in 0 .. N : v[i] = IF i = 0 THEN 0 ELSE 10 * v[i - 1] + d[i]
  <2>1. \A i \in 0 .. N : i # 0 => i \in 1 .. N
    BY <1>2
  <2> QED
    BY <1>3, <2>1
<1>5. v = [i \in 0 .. N |-> v[i]]
  BY <1>3
<1>6. v = Body(v)
  BY <1>4, <1>5 DEF Body
<1>7. g = Body(g)
  BY <1>6 DEF g
<1>8. \A i \in 0 .. N : g[i] = IF i = 0 THEN 0 ELSE 10 * g[i - 1] + d[i]
  <2>1. PICK f : f = g /\ g = Body(f)
    BY <1>7
  <2> QED
    BY <2>1 DEF Body
<1> DEFINE S == {i \in 0 .. N : g[i] = v[i]}
<1>9. 0 \in S
  <2>1. 0 \in 0 .. N
    BY <1>2
  <2> QED
    BY <1>3, <1>8, <2>1
<1>10. ASSUME NEW i \in 1 .. N, i - 1 \in S PROVE i \in S
  <2>1. i \in 0 .. N /\ i # 0
    BY <1>2
  <2>2. g[i] = 10 * g[i - 1] + d[i] /\ v[i] = 10 * v[i - 1] + d[i] /\ g[i - 1] = v[i - 1]
    BY <1>3, <1>8, <1>10, <2>1
  <2> QED
    BY <2>1, <2>2
<1> HIDE DEF S
<1>11. \A i \in 0 .. N : i \in S
  BY <1>2, <1>9, <1>10, CountingUp
<1>12. N \in 0 .. N
  BY <1>2
<1>13. g[N] = v[N] /\ v[N] \in Nat
  BY <1>3, <1>11, <1>12 DEF S
<1> QED
  BY <1>1, <1>13 DEF N

LEMMA NumberType ==
  ASSUME NEW d \in Seq(Nat)
  PROVE  Number(d) \in Nat
BY CountsExist, NumberIs

\* The digits of t behind those of s.
LEMMA NumberJoined ==
  ASSUME NEW s \in Seq(Nat), NEW t \in Seq(Nat)
  PROVE  Number(s \o t) = Number(s) * Power(10, Len(t)) + Number(t)
<1> DEFINE d == s \o t
           m == Len(s)
           n == Len(t)
<1>1. /\ d \in Seq(Nat) /\ m \in Nat /\ n \in Nat /\ Len(d) = m + n
      /\ \A i \in 1 .. m : d[i] = s[i]
      /\ \A i \in 1 .. n : d[m + i] = t[i]
  BY Joined
<1> HIDE DEF d, m, n
<1>2. PICK v : Counts(v, d)
  BY <1>1, CountsExist
<1>3. PICK w : Counts(w, t)
  BY CountsExist
<1>4. /\ v \in [0 .. m + n -> Nat] /\ v[0] = 0
      /\ \A i \in 1 .. m + n : v[i] = 10 * v[i - 1] + d[i]
  BY <1>1, <1>2 DEF Counts
<1>5. w \in [0 .. n -> Nat] /\ w[0] = 0 /\ \A i \in 1 .. n : w[i] = 10 * w[i - 1] + t[i]
  BY <1>3 DEF Counts, n
<1>6. Number(s) = v[m] /\ v[m] \in Nat
  <2> DEFINE u == [i \in 0 .. m |-> v[i]]
  <2>1. \A i \in 0 .. m : i \in 0 .. m + n /\ u[i] = v[i] /\ v[i] \in Nat
    BY <1>1, <1>4
  <2>2. \A i \in 1 .. m : i \in 0 .. m /\ i - 1 \in 0 .. m /\ i \in 1 .. m + n
    BY <1>1
  <2>3. u \in [0 .. m -> Nat]
    BY <2>1
  <2>4. 0 \in 0 .. m /\ m \in 0 .. m
    BY <1>1
  <2> HIDE DEF u
  <2>5. u[0] = 0
    BY <1>4, <2>1, <2>4
  <2>6. \A i \in 1 .. m : u[i] = 10 * u[i - 1] + s[i]
    BY <1>1, <1>4, <2>1, <2>2
  <2>7. Counts(u, s)
    BY <2>3, <2>5, <2>6 DEF Counts, m
  <2>8. Number(s) = u[m]
    BY <2>7, NumberIs DEF m
  <2> QED
    BY <2>1, <2>4, <2>8
<1> DEFINE a == v[m]
           S == {i \in 0 .. n : v[m + i] = a * Power(10, i) + w[i]}
<1>7. 0 \in S
  <2>1. 0 \in 0 .. n /\ Power(10, 0) = 1 /\ m + 0 = m
    BY <1>1, Tens
  <2> QED
    BY <1>5, <1>6, <2>1
<1> HIDE DEF a
<1>8. ASSUME NEW i \in 1 .. n, i - 1 \in S PROVE i \in S
  <2> DEFINE j == i - 1
             p == Power(10, j)
  <2>1. i \in 0 .. n /\ j \in Nat /\ j + 1 = i /\ m + i \in 1 .. m + n /\ m + i - 1 = m + j /\ j \in 0 .. n
    BY <1>1
  <2>2. v[m + i] = 10 * v[m + j] + t[i] /\ w[i] = 10 * w[j] + t[i]
    <3> DEFINE k == m + i
    <3>1. k \in 1 .. m + n /\ k - 1 = m + j /\ i - 1 = j /\ d[k] = t[i]
      BY <1>1, <2>1
    <3> HIDE DEF k, j
    <3>2. v[k] = 10 * v[k - 1] + d[k] /\ w[i] = 10 * w[i - 1] + t[i]
      BY <1>4, <1>5, <3>1
    <3> QED
      BY <3>1, <3>2 DEF k
  <2>3. v[m + j] = a * p + w[j]
    BY <1>8
  <2>4. Power(10, i) = 10 * p /\ p \in Nat
    <3> HIDE DEF j
    <3>1. Power(10, j + 1) = 10 * Power(10, j) /\ Power(10, j) \in Nat
      BY <2>1, Tens
    <3> QED
      BY <2>1, <3>1
  <2>5. w[j] \in Nat /\ t[i] \in Nat /\ a \in Nat
    <3> HIDE DEF j
    <3>1. w[j] \in Nat
      BY <1>5, <2>1
    <3>2. t[i] \in Nat
      BY DEF n
    <3> QED
      BY <1>6, <3>1, <3>2 DEF a
  <2> DEFINE x == w[j]
             y == t[i]
  <2>6. 10 * (a * p + x) + y = a * (10 * p) + (10 * x + y)
    <3>1. x \in Nat /\ y \in Nat /\ p \in Nat /\ a \in Nat
      BY <2>4, <2>5
    <3> HIDE DEF x, y, p
    <3> QED
      BY <3>1
  <2>7. v[m + i] = a * Power(10, i) + w[i]
    BY <2>2, <2>3, <2>4, <2>6
  <2> QED
    BY <2>1, <2>7
<1> HIDE DEF S
<1>9. \A i \in 0 .. n : i \in S
  BY <1>1, <1>7, <1>8, CountingUp
<1>10. v[m + n] = a * Power(10, n) + w[n]
  <2>1. n \in 0 .. n
    BY <1>1
  <2> QED
    BY <1>9, <2>1 DEF S
<1>11. Number(d) = v[m + n]
  BY <1>1, <1>2, NumberIs
<1>12. Number(t) = w[n]
  BY <1>3, NumberIs DEF n
<1> QED
  BY <1>6, <1>10, <1>11, <1>12 DEF a, d, n

LEMMA NumberZeros ==
  ASSUME NEW d \in Seq(Nat), AllZero(d)
  PROVE  Number(d) = 0
<1> DEFINE n == Len(d)
<1>1. n \in Nat /\ \A i \in 1 .. n : d[i] = 0
  BY DEF AllZero
<1>2. PICK v : Counts(v, d)
  BY CountsExist
<1>3. v[0] = 0 /\ \A i \in 1 .. n : v[i] = 10 * v[i - 1] + d[i]
  BY <1>2 DEF Counts
<1>4. Number(d) = v[n]
  BY <1>2, NumberIs
<1> HIDE DEF n
<1> DEFINE S == {i \in 0 .. n : v[i] = 0}
<1>5. 0 \in S
  BY <1>1, <1>3
<1>6. ASSUME NEW i \in 1 .. n, i - 1 \in S PROVE i \in S
  <2>1. i \in 0 .. n /\ v[i - 1] = 0 /\ d[i] = 0
    BY <1>1, <1>6
  <2>2. v[i] = 10 * v[i - 1] + d[i]
    BY <1>3
  <2>3. v[i] = 0
    BY <2>1, <2>2
  <2> QED
    BY <2>1, <2>3
<1> HIDE DEF S
<1>7. \A i \in 0 .. n : i \in S
  BY <1>1, <1>5, <1>6, CountingUp
<1> QED
  BY <1>1, <1>4, <1>7 DEF S

LEMMA NumberBelow ==
  ASSUME NEW d \in Seq(Digit)
  PROVE  Number(d) \in Nat /\ Number(d) < Power(10, Len(d))
<1> DEFINE n == Len(d)
<1>1. n \in Nat /\ d \in Seq(Nat) /\ \A i \in 1 .. n : d[i] \in 0 .. 9
  BY DEF Digit
<1>2. PICK v : Counts(v, d)
  BY <1>1, CountsExist
<1>3. v \in [0 .. n -> Nat] /\ v[0] = 0 /\ \A i \in 1 .. n : v[i] = 10 * v[i - 1] + d[i]
  BY <1>2 DEF Counts
<1>4. Number(d) = v[n] /\ Number(d) \in Nat
  BY <1>1, <1>2, NumberIs
<1> HIDE DEF n
<1> DEFINE S == {i \in 0 .. n : v[i] < Power(10, i)}
<1>5. 0 \in S
  BY <1>1, <1>3, Tens
<1>6. ASSUME NEW i \in 1 .. n, i - 1 \in S PROVE i \in S
  <2> DEFINE j == i - 1
             p == Power(10, j)
  <2>1. j \in Nat /\ j + 1 = i /\ j \in 0 .. n /\ i \in 0 .. n
    BY <1>1
  <2>2. Power(10, i) = 10 * p /\ p \in Nat
    <3> HIDE DEF j
    <3>1. Power(10, j + 1) = 10 * Power(10, j) /\ Power(10, j) \in Nat
      BY <2>1, Tens
    <3> QED
      BY <2>1, <3>1
  <2>3. v[j] < p /\ v[j] \in Nat /\ v[i] = 10 * v[j] + d[i] /\ d[i] \in 0 .. 9
    BY <1>1, <1>3, <1>6, <2>1
  <2> DEFINE x == v[j]
             y == d[i]
  <2>4. 10 * x + y < 10 * p
    <3>1. x \in Nat /\ y \in 0 .. 9 /\ p \in Nat /\ x < p
      BY <2>2, <2>3
    <3> HIDE DEF x, y, p
    <3> QED
      BY <3>1
  <2> QED
    BY <2>1, <2>2, <2>3, <2>4
<1> HIDE DEF S
<1>7. \A i \in 0 .. n : i \in S
  BY <1>1, <1>5, <1>6, CountingUp
<1>8. n \in 0 .. n
  BY <1>1
<1> QED
  BY <1>4, <1>7, <1>8 DEF S, n

LEMMA NumberAbove ==
  ASSUME NEW d \in Seq(Nat), Len(d) > 0, d[1] # 0
  PROVE  Number(d) >= Power(10, Len(d) - 1)
<1> DEFINE n == Len(d)
<1>1. n \in Nat /\ n > 0 /\ \A i \in 1 .. n : d[i] \in Nat
  OBVIOUS
<1>2. PICK v : Counts(v, d)
  BY CountsExist
<1>3. v \in [0 .. n -> Nat] /\ v[0] = 0 /\ \A i \in 1 .. n : v[i] = 10 * v[i - 1] + d[i]
  BY <1>2 DEF Counts
<1>4. Number(d) = v[n]
  BY <1>2, NumberIs
<1> HIDE DEF n
<1> DEFINE S == {i \in Nat : i + 1 <= n => v[i + 1] >= Power(10, i)}
<1>5. 0 \in S
  <2>1. 1 \in 1 .. n /\ 1 - 1 = 0 /\ d[1] \in Nat
    BY <1>1
  <2>2. v[1] = 10 * v[0] + d[1]
    BY <1>3, <2>1
  <2>3. v[1] >= 1 /\ 0 + 1 = 1
    BY <1>3, <2>1, <2>2
  <2>4. Power(10, 0) = 1
    BY Tens
  <2> QED
    BY <2>3, <2>4
<1>6. ASSUME NEW i \in Nat, i \in S PROVE i + 1 \in S
  <2> DEFINE j == i + 1
             p == Power(10, i)
  <2>1. j \in Nat /\ Power(10, j) = 10 * p /\ p \in Nat
    <3>1. Power(10, i + 1) = 10 * Power(10, i) /\ Power(10, i) \in Nat
      <4> HIDE DEF S
      <4> QED
        BY Tens
    <3> QED
      BY <3>1
  <2>2. j <= n => v[j] >= p
    BY <1>6
  <2> SUFFICES ASSUME j + 1 <= n PROVE v[j + 1] >= Power(10, j)
    BY <2>1
  <2>3. j \in 0 .. n /\ j + 1 \in 1 .. n /\ (j + 1) - 1 = j /\ j <= n
    BY <1>1, <2>1
  <2> HIDE DEF j
  <2>4. v[j + 1] = 10 * v[j] + d[j + 1] /\ v[j] \in Nat /\ d[j + 1] \in Nat
    <3> DEFINE k == j + 1
    <3>1. k \in 1 .. n /\ k - 1 = j
      BY <2>3
    <3> HIDE DEF k
    <3>2. v[k] = 10 * v[k - 1] + d[k] /\ d[k] \in Nat
      BY <1>1, <1>3, <3>1
    <3> QED
      BY <1>3, <2>3, <3>1, <3>2 DEF k
  <2> DEFINE x == v[j]
             y == d[j + 1]
  <2>5. 10 * x + y >= 10 * p
    <3>1. x \in Nat /\ y \in Nat /\ p \in Nat /\ x >= p
      BY <2>1, <2>2, <2>3, <2>4
    <3> HIDE DEF x, y, p
    <3> QED
      BY <3>1
  <2> QED
    BY <2>1, <2>4, <2>5
<1> HIDE DEF S
<1>7. \A i \in Nat : i \in S
  BY <1>5, <1>6, SetInduction
<1>8. n - 1 \in Nat /\ (n - 1) + 1 = n
  BY <1>1
<1>9. v[n] >= Power(10, n - 1)
  <2> DEFINE i == n - 1
  <2>1. i \in S /\ i + 1 = n /\ i + 1 <= n
    BY <1>1, <1>7, <1>8
  <2> HIDE DEF i
  <2>2. v[i + 1] >= Power(10, i)
    BY <2>1 DEF S
  <2> QED
    BY <2>1, <2>2 DEF i
<1> QED
  BY <1>4, <1>9 DEF n

\* As many digits that stand for the same number are the same.
LEMMA NumberTells ==
  ASSUME NEW a \in Seq(Digit), NEW b \in Seq(Digit), Len(a) = Len(b), Number(a) = Number(b)
  PROVE  a = b
<1> DEFINE n == Len(a)
<1>1. /\ n \in Nat /\ a \in Seq(Nat) /\ b \in Seq(Nat)
      /\ \A i \in 1 .. n : a[i] \in 0 .. 9 /\ b[i] \in 0 .. 9
  BY DEF Digit
<1>2. PICK v : Counts(v, a)
  BY <1>1, CountsExist
<1>3. PICK w : Counts(w, b)
  BY <1>1, CountsExist
<1>4. /\ v \in [0 .. n -> Nat] /\ w \in [0 .. n -> Nat]
      /\ \A i \in 1 .. n : v[i] = 10 * v[i - 1] + a[i] /\ w[i] = 10 * w[i - 1] + b[i]
  BY <1>2, <1>3 DEF Counts
<1>5. v[n] = w[n]
  BY <1>1, <1>2, <1>3, NumberIs
<1> HIDE DEF n
\* From the last digit to the first.
<1> DEFINE S == {k \in Nat : k <= n => v[n - k] = w[n - k]}
<1>6. 0 \in S
  BY <1>1, <1>5
<1>7. ASSUME NEW i \in 1 .. n, v[i] = w[i] PROVE v[i - 1] = w[i - 1] /\ a[i] = b[i]
  <2> DEFINE j == i - 1
             x == v[j]
             y == w[j]
             c == a[i]
             d == b[i]
  <2>1. j \in 0 .. n
    BY <1>1
  <2>2. /\ x \in Nat /\ y \in Nat /\ c \in 0 .. 9 /\ d \in 0 .. 9
        /\ 10 * x + c = 10 * y + d
    BY <1>1, <1>4, <1>7, <2>1
  <2> HIDE DEF x, y, c, d
  <2>3. x = y /\ c = d
    BY <2>2
  <2> QED
    BY <2>3 DEF x, y, c, d
<1>8. ASSUME NEW k \in Nat, k \in S PROVE k + 1 \in S
  <2> SUFFICES ASSUME k + 1 <= n PROVE v[n - (k + 1)] = w[n - (k + 1)]
    OBVIOUS
  <2>1. n - k \in 1 .. n /\ n - (k + 1) = (n - k) - 1 /\ k <= n
    BY <1>1
  <2>2. v[n - k] = w[n - k]
    BY <1>8, <2>1
  <2> DEFINE i == n - k
  <2> HIDE DEF i
  <2>3. v[i - 1] = w[i - 1]
    BY <1>7, <2>1, <2>2 DEF i
  <2> QED
    BY <2>1, <2>3 DEF i
<1> HIDE DEF S
<1>9. \A k \in Nat : k \in S
  BY <1>6, <1>8, SetInduction
<1>10. ASSUME NEW i \in 1 .. n PROVE a[i] = b[i]
  <2> DEFINE k == n - i
  <2>1. k \in Nat /\ k <= n /\ n - k = i
    BY <1>1
  <2> HIDE DEF k
  <2>2. v[n - k] = w[n - k]
    BY <1>9, <2>1 DEF S
  <2> QED
    BY <1>7, <2>1, <2>2
<1> QED
  BY <1>10, SameElements DEF n

-----------------------------------------------------------------------------
(***************************************************************************)
(* Parts of digits: leading zeros, padding.                                *)
(***************************************************************************)
LEMMA Wider ==
  ASSUME NEW T, NEW S \in SUBSET T, NEW d \in Seq(S)
  PROVE  d \in Seq(T)
<1>1. Len(d) \in Nat /\ DOMAIN d = 1 .. Len(d) /\ \A k \in 1 .. Len(d) : d[k] \in T
  OBVIOUS
<1>2. d = [k \in 1 .. Len(d) |-> d[k]]
  OBVIOUS
<1> QED
  BY <1>1, <1>2

LEMMA TakenDropped ==
  ASSUME NEW S, NEW d \in Seq(S), NEW n \in 0 .. Len(d)
  PROVE  /\ Take(d, n) \in Seq(S) /\ Len(Take(d, n)) = n /\ \A k \in 1 .. n : Take(d, n)[k] = d[k]
         /\ Drop(d, n) \in Seq(S) /\ Len(Drop(d, n)) = Len(d) - n
         /\ \A k \in 1 .. Len(d) - n : Drop(d, n)[k] = d[n + k]
         /\ d = Take(d, n) \o Drop(d, n)
<1> DEFINE N == Len(d)
           l == N - n
           a == Take(d, n)
           b == Drop(d, n)
<1>1. N \in Nat /\ n \in Nat /\ n <= N /\ l \in Nat /\ n + l = N /\ 0 + n = n /\ 0 + n <= N
  OBVIOUS
<1>2. a = SubSeq(d, 0 + 1, 0 + n) /\ b = SubSeq(d, n + 1, n + l)
  BY <1>1 DEF Take, Drop
<1> HIDE DEF a, b, l
<1>3. a \in Seq(S) /\ Len(a) = n /\ \A k \in 1 .. n : a[k] = d[0 + k]
  BY <1>1, <1>2, Cut
<1>4. b \in Seq(S) /\ Len(b) = l /\ \A k \in 1 .. l : b[k] = d[n + k]
  BY <1>1, <1>2, Cut
<1>5. a \o b = d
  <2>1. SubSeq(d, 1, n) \o SubSeq(d, n + 1, N) = SubSeq(d, 1, N)
    <3> HIDE DEF N
    <3>1. N \in Nat /\ n \in Nat /\ n <= N /\ N <= Len(d)
      BY DEF N
    <3> QED
      BY <3>1, Glued, Zenon
  <2>2. SubSeq(d, 1, N) = d
    OBVIOUS
  <2> QED
    BY <2>1, <2>2 DEF a, b, Take, Drop
<1>6. \A k \in 1 .. n : a[k] = d[k]
  BY <1>1, <1>3
<1> QED
  BY <1>3, <1>4, <1>5, <1>6 DEF a, b, l

LEMMA Trimmed ==
  ASSUME NEW S, NEW d \in Seq(S)
  PROVE  \E n \in 0 .. Len(d) : /\ TrimLeft(d) = Drop(d, n) /\ AllZero(Take(d, n))
                                /\ n = Len(d) \/ d[n + 1] # 0
<1> DEFINE N == Len(d)
           Stops(n) == AllZero(Take(d, n)) /\ (n = N \/ d[n + 1] # 0)
           T == {n \in 0 .. N : AllZero(Take(d, n))}
<1>1. N \in Nat
  OBVIOUS
<1>2. \E n \in 0 .. N : Stops(n)
  <2> SUFFICES ASSUME \A n \in 0 .. N : ~Stops(n) PROVE FALSE
    OBVIOUS
  <2>1. 0 \in T
    <3>1. 0 \in 0 .. Len(d) /\ \A k : k \notin 1 .. 0
      BY <1>1
    <3>2. Take(d, 0) \in Seq(S) /\ Len(Take(d, 0)) = 0
      BY <3>1, TakenDropped
    <3>3. DOMAIN Take(d, 0) = 1 .. 0
      BY <3>2
    <3> QED
      BY <3>1, <3>3 DEF AllZero
  <2>2. ASSUME NEW n \in 1 .. N, n - 1 \in T PROVE n \in T
    <3> DEFINE m == n - 1
    <3>1. m \in 0 .. N /\ m + 1 = n /\ m # N /\ n \in 0 .. N /\ n \in 0 .. Len(d) /\ m \in 0 .. Len(d)
      BY <1>1
    <3>2. AllZero(Take(d, m))
      BY <2>2
    <3> HIDE DEF m
    <3>3. d[m + 1] = 0
      BY <3>1, <3>2
    <3>4. Take(d, m) \in Seq(S) /\ Len(Take(d, m)) = m /\ \A k \in 1 .. m : Take(d, m)[k] = d[k]
      BY <3>1, TakenDropped
    <3>5. Take(d, n) \in Seq(S) /\ Len(Take(d, n)) = n /\ \A k \in 1 .. n : Take(d, n)[k] = d[k]
      BY <3>1, TakenDropped
    <3>6. \A k \in 1 .. m : d[k] = 0
      BY <3>2, <3>4 DEF AllZero
    <3>7. \A k \in 1 .. n : k = m + 1 \/ k \in 1 .. m
      BY <3>1
    <3>8. \A k \in 1 .. n : Take(d, n)[k] = 0
      BY <3>3, <3>5, <3>6, <3>7
    <3>9. DOMAIN Take(d, n) = 1 .. n
      BY <3>5
    <3> QED
      BY <3>1, <3>8, <3>9 DEF AllZero
  <2> HIDE DEF T
  <2>3. \A n \in 0 .. N : n \in T
    BY <1>1, <2>1, <2>2, CountingUp
  <2>4. N \in 0 .. N
    BY <1>1
  <2>5. AllZero(Take(d, N))
    BY <2>3, <2>4 DEF T
  <2> QED
    BY <2>4, <2>5
<1> DEFINE c == CHOOSE n \in 0 .. N : Stops(n)
<1>3. c \in 0 .. N /\ Stops(c)
  BY <1>2
<1>4. TrimLeft(d) = Drop(d, c)
  BY DEF TrimLeft
<1> HIDE DEF c
<1> QED
  BY <1>3, <1>4

\* What TrimLeft gives begins with another digit than 0, and stands for the same number.
LEMMA TrimLeftGives ==
  ASSUME NEW S \in SUBSET Nat, NEW d \in Seq(S)
  PROVE  /\ TrimLeft(d) \in Seq(S) /\ Len(TrimLeft(d)) \in Nat /\ Len(TrimLeft(d)) <= Len(d)
         /\ Number(TrimLeft(d)) = Number(d)
         /\ Len(TrimLeft(d)) > 0 => TrimLeft(d)[1] # 0
         /\ Len(TrimLeft(d)) = 0 => AllZero(d)
<1>1. PICK n \in 0 .. Len(d) : /\ TrimLeft(d) = Drop(d, n) /\ AllZero(Take(d, n))
                               /\ n = Len(d) \/ d[n + 1] # 0
  BY Trimmed
<1> DEFINE a == Take(d, n)
           b == Drop(d, n)
<1>2. /\ a \in Seq(S) /\ Len(a) = n /\ \A k \in 1 .. n : a[k] = d[k]
      /\ b \in Seq(S) /\ Len(b) = Len(d) - n
      /\ \A k \in 1 .. Len(d) - n : b[k] = d[n + k]
      /\ d = a \o b
  BY TakenDropped
<1> HIDE DEF a, b
<1>3. a \in Seq(Nat) /\ b \in Seq(Nat)
  BY <1>2, Wider
<1>4. Number(d) = Number(a) * Power(10, Len(b)) + Number(b)
  BY <1>2, <1>3, NumberJoined
<1>5. Number(a) = 0
  BY <1>1, <1>3, NumberZeros DEF a
<1>6. Number(b) \in Nat /\ Len(b) \in Nat /\ Power(10, Len(b)) \in Nat
  BY <1>3, NumberType, Tens
<1>7. Number(b) = Number(d)
  BY <1>4, <1>5, <1>6
<1>8. Len(d) \in Nat
  OBVIOUS
<1>9. ASSUME Len(b) > 0 PROVE b[1] # 0
  <2>1. n # Len(d) /\ 1 \in 1 .. Len(d) - n
    BY <1>2, <1>8, <1>9
  <2> QED
    BY <1>1, <1>2, <2>1
<1>10. ASSUME Len(b) = 0 PROVE AllZero(d)
  <2>1. n = Len(d) /\ DOMAIN d = 1 .. n /\ DOMAIN a = 1 .. n
    BY <1>2, <1>8, <1>10
  <2> QED
    BY <1>1, <1>2, <2>1 DEF AllZero, a
<1> QED
  BY <1>1, <1>2, <1>6, <1>7, <1>8, <1>9, <1>10 DEF b

LEMMA NumberZero ==
  ASSUME NEW d \in Seq(Digit)
  PROVE  AllZero(d) <=> Number(d) = 0
<1>1. d \in Seq(Nat) /\ Digit \in SUBSET Nat
  BY DEF Digit
<1>2. AllZero(d) => Number(d) = 0
  BY <1>1, NumberZeros
<1>3. ASSUME ~AllZero(d) PROVE Number(d) # 0
  <2> DEFINE b == TrimLeft(d)
  <2>1. b \in Seq(Nat) /\ Len(b) \in Nat /\ Number(b) = Number(d) /\ Len(b) # 0 /\ (Len(b) > 0 => b[1] # 0)
    BY <1>1, <1>3, TrimLeftGives
  <2> HIDE DEF b
  <2>2. Number(b) >= Power(10, Len(b) - 1) /\ Len(b) - 1 \in Nat
    BY <2>1, NumberAbove
  <2>3. Power(10, Len(b) - 1) >= 1 /\ Power(10, Len(b) - 1) \in Nat
    BY <2>2, Tens
  <2>4. Number(b) \in Nat
    BY <2>1, NumberType
  <2> QED
    BY <2>1, <2>2, <2>3, <2>4
<1> QED
  BY <1>2, <1>3

\* So many digits are needed for a number as there are without leading zeros.
LEMMA TrimmedFits ==
  ASSUME NEW d \in Seq(Digit), NEW k \in Nat
  PROVE  Len(TrimLeft(d)) > k <=> Number(d) >= Power(10, k)
<1> DEFINE b == TrimLeft(d)
<1>1. d \in Seq(Nat) /\ Digit \in SUBSET Nat
  BY DEF Digit
<1>2. b \in Seq(Digit) /\ Len(b) \in Nat /\ Number(b) = Number(d) /\ (Len(b) > 0 => b[1] # 0)
  BY <1>1, TrimLeftGives
<1> HIDE DEF b
<1>3. b \in Seq(Nat)
  BY <1>1, <1>2, Wider
<1>4. Number(b) \in Nat /\ Number(b) < Power(10, Len(b))
  BY <1>2, NumberBelow
<1>5. 10 \in Nat /\ 10 > 0 /\ Power(10, k) \in Nat
  <2>1. Power(10, k) \in Nat
    BY Tens
  <2> QED
    BY <2>1
<1>8. Power(10, Len(b)) \in Nat
  BY <1>2, Tens
<1>6. CASE Len(b) > k
  <2>1. Number(b) >= Power(10, Len(b) - 1) /\ Len(b) - 1 \in Nat /\ k <= Len(b) - 1
    BY <1>2, <1>3, <1>6, NumberAbove
  <2> DEFINE j == Len(b) - 1
  <2> HIDE DEF j
  <2>2. Power(10, k) <= Power(10, j) /\ Power(10, j) \in Nat
    BY <1>5, <2>1, PowerGrows, Tens DEF j
  <2> QED
    BY <1>2, <1>4, <1>5, <1>6, <2>1, <2>2 DEF j, b
<1>7. CASE ~(Len(b) > k)
  <2>1. Len(b) <= k
    BY <1>2, <1>7
  <2>2. Power(10, Len(b)) <= Power(10, k)
    BY <1>2, <1>5, <2>1, PowerGrows
  <2>3. Number(b) < Power(10, k)
    BY <1>4, <1>5, <1>8, <2>2
  <2> QED
    BY <1>2, <1>4, <1>5, <1>7, <2>3 DEF b
<1> QED
  BY <1>6, <1>7

LEMMA ZerosAre ==
  ASSUME NEW n \in Nat
  PROVE  Zeros(n) \in Seq(Digit) /\ Len(Zeros(n)) = n /\ AllZero(Zeros(n)) /\ Number(Zeros(n)) = 0
<1>1. \A i \in 1 .. n : Zeros(n)[i] = 0
  BY DEF Zeros
<1>2. Zeros(n) \in [1 .. n -> Digit]
  BY DEF Zeros, Digit
<1>3. Zeros(n) \in Seq(Digit) /\ Len(Zeros(n)) = n /\ DOMAIN Zeros(n) = 1 .. n
  BY <1>2
<1>4. AllZero(Zeros(n))
  BY <1>1, <1>3 DEF AllZero
<1> QED
  BY <1>3, <1>4, NumberZero

\* Zeros in front of digits do not count; each behind them multiplies by 10.
LEMMA Padded ==
  ASSUME NEW d \in Seq(Digit), NEW n \in Nat
  PROVE  /\ Zeros(n) \o d \in Seq(Digit) /\ Len(Zeros(n) \o d) = n + Len(d)
         /\ Number(Zeros(n) \o d) = Number(d)
         /\ d \o Zeros(n) \in Seq(Digit) /\ Len(d \o Zeros(n)) = Len(d) + n
         /\ Number(d \o Zeros(n)) = Number(d) * Power(10, n)
<1> DEFINE z == Zeros(n)
<1>1. z \in Seq(Digit) /\ Len(z) = n /\ Number(z) = 0
  BY ZerosAre
<1> HIDE DEF z
<1>2. d \in Seq(Nat) /\ z \in Seq(Nat) /\ Len(d) \in Nat
  BY <1>1 DEF Digit
<1>3. /\ z \o d \in Seq(Digit) /\ Len(z \o d) = n + Len(d)
      /\ d \o z \in Seq(Digit) /\ Len(d \o z) = Len(d) + n
  BY <1>1, Joined
<1>4. Number(z \o d) = Number(z) * Power(10, Len(d)) + Number(d)
  BY <1>2, NumberJoined
<1>5. Number(d \o z) = Number(d) * Power(10, Len(z)) + Number(z)
  BY <1>2, NumberJoined
<1>6. Number(d) \in Nat /\ Power(10, Len(d)) \in Nat /\ Power(10, n) \in Nat
  BY <1>2, NumberType, Tens
<1>7. Number(z \o d) = Number(d) /\ Number(d \o z) = Number(d) * Power(10, n)
  BY <1>1, <1>4, <1>5, <1>6
<1> QED
  BY <1>3, <1>7 DEF z

-----------------------------------------------------------------------------
(***************************************************************************)
(* scaleToDigits.                                                          *)
(***************************************************************************)
LEMMA DigitNat ==
  ASSUME NEW d \in Seq(Digit)
  PROVE  d \in Seq(Nat) /\ Len(d) \in Nat /\ Number(d) \in Nat /\ Power(10, Len(d)) \in Nat
<1>1. Digit \in SUBSET Nat
  BY DEF Digit
<1>2. d \in Seq(Nat) /\ Len(d) \in Nat
  <2>1. d \in Seq(Nat)
    BY <1>1, Wider
  <2> QED
    BY <2>1
<1> QED
  BY <1>2, NumberType, Tens

LEMMA TensSum ==
  ASSUME NEW m \in Nat, NEW n \in Nat
  PROVE  /\ Power(10, m + n) = Power(10, m) * Power(10, n)
         /\ Power(10, m) \in Nat /\ Power(10, n) \in Nat /\ Power(10, m + n) \in Nat
         /\ Power(10, m) >= 1 /\ Power(10, n) >= 1 /\ Power(10, m + n) >= 1
<1>1. 10 \in Nat /\ m + n \in Nat
  OBVIOUS
<1>2. Power(10, m + n) = Power(10, m) * Power(10, n)
  BY <1>1, PowerSum
<1>3. Power(10, m) \in Nat /\ Power(10, n) \in Nat /\ Power(10, m) >= 1 /\ Power(10, n) >= 1
  BY Tens
<1>4. Power(10, m + n) \in Nat /\ Power(10, m + n) >= 1
  BY <1>1, Tens
<1> QED
  BY <1>2, <1>3, <1>4

\* In units of 10 ^ -u, what is behind the first s digits of a fraction is less
\* than one of those s digits counts.
LEMMA FractionCut ==
  ASSUME NEW i \in Seq(Digit), NEW f \in Seq(Digit), NEW s \in Nat, NEW u \in Nat,
         s < Len(f), Len(f) <= u
  PROVE  /\ Take(f, s) \in Seq(Digit) /\ Len(Take(f, s)) = s /\ i \o Take(f, s) \in Seq(Digit)
         /\ \E r \in Nat :
               /\ Number(i \o f) * Power(10, u - Len(f)) = Number(i \o Take(f, s)) * Power(10, u - s) + r
               /\ r < Power(10, u - s)
               /\ r = 0 <=> AllZero(Drop(f, s))
<1> DEFINE a == Take(f, s)
           b == Drop(f, s)
           m == Len(f) - s
           n == u - Len(f)
           ia == i \o a
<1>1. s \in 0 .. Len(f) /\ m \in Nat /\ n \in Nat /\ u - s = m + n
  OBVIOUS
<1>2. a \in Seq(Digit) /\ Len(a) = s /\ b \in Seq(Digit) /\ Len(b) = m /\ f = a \o b
  BY <1>1, TakenDropped
<1> HIDE DEF a, b, m, n
<1>3. ia \in Seq(Digit)
  BY <1>2, Joined
<1>4. i \o f = ia \o b
  <2>1. Associative(i, a, b)
    BY <1>2, Associates
  <2> QED
    BY <1>2, <2>1 DEF Associative
<1> HIDE DEF ia
<1>5. Number(ia \o b) = Number(ia) * Power(10, m) + Number(b)
  <2>1. ia \in Seq(Nat) /\ b \in Seq(Nat)
    BY <1>2, <1>3, DigitNat
  <2> QED
    BY <1>2, <2>1, NumberJoined
<1> DEFINE x == Number(ia)
           y == Number(b)
           p == Power(10, m)
           q == Power(10, n)
<1>6. x \in Nat /\ y \in Nat /\ y < p /\ (y = 0 <=> AllZero(b))
  BY <1>2, <1>3, DigitNat, NumberBelow, NumberZero
<1>7. p \in Nat /\ q \in Nat /\ q >= 1 /\ Power(10, m + n) = p * q
  BY <1>1, TensSum
<1> HIDE DEF x, y, p, q
<1>8. /\ (x * p + y) * q = x * (p * q) + y * q /\ y * q \in Nat /\ y * q < p * q
      /\ y * q = 0 <=> y = 0
  BY <1>6, <1>7
<1>9. Number(i \o f) * q = x * Power(10, u - s) + y * q
  BY <1>1, <1>4, <1>5, <1>7, <1>8 DEF x, y, p
<1>10. y * q < Power(10, u - s)
  BY <1>1, <1>7, <1>8
<1> QED
  BY <1>2, <1>3, <1>6, <1>8, <1>9, <1>10 DEF a, b, n, x, q, ia

LEMMA FractionFilled ==
  ASSUME NEW i \in Seq(Digit), NEW f \in Seq(Digit), NEW s \in Nat, NEW u \in Nat,
         Len(f) <= s, s <= u
  PROVE  /\ f \o Zeros(s - Len(f)) \in Seq(Digit) /\ Len(f \o Zeros(s - Len(f))) = s
         /\ Number(i \o f) * Power(10, u - Len(f))
            = Number(i \o (f \o Zeros(s - Len(f)))) * Power(10, u - s)
<1> DEFINE m == s - Len(f)
           n == u - s
           z == Zeros(m)
           d == i \o f
<1>1. m \in Nat /\ n \in Nat /\ u - Len(f) = m + n /\ Len(f) + m = s
  OBVIOUS
<1> HIDE DEF m, n
<1>2. f \o z \in Seq(Digit) /\ Len(f \o z) = s
  BY <1>1, Padded
<1>3. z \in Seq(Digit)
  BY <1>1, ZerosAre
<1>4. i \o (f \o z) = d \o z
  <2> HIDE DEF z
  <2>1. Associative(i, f, z)
    BY <1>3, Associates
  <2> QED
    BY <2>1 DEF Associative
<1>5. d \in Seq(Digit)
  BY Joined
<1> HIDE DEF d
<1>6. Number(d \o z) = Number(d) * Power(10, m)
  BY <1>1, <1>5, Padded
<1> DEFINE x == Number(d)
           p == Power(10, m)
           q == Power(10, n)
<1>7. x \in Nat /\ p \in Nat /\ q \in Nat /\ Power(10, m + n) = p * q
  BY <1>1, <1>5, DigitNat, TensSum
<1> HIDE DEF x, p, q
<1>8. x * (p * q) = (x * p) * q
  BY <1>7
<1> QED
  BY <1>1, <1>2, <1>4, <1>6, <1>7, <1>8 DEF d, x, p, q, z, m, n

Character == Digit \union {NoDigit}

IsText(t) == /\ t.sign \in Signs /\ t.int \in Seq(Character) /\ t.frac \in Seq(Character)
             /\ Len(t.frac) <= MaxUnits

Magnitude(t) == Number(t.int \o t.frac) * Power(10, MaxUnits - Len(t.frac))

LEMMA DigitsOnly ==
  ASSUME NEW d \in Seq(Character), NoDigit \notin Range(d)
  PROVE  d \in Seq(Digit)
<1>1. Len(d) \in Nat /\ DOMAIN d = 1 .. Len(d) /\ \A k \in 1 .. Len(d) : d[k] \in Character
  OBVIOUS
<1>2. \A k \in 1 .. Len(d) : d[k] # NoDigit
  BY <1>1 DEF Range
<1>3. \A k \in 1 .. Len(d) : d[k] \in Digit
  BY <1>1, <1>2 DEF Character
<1>4. d = [k \in 1 .. Len(d) |-> d[k]]
  OBVIOUS
<1> QED
  BY <1>1, <1>3, <1>4

\* A text is well-formed if it has digits, and nothing else.
LEMMA WellformedIs ==
  ASSUME NEW t, t.int \in Seq(Character), t.frac \in Seq(Character)
  PROVE  Wellformed(t) <=> /\ ~(t.int = << >> /\ t.frac = << >>)
                           /\ NoDigit \notin Range(t.int) \union Range(t.frac)
<1> DEFINE i == t.int
           f == t.frac
           d == i \o f
<1>2. i \in Seq(Character) /\ f \in Seq(Character)
  OBVIOUS
<1> HIDE DEF i, f
<1>1. /\ d \in Seq(Character) /\ Len(i) \in Nat /\ Len(f) \in Nat /\ Len(d) = Len(i) + Len(f)
      /\ \A k \in 1 .. Len(i) : d[k] = i[k]
      /\ \A k \in 1 .. Len(f) : d[Len(i) + k] = f[k]
  BY <1>2, Joined
<1> HIDE DEF d
<1>3. DOMAIN i = 1 .. Len(i) /\ DOMAIN f = 1 .. Len(f) /\ DOMAIN d = 1 .. Len(d)
  BY <1>1, <1>2
<1>4. d # << >> <=> ~(i = << >> /\ f = << >>)
  <2>1. /\ d = << >> <=> Len(d) = 0
        /\ i = << >> <=> Len(i) = 0
        /\ f = << >> <=> Len(f) = 0
    BY <1>1, <1>2
  <2> QED
    BY <1>1, <2>1
<1>5. Range(d) = Range(i) \union Range(f)
  <2>1. ASSUME NEW k \in 1 .. Len(d) PROVE d[k] \in Range(i) \union Range(f)
    <3>1. CASE k \in 1 .. Len(i)
      BY <1>1, <1>3, <3>1 DEF Range
    <3>2. CASE k \notin 1 .. Len(i)
      <4> DEFINE j == k - Len(i)
      <4>1. j \in 1 .. Len(f) /\ Len(i) + j = k
        BY <1>1, <3>2
      <4> HIDE DEF j
      <4>2. d[k] = f[j]
        BY <1>1, <4>1
      <4> QED
        BY <1>3, <4>1, <4>2 DEF Range
    <3> QED
      BY <3>1, <3>2
  <2>2. ASSUME NEW k \in 1 .. Len(i) PROVE i[k] \in Range(d)
    <3>1. k \in 1 .. Len(d)
      BY <1>1
    <3> QED
      BY <1>1, <1>3, <3>1 DEF Range
  <2>3. ASSUME NEW k \in 1 .. Len(f) PROVE f[k] \in Range(d)
    <3> DEFINE j == Len(i) + k
    <3>1. j \in 1 .. Len(d)
      BY <1>1
    <3>2. d[j] = f[k]
      BY <1>1
    <3> HIDE DEF j
    <3> QED
      BY <1>3, <3>1, <3>2 DEF Range
  <2> QED
    BY <1>3, <2>1, <2>2, <2>3 DEF Range
<1> QED
  BY <1>4, <1>5 DEF Wellformed, i, f, d

LEMMA MaxUnitsIs == MaxUnits \in Nat /\ MaxPrecision <= MaxUnits /\ MaxDigits <= MaxUnits
BY ValuesAssumption DEF MaxUnits

\* The digits of a field with so many behind the point.
FractionTo(f, s) == IF Len(f) > s THEN Take(f, s) ELSE f \o Zeros(s - Len(f))

LEMMA FractionKept ==
  ASSUME NEW i \in Seq(Digit), NEW f \in Seq(Digit), NEW s \in Nat, NEW u \in Nat,
         Len(f) <= u, s <= u, ~LosesFraction(f, s)
  PROVE  /\ FractionTo(f, s) \in Seq(Digit) /\ Len(FractionTo(f, s)) = s
         /\ Number(i \o f) * Power(10, u - Len(f)) = Number(i \o FractionTo(f, s)) * Power(10, u - s)
<1>1. Len(f) \in Nat
  OBVIOUS
<1>2. CASE Len(f) > s
  <2>1. AllZero(Drop(f, s))
    BY <1>2 DEF LosesFraction
  <2>2. /\ Take(f, s) \in Seq(Digit) /\ Len(Take(f, s)) = s /\ i \o Take(f, s) \in Seq(Digit)
        /\ \E r \in Nat :
              /\ Number(i \o f) * Power(10, u - Len(f)) = Number(i \o Take(f, s)) * Power(10, u - s) + r
              /\ r < Power(10, u - s)
              /\ r = 0 <=> AllZero(Drop(f, s))
    BY <1>2, FractionCut
  <2>3. Number(i \o f) * Power(10, u - Len(f)) = Number(i \o Take(f, s)) * Power(10, u - s) + 0
    BY <2>1, <2>2
  <2> DEFINE x == Number(i \o Take(f, s))
             n == u - s
             q == Power(10, n)
  <2>4. x \in Nat
    BY <2>2, DigitNat
  <2>5. n \in Nat
    OBVIOUS
  <2> HIDE DEF n
  <2>6. q \in Nat
    BY <2>5, Tens
  <2>7. x * q + 0 = x * q
    <3> HIDE DEF x, q
    <3> QED
      BY <2>4, <2>6
  <2> QED
    BY <1>2, <2>2, <2>3, <2>7 DEF FractionTo, n
<1>3. CASE ~(Len(f) > s)
  <2>1. Len(f) <= s
    BY <1>1, <1>3
  <2> QED
    BY <1>3, <2>1, FractionFilled DEF FractionTo
<1> QED
  BY <1>2, <1>3

\* The digits that scaleToDigits makes of a text.
ScaledDigits(t, p, s) ==
  Zeros(p - s - Len(TrimLeft(t.int))) \o TrimLeft(t.int) \o FractionTo(t.frac, s)

Refused(t, p, s) ==
  \/ t.int = << >> /\ t.frac = << >>
  \/ NoDigit \in Range(t.int) \union Range(t.frac)
  \/ LosesFraction(t.frac, s)
  \/ LosesInteger(t.int, p, s)

LEMMA ScaleToDigitsIs ==
  ASSUME NEW t, NEW p, NEW s
  PROVE  /\ Refused(t, p, s) => ScaleToDigits(t, p, s) = [ok |-> FALSE]
         /\ ~Refused(t, p, s) =>
               ScaleToDigits(t, p, s) =
                  [ok |-> TRUE, digits |-> ScaledDigits(t, p, s),
                   negative |-> t.sign = "-" /\ ~AllZero(ScaledDigits(t, p, s))]
<1>1. CASE Refused(t, p, s)
  BY <1>1 DEF Refused, ScaleToDigits, Reject
<1>2. CASE ~Refused(t, p, s)
  BY <1>2 DEF Refused, ScaleToDigits, ScaledDigits, FractionTo
<1> QED
  BY <1>1, <1>2

\* What is not refused is the same number in as many digits as the field has.
LEMMA Scaled ==
  ASSUME NEW t, IsText(t), NEW p \in Nat, NEW s \in Nat, s <= p, s <= MaxUnits, ~Refused(t, p, s)
  PROVE  /\ ScaledDigits(t, p, s) \in Seq(Digit) /\ Len(ScaledDigits(t, p, s)) = p
         /\ Magnitude(t) = Number(ScaledDigits(t, p, s)) * Power(10, MaxUnits - s)
         /\ Wellformed(t)
<1> DEFINE i == t.int
           f == t.frac
           a == TrimLeft(i)
           g == FractionTo(f, s)
           n == p - s - Len(a)
           z == Zeros(n)
           za == z \o a
           d == za \o g
<1>1. i \in Seq(Character) /\ f \in Seq(Character) /\ Len(f) <= MaxUnits
  BY DEF IsText
<1>2. NoDigit \notin Range(i) /\ NoDigit \notin Range(f) /\ ~LosesFraction(f, s) /\ ~LosesInteger(i, p, s)
  BY DEF Refused
<1>3. Wellformed(t)
  BY <1>1, WellformedIs DEF Refused
<1>4. ScaledDigits(t, p, s) = d
  BY DEF ScaledDigits
<1>5. Magnitude(t) = Number(i \o f) * Power(10, MaxUnits - Len(f))
  BY DEF Magnitude
<1> HIDE DEF i, f
<1>6. i \in Seq(Digit) /\ f \in Seq(Digit)
  BY <1>1, <1>2, DigitsOnly
<1>7. a \in Seq(Digit) /\ Len(a) \in Nat /\ Number(a) = Number(i)
  <2>1. Digit \in SUBSET Nat
    BY DEF Digit
  <2> QED
    BY <1>6, <2>1, TrimLeftGives
<1>8. Len(a) <= p - s
  BY <1>2, <1>7 DEF LosesInteger
<1>9. /\ g \in Seq(Digit) /\ Len(g) = s
      /\ Number(i \o f) * Power(10, MaxUnits - Len(f)) = Number(i \o g) * Power(10, MaxUnits - s)
  BY <1>1, <1>2, <1>6, MaxUnitsIs, FractionKept
<1>10. n \in Nat /\ n + Len(a) + s = p
  BY <1>7, <1>8
<1> HIDE DEF a, g, n
<1>11. za \in Seq(Digit) /\ Len(za) = n + Len(a) /\ Number(za) = Number(a)
  BY <1>7, <1>10, Padded
<1> HIDE DEF za
<1>12. d \in Seq(Digit) /\ Len(d) = p
  <2>1. d \in Seq(Digit) /\ Len(d) = Len(za) + Len(g)
    BY <1>9, <1>11, Joined
  <2> QED
    BY <1>9, <1>10, <1>11, <2>1
<1>13. Number(d) = Number(i \o g)
  <2>1. i \in Seq(Nat) /\ za \in Seq(Nat) /\ g \in Seq(Nat)
    BY <1>6, <1>9, <1>11, DigitNat
  <2>2. Number(d) = Number(za) * Power(10, Len(g)) + Number(g)
    BY <2>1, NumberJoined
  <2>3. Number(i \o g) = Number(i) * Power(10, Len(g)) + Number(g)
    BY <2>1, NumberJoined
  <2> QED
    BY <1>7, <1>11, <2>2, <2>3
<1> QED
  BY <1>3, <1>4, <1>5, <1>9, <1>12, <1>13

\* A field of p digits, s of them behind the point, can hold the text's number.
Fits(t, p, s) ==
  /\ Wellformed(t)
  /\ Units(t) % Power(10, MaxUnits - s) = 0
  /\ Units(t) \div Power(10, MaxUnits - s) \in (1 - Power(10, p)) .. (Power(10, p) - 1)

LEMMA UnitsAre ==
  ASSUME NEW t
  PROVE  Units(t) = IF t.sign = "-" THEN -Magnitude(t) ELSE Magnitude(t)
BY DEF Units, Magnitude

LEMMA Quotient ==
  ASSUME NEW x \in Int, NEW q \in Nat, q > 0, x % q = 0
  PROVE  x \div q \in Int /\ x = q * (x \div q)
OBVIOUS

\* What is refused does not fit.
LEMMA RefusedUnfit ==
  ASSUME NEW t, IsText(t), NEW p \in Nat, NEW s \in Nat, s <= p, p <= MaxUnits, Refused(t, p, s)
  PROVE  ~Fits(t, p, s)
<1> SUFFICES ASSUME Fits(t, p, s) PROVE FALSE
  OBVIOUS
<1> DEFINE i == t.int
           f == t.frac
           q == Power(10, MaxUnits - s)
           M == Magnitude(t)
<1>1. /\ i \in Seq(Character) /\ f \in Seq(Character) /\ Len(f) <= MaxUnits /\ Len(f) \in Nat
      /\ MaxUnits \in Nat /\ s <= MaxUnits
  BY MaxUnitsIs DEF IsText
<1>2. Wellformed(t)
  BY DEF Fits
<1>3. NoDigit \notin Range(i) /\ NoDigit \notin Range(f)
  BY <1>1, <1>2, WellformedIs
<1>4. LosesFraction(f, s) \/ LosesInteger(i, p, s)
  BY <1>1, <1>2, WellformedIs DEF Refused
<1>5. M = Number(i \o f) * Power(10, MaxUnits - Len(f))
  BY DEF Magnitude
<1>6. Units(t) = M \/ Units(t) = -M
  BY UnitsAre
<1>7. Units(t) % q = 0 /\ Units(t) \div q \in (1 - Power(10, p)) .. (Power(10, p) - 1)
  BY DEF Fits
<1> HIDE DEF i, f, M
<1>8. i \in Seq(Digit) /\ f \in Seq(Digit)
  BY <1>1, <1>3, DigitsOnly
<1> DEFINE l == MaxUnits - Len(f)
           n == MaxUnits - s
           y == Number(i \o f)
<1>9. l \in Nat /\ n \in Nat
  BY <1>1
<1>10. y \in Nat
  <2>1. i \o f \in Seq(Digit)
    BY <1>8, Joined
  <2> QED
    BY <2>1, DigitNat
<1>11. q \in Nat /\ q >= 1 /\ Power(10, l) \in Nat /\ Power(10, l) >= 1 /\ Power(10, p) \in Nat
  <2> HIDE DEF l, n
  <2>1. Power(10, n) \in Nat /\ Power(10, n) >= 1 /\ Power(10, l) \in Nat /\ Power(10, l) >= 1
    BY <1>9, Tens
  <2>2. Power(10, p) \in Nat
    BY Tens
  <2> QED
    BY <2>1, <2>2 DEF n
<1>12. M \in Nat
  <2> DEFINE c == Power(10, l)
  <2>1. c \in Nat /\ M = y * c
    BY <1>5, <1>11
  <2> HIDE DEF c, y
  <2> QED
    BY <1>10, <2>1
<1> DEFINE k == Units(t) \div q
<1>13. k \in Int /\ Units(t) = q * k
  <2> HIDE DEF q
  <2>1. Units(t) \in Int /\ q > 0
    BY <1>6, <1>11, <1>12
  <2> QED
    BY <1>7, <1>11, <2>1, Quotient
<1>14. k \in (1 - Power(10, p)) .. (Power(10, p) - 1)
  BY <1>7
<1> HIDE DEF q, k, l, n, y
\* The magnitude is a multiple, too.
<1>15. PICK j \in Nat : M = q * j /\ j < Power(10, p)
  <2>1. CASE Units(t) = M
    <3>1. k >= 0
      BY <1>11, <1>12, <1>13, <2>1
    <3> QED
      BY <1>11, <1>13, <1>14, <2>1, <3>1
  <2>2. CASE Units(t) = -M
    <3>1. M = q * (-k)
      BY <1>11, <1>12, <1>13, <2>2
    <3>2. -k >= 0
      BY <1>11, <1>12, <1>13, <3>1
    <3> DEFINE j == -k
    <3>3. j \in Nat /\ j < Power(10, p)
      BY <1>11, <1>13, <1>14, <3>2
    <3> QED
      BY <3>1, <3>3
  <2> QED
    BY <1>6, <2>1, <2>2
<1>16. CASE LosesFraction(f, s)
  <2>1. Len(f) > s /\ ~AllZero(Drop(f, s))
    BY <1>16 DEF LosesFraction
  <2>2. PICK r \in Nat : /\ M = Number(i \o Take(f, s)) * q + r
                         /\ r < q /\ r # 0
    BY <1>1, <1>5, <1>8, <2>1, FractionCut DEF q, n
  <2>3. i \o Take(f, s) \in Seq(Digit)
    BY <1>1, <1>8, <2>1, FractionCut
  <2> DEFINE x == Number(i \o Take(f, s))
  <2>4. x \in Nat
    BY <2>3, DigitNat
  <2> HIDE DEF x
  <2>5. q * j = x * q + r
    BY <1>15, <2>2 DEF x
  <2>6. q * (j - x) = r
    BY <1>11, <2>4, <2>5
  <2>7. j - x >= 1 \/ j - x <= 0
    BY <2>4
  <2> QED
    BY <1>11, <2>2, <2>4, <2>6, <2>7
<1>17. CASE LosesInteger(i, p, s)
  <2> DEFINE h == p - s
             o == Len(f)
             c == Power(10, l)
             x == Number(i)
             w == Number(f)
  <2>1. h \in Nat /\ o \in Nat
    BY <1>1
  <2>2. x >= Power(10, h) /\ x \in Nat
    <3>1. Len(TrimLeft(i)) > h
      BY <1>17 DEF LosesInteger
    <3> HIDE DEF h
    <3> QED
      BY <1>8, <2>1, <3>1, TrimmedFits, DigitNat
  <2>3. y = x * Power(10, o) + w /\ w \in Nat
    <3>1. i \in Seq(Nat) /\ f \in Seq(Nat)
      BY <1>8, DigitNat
    <3>2. Number(i \o f) = Number(i) * Power(10, Len(f)) + Number(f)
      BY <3>1, NumberJoined
    <3>3. w \in Nat
      BY <1>8, DigitNat
    <3> QED
      BY <3>2, <3>3 DEF y
\* 10 ^ (p - s) * 10 ^ MaxUnits = 10 ^ p * 10 ^ (MaxUnits - s)
  <2>4. Power(10, o) * c = Power(10, MaxUnits) /\ Power(10, o) \in Nat /\ c \in Nat /\ c >= 1
    <3>1. o + l = MaxUnits
      BY <1>1, <1>9 DEF l
    <3> QED
      BY <1>9, <2>1, <3>1, TensSum
  <2>5. Power(10, p) * q = Power(10, h) * Power(10, MaxUnits)
    <3>1. /\ h + MaxUnits = p + n /\ MaxUnits \in Nat /\ Power(10, n) = q
      BY <1>1, <1>9 DEF n, q
    <3> HIDE DEF h
    <3>2. Power(10, h + MaxUnits) = Power(10, h) * Power(10, MaxUnits)
      BY <2>1, <3>1, TensSum
    <3>3. Power(10, p + n) = Power(10, p) * Power(10, n)
      BY <1>9, TensSum
    <3> QED
      BY <3>1, <3>2, <3>3
  <2>6. Power(10, h) \in Nat /\ Power(10, MaxUnits) \in Nat
    <3> HIDE DEF h
    <3> QED
      BY <1>1, <2>1, Tens
  <2> DEFINE u == Power(10, o)
             v == Power(10, h)
             U == Power(10, MaxUnits)
             P == Power(10, p)
  <2>7. M = y * c
    BY <1>5 DEF y, l
  <2>8. u \in Nat /\ c \in Nat /\ v \in Nat /\ U \in Nat /\ u * c = U /\ P * q = v * U /\ P \in Nat
    BY <1>11, <2>4, <2>5, <2>6
  <2> HIDE DEF u, v, U, P, c, x, w
  <2>9. y * c = x * (u * c) + w * c
    BY <2>2, <2>3, <2>8 DEF u, x, w
  <2>10. w * c \in Nat
    BY <2>3, <2>8 DEF w
  <2>11. v * U <= x * U
    BY <2>2, <2>8 DEF v
  <2>12. x * U \in Nat
    BY <2>2, <2>8
  <2>13. P * q <= q * j
    BY <1>11, <1>15, <2>7, <2>8, <2>9, <2>10, <2>11, <2>12
  <2>14. j < P
    BY <1>15 DEF P
  <2> QED
    BY <1>11, <2>8, <2>13, <2>14
<1> QED
  BY <1>4, <1>16, <1>17

-----------------------------------------------------------------------------
(***************************************************************************)
(* formatDecimal.                                                          *)
(***************************************************************************)
PaddedTo(d, s) == IF Len(d) <= s THEN Zeros(s + 1 - Len(d)) \o d ELSE d
IntegerText(a) == IF TrimLeft(a) = << >> THEN <<0>> ELSE TrimLeft(a)

LEMMA FormatDecimalIs ==
  ASSUME NEW d, NEW s, NEW negative
  PROVE  FormatDecimal(d, s, negative) =
            [ok |-> TRUE,
             sign |-> IF negative /\ ~AllZero(PaddedTo(d, s)) THEN "-" ELSE "",
             int |-> IntegerText(Take(PaddedTo(d, s), Len(PaddedTo(d, s)) - s)),
             frac |-> Drop(PaddedTo(d, s), Len(PaddedTo(d, s)) - s)]
BY DEF FormatDecimal, PaddedTo, IntegerText

LEMMA PairIs ==
  ASSUME NEW a \in Nat, NEW b \in Nat
  PROVE  <<a, b>> \in Seq(Nat) /\ Len(<<a, b>>) = 2 /\ <<a, b>>[1] = a /\ <<a, b>>[2] = b
OBVIOUS

LEMMA SequenceMade ==
  ASSUME NEW T, NEW n \in Nat, NEW w \in [1 .. n -> T]
  PROVE  w \in Seq(T) /\ Len(w) = n
OBVIOUS

LEMMA PaddedToIs ==
  ASSUME NEW d \in Seq(Digit), NEW s \in Nat
  PROVE  /\ PaddedTo(d, s) \in Seq(Digit) /\ Number(PaddedTo(d, s)) = Number(d)
         /\ Len(PaddedTo(d, s)) \in Nat /\ Len(PaddedTo(d, s)) > s
         /\ AllZero(PaddedTo(d, s)) <=> Number(d) = 0
<1> DEFINE e == PaddedTo(d, s)
<1>1. e \in Seq(Digit) /\ Number(e) = Number(d) /\ Len(e) > s
  <2>1. CASE Len(d) <= s
    <3> DEFINE n == s + 1 - Len(d)
    <3>1. n \in Nat /\ n + Len(d) > s
      BY <2>1
    <3>2. e = Zeros(n) \o d
      BY <2>1 DEF PaddedTo
    <3> HIDE DEF n, e
    <3> QED
      BY <3>1, <3>2, Padded
  <2>2. CASE ~(Len(d) <= s)
    <3>1. e = d /\ Len(d) > s
      BY <2>2 DEF PaddedTo
    <3> QED
      BY <3>1
  <2> QED
    BY <2>1, <2>2
<1> HIDE DEF e
<1>2. Len(e) \in Nat
  BY <1>1
<1>3. AllZero(e) <=> Number(d) = 0
  BY <1>1, NumberZero
<1> QED
  BY <1>1, <1>2, <1>3 DEF e

LEMMA IntegerTextIs ==
  ASSUME NEW a \in Seq(Digit)
  PROVE  /\ IntegerText(a) \in Seq(Digit) /\ IntegerText(a) # << >>
         /\ Len(IntegerText(a)) > 1 => IntegerText(a)[1] # 0
         /\ Number(IntegerText(a)) = Number(a)
<1> DEFINE t == TrimLeft(a)
<1>1. Digit \in SUBSET Nat
  BY DEF Digit
<1>2. /\ t \in Seq(Digit) /\ Len(t) \in Nat /\ Number(t) = Number(a)
      /\ Len(t) > 0 => t[1] # 0
      /\ Len(t) = 0 => AllZero(a)
  BY <1>1, TrimLeftGives
<1>3. IntegerText(a) = IF t = << >> THEN <<0>> ELSE t
  BY DEF IntegerText
<1> HIDE DEF t
<1>4. CASE t = << >>
  <2>1. Number(a) = 0
    BY <1>2, <1>4, NumberZero
  <2> DEFINE o == <<0>>
  <2>2. o \in Seq(Digit) /\ o # << >> /\ Len(o) = 1 /\ AllZero(o)
    BY DEF Digit, AllZero
  <2>3. IntegerText(a) = o
    BY <1>3, <1>4
  <2> DEFINE u == IntegerText(a)
  <2> HIDE DEF o, u
  <2>4. Number(o) = 0
    BY <2>2, NumberZero
  <2>5. u = o
    BY <2>3 DEF u
  <2>6. o \in Seq(Digit) /\ o # << >> /\ (Len(o) > 1 => o[1] # 0) /\ Number(o) = Number(a)
    <3>1. ~(Len(o) > 1)
      BY <2>2
    <3> QED
      BY <2>1, <2>2, <2>4, <3>1
  <2>7. u \in Seq(Digit) /\ u # << >> /\ (Len(u) > 1 => u[1] # 0) /\ Number(u) = Number(a)
    BY <2>5, <2>6, Zenon
  <2> QED
    BY <2>7 DEF u
<1>5. CASE t # << >>
  <2>1. IntegerText(a) = t
    BY <1>3, <1>5
  <2> QED
    BY <1>2, <1>5, <2>1
<1> QED
  BY <1>4, <1>5

\* The text of a field is its number, written the one way.
LEMMA Formatted ==
  ASSUME NEW d \in Seq(Digit), NEW s \in Nat, NEW negative \in BOOLEAN, NEW t,
         t = FormatDecimal(d, s, negative), s <= MaxUnits
  PROVE  /\ t.ok /\ IsText(t) /\ Wellformed(t)
         /\ t.int \in Seq(Digit) /\ t.int # << >> /\ (Len(t.int) > 1 => t.int[1] # 0)
         /\ t.frac \in Seq(Digit) /\ Len(t.frac) = s
         /\ Magnitude(t) = Number(d) * Power(10, MaxUnits - s)
         /\ t.sign = IF negative /\ Number(d) # 0 THEN "-" ELSE ""
<1> DEFINE e == PaddedTo(d, s)
           n == Len(e) - s
           a == Take(e, n)
           b == Drop(e, n)
           i == IntegerText(a)
<1>1. t = [ok |-> TRUE, sign |-> IF negative /\ ~AllZero(e) THEN "-" ELSE "", int |-> i, frac |-> b]
  BY FormatDecimalIs
<1>2. t.ok /\ t.sign = (IF negative /\ ~AllZero(e) THEN "-" ELSE "") /\ t.int = i /\ t.frac = b
  <2> DEFINE sign == IF negative /\ ~AllZero(e) THEN "-" ELSE ""
  <2>1. t = [ok |-> TRUE, sign |-> sign, int |-> i, frac |-> b]
    BY <1>1
  <2> HIDE DEF i, b, sign
  <2>2. t.ok /\ t.sign = sign /\ t.int = i /\ t.frac = b
    BY <2>1
  <2> QED
    BY <2>2 DEF sign
<1>3. /\ e \in Seq(Digit) /\ Number(e) = Number(d) /\ Len(e) \in Nat /\ Len(e) > s
      /\ AllZero(e) <=> Number(d) = 0
  BY PaddedToIs
<1> HIDE DEF e
<1>4. n \in 0 .. Len(e) /\ Len(e) - n = s
  BY <1>3
<1> HIDE DEF n
<1>5. a \in Seq(Digit) /\ b \in Seq(Digit) /\ Len(b) = s /\ e = a \o b
  BY <1>3, <1>4, TakenDropped
<1> HIDE DEF a, b
<1>6. i \in Seq(Digit) /\ i # << >> /\ (Len(i) > 1 => i[1] # 0) /\ Number(i) = Number(a)
  BY <1>5, IntegerTextIs
<1> HIDE DEF i
<1>7. Number(i \o b) = Number(d)
  <2>1. i \in Seq(Nat) /\ a \in Seq(Nat) /\ b \in Seq(Nat)
    BY <1>5, <1>6, DigitNat
  <2>2. Number(i \o b) = Number(i) * Power(10, Len(b)) + Number(b)
    BY <2>1, NumberJoined
  <2>3. Number(a \o b) = Number(a) * Power(10, Len(b)) + Number(b)
    BY <2>1, NumberJoined
  <2> QED
    BY <1>3, <1>5, <1>6, <2>2, <2>3
<1>8. Magnitude(t) = Number(d) * Power(10, MaxUnits - s)
  BY <1>2, <1>5, <1>7 DEF Magnitude
<1>9. Digit \in SUBSET Character
  BY DEF Character
<1>10. i \in Seq(Character) /\ b \in Seq(Character)
  BY <1>5, <1>6, <1>9, Wider
<1>11. IsText(t)
  <2>1. t.sign \in Signs
    BY <1>2 DEF Signs
  <2> QED
    BY <1>2, <1>5, <1>10, <2>1 DEF IsText
<1>12. Wellformed(t)
  <2>1. \A k \in DOMAIN i : i[k] \in Digit
    BY <1>6
  <2>2. \A k \in DOMAIN b : b[k] \in Digit
    BY <1>5
  <2>3. NoDigit \notin Range(i) \union Range(b)
    BY <2>1, <2>2 DEF Range, NoDigit, Digit
  <2> QED
    BY <1>2, <1>6, <1>10, <2>3, WellformedIs
<1>13. t.sign = IF negative /\ Number(d) # 0 THEN "-" ELSE ""
  BY <1>2, <1>3
<1> QED
  BY <1>2, <1>5, <1>6, <1>8, <1>11, <1>12, <1>13

LEMMA FormattedAlike ==
  ASSUME NEW d \in Seq(Digit), NEW s \in Nat, NEW m \in BOOLEAN, NEW n \in BOOLEAN,
         Number(d) # 0 => m = n
  PROVE  FormatDecimal(d, s, m) = FormatDecimal(d, s, n)
<1>1. AllZero(PaddedTo(d, s)) <=> Number(d) = 0
  BY PaddedToIs
<1>2. (m /\ ~AllZero(PaddedTo(d, s))) <=> (n /\ ~AllZero(PaddedTo(d, s)))
  BY <1>1
<1> QED
  BY <1>2, FormatDecimalIs

-----------------------------------------------------------------------------
(***************************************************************************)
(* Packed and zoned decimal.                                               *)
(***************************************************************************)
LEMMA Halves == \A n \in Nat : n % 2 = 0 => n \div 2 \in Nat /\ n = 2 * (n \div 2)
OBVIOUS

\* Nibbles in bytes, and out of them.
LEMMA Paired ==
  ASSUME NEW x \in Seq(Nat), Len(x) % 2 = 0
  PROVE  Len(Pair(x)) = Len(x) \div 2 /\ FlattenSeq(Pair(x)) = x
<1> DEFINE n == Len(x) \div 2
           bs == Pair(x)
           whole == FlattenSeq(bs)
<1>1. n \in Nat /\ Len(x) = 2 * n /\ Len(x) \in Nat
  BY Halves
<1>2. bs = [i \in 1 .. n |-> <<x[2 * i - 1], x[2 * i]>>]
  BY DEF Pair
<1> HIDE DEF n
<1>3. \A i \in 1 .. n : 2 * i - 1 \in 1 .. Len(x) /\ 2 * i \in 1 .. Len(x)
  BY <1>1
<1>4. \A i \in 1 .. n : x[2 * i - 1] \in Nat /\ x[2 * i] \in Nat
  BY <1>3
<1>5. \A i \in 1 .. n : bs[i] = <<x[2 * i - 1], x[2 * i]>>
  BY <1>2
<1>6. ASSUME NEW i \in 1 .. n
      PROVE  bs[i] \in Seq(Nat) /\ Len(bs[i]) = 2 /\ bs[i][1] = x[2 * i - 1] /\ bs[i][2] = x[2 * i]
  <2> DEFINE a == x[2 * i - 1]
             b == x[2 * i]
  <2>1. a \in Nat /\ b \in Nat /\ bs[i] = <<a, b>>
    BY <1>4, <1>5
  <2> HIDE DEF a, b
  <2>2. bs[i] \in Seq(Nat) /\ Len(bs[i]) = 2 /\ bs[i][1] = a /\ bs[i][2] = b
    BY <2>1, PairIs
  <2> QED
    BY <2>2 DEF a, b
<1>7. bs \in Seq(Seq(Nat)) /\ Len(bs) = n
  BY <1>1, <1>2, <1>6
<1> HIDE DEF bs
<1>8. whole \in Seq(Nat) /\ \E at : Lie(whole, bs, at)
  BY <1>7, Flattened
<1>9. PICK at : Lie(whole, bs, at)
  BY <1>8
<1> HIDE DEF whole
<1>10. /\ at[0] = 0 /\ at[n] = Len(whole)
       /\ \A m \in 1 .. n : /\ at[m] = at[m - 1] + Len(bs[m])
                            /\ \A k \in 1 .. Len(bs[m]) : whole[at[m - 1] + k] = bs[m][k]
  BY <1>7, <1>9 DEF Lie, LieUpTo
<1> DEFINE S == {m \in 0 .. n : at[m] = 2 * m}
<1>11. 0 \in S
  BY <1>1, <1>10
<1>12. ASSUME NEW m \in 1 .. n, m - 1 \in S PROVE m \in S
  <2>1. at[m - 1] = 2 * (m - 1) /\ m \in 0 .. n
    BY <1>1, <1>12
  <2>2. at[m] = at[m - 1] + 2
    <3>1. at[m] = at[m - 1] + Len(bs[m]) /\ Len(bs[m]) = 2
      BY <1>6, <1>10
    <3> QED
      BY <3>1
  <2> QED
    BY <2>1, <2>2
<1> HIDE DEF S
<1>13. \A m \in 0 .. n : at[m] = 2 * m
  BY <1>1, <1>11, <1>12, CountingUp DEF S
<1>14. Len(whole) = Len(x)
  BY <1>1, <1>10, <1>13
<1>15. ASSUME NEW k \in 1 .. Len(x) PROVE whole[k] = x[k]
  <2>1. ASSUME NEW m \in 1 .. n PROVE whole[2 * m - 1] = x[2 * m - 1] /\ whole[2 * m] = x[2 * m]
    <3>1. m - 1 \in 0 .. n /\ 2 * (m - 1) + 1 = 2 * m - 1 /\ 2 * (m - 1) + 2 = 2 * m
      BY <1>1
    <3>2. at[m - 1] = 2 * (m - 1)
      BY <1>13, <3>1
    <3>3. whole[at[m - 1] + 1] = bs[m][1] /\ whole[at[m - 1] + 2] = bs[m][2]
      <4>1. Len(bs[m]) = 2 /\ 1 \in 1 .. 2 /\ 2 \in 1 .. 2
        BY <1>6
      <4> QED
        BY <1>10, <4>1
    <3> QED
      BY <1>6, <3>1, <3>2, <3>3
  <2>2. \E m \in 1 .. n : k = 2 * m - 1 \/ k = 2 * m
    <3> DEFINE m == (k + 1) \div 2
    <3>1. m \in 1 .. n /\ (k = 2 * m - 1 \/ k = 2 * m)
      BY <1>1
    <3> HIDE DEF m
    <3> QED
      BY <3>1
  <2> QED
    BY <2>1, <2>2
<1>16. whole = x
  BY <1>8, <1>14, <1>15, SameElements DEF whole
<1> QED
  BY <1>7, <1>16 DEF whole, bs, n

LEMMA PackedDigitsAre ==
  ASSUME NEW d \in Seq(Digit)
  PROVE  /\ PackedDigits(d) \in Seq(Digit) /\ Number(PackedDigits(d)) = Number(d)
         /\ Len(PackedDigits(d)) = (IF Len(d) % 2 = 0 THEN Len(d) + 1 ELSE Len(d))
<1>1. CASE Len(d) % 2 = 0
  <2>1. <<0>> = Zeros(1)
    BY DEF Zeros
  <2>2. PackedDigits(d) = Zeros(1) \o d
    BY <1>1, <2>1 DEF PackedDigits
  <2>3. /\ Zeros(1) \o d \in Seq(Digit) /\ Len(Zeros(1) \o d) = 1 + Len(d)
        /\ Number(Zeros(1) \o d) = Number(d)
    BY Padded
  <2>4. 1 + Len(d) = Len(d) + 1
    OBVIOUS
  <2> QED
    BY <1>1, <2>2, <2>3, <2>4
<1>2. CASE Len(d) % 2 # 0
  BY <1>2 DEF PackedDigits
<1> QED
  BY <1>1, <1>2

LEMMA NibbleCount ==
  ASSUME NEW n \in Nat, NEW m, m = (IF n % 2 = 0 THEN n + 1 ELSE n)
  PROVE  m \in Nat /\ (m + 1) % 2 = 0 /\ (m + 1) \div 2 = n \div 2 + 1 /\ m + 1 - 1 = m /\ n <= m
OBVIOUS

\* A packed field of a given sign nibble is read as its digits and that sign.
LEMMA PackedRead ==
  ASSUME NEW d \in Seq(Digit), NEW sign \in Nat, NEW s,
         NEW w, w = Pair(PackedDigits(d) \o <<sign>>)
  PROVE  /\ Len(w) = Len(d) \div 2 + 1
         /\ Front(FlattenSeq(w)) = PackedDigits(d)
         /\ Last(w)[2] = sign
         /\ DecodePacked(w, Len(d), s) = FormatDecimal(PackedDigits(d), s, Negative(sign))
<1> DEFINE e == PackedDigits(d)
           o == <<sign>>
           x == e \o o
           n == Len(d)
           m == Len(e)
<1>1. e \in Seq(Digit) /\ m = (IF n % 2 = 0 THEN n + 1 ELSE n) /\ n \in Nat
  BY PackedDigitsAre
<1>2. m \in Nat /\ (m + 1) % 2 = 0 /\ (m + 1) \div 2 = n \div 2 + 1 /\ m + 1 - 1 = m
  <2> HIDE DEF m, n
  <2> QED
    BY <1>1, NibbleCount
<1> HIDE DEF e, n
<1>3. e \in Seq(Nat) /\ o \in Seq(Nat) /\ Len(o) = 1 /\ o[1] = sign
  BY <1>1, DigitNat
<1> HIDE DEF o
<1>4. /\ x \in Seq(Nat) /\ Len(x) = m + 1 /\ \A k \in 1 .. m : x[k] = e[k]
      /\ x[m + 1] = sign
  <2>1. /\ x \in Seq(Nat) /\ Len(x) = m + Len(o) /\ \A k \in 1 .. m : x[k] = e[k]
        /\ \A k \in 1 .. Len(o) : x[m + k] = o[k]
    BY <1>3, Joined
  <2> QED
    BY <1>3, <2>1
<1>5. w = Pair(x)
  BY DEF e, o
<1> HIDE DEF x, m
<1>6. Len(w) = n \div 2 + 1 /\ FlattenSeq(w) = x
  BY <1>2, <1>4, <1>5, Paired
<1>7. Take(x, m) = e
  <2>1. m \in 0 .. Len(x)
    BY <1>2, <1>4
  <2>2. Take(x, m) \in Seq(Nat) /\ Len(Take(x, m)) = m /\ \A k \in 1 .. m : Take(x, m)[k] = x[k]
    BY <1>4, <2>1, TakenDropped
  <2> DEFINE y == Take(x, m)
  <2> HIDE DEF y
  <2>3. y \in Seq(Nat) /\ Len(y) = Len(e) /\ \A k \in 1 .. Len(y) : y[k] = e[k]
    BY <1>4, <2>2 DEF y, m
  <2>4. y = e
    BY <1>3, <2>3, SameElements
  <2> QED
    BY <2>4 DEF y
<1>8. Front(x) = e
  BY <1>2, <1>4, <1>7 DEF Front, Take
<1>9. Last(x) = sign
  BY <1>4 DEF Last
<1>10. Last(w)[2] = sign
  <2> DEFINE h == Len(x) \div 2
  <2>1. h = n \div 2 + 1 /\ h \in Nat /\ h >= 1 /\ 2 * h = m + 1 /\ Len(w) = h
    <3>1. Len(x) = m + 1
      BY <1>4
    <3> QED
      BY <1>1, <1>2, <1>6, <3>1
  <2>2. w = [i \in 1 .. h |-> <<x[2 * i - 1], x[2 * i]>>]
    BY <1>5 DEF Pair
  <2> HIDE DEF h
  <2>3. h \in 1 .. h
    BY <2>1
  <2>4. w[h] = <<x[2 * h - 1], x[2 * h]>>
    BY <2>2, <2>3
  <2>5. w[h][2] = x[2 * h]
    BY <2>4
  <2> QED
    BY <1>4, <2>1, <2>5 DEF Last
<1>11. \A i \in DOMAIN e : ~(e[i] > 9)
  BY <1>1 DEF Digit
<1>12. DecodePacked(w, n, s) = FormatDecimal(e, s, Negative(sign))
  <2>1. Take(FlattenSeq(w), Len(FlattenSeq(w)) - 1) = e
    BY <1>2, <1>4, <1>6, <1>7
  <2> QED
    BY <1>6, <1>9, <1>11, <2>1 DEF DecodePacked
<1> QED
  BY <1>6, <1>8, <1>10, <1>12 DEF e, n

\* A zoned field is, too: the zones are 15, and the last one is the sign.
SecondNibbles(w) == [i \in DOMAIN w |-> w[i][2]]
ZonedBytes(d, sign) == [i \in 1 .. Len(d) |-> <<IF i < Len(d) THEN 15 ELSE sign, d[i]>>]
LEMMA ZonedRead ==
  ASSUME NEW d \in Seq(Digit), NEW sign \in Nat, NEW s,
         NEW w, w = ZonedBytes(d, sign), Len(d) > 0
  PROVE  /\ Len(w) = Len(d)
         /\ SecondNibbles(w) = d
         /\ Last(w)[1] = sign
         /\ DecodeZoned(w, Len(d), s) = FormatDecimal(d, s, Negative(sign))
<1> DEFINE n == Len(d)
           zone == [i \in 1 .. n |-> IF i < n THEN 15 ELSE sign]
<1>1. n \in Nat /\ n \in 1 .. n /\ DOMAIN d = 1 .. n /\ d = [i \in 1 .. n |-> d[i]]
  OBVIOUS
<1>2. DOMAIN w = 1 .. n /\ \A i \in 1 .. n : w[i] = <<zone[i], d[i]>>
  BY DEF ZonedBytes
<1> HIDE DEF n
<1>0. zone \in [1 .. n -> Nat] /\ zone[n] = sign
  BY <1>1
<1> HIDE DEF zone
<1>3. \A i \in 1 .. n : w[i][1] = zone[i] /\ w[i][2] = d[i]
  BY <1>2
<1>4. Len(w) = n
  <2>1. w \in Seq(Seq(Nat))
    <3>1. ASSUME NEW i \in 1 .. n PROVE w[i] \in Seq(Nat)
      <4>1. zone[i] \in Nat /\ w[i] = <<zone[i], d[i]>>
        BY <1>0, <1>2
      <4>2. d[i] \in Nat
        BY <1>1 DEF n, Digit
      <4> QED
        BY <4>1, <4>2, PairIs
    <3>2. w = [i \in 1 .. n |-> w[i]]
      BY DEF n, ZonedBytes
    <3>3. w \in [1 .. n -> Seq(Nat)]
      BY <3>1, <3>2
    <3>4. n \in Nat
      BY <1>1
    <3> QED
      BY <3>3, <3>4, SequenceMade
  <2> QED
    BY <1>1, <1>2, <2>1
<1>5. [i \in DOMAIN w |-> w[i][2]] = d
  BY <1>1, <1>2, <1>3
<1>6. Last(w)[1] = sign
  BY <1>0, <1>1, <1>3, <1>4 DEF Last
<1>7. \A i \in DOMAIN w : ~(w[i][2] > 9)
  <2>1. \A i \in 1 .. n : d[i] \in Digit
    BY <1>1
  <2>2. \A i \in 1 .. n : w[i][2] \in Digit
    BY <1>3, <2>1
  <2>3. \A x \in Digit : ~(x > 9)
    BY DEF Digit
  <2> QED
    BY <1>2, <2>2, <2>3
<1>8. DecodeZoned(w, n, s) = FormatDecimal(d, s, Negative(sign))
  BY <1>4, <1>5, <1>6, <1>7 DEF DecodeZoned
<1> QED
  BY <1>4, <1>5, <1>6, <1>8 DEF n, SecondNibbles

-----------------------------------------------------------------------------
(***************************************************************************)
(* A decimal field, from digits to bytes and back.                         *)
(***************************************************************************)
LEMMA DecimalFieldIs ==
  ASSUME NEW kind \in Decimals, NEW f \in DecimalFields(kind)
  PROVE  /\ f.kind = kind /\ f.precision \in Nat /\ f.precision > 0 /\ f.precision <= MaxUnits
         /\ f.scale \in Nat /\ f.scale <= f.precision /\ f.scale <= MaxUnits
         /\ f.length = IF kind = "packed" THEN f.precision \div 2 + 1 ELSE f.precision
<1>1. PICK p \in 1 .. MaxPrecision, s \in 0 .. MaxPrecision :
         s <= p /\ f = Field(kind, IF kind = "packed" THEN p \div 2 + 1 ELSE p, p, s)
  BY DEF DecimalFields
<1> DEFINE l == IF kind = "packed" THEN p \div 2 + 1 ELSE p
<1>2. f.kind = kind /\ f.precision = p /\ f.scale = s /\ f.length = l
  <2> HIDE DEF l
  <2>1. f = Field(kind, l, p, s)
    BY <1>1 DEF l
  <2> QED
    BY <2>1 DEF Field
<1>3. MaxPrecision \in Nat /\ MaxUnits \in Nat /\ MaxPrecision <= MaxUnits
  BY MaxUnitsIs, ValuesAssumption
<1> QED
  BY <1>1, <1>2, <1>3

\* The digits that a field holds, with the one that fills a byte.
Shown(f, d) == IF f.kind = "packed" THEN PackedDigits(d) ELSE d


LaidDecimal(f, d, sign) ==
  IF f.kind = "packed" THEN Pair(PackedDigits(d) \o <<sign>>)
  ELSE ZonedBytes(d, sign)

LEMMA ShownIs ==
  ASSUME NEW f, NEW d \in Seq(Digit)
  PROVE  /\ Shown(f, d) \in Seq(Digit) /\ Number(Shown(f, d)) = Number(d)
         /\ Len(Shown(f, d)) \in Nat /\ Len(Shown(f, d)) >= Len(d)
<1> DEFINE e == Shown(f, d)
<1>1. e \in Seq(Digit) /\ Number(e) = Number(d) /\ Len(e) >= Len(d)
  <2>1. CASE f.kind = "packed"
    <3> DEFINE x == PackedDigits(d)
               n == Len(d)
    <3>1. e = x /\ x \in Seq(Digit) /\ Number(x) = Number(d) /\ Len(x) = (IF n % 2 = 0 THEN n + 1 ELSE n)
      BY <2>1, PackedDigitsAre DEF Shown
    <3>2. n \in Nat
      OBVIOUS
    <3> HIDE DEF x, n, e
    <3>3. Len(x) >= n
      BY <3>1, <3>2
    <3> QED
      BY <3>1, <3>3 DEF n
  <2>2. CASE f.kind # "packed"
    BY <2>2 DEF Shown
  <2> QED
    BY <2>1, <2>2
<1> HIDE DEF e
<1>2. Len(e) \in Nat
  BY <1>1
<1> QED
  BY <1>1, <1>2 DEF e

\* What is laid in a field fills it, and is read as the digits and the sign.
LEMMA ValueDecoded ==
  ASSUME NEW f, NEW w
  PROVE  /\ f.kind = "packed" => DecodeValue(f, w) = DecodePacked(w, f.precision, f.scale)
         /\ f.kind = "zoned" => DecodeValue(f, w) = DecodeZoned(w, f.precision, f.scale)
         /\ f.kind = "integer" => DecodeValue(f, w) = DecodeInteger(f.length, w)
         /\ f.kind \in Fixed => DecodeValue(f, w) = [ok |-> TRUE, data |-> w]
         /\ f.kind \in Varying \union Binary => DecodeValue(f, w) = DecodeVarying(f, w)
BY DEF DecodeValue, Fixed, Varying, Binary

LEMMA ValueEncoded ==
  ASSUME NEW f, NEW v
  PROVE  /\ f.kind \in Decimals => EncodeValue(f, v) = EncodeDecimal(f, v)
         /\ f.kind = "integer" => EncodeValue(f, v) = EncodeInteger(f.length, v)
         /\ f.kind \in Fixed => EncodeValue(f, v) = PadText(f, v)
         /\ f.kind \in Varying \union Binary => EncodeValue(f, v) = EncodeVarying(f, v)
         /\ f.kind = "timestamp" => EncodeValue(f, v) = FormatFraction(f, v)
BY DEF EncodeValue, Decimals, Fixed, Varying, Binary

LEMMA LaidRead ==
  ASSUME NEW kind \in Decimals, NEW f \in DecimalFields(kind), NEW d \in Seq(Digit),
         Len(d) = f.precision, NEW sign \in Nat, NEW w, w = LaidDecimal(f, d, sign)
  PROVE  /\ Len(w) = f.length
         /\ DecodeValue(f, w) = FormatDecimal(Shown(f, d), f.scale, Negative(sign))
         /\ Meaning(f, w) = LET n == Number(d) * Power(10, MaxUnits - f.scale) IN
                            IF Negative(sign) THEN -n ELSE n
<1>1. /\ f.kind = kind /\ f.precision \in Nat /\ f.precision > 0
      /\ f.scale \in Nat /\ f.scale <= f.precision /\ f.scale <= MaxUnits
      /\ f.length = IF kind = "packed" THEN f.precision \div 2 + 1 ELSE f.precision
  BY DecimalFieldIs
<1> DEFINE e == Shown(f, d)
           s == f.scale
           n == Len(e) - s
           T == [sign |-> IF Negative(sign) THEN "-" ELSE "", int |-> Take(e, n), frac |-> Drop(e, n)]
<1>2. kind = "packed" \/ kind = "zoned"
  BY DEF Decimals
<1>3. /\ Len(w) = f.length
      /\ DecodeValue(f, w) = FormatDecimal(e, s, Negative(sign))
      /\ Meaning(f, w) = Units(T)
  <2>1. CASE kind = "packed"
    <3>1. w = Pair(PackedDigits(d) \o <<sign>>) /\ e = PackedDigits(d)
      BY <1>1, <2>1 DEF LaidDecimal, Shown
    <3>2. /\ Len(w) = Len(d) \div 2 + 1 /\ Front(FlattenSeq(w)) = e /\ Last(w)[2] = sign
          /\ DecodePacked(w, Len(d), s) = FormatDecimal(e, s, Negative(sign))
      <4> HIDE DEF e, s
      <4>1. w = Pair(PackedDigits(d) \o <<sign>>)
        BY <3>1
      <4>2. /\ Len(w) = Len(d) \div 2 + 1 /\ Front(FlattenSeq(w)) = PackedDigits(d) /\ Last(w)[2] = sign
            /\ DecodePacked(w, Len(d), s) = FormatDecimal(PackedDigits(d), s, Negative(sign))
        BY <4>1, PackedRead
      <4> QED
        BY <3>1, <4>2
    <3>3. DecodeValue(f, w) = DecodePacked(w, f.precision, s)
      BY <1>1, <2>1, ValueDecoded
    <3>4. Meaning(f, w) = Units(T)
      <4> HIDE DEF e
      <4> QED
        BY <1>1, <2>1, <3>2 DEF Meaning, Negative
    <3> QED
      BY <1>1, <2>1, <3>2, <3>3, <3>4
  <2>2. CASE kind = "zoned"
    <3> DEFINE l == Len(d)
    <3>1. f.length = l /\ l > 0 /\ l \in Nat /\ e = d
      BY <1>1, <2>2 DEF Shown
    <3>2. w = ZonedBytes(d, sign)
      BY <1>1, <2>2, <3>1 DEF LaidDecimal
    <3>4. /\ Len(w) = l /\ SecondNibbles(w) = d /\ Last(w)[1] = sign
          /\ DecodeZoned(w, l, s) = FormatDecimal(d, s, Negative(sign))
      <4> HIDE DEF s
      <4>1. Len(d) > 0
        BY <3>1
      <4> HIDE DEF l
      <4>2. /\ Len(w) = Len(d) /\ SecondNibbles(w) = d /\ Last(w)[1] = sign
            /\ DecodeZoned(w, Len(d), s) = FormatDecimal(d, s, Negative(sign))
        BY <3>2, <4>1, ZonedRead
      <4> QED
        BY <4>2 DEF l
    <3>5. DecodeValue(f, w) = DecodeZoned(w, f.precision, s)
      BY <1>1, <2>2, ValueDecoded
    <3>6. Meaning(f, w) = Units(T)
      <4> HIDE DEF e
      <4> QED
        BY <1>1, <2>2, <3>1, <3>4 DEF Meaning, Negative, SecondNibbles
    <3> QED
      BY <1>1, <2>2, <3>1, <3>4, <3>5, <3>6
  <2> QED
    BY <1>2, <2>1, <2>2
<1>4. e \in Seq(Digit) /\ Number(e) = Number(d) /\ Len(e) \in Nat /\ Len(e) >= s
  <2> HIDE DEF s
  <2>1. s \in Nat /\ s <= Len(d) /\ Len(d) \in Nat
    BY <1>1 DEF s
  <2> QED
    BY <2>1, ShownIs
<1> HIDE DEF e
<1>5. n \in 0 .. Len(e) /\ Len(e) - n = s
  BY <1>1, <1>4
<1> HIDE DEF n
<1>6. Take(e, n) \o Drop(e, n) = e /\ Len(Drop(e, n)) = s
  BY <1>4, <1>5, TakenDropped
<1>7. Magnitude(T) = Number(d) * Power(10, MaxUnits - s)
  <2>1. T.int = Take(e, n) /\ T.frac = Drop(e, n)
    OBVIOUS
  <2> HIDE DEF T
  <2> QED
    BY <1>4, <1>6, <2>1 DEF Magnitude
<1>8. T.sign = "-" <=> Negative(sign)
  OBVIOUS
<1> HIDE DEF T
<1>9. Units(T) = IF Negative(sign) THEN -Magnitude(T) ELSE Magnitude(T)
  BY <1>8, UnitsAre
<1> QED
  BY <1>3, <1>7, <1>9 DEF e

SignOf(negative) == IF negative THEN 13 ELSE 15

LEMMA SignIs ==
  ASSUME NEW negative \in BOOLEAN
  PROVE  SignOf(negative) \in Nat /\ (Negative(SignOf(negative)) <=> negative)
BY DEF SignOf, Negative

LEMMA EncodeDecimalIs ==
  ASSUME NEW kind \in Decimals, NEW f \in DecimalFields(kind), NEW v, IsText(v)
  PROVE  /\ Refused(v, f.precision, f.scale) => EncodeValue(f, v) = [ok |-> FALSE]
         /\ ~Refused(v, f.precision, f.scale) =>
               \E d \in Seq(Digit) :
                  /\ d = ScaledDigits(v, f.precision, f.scale)
                  /\ Len(d) = f.precision
                  /\ Magnitude(v) = Number(d) * Power(10, MaxUnits - f.scale)
                  /\ EncodeValue(f, v) =
                        [ok |-> TRUE,
                         bytes |-> LaidDecimal(f, d, SignOf(v.sign = "-" /\ Number(d) # 0))]
<1> DEFINE p == f.precision
           s == f.scale
           d == ScaledDigits(v, p, s)
           negative == v.sign = "-" /\ ~AllZero(d)
<1>1. /\ f.kind = kind /\ p \in Nat /\ p > 0 /\ p <= MaxUnits
      /\ s \in Nat /\ s <= p /\ s <= MaxUnits
      /\ f.length = IF kind = "packed" THEN p \div 2 + 1 ELSE p
  BY DecimalFieldIs
<1>2. EncodeValue(f, v) = EncodeDecimal(f, v)
  BY <1>1, ValueEncoded
<1>3. kind = "packed" \/ kind = "zoned"
  BY DEF Decimals
<1>4. CASE Refused(v, p, s)
  <2>1. ScaleToDigits(v, p, s) = [ok |-> FALSE]
    BY <1>4, ScaleToDigitsIs
  <2> QED
    BY <1>2, <1>4, <2>1 DEF EncodeDecimal, Reject
<1>5. CASE ~Refused(v, p, s)
  <2>1. ScaleToDigits(v, p, s) = [ok |-> TRUE, digits |-> d, negative |-> negative]
    BY <1>5, ScaleToDigitsIs
  <2>2. /\ d \in Seq(Digit) /\ Len(d) = p /\ Magnitude(v) = Number(d) * Power(10, MaxUnits - s)
    BY <1>1, <1>5, Scaled
  <2> HIDE DEF d, negative
  <2>3. EncodeDecimal(f, v) = IF f.kind = "packed" THEN EncodePacked(f.length, d, negative)
                              ELSE EncodeZoned(f.length, d, negative)
    BY <2>1 DEF EncodeDecimal
  <2>4. EncodeDecimal(f, v) = [ok |-> TRUE, bytes |-> LaidDecimal(f, d, SignOf(negative))]
    <3>1. CASE kind = "packed"
      <4>1. EncodePacked(f.length, d, negative)
            = [ok |-> TRUE, bytes |-> Pair(PackedDigits(d) \o <<IF negative THEN 13 ELSE 15>>)]
        BY <1>1, <2>2, <3>1 DEF EncodePacked
      <4> QED
        BY <1>1, <2>3, <3>1, <4>1 DEF LaidDecimal, SignOf
    <3>2. CASE kind = "zoned"
      <4> DEFINE bytes == [i \in 1 .. f.length |-> <<IF i = f.length /\ negative THEN 13 ELSE 15, d[i]>>]
      <4>1. EncodeZoned(f.length, d, negative) = [ok |-> TRUE, bytes |-> bytes]
        BY <1>1, <2>2, <3>2 DEF EncodeZoned
      <4>2. \A i \in 1 .. f.length :
               (IF i = f.length /\ negative THEN 13 ELSE 15) = IF i < f.length THEN 15 ELSE SignOf(negative)
        BY <1>1, <3>2 DEF SignOf
      <4>3. bytes = [i \in 1 .. f.length |-> <<IF i < f.length THEN 15 ELSE SignOf(negative), d[i]>>]
        BY <4>2
      <4> HIDE DEF bytes
      <4>4. LaidDecimal(f, d, SignOf(negative)) = bytes
        <5>1. f.length = Len(d) /\ f.kind # "packed"
          BY <1>1, <2>2, <3>2
        <5>2. bytes = [i \in 1 .. Len(d) |-> <<IF i < Len(d) THEN 15 ELSE SignOf(negative), d[i]>>]
          BY <4>3, <5>1
        <5> QED
          BY <5>1, <5>2 DEF LaidDecimal, ZonedBytes
      <4> QED
        BY <1>1, <2>3, <3>2, <4>1, <4>4
    <3> QED
      BY <1>3, <3>1, <3>2
  <2>5. negative <=> (v.sign = "-" /\ Number(d) # 0)
    BY <2>2, NumberZero DEF negative
  <2>6. SignOf(negative) = SignOf(v.sign = "-" /\ Number(d) # 0)
    BY <2>5 DEF SignOf
  <2> QED
    BY <1>2, <1>5, <2>2, <2>4, <2>6 DEF d
<1> QED
  BY <1>4, <1>5

\* A decimal that is sent comes back, and what is not sent does not fit.
LEMMA DecimalSent ==
  ASSUME NEW kind \in Decimals, NEW f \in DecimalFields(kind), NEW v, IsText(v), EncodeValue(f, v).ok
  PROVE  /\ Len(EncodeValue(f, v).bytes) = f.length
         /\ Same(f, v, DecodeValue(f, EncodeValue(f, v).bytes))
<1> DEFINE s == f.scale
           w == EncodeValue(f, v).bytes
           back == DecodeValue(f, w)
<1>1. f.kind = kind /\ s \in Nat /\ s <= MaxUnits
  BY DecimalFieldIs
<1>2. ~Refused(v, f.precision, s)
  <2>1. EncodeValue(f, v) # [ok |-> FALSE]
    OBVIOUS
  <2> QED
    BY <2>1, EncodeDecimalIs
<1>3. PICK d \in Seq(Digit) :
         /\ Len(d) = f.precision /\ Magnitude(v) = Number(d) * Power(10, MaxUnits - s)
         /\ EncodeValue(f, v) = [ok |-> TRUE,
                                 bytes |-> LaidDecimal(f, d, SignOf(v.sign = "-" /\ Number(d) # 0))]
  BY <1>2, EncodeDecimalIs
<1> DEFINE negative == v.sign = "-" /\ Number(d) # 0
           e == Shown(f, d)
<1>4. w = LaidDecimal(f, d, SignOf(negative))
  BY <1>3
<1>5. negative \in BOOLEAN
  OBVIOUS
<1> HIDE DEF w, negative
<1>6. SignOf(negative) \in Nat /\ (Negative(SignOf(negative)) <=> negative)
  BY <1>5, SignIs
<1>7. Len(w) = f.length /\ back = FormatDecimal(e, s, Negative(SignOf(negative)))
  BY <1>3, <1>4, <1>6, LaidRead
<1>8. e \in Seq(Digit) /\ Number(e) = Number(d)
  BY ShownIs
<1> HIDE DEF back, e
<1>9. /\ back.ok /\ Magnitude(back) = Number(d) * Power(10, MaxUnits - s)
      /\ back.sign = IF negative /\ Number(d) # 0 THEN "-" ELSE ""
  <2> DEFINE m == Negative(SignOf(negative))
  <2>1. m \in BOOLEAN /\ back = FormatDecimal(e, s, m) /\ (m <=> negative)
    BY <1>6, <1>7 DEF Negative
  <2> HIDE DEF m
  <2>2. /\ back.ok /\ Magnitude(back) = Number(e) * Power(10, MaxUnits - s)
        /\ back.sign = IF m /\ Number(e) # 0 THEN "-" ELSE ""
    <3> HIDE DEF s
    <3> QED
      BY <1>1, <1>8, <2>1, Formatted
  <2> QED
    BY <1>8, <2>1, <2>2
<1>10. Units(back) = Units(v)
  <2>1. CASE Number(d) = 0
    <3> DEFINE n == MaxUnits - s
               q == Power(10, n)
    <3>1. n \in Nat
      BY <1>1, MaxUnitsIs
    <3> HIDE DEF n
    <3>2. q \in Nat
      BY <3>1, Tens
    <3>3. Magnitude(v) = 0 * q /\ Magnitude(back) = 0 * q
      BY <1>3, <1>9, <2>1 DEF n
    <3> HIDE DEF q
    <3>4. Magnitude(v) = 0 /\ Magnitude(back) = 0
      BY <3>2, <3>3
    <3>5. -Magnitude(v) = 0 /\ -Magnitude(back) = 0
      <4> DEFINE x == Magnitude(v)
                 y == Magnitude(back)
      <4>1. x = 0 /\ y = 0
        BY <3>4
      <4> HIDE DEF x, y
      <4>2. \A k \in Int : -k = 0 - k
        OBVIOUS
      <4>3. x \in Int /\ y \in Int
        BY <4>1
      <4>4. -x = 0 - x /\ -y = 0 - y
        BY <4>2, <4>3, Zenon
      <4> QED
        BY <4>1, <4>4 DEF x, y
    <3> QED
      BY <3>4, <3>5, UnitsAre
  <2>2. CASE Number(d) # 0
    <3>1. back.sign = "-" <=> v.sign = "-"
      BY <1>9, <2>2 DEF negative
    <3>2. Magnitude(back) = Magnitude(v)
      BY <1>3, <1>9
    <3> QED
      BY <3>1, <3>2, UnitsAre
  <2> QED
    BY <2>1, <2>2
<1>11. Same(f, v, back)
  <2>1. f.kind \in Decimals
    BY <1>1
  <2> QED
    BY <1>9, <1>10, <2>1 DEF Same, Decimals, Fixed, Varying, Binary
<1> QED
  BY <1>7, <1>11 DEF w, back

LEMMA RepresentableDecimal ==
  ASSUME NEW kind \in Decimals, NEW f \in DecimalFields(kind), NEW v
  PROVE  Representable(f, v) <=> Fits(v, f.precision, f.scale)
<1>1. f.kind \in Decimals
  BY DecimalFieldIs
<1> QED
  BY <1>1 DEF Representable, Fits, Decimals, Fixed, Varying, Binary

LEMMA DecimalRefused ==
  ASSUME NEW kind \in Decimals, NEW f \in DecimalFields(kind), NEW v, IsText(v), ~EncodeValue(f, v).ok
  PROVE  ~Representable(f, v)
<1>1. Refused(v, f.precision, f.scale)
  <2> SUFFICES ASSUME ~Refused(v, f.precision, f.scale) PROVE EncodeValue(f, v).ok
    OBVIOUS
  <2>1. \E bytes : EncodeValue(f, v) = [ok |-> TRUE, bytes |-> bytes]
    BY EncodeDecimalIs
  <2> QED
    BY <2>1
<1> QED
  BY <1>1, DecimalFieldIs, RepresentableDecimal, RefusedUnfit

LEMMA Cancelled == \A a, b, q \in Nat : q >= 1 /\ a * q = b * q => a = b
OBVIOUS

LEMMA FewerTimes ==
  ASSUME NEW a \in Nat, NEW b \in Nat, NEW c \in Nat, NEW q \in Nat, a * q + c < b * q
  PROVE  a < b
OBVIOUS

\* A text that a field was read as fits the field, and has the field's digits.
LEMMA FormattedFits ==
  ASSUME NEW d \in Seq(Digit), NEW p \in Nat, NEW s \in Nat, s <= p, p <= MaxUnits,
         Number(d) < Power(10, p), NEW negative \in BOOLEAN,
         NEW t, t = FormatDecimal(d, s, negative)
  PROVE  ~Refused(t, p, s) /\ Number(ScaledDigits(t, p, s)) = Number(d)
<1> DEFINE i == t.int
           f == t.frac
           q == Power(10, MaxUnits - s)
<1>1. s <= MaxUnits /\ MaxUnits \in Nat
  BY MaxUnitsIs
<1>2. /\ IsText(t) /\ Wellformed(t) /\ i \in Seq(Digit) /\ i # << >> /\ f \in Seq(Digit) /\ Len(f) = s
      /\ Magnitude(t) = Number(d) * q
  BY <1>1, Formatted
<1>3. MaxUnits - s \in Nat
  BY <1>1
<1>4. q \in Nat /\ q >= 1
  BY <1>3, Tens
<1>5. i \o f \in Seq(Digit) /\ Number(i \o f) \in Nat /\ Number(d) \in Nat /\ Number(i) \in Nat /\ Number(f) \in Nat
  <2>1. i \o f \in Seq(Digit)
    BY <1>2
  <2> HIDE DEF i, f
  <2> QED
    BY <1>2, <2>1, DigitNat
<1>6. Number(i \o f) = Number(d)
  <2>1. Number(i \o f) * q = Number(d) * q
    BY <1>2 DEF Magnitude
  <2> HIDE DEF q, i, f
  <2> QED
    BY <1>4, <1>5, <2>1, Cancelled
<1>7. Number(i) < Power(10, p - s)
  <2> DEFINE a == Number(i)
             b == Power(10, p - s)
             c == Number(f)
             r == Power(10, s)
  <2>1. p - s \in Nat /\ p - s + s = p
    OBVIOUS
  <2>2. Power(10, p) = b * r /\ b \in Nat /\ r \in Nat
    <3> DEFINE k == p - s
    <3>1. k \in Nat /\ k + s = p
      BY <2>1
    <3> HIDE DEF k
    <3>2. Power(10, k + s) = Power(10, k) * Power(10, s) /\ Power(10, k) \in Nat /\ Power(10, s) \in Nat
      BY <3>1, TensSum
    <3> QED
      BY <3>1, <3>2 DEF k
  <2>3. Number(i \o f) = a * r + c
    <3> HIDE DEF i, f
    <3>1. i \in Seq(Nat) /\ f \in Seq(Nat)
      BY <1>2, DigitNat
    <3>2. Number(i \o f) = Number(i) * Power(10, Len(f)) + Number(f)
      BY <3>1, NumberJoined
    <3> QED
      BY <1>2, <3>2
  <2>4. a \in Nat /\ c \in Nat
    BY <1>5
  <2>5. a * r + c < b * r
    BY <1>6, <2>2, <2>3
  <2> HIDE DEF a, b, c, r
  <2>6. a < b
    BY <2>2, <2>4, <2>5, FewerTimes
  <2> QED
    BY <2>6 DEF a, b
<1>8. ~Refused(t, p, s)
  <2>1. ~(i = << >> /\ f = << >>) /\ NoDigit \notin Range(i) \union Range(f)
    BY <1>2, WellformedIs DEF IsText
  <2>2. ~LosesFraction(f, s)
    <3> HIDE DEF f
    <3> QED
      BY <1>2 DEF LosesFraction
  <2>3. ~LosesInteger(i, p, s)
    <3> DEFINE k == p - s
               x == Number(i)
               y == Power(10, k)
    <3>1. k \in Nat
      OBVIOUS
    <3> HIDE DEF k, i
    <3>2. y \in Nat /\ x \in Nat /\ x < y
      BY <1>5, <1>7, <3>1, Tens DEF k
    <3>3. Len(TrimLeft(i)) > k <=> x >= y
      BY <1>2, <3>1, TrimmedFits
    <3> HIDE DEF x, y
    <3> QED
      BY <3>2, <3>3 DEF LosesInteger, k
  <2> QED
    BY <2>1, <2>2, <2>3 DEF Refused
<1>9. Number(ScaledDigits(t, p, s)) = Number(d)
  <2> DEFINE x == ScaledDigits(t, p, s)
  <2>1. x \in Seq(Digit) /\ Magnitude(t) = Number(x) * q
    BY <1>1, <1>2, <1>8, Scaled
  <2> HIDE DEF q, x
  <2>2. Number(x) \in Nat
    BY <2>1, DigitNat
  <2> QED
    BY <1>2, <1>4, <1>5, <2>1, <2>2, Cancelled DEF x
<1> QED
  BY <1>8, <1>9

\* What a server has filled a decimal field with, read: it is the field's
\* number, it can be given back, and what is sent then reads the same.
LEMMA DecimalRead ==
  ASSUME NEW kind \in Decimals, NEW f \in DecimalFields(kind), NEW d \in Seq(Digit),
         Len(d) = f.precision, NEW sign \in Nat, NEW w, w = LaidDecimal(f, d, sign),
         NEW t, t = DecodeValue(f, w)
  PROVE  /\ t.ok /\ IsText(t) /\ Units(t) = Meaning(f, w)
         /\ Len(t.frac) = f.scale /\ t.int # << >> /\ (Len(t.int) > 1 => t.int[1] # 0)
         /\ t.sign = "-" => Units(t) # 0
         /\ EncodeValue(f, t).ok
         /\ DecodeValue(f, EncodeValue(f, t).bytes) = t
<1> DEFINE e == Shown(f, d)
           s == f.scale
           p == f.precision
           m == Negative(sign)
           N == Number(d)
           q == Power(10, MaxUnits - s)
<1>1. /\ f.kind = kind /\ p \in Nat /\ p > 0 /\ p <= MaxUnits
      /\ s \in Nat /\ s <= p /\ s <= MaxUnits /\ MaxUnits \in Nat
  BY DecimalFieldIs, MaxUnitsIs
<1>2. /\ t = FormatDecimal(e, s, m)
      /\ Meaning(f, w) = IF m THEN -(N * q) ELSE N * q
  BY LaidRead
<1>3. e \in Seq(Digit) /\ Number(e) = N
  BY ShownIs
<1>4. m \in BOOLEAN
  BY DEF Negative
<1> HIDE DEF e, m
<1>5. /\ t.ok /\ IsText(t)
      /\ t.int # << >> /\ (Len(t.int) > 1 => t.int[1] # 0) /\ Len(t.frac) = s
      /\ Magnitude(t) = Number(e) * q
      /\ t.sign = IF m /\ Number(e) # 0 THEN "-" ELSE ""
  <2> HIDE DEF s, N, p, q
  <2>1. s \in Nat /\ s <= MaxUnits /\ t = FormatDecimal(e, s, m)
    BY <1>1, <1>2
  <2>2. /\ t.ok /\ IsText(t) /\ Wellformed(t)
        /\ t.int \in Seq(Digit) /\ t.int # << >> /\ (Len(t.int) > 1 => t.int[1] # 0)
        /\ t.frac \in Seq(Digit) /\ Len(t.frac) = s
        /\ Magnitude(t) = Number(e) * Power(10, MaxUnits - s)
        /\ t.sign = IF m /\ Number(e) # 0 THEN "-" ELSE ""
    BY <1>3, <1>4, <2>1, Formatted
  <2> QED
    BY <2>2 DEF q
<1>6. N \in Nat /\ N < Power(10, p)
  BY NumberBelow
<1>7. q \in Nat /\ q >= 1
  <2> DEFINE k == MaxUnits - s
  <2>1. k \in Nat
    BY <1>1
  <2> HIDE DEF k
  <2> QED
    BY <2>1, Tens DEF k
<1> HIDE DEF q, N, s, p
<1>8. Units(t) = IF t.sign = "-" THEN -(N * q) ELSE N * q
  BY <1>3, <1>5, UnitsAre
<1>9. Units(t) = Meaning(f, w)
  <2>1. CASE N = 0
    <3>1. N * q = 0
      BY <1>7, <2>1
    <3>2. -(N * q) = 0 - N * q
      <4> DEFINE x == N * q
      <4>1. \A k \in Int : -k = 0 - k
        OBVIOUS
      <4>2. x \in Int
        BY <3>1
      <4> HIDE DEF x
      <4>3. -x = 0 - x
        BY <4>1, <4>2, Zenon
      <4> QED
        BY <4>3 DEF x
    <3>3. -(N * q) = N * q
      BY <3>1, <3>2
    <3> QED
      BY <1>2, <1>8, <3>3
  <2>2. CASE N # 0
    BY <1>2, <1>3, <1>5, <1>8, <2>2
  <2> QED
    BY <2>1, <2>2
<1>10. t.sign = "-" => Units(t) # 0
  <2> SUFFICES ASSUME t.sign = "-" PROVE Units(t) # 0
    OBVIOUS
  <2>1. N # 0 /\ Units(t) = -(N * q)
    BY <1>3, <1>5, <1>8
  <2>2. N * q \in Nat /\ N * q >= 1
    BY <1>6, <1>7, <2>1
  <2> QED
    BY <2>1, <2>2
<1>11. ~Refused(t, p, s) /\ Number(ScaledDigits(t, p, s)) = N
  <2>1. Number(e) < Power(10, p)
    BY <1>3, <1>6
  <2> QED
    BY <1>1, <1>2, <1>3, <1>4, <2>1, FormattedFits
<1>12. PICK x \in Seq(Digit) :
          /\ x = ScaledDigits(t, p, s) /\ Len(x) = p
          /\ EncodeValue(f, t) = [ok |-> TRUE, bytes |-> LaidDecimal(f, x, SignOf(t.sign = "-" /\ Number(x) # 0))]
  BY <1>5, <1>11, EncodeDecimalIs DEF p, s
<1>13. x = d
  BY <1>11, <1>12, NumberTells DEF N, p
<1> DEFINE negative == t.sign = "-" /\ N # 0
           sent == SignOf(negative)
           bytes == LaidDecimal(f, d, sent)
<1>14. EncodeValue(f, t) = [ok |-> TRUE, bytes |-> bytes]
  BY <1>12, <1>13 DEF N
<1>15. negative \in BOOLEAN /\ (N # 0 => negative = m)
  BY <1>3, <1>4, <1>5
<1> HIDE DEF negative
<1>16. sent \in Nat /\ (Negative(sent) <=> negative) /\ Negative(sent) \in BOOLEAN
  BY <1>15, SignIs DEF Negative
<1> HIDE DEF sent
<1>17. DecodeValue(f, bytes) = FormatDecimal(e, s, Negative(sent))
  <2> HIDE DEF bytes
  <2>1. bytes = LaidDecimal(f, d, sent)
    BY DEF bytes
  <2> QED
    BY <1>16, <2>1, LaidRead DEF e, s
<1>18. FormatDecimal(e, s, Negative(sent)) = FormatDecimal(e, s, m)
  <2>1. Number(e) # 0 => Negative(sent) = m
    BY <1>3, <1>4, <1>15, <1>16
  <2> QED
    BY <1>1, <1>3, <1>4, <1>16, <2>1, FormattedAlike
<1>19. DecodeValue(f, EncodeValue(f, t).bytes) = t
  BY <1>2, <1>14, <1>17, <1>18
<1>20. Len(t.frac) = f.scale
  BY <1>5 DEF s
<1>21. EncodeValue(f, t).ok
  <2> HIDE DEF bytes
  <2> QED
    BY <1>14
<1> HIDE DEF bytes
<1> QED
  BY <1>5, <1>9, <1>10, <1>19, <1>20, <1>21

-----------------------------------------------------------------------------
(***************************************************************************)
(* Integers: a number and its two's complement.                            *)
(***************************************************************************)
LEMMA Wrapped ==
  ASSUME NEW h \in Nat, h >= 1, NEW v \in Int, -h <= v, v < h
  PROVE  v % (2 * h) = IF v >= 0 THEN v ELSE v + 2 * h
OBVIOUS

\* Half the values of a width are negative; eight bytes are wider than four.
LEMMA Widths ==
  ASSUME NEW n \in IntegerSizes
  PROVE  \E h \in Nat, l \in Nat :
            /\ h >= 1 /\ MinInt(n) = -h /\ MaxInt(n) = h - 1 /\ Power(2, n * ByteBits) = 2 * h
            /\ MinInt(8) = -l /\ MaxInt(8) = l - 1 /\ l >= 2 /\ h <= l /\ (n # 8 => 2 * h <= l)
<1> DEFINE a == n * ByteBits - 1
           b == 8 * ByteBits - 1
           h == Power(2, a)
           l == Power(2, b)
<1>1. ByteBits \in Nat /\ ByteBits >= 1
  BY ValuesAssumption
<1>2. /\ a \in Nat /\ a + 1 = n * ByteBits /\ b \in Nat /\ a <= b
      /\ (n # 8 => a + 1 <= b) /\ 1 <= b
  BY <1>1 DEF IntegerSizes
<1>3. MinInt(n) = -h /\ MaxInt(n) = h - 1 /\ MinInt(8) = -l /\ MaxInt(8) = l - 1
  BY DEF MinInt, MaxInt
<1> HIDE DEF a, b
<1>4. 2 \in Nat /\ 2 > 0 /\ 0 \in Nat /\ 1 \in Nat /\ a + 1 \in Nat
  BY <1>2
<1>5. h \in Nat /\ h >= 1 /\ l \in Nat
  BY <1>2, <1>4, PowerPositive
<1>6. Power(2, a + 1) = 2 * h /\ Power(2, 1) = 2
  <2>1. Power(2, 0) = 1 /\ \A k \in Nat : Power(2, k + 1) = 2 * Power(2, k)
    BY <1>4, PowerNext
  <2>2. Power(2, 0 + 1) = 2 * 1 /\ 0 + 1 = 1
    BY <1>4, <2>1
  <2> QED
    BY <1>2, <2>1, <2>2
<1>7. h <= l
  BY <1>2, <1>4, PowerGrows
<1>8. n # 8 => 2 * h <= l
  BY <1>2, <1>4, <1>6, PowerGrows
<1>9. l >= 2
  <2>1. Power(2, 1) <= l
    BY <1>2, <1>4, PowerGrows
  <2> HIDE DEF l
  <2> QED
    BY <1>5, <1>6, <2>1
<1>10. Power(2, n * ByteBits) = 2 * h
  BY <1>2, <1>6
<1> HIDE DEF h, l
<1> QED
  BY <1>3, <1>5, <1>7, <1>8, <1>9, <1>10

\* What fits a width comes back, and every number fits eight bytes.
LEMMA IntegerSent ==
  ASSUME NEW n \in IntegerSizes, NEW v \in MinInt(8) .. MaxInt(8)
  PROVE  /\ IntegerFits(v, n) <=> v \in MinInt(n) .. MaxInt(n)
         /\ IntegerFits(v, n) => DecodeInteger(n, v % Power(2, n * ByteBits)).int = v
<1>1. PICK h \in Nat : h >= 1 /\ MinInt(n) = -h /\ MaxInt(n) = h - 1 /\ Power(2, n * ByteBits) = 2 * h
  BY Widths
<1>2. IntegerFits(v, n) <=> v \in MinInt(n) .. MaxInt(n)
  BY DEF IntegerFits
<1>3. ASSUME IntegerFits(v, n) PROVE DecodeInteger(n, v % Power(2, n * ByteBits)).int = v
  <2> DEFINE w == v % Power(2, n * ByteBits)
  <2>1. v \in Int /\ -h <= v /\ v < h
    BY <1>1, <1>2, <1>3
  <2>2. w = v % (2 * h)
    BY <1>1
  <2> HIDE DEF w
  <2>3. w = IF v >= 0 THEN v ELSE v + 2 * h
    BY <1>1, <2>1, <2>2, Wrapped
  <2>4. DecodeInteger(n, w).int = IF w > h - 1 THEN w - 2 * h ELSE w
    BY <1>1 DEF DecodeInteger
  <2>5. (IF w > h - 1 THEN w - 2 * h ELSE w) = v
    BY <1>1, <2>1, <2>3
  <2> QED
    BY <2>4, <2>5 DEF w
<1> QED
  BY <1>2, <1>3

-----------------------------------------------------------------------------
(***************************************************************************)
(* Character data.                                                         *)
(***************************************************************************)
LEMMA FilledUp ==
  ASSUME NEW v \in Seq(Nat), NEW fill \in Seq(Nat), AllZero(fill)
  PROVE  /\ Len(v \o fill) = Len(v) + Len(fill)
         /\ Take(v \o fill, Len(v)) = v /\ Drop(v \o fill, Len(v)) = fill
<1> DEFINE w == v \o fill
           n == Len(v)
<1>1. /\ Len(w) = n + Len(fill) /\ w \in Seq(Nat) /\ n \in Nat /\ Len(fill) \in Nat
      /\ n \in 0 .. Len(w)
  OBVIOUS
<1>2. /\ \A k \in 1 .. n : w[k] = v[k]
      /\ \A k \in 1 .. Len(fill) : w[n + k] = fill[k]
  OBVIOUS
<1> HIDE DEF w
<1>3. /\ Take(w, n) \in Seq(Nat) /\ Len(Take(w, n)) = n /\ \A k \in 1 .. n : Take(w, n)[k] = w[k]
      /\ Drop(w, n) \in Seq(Nat) /\ Len(Drop(w, n)) = Len(w) - n
      /\ \A k \in 1 .. Len(w) - n : Drop(w, n)[k] = w[n + k]
  BY <1>1, TakenDropped
<1>4. Take(w, n) = v
  <2> DEFINE x == Take(w, n)
  <2>1. x \in Seq(Nat) /\ Len(x) = Len(v) /\ \A k \in 1 .. Len(v) : x[k] = v[k]
    BY <1>2, <1>3
  <2> HIDE DEF x
  <2> QED
    BY <2>1 DEF x
<1>5. Drop(w, n) = fill
  <2> DEFINE x == Drop(w, n)
  <2>1. Len(w) - n = Len(fill)
    BY <1>1
  <2>2. x \in Seq(Nat) /\ Len(x) = Len(fill) /\ \A k \in 1 .. Len(fill) : x[k] = fill[k]
    BY <1>2, <1>3, <2>1
  <2> HIDE DEF x
  <2> QED
    BY <2>2 DEF x
<1> QED
  BY <1>1, <1>4, <1>5 DEF w

-----------------------------------------------------------------------------
(***************************************************************************)
(* Parameters of each kind.                                                *)
(***************************************************************************)
LEMMA DecimalParameters == \A kind \in Decimals : Parameters(kind) = DecimalFields(kind) \X Texts
BY DEF Parameters, Decimals, Fixed, Varying, Binary

EdgeIntegers == UNION {{MinInt(n), -1, 0, 1, MaxInt(n)} \union
                       (IF n < 8 THEN {MinInt(n) - 1, MaxInt(n) + 1} ELSE {}) : n \in IntegerSizes}

LEMMA IntegerParameters ==
  Parameters("integer") = {Field("integer", n, 0, 0) : n \in IntegerSizes} \X EdgeIntegers
BY DEF Parameters, Decimals, Fixed, Varying, Binary, EdgeIntegers

DataFields(kind) == {Field(kind, PrefixSize(kind) + UnitSize(kind) * n, 0, 0) : n \in 0 .. MaxLength}
DataValues(kind) == {Data(DataUnit(kind) * n) : n \in 0 .. MaxLength}

LEMMA DataParameters ==
  \A kind \in Fixed \union Varying \union Binary : Parameters(kind) = DataFields(kind) \X DataValues(kind)
BY DEF Parameters, Decimals, Fixed, Varying, Binary, DataFields, DataValues

TimeFields == {Field("timestamp", n, 0, 0) : n \in 0 .. ClockDigits}

LEMMA TimeParameters == Parameters("timestamp") = TimeFields \X [1 .. ClockDigits -> Digits]
BY DEF Parameters, Decimals, Fixed, Varying, Binary, TimeFields

\* A text of a parameter has no more digits after its point than are counted.
LEMMA TextsAre ==
  ASSUME NEW t \in Texts
  PROVE  IsText(t)
<1> DEFINE C == Digits \union {NoDigit}
<1>1. C \subseteq Character
  BY ValuesAssumption DEF Character
<1> HIDE DEF C
<1>2. ASSUME NEW d \in Seqs(C, MaxDigits) PROVE d \in Seq(Character) /\ Len(d) <= MaxUnits
  <2>1. PICK m \in 0 .. MaxDigits : d \in [1 .. m -> C]
    BY DEF Seqs
  <2>2. d \in [1 .. m -> Character] /\ m \in Nat
    BY <1>1, <2>1
  <2>3. d \in Seq(Character) /\ Len(d) = m
    BY <2>2, SequenceMade
  <2> QED
    BY <2>3, MaxUnitsIs, ValuesAssumption
<1>3. t.sign \in Signs /\ t.int \in Seqs(C, MaxDigits) /\ t.frac \in Seqs(C, MaxDigits)
  BY DEF Texts, C
<1> QED
  BY <1>2, <1>3 DEF IsText

\* Eight bytes hold the edges of every width.
LEMMA EdgesFit == EdgeIntegers \subseteq MinInt(8) .. MaxInt(8)
<1> SUFFICES ASSUME NEW n \in IntegerSizes,
                    NEW v \in {MinInt(n), -1, 0, 1, MaxInt(n)} \union
                              (IF n < 8 THEN {MinInt(n) - 1, MaxInt(n) + 1} ELSE {})
             PROVE  v \in MinInt(8) .. MaxInt(8)
  BY DEF EdgeIntegers
<1>1. PICK h \in Nat, l \in Nat :
         /\ h >= 1 /\ MinInt(n) = -h /\ MaxInt(n) = h - 1
         /\ MinInt(8) = -l /\ MaxInt(8) = l - 1 /\ l >= 2 /\ h <= l /\ (n # 8 => 2 * h <= l)
  BY Widths
<1>2. v \in {-h, -1, 0, 1, h - 1} \/ (n < 8 /\ v \in {-h - 1, h})
  BY <1>1
<1>3. n < 8 => 2 * h <= l
  BY <1>1 DEF IntegerSizes
<1>4. v \in Int /\ -l <= v /\ v <= l - 1
  BY <1>1, <1>2, <1>3
<1> QED
  BY <1>1, <1>4

\* A parameter that is sent comes back where the kind loses nothing, and fills
\* its field; one that is refused does not fit.
Sound(f, v) ==
  LET encoded == EncodeValue(f, v) IN
  /\ encoded.ok /\ f.kind \notin Binary \union {"timestamp"} => Same(f, v, DecodeValue(f, encoded.bytes))
  /\ encoded.ok /\ f.kind \notin {"integer", "timestamp"} =>
        f.length = IF f.kind \in Decimals \union Fixed THEN Len(encoded.bytes)
                   ELSE PrefixSize(f.kind) + Len(encoded.bytes.data)
  /\ ~encoded.ok => ~Representable(f, v)

LEMMA SoundDecimal ==
  ASSUME NEW kind \in Decimals, NEW f \in DecimalFields(kind), NEW v, IsText(v)
  PROVE  Sound(f, v)
<1>1. f.kind = kind /\ f.kind \in Decimals
  BY DecimalFieldIs
<1>2. EncodeValue(f, v).ok => /\ Len(EncodeValue(f, v).bytes) = f.length
                              /\ Same(f, v, DecodeValue(f, EncodeValue(f, v).bytes))
  BY DecimalSent
<1>3. ~EncodeValue(f, v).ok => ~Representable(f, v)
  BY DecimalRefused
<1> QED
  BY <1>1, <1>2, <1>3 DEF Sound

LEMMA SoundInteger ==
  ASSUME NEW n \in IntegerSizes, NEW f, f = Field("integer", n, 0, 0), NEW v \in MinInt(8) .. MaxInt(8)
  PROVE  Sound(f, v)
<1> DEFINE encoded == EncodeValue(f, v)
<1>1. f.kind = "integer" /\ f.length = n
  BY DEF Field
<1>2. encoded = EncodeInteger(n, v)
  BY <1>1, ValueEncoded
<1>3. /\ IntegerFits(v, n) => encoded = [ok |-> TRUE, bytes |-> v % Power(2, n * ByteBits)]
      /\ ~IntegerFits(v, n) => encoded = [ok |-> FALSE]
  BY <1>2 DEF EncodeInteger, Reject
<1> HIDE DEF encoded
<1>4. encoded.ok <=> IntegerFits(v, n)
  BY <1>3
<1>5. /\ IntegerFits(v, n) <=> v \in MinInt(n) .. MaxInt(n)
      /\ IntegerFits(v, n) => DecodeInteger(n, v % Power(2, n * ByteBits)).int = v
  BY IntegerSent
<1>6. ASSUME encoded.ok PROVE Same(f, v, DecodeValue(f, encoded.bytes))
  <2> DEFINE back == DecodeValue(f, encoded.bytes)
  <2>1. back = DecodeInteger(n, encoded.bytes)
    BY <1>1, ValueDecoded
  <2>2. encoded.bytes = v % Power(2, n * ByteBits)
    BY <1>3, <1>4, <1>6
  <2>3. back.ok
    BY <2>1 DEF DecodeInteger
  <2>4. back.int = v
    BY <1>4, <1>5, <1>6, <2>1, <2>2
  <2> HIDE DEF back
  <2>5. Same(f, v, back)
    BY <1>1, <2>3, <2>4 DEF Same, Decimals, Fixed, Varying, Binary
  <2> QED
    BY <2>5 DEF back
<1>7. Representable(f, v) <=> v \in MinInt(n) .. MaxInt(n)
  BY <1>1 DEF Representable, Decimals, Fixed, Varying, Binary
<1> QED
  BY <1>1, <1>4, <1>5, <1>6, <1>7 DEF Sound, encoded

LEMMA DataIs ==
  ASSUME NEW n \in Nat
  PROVE  Data(n) \in Seq(Nat) /\ Len(Data(n)) = n
<1>1. Data(n) \in [1 .. n -> Nat]
  BY DEF Data
<1> QED
  BY <1>1, SequenceMade

\* Blanks and zeros are fillings of zeros.
LEMMA FillIs ==
  ASSUME NEW n \in Nat, NEW fill, fill = [i \in 1 .. n |-> 0]
  PROVE  fill \in Seq(Nat) /\ Len(fill) = n /\ AllZero(fill)
<1>1. fill \in [1 .. n -> Nat]
  OBVIOUS
<1>2. fill \in Seq(Nat) /\ Len(fill) = n
  BY <1>1, SequenceMade
<1> QED
  BY <1>2 DEF AllZero

LEMMA SizesAre ==
  ASSUME NEW kind \in Fixed \union Varying \union Binary, NEW n \in Nat
  PROVE  /\ PrefixSize(kind) \in Nat /\ (kind \in Fixed => PrefixSize(kind) = 0)
         /\ UnitSize(kind) * n \in Nat /\ DataUnit(kind) * n \in Nat
         /\ (UnitSize(kind) * n) \div UnitSize(kind) = n
         /\ kind \notin Binary => DataUnit(kind) = UnitSize(kind)
<1>1. UnitSize(kind) \in {1, 2} /\ DataUnit(kind) \in {1, 2}
  BY DEF UnitSize, DataUnit
<1>2. UnitSize(kind) * n \in Nat /\ DataUnit(kind) * n \in Nat /\ (UnitSize(kind) * n) \div UnitSize(kind) = n
  BY <1>1
<1> QED
  BY <1>2 DEF PrefixSize, DataUnit

\* The cases of Representable and Same for data.
LEMMA DataCases ==
  ASSUME NEW f, NEW v, NEW back
  PROVE  /\ f.kind \in Fixed \union Varying \union Binary =>
               (Representable(f, v) <=> PrefixSize(f.kind) + Len(v) <= f.length)
         /\ f.kind \in Fixed =>
               (Same(f, v, back) <=> back.ok /\ Take(back.data, Len(v)) = v /\ AllZero(Drop(back.data, Len(v))))
         /\ f.kind \in Varying \union Binary => (Same(f, v, back) <=> back.ok /\ back.data = v)
BY DEF Representable, Same, Decimals, Fixed, Varying, Binary

LEMMA SoundFixed ==
  ASSUME NEW kind \in Fixed, NEW f \in DataFields(kind), NEW v \in DataValues(kind)
  PROVE  Sound(f, v)
<1> DEFINE encoded == EncodeValue(f, v)
           l == f.length
           fill == [i \in 1 .. l - Len(v) |-> Blank]
<1>1. PICK n \in 0 .. MaxLength, m \in 0 .. MaxLength :
         f = Field(kind, PrefixSize(kind) + UnitSize(kind) * n, 0, 0) /\ v = Data(DataUnit(kind) * m)
  BY DEF DataFields, DataValues
<1>2. n \in Nat /\ m \in Nat /\ kind \in Fixed \union Varying \union Binary
  BY ValuesAssumption
<1>3. f.kind = kind /\ l \in Nat /\ PrefixSize(kind) = 0
  BY <1>1, <1>2, SizesAre DEF Field
<1>4. v \in Seq(Nat) /\ Len(v) \in Nat
  BY <1>1, <1>2, SizesAre, DataIs
<1>5. encoded = PadText(f, v)
  BY <1>3, ValueEncoded
<1>6. CASE Len(v) > l
  <2>1. ~encoded.ok
    BY <1>5, <1>6 DEF PadText, Reject
  <2>2. ~Representable(f, v)
    <3>1. Representable(f, v) <=> 0 + Len(v) <= l
      BY <1>3, DataCases
    <3> HIDE DEF l
    <3> QED
      BY <1>3, <1>4, <1>6, <3>1
  <2> QED
    BY <2>1, <2>2 DEF Sound
<1>7. CASE ~(Len(v) > l)
  <2> DEFINE bytes == v \o fill
  <2>1. encoded = [ok |-> TRUE, bytes |-> bytes]
    BY <1>5, <1>7 DEF PadText
  <2>2. fill \in Seq(Nat) /\ Len(fill) = l - Len(v) /\ AllZero(fill)
    <3> DEFINE k == l - Len(v)
    <3>1. k \in Nat
      BY <1>3, <1>4, <1>7
    <3>2. fill = [i \in 1 .. k |-> 0]
      BY DEF Blank
    <3> HIDE DEF fill, k
    <3> QED
      BY <3>1, <3>2, FillIs DEF k
  <2> HIDE DEF fill
  <2>3. Len(bytes) = l /\ Take(bytes, Len(v)) = v /\ AllZero(Drop(bytes, Len(v)))
    <3>1. Len(bytes) = Len(v) + Len(fill) /\ Take(bytes, Len(v)) = v /\ Drop(bytes, Len(v)) = fill
      BY <1>4, <2>2, FilledUp
    <3> HIDE DEF bytes
    <3> QED
      BY <1>3, <1>4, <2>2, <3>1
  <2> HIDE DEF bytes
  <2>4. DecodeValue(f, bytes) = [ok |-> TRUE, data |-> bytes]
    BY <1>3, ValueDecoded
  <2>5. Same(f, v, DecodeValue(f, bytes))
    BY <1>3, <2>3, <2>4, DataCases
  <2>6. encoded.ok /\ encoded.bytes = bytes
    BY <2>1
  <2> HIDE DEF encoded
  <2> QED
    BY <1>3, <2>3, <2>5, <2>6 DEF Sound, encoded
<1> QED
  BY <1>6, <1>7

LEMMA SoundVarying ==
  ASSUME NEW kind \in Varying \union Binary, NEW f \in DataFields(kind), NEW v \in DataValues(kind)
  PROVE  Sound(f, v)
<1> DEFINE encoded == EncodeValue(f, v)
           l == f.length
           x == PrefixSize(kind)
           u == UnitSize(kind)
           fill == Zeros(l - x - Len(v))
<1>1. PICK n \in 0 .. MaxLength, m \in 0 .. MaxLength :
         f = Field(kind, x + u * n, 0, 0) /\ v = Data(DataUnit(kind) * m)
  BY DEF DataFields, DataValues
<1>2. n \in Nat /\ m \in Nat /\ kind \in Fixed \union Varying \union Binary
  BY ValuesAssumption
<1>3. f.kind = kind /\ l = x + u * n
  BY <1>1 DEF Field
<1>4. x \in Nat /\ u * n \in Nat /\ l \in Nat
  <2>1. x \in Nat /\ u * n \in Nat
    BY <1>2, SizesAre
  <2> HIDE DEF l, x, u
  <2> QED
    BY <1>3, <2>1
<1>5. v \in Seq(Nat) /\ Len(v) \in Nat /\ Len(v) = DataUnit(kind) * m
  BY <1>1, <1>2, SizesAre, DataIs
<1>6. encoded = EncodeVarying(f, v)
  BY <1>3, ValueEncoded
<1>7. Representable(f, v) <=> x + Len(v) <= l
  BY <1>3, DataCases
<1>8. CASE x + Len(v) > l
  <2>1. encoded = [ok |-> FALSE]
    BY <1>3, <1>6, <1>8 DEF EncodeVarying, Reject
  <2>2. ~encoded.ok
    BY <2>1
  <2>3. ~Representable(f, v)
    <3> HIDE DEF x, l
    <3> QED
      BY <1>4, <1>5, <1>7, <1>8
  <2> QED
    BY <2>2, <2>3 DEF Sound
<1>9. CASE ~(x + Len(v) > l)
  <2> DEFINE data == v \o fill
             units == Len(v) \div u
             bytes == [units |-> units, data |-> data]
  <2>1. encoded = [ok |-> TRUE, bytes |-> bytes]
    BY <1>3, <1>6, <1>9 DEF EncodeVarying
  <2>2. fill \in Seq(Nat) /\ Len(fill) = l - x - Len(v) /\ AllZero(fill) /\ Len(fill) \in Nat
    <3> DEFINE k == l - x - Len(v)
    <3>1. k \in Nat
      <4> HIDE DEF l, x
      <4> QED
        BY <1>4, <1>5, <1>9
    <3>2. fill = [i \in 1 .. k |-> 0]
      BY DEF Zeros
    <3> HIDE DEF fill, k
    <3>3. fill \in Seq(Nat) /\ Len(fill) = k /\ AllZero(fill)
      BY <3>1, <3>2, FillIs
    <3> QED
      BY <3>1, <3>3 DEF k
  <2> HIDE DEF fill
  <2>3. Len(data) = Len(v) + Len(fill) /\ Take(data, Len(v)) = v
    BY <1>5, <2>2, FilledUp
  <2> HIDE DEF data
  <2>4. x + Len(data) = l /\ Len(data) >= Len(v) /\ Len(data) \in Nat
    <3> HIDE DEF l, x
    <3> QED
      BY <1>4, <1>5, <2>2, <2>3
  <2>5. ASSUME kind \notin Binary PROVE Same(f, v, DecodeValue(f, bytes))
    <3> DEFINE back == DecodeValue(f, bytes)
    <3>1. units * u = Len(v)
      <4>1. Len(v) = u * m /\ (u * m) \div u = m /\ u * m \in Nat
        BY <1>2, <1>5, <2>5, SizesAre
      <4>2. units = m
        BY <4>1
      <4>3. u \in {1, 2}
        BY DEF UnitSize
      <4> HIDE DEF units, u
      <4> QED
        BY <1>2, <4>1, <4>2, <4>3
    <3>2. back = DecodeVarying(f, bytes)
      BY <1>3, ValueDecoded
    <3>3. back = IF units * u > Len(data) THEN [ok |-> FALSE]
                 ELSE [ok |-> TRUE, data |-> Take(data, units * u)]
      <4>1. bytes.units = units /\ bytes.data = data
        OBVIOUS
      <4> HIDE DEF bytes, units, back
      <4> QED
        BY <1>3, <3>2, <4>1 DEF DecodeVarying, Reject
    <3>4. ~(Len(v) > Len(data))
      BY <1>5, <2>4
    <3> HIDE DEF back, units
    <3>5. back = [ok |-> TRUE, data |-> v]
      BY <2>3, <3>1, <3>3, <3>4
    <3>6. Same(f, v, back)
      BY <1>3, <3>5, DataCases
    <3> QED
      BY <3>6 DEF back
  <2>6. encoded.ok /\ encoded.bytes = bytes /\ bytes.data = data
    BY <2>1
  <2>7. kind \notin Decimals \union Fixed
    BY DEF Decimals, Fixed, Varying, Binary
  <2> HIDE DEF encoded, bytes
  <2> QED
    BY <1>3, <2>4, <2>5, <2>6, <2>7 DEF Sound, encoded
<1> QED
  BY <1>8, <1>9

LEMMA SoundTimestamp ==
  ASSUME NEW f, f.kind = "timestamp", NEW v
  PROVE  Sound(f, v)
<1>1. EncodeValue(f, v) = [ok |-> TRUE, bytes |-> Take(v, f.length)]
  BY ValueEncoded DEF FormatFraction
<1> DEFINE encoded == EncodeValue(f, v)
<1>2. encoded.ok
  BY <1>1
<1> HIDE DEF encoded
<1> QED
  BY <1>2 DEF Sound, encoded

LEMMA SoundParameter ==
  ASSUME NEW kind \in AllKinds, NEW p \in Parameters(kind)
  PROVE  Sound(p[1], p[2])
<1>1. CASE kind \in Decimals
  <2>1. p[1] \in DecimalFields(kind) /\ p[2] \in Texts
    BY <1>1, DecimalParameters
  <2> QED
    BY <1>1, <2>1, TextsAre, SoundDecimal
<1>2. CASE kind = "integer"
  <2>1. p[1] \in {Field("integer", n, 0, 0) : n \in IntegerSizes} /\ p[2] \in EdgeIntegers
    BY <1>2, IntegerParameters
  <2>2. p[2] \in MinInt(8) .. MaxInt(8)
    BY <2>1, EdgesFit
  <2> QED
    BY <2>1, <2>2, SoundInteger
<1>3. CASE kind \in Fixed \union Varying \union Binary
  <2>1. p[1] \in DataFields(kind) /\ p[2] \in DataValues(kind)
    BY <1>3, DataParameters
  <2> QED
    BY <1>3, <2>1, SoundFixed, SoundVarying
<1>4. CASE kind = "timestamp"
  <2>1. p[1] \in TimeFields
    BY <1>4, TimeParameters
  <2>2. p[1].kind = "timestamp"
    BY <2>1 DEF TimeFields, Field
  <2> QED
    BY <2>2, SoundTimestamp
<1> QED
  BY <1>1, <1>2, <1>3, <1>4 DEF AllKinds

-----------------------------------------------------------------------------
(***************************************************************************)
(* Fields that a server has filled.                                        *)
(***************************************************************************)
\* With any digits and any sign nibble.
LEMMA FillingsAre ==
  ASSUME NEW kind \in Decimals, NEW f \in DecimalFields(kind), NEW w \in Fillings(f)
  PROVE  \E d \in Seq(Digit), sign \in Nat : Len(d) = f.precision /\ w = LaidDecimal(f, d, sign)
<1>1. /\ f.kind = kind /\ f.precision \in Nat
      /\ f.length = IF kind = "packed" THEN f.precision \div 2 + 1 ELSE f.precision
  BY DecimalFieldIs
<1>2. \A d \in [1 .. f.precision -> Digits] : d \in Seq(Digit) /\ Len(d) = f.precision
  <2> SUFFICES ASSUME NEW d \in [1 .. f.precision -> Digits]
               PROVE  d \in Seq(Digit) /\ Len(d) = f.precision
    OBVIOUS
  <2>1. d \in [1 .. f.precision -> Digit]
    BY ValuesAssumption
  <2> QED
    BY <1>1, <2>1, SequenceMade
<1>3. \A sign \in 10 .. 15 : sign \in Nat
  OBVIOUS
<1>4. CASE kind = "packed"
  <2>1. PICK d \in [1 .. f.precision -> Digits], sign \in 10 .. 15 :
           w = Pair((IF f.precision % 2 = 0 THEN <<0>> ELSE << >>) \o d \o <<sign>>)
    BY <1>1, <1>4 DEF Fillings
  <2>2. d \in Seq(Digit) /\ Len(d) = f.precision
    BY <1>2
  <2>3. (IF f.precision % 2 = 0 THEN <<0>> ELSE << >>) \o d = PackedDigits(d)
    <3>1. << >> \o d = d
      BY <2>2
    <3> QED
      BY <2>2, <3>1 DEF PackedDigits
  <2>4. w = LaidDecimal(f, d, sign)
    BY <1>1, <1>4, <2>1, <2>3 DEF LaidDecimal
  <2> QED
    BY <1>3, <2>2, <2>4
<1>5. CASE kind # "packed"
  <2>1. PICK d \in [1 .. f.precision -> Digits], sign \in 10 .. 15 :
           w = [i \in 1 .. f.length |-> <<IF i < f.length THEN 15 ELSE sign, d[i]>>]
    BY <1>1, <1>5 DEF Fillings
  <2>2. d \in Seq(Digit) /\ Len(d) = f.precision
    BY <1>2
  <2>3. f.length = Len(d)
    BY <1>1, <1>5, <2>2
  <2>4. w = LaidDecimal(f, d, sign)
    <3>1. w = [i \in 1 .. Len(d) |-> <<IF i < Len(d) THEN 15 ELSE sign, d[i]>>]
      BY <2>1, <2>3
    <3> QED
      BY <1>1, <1>5, <3>1 DEF LaidDecimal, ZonedBytes
  <2> QED
    BY <1>3, <2>2, <2>4
<1> QED
  BY <1>4, <1>5

\* What such a field is read as is its number, and can be given back.
LEMMA FillingRead ==
  ASSUME NEW kind \in Decimals, NEW f \in DecimalFields(kind), NEW w \in Fillings(f),
         NEW t, t = DecodeValue(f, w)
  PROVE  /\ t.ok /\ IsText(t) /\ Units(t) = Meaning(f, w)
         /\ Len(t.frac) = f.scale /\ t.int # << >> /\ (Len(t.int) > 1 => t.int[1] # 0)
         /\ t.sign = "-" => Units(t) # 0
         /\ EncodeValue(f, t).ok
         /\ DecodeValue(f, EncodeValue(f, t).bytes) = t
         /\ Sound(f, t)
<1>1. PICK d \in Seq(Digit), sign \in Nat : Len(d) = f.precision /\ w = LaidDecimal(f, d, sign)
  BY FillingsAre
<1>2. /\ t.ok /\ IsText(t) /\ Units(t) = Meaning(f, w)
      /\ Len(t.frac) = f.scale /\ t.int # << >> /\ (Len(t.int) > 1 => t.int[1] # 0)
      /\ t.sign = "-" => Units(t) # 0
      /\ EncodeValue(f, t).ok
      /\ DecodeValue(f, EncodeValue(f, t).bytes) = t
  BY <1>1, DecimalRead
<1>3. Sound(f, t)
  BY <1>2, SoundDecimal
<1> QED
  BY <1>2, <1>3

-----------------------------------------------------------------------------
(***************************************************************************)
(* The inductive invariant: where the value and the bytes come from.       *)
(***************************************************************************)
Given(v) == \E kind \in Kinds : \E p \in Parameters(kind) : field = p[1] /\ v = p[2]
FilledWith(w) == \E kind \in Kinds \intersect Decimals : field \in DecimalFields(kind) /\ w \in Fillings(field)

\* A parameter of the program's, or what a field was read as.
Origin(v) ==
  \/ read = << >> /\ Given(v)
  \/ \E w \in Fillings(field) : FilledWith(w) /\ v = DecodeValue(field, w) /\ read = v

Sent(v) == Origin(v) /\ EncodeValue(field, v).ok /\ wire = EncodeValue(field, v).bytes

ValuesInv ==
  /\ stage \in {"given", "filled", "sent", "back", "rejected"}
  /\ stage = "filled" => read = << >> /\ FilledWith(wire)
  /\ stage = "given" => \/ read = << >> /\ Given(value)
                        \/ FilledWith(wire) /\ value = DecodeValue(field, wire) /\ read = value
  /\ stage = "sent" => Sent(value)
  /\ stage = "back" => /\ value = [given |-> value.given, back |-> DecodeValue(field, wire)]
                       /\ Sent(value.given)
  /\ stage = "rejected" => read = << >> /\ Given(value) /\ ~EncodeValue(field, value).ok

LEMMA SoundOrigin ==
  ASSUME NEW v, Origin(v)
  PROVE  Sound(field, v)
<1>1. CASE Given(v)
  <2>1. PICK kind \in Kinds : \E p \in Parameters(kind) : field = p[1] /\ v = p[2]
    BY <1>1 DEF Given
  <2>2. kind \in AllKinds
    BY ValuesAssumption
  <2> QED
    BY <2>1, <2>2, SoundParameter
<1>2. CASE \E w \in Fillings(field) : FilledWith(w) /\ v = DecodeValue(field, w)
  BY <1>2, FillingRead DEF FilledWith
<1> QED
  BY <1>1, <1>2 DEF Origin

\* The invariant holds of the first states.
LEMMA ValuesInit == Init => ValuesInv
<1> SUFFICES ASSUME Init PROVE ValuesInv
  OBVIOUS
<1>1. CASE stage = "given"
  <2>1. read = << >> /\ Given(value)
    BY <1>1 DEF Init, Given
  <2> QED
    BY <1>1, <2>1 DEF ValuesInv
<1>2. CASE stage = "filled"
  <2>1. read = << >> /\ FilledWith(wire)
    BY <1>2 DEF Init, FilledWith
  <2> QED
    BY <1>2, <2>1 DEF ValuesInv
<1>3. stage = "given" \/ stage = "filled"
  BY DEF Init
<1> QED
  BY <1>1, <1>2, <1>3

\* Each step preserves it.
LEMMA ValuesStep == ValuesInv /\ [Next]_vars => ValuesInv'
<1> SUFFICES ASSUME ValuesInv, [Next]_vars PROVE ValuesInv'
  OBVIOUS
<1>1. CASE Read
  <2>1. /\ stage = "filled" /\ read' = DecodeValue(field, wire) /\ value' = read'
        /\ stage' = IF read'.ok THEN "given" ELSE "rejected"
        /\ field' = field /\ wire' = wire
    BY <1>1 DEF Read
  <2>2. read = << >> /\ FilledWith(wire)
    BY <2>1 DEF ValuesInv
  <2>3. read'.ok
    BY <2>1, <2>2, FillingRead DEF FilledWith
  <2>4. stage' = "given"
    BY <2>1, <2>3
  <2>5. FilledWith(wire)'
    BY <2>1, <2>2 DEF FilledWith
  <2>6. (value = DecodeValue(field, wire) /\ read = value)'
    BY <2>1
  <2> QED
    BY <2>4, <2>5, <2>6 DEF ValuesInv
<1>2. CASE Encode
  <2> DEFINE encoded == EncodeValue(field, value)
  <2>1. /\ stage = "given" /\ field' = field /\ value' = value /\ read' = read
        /\ \/ encoded.ok /\ wire' = encoded.bytes /\ stage' = "sent"
           \/ ~encoded.ok /\ stage' = "rejected" /\ wire' = wire
    BY <1>2 DEF Encode
  <2> HIDE DEF encoded
  <2>2. \/ read = << >> /\ Given(value)
        \/ FilledWith(wire) /\ value = DecodeValue(field, wire) /\ read = value
    BY <2>1 DEF ValuesInv
  <2>3. encoded' = encoded
    BY <2>1 DEF encoded
  <2>4. CASE encoded.ok
    <3>1. stage' = "sent" /\ wire' = encoded.bytes
      BY <2>1, <2>4
    <3>2. Origin(value)
      BY <2>2 DEF Origin, FilledWith
    <3>3. Origin(value)'
      BY <2>1, <3>2 DEF Origin, Given, FilledWith
    <3>4. (EncodeValue(field, value).ok /\ wire = EncodeValue(field, value).bytes)'
      BY <2>3, <2>4, <3>1 DEF encoded
    <3> QED
      BY <3>1, <3>3, <3>4 DEF ValuesInv, Sent
  <2>5. CASE ~encoded.ok
    <3>1. stage' = "rejected" /\ wire' = wire
      BY <2>1, <2>5
    <3>2. read = << >> /\ Given(value)
      <4>1. ~(FilledWith(wire) /\ value = DecodeValue(field, wire))
        BY <2>5, FillingRead DEF FilledWith, encoded
      <4> QED
        BY <2>2, <4>1
    <3>3. (read = << >> /\ Given(value))'
      BY <2>1, <3>2 DEF Given
    <3>4. ~EncodeValue(field, value).ok'
      BY <2>3, <2>5 DEF encoded
    <3> QED
      BY <3>1, <3>3, <3>4 DEF ValuesInv
  <2> QED
    BY <2>4, <2>5
<1>3. CASE Decode
  <2>1. /\ stage = "sent" /\ stage' = "back"
        /\ value' = [given |-> value, back |-> DecodeValue(field, wire)]
        /\ field' = field /\ wire' = wire /\ read' = read
    BY <1>3 DEF Decode
  <2>2. Sent(value)
    BY <2>1 DEF ValuesInv
  <2>3. value'.given = value /\ value'.back = DecodeValue(field', wire')
    BY <2>1
  <2>4. value' = [given |-> value'.given, back |-> DecodeValue(field', wire')]
    BY <2>1, <2>3
  <2>5. Sent(value.given)'
    BY <2>1, <2>2, <2>3 DEF Sent, Origin, Given, FilledWith
  <2> QED
    BY <2>1, <2>4, <2>5 DEF ValuesInv
<1>4. CASE UNCHANGED vars
  BY <1>4 DEF vars, ValuesInv, Sent, Origin, Given, FilledWith
<1> QED
  BY <1>1, <1>2, <1>3, <1>4 DEF Next

\* A value is a parameter of the program's, or what the field it is given to was
\* read as; what is sent is its encoding (Read, Encode and Decode).
THEOREM ValuesInvCorrect == Spec => []ValuesInv
<1>1. Init => ValuesInv
  BY ValuesInit
<1>2. ValuesInv /\ [Next]_vars => ValuesInv'
  BY ValuesStep
<1> QED
  BY <1>1, <1>2, PTL DEF Spec

\* A parameter that encodeValue accepts is stored unchanged and read unchanged,
\* in a field of any kind but a timestamp and the character data of CCSID 65535
\* whose prefix counts two-byte units.
THEOREM LosslessCorrect == Spec => [](field.kind \notin Binary \union {"timestamp"} => Lossless)
<1>1. ASSUME ValuesInv, field.kind \notin Binary \union {"timestamp"}, stage = "back"
      PROVE  Same(field, value.given, value.back)
  <2> DEFINE v == value.given
  <2>1. value = [given |-> v, back |-> DecodeValue(field, wire)] /\ Sent(v)
    BY <1>1 DEF ValuesInv
  <2>2. value.back = DecodeValue(field, wire)
    BY <2>1
  <2> HIDE DEF v
  <2>3. Origin(v) /\ EncodeValue(field, v).ok /\ wire = EncodeValue(field, v).bytes
    BY <2>1 DEF Sent
  <2>4. Sound(field, v)
    BY <2>3, SoundOrigin
  <2>5. Same(field, v, DecodeValue(field, wire))
    BY <1>1, <2>3, <2>4 DEF Sound
  <2> QED
    BY <2>2, <2>5 DEF v
<1>2. ValuesInv => (field.kind \notin Binary \union {"timestamp"} => Lossless)
  BY <1>1 DEF Lossless
<1> QED
  BY <1>2, ValuesInvCorrect, PTL

\* What encodeValue refuses, the field cannot hold.
THEOREM RejectsOnlyLossCorrect == Spec => []RejectsOnlyLoss
<1>1. ASSUME ValuesInv, stage = "rejected"
      PROVE  ~Representable(field, value)
  <2>1. Origin(value) /\ ~EncodeValue(field, value).ok
    BY <1>1 DEF ValuesInv, Origin
  <2>2. Sound(field, value)
    BY <2>1, SoundOrigin
  <2> QED
    BY <2>1, <2>2 DEF Sound
<1>2. ValuesInv => RejectsOnlyLoss
  BY <1>1 DEF RejectsOnlyLoss
<1> QED
  BY <1>2, ValuesInvCorrect, PTL

\* decodeValue reads a decimal field, whatever the server filled it with, as its
\* number in its one text, which encodeValue accepts and which comes back as it is.
THEOREM ReadsExactCorrect == Spec => []ReadsExact
<1>1. ASSUME ValuesInv, stage = "given", read # << >>
      PROVE  /\ Units(read) = Meaning(field, wire)
             /\ Len(read.frac) = field.scale
             /\ Len(read.int) > 1 => read.int[1] # 0
             /\ read.int # << >>
             /\ read.sign = "-" => Units(read) # 0
  <2>1. FilledWith(wire) /\ read = DecodeValue(field, wire)
    BY <1>1 DEF ValuesInv
  <2> QED
    BY <2>1, FillingRead DEF FilledWith
<1>2. ASSUME ValuesInv, read # << >>, stage = "back"
      PROVE  value.back = read
  <2> DEFINE v == value.given
  <2>1. value = [given |-> v, back |-> DecodeValue(field, wire)] /\ Sent(v)
    BY <1>2 DEF ValuesInv
  <2>2. value.back = DecodeValue(field, wire)
    BY <2>1
  <2> HIDE DEF v
  <2>3. Origin(v) /\ wire = EncodeValue(field, v).bytes
    BY <2>1 DEF Sent
  <2>4. PICK w \in Fillings(field) : FilledWith(w) /\ v = DecodeValue(field, w) /\ read = v
    BY <1>2, <2>3 DEF Origin
  <2>5. DecodeValue(field, EncodeValue(field, v).bytes) = v
    BY <2>4, FillingRead DEF FilledWith
  <2> QED
    BY <2>2, <2>3, <2>4, <2>5
<1>3. ValuesInv /\ read # << >> => stage # "rejected"
  BY DEF ValuesInv
<1>4. ValuesInv => ReadsExact
  BY <1>1, <1>2, <1>3 DEF ReadsExact
<1> QED
  BY <1>4, ValuesInvCorrect, PTL

\* What encodeValue sends fills the field, so that the fields after it are where
\* the server looks for them.
THEOREM FillsFieldCorrect == Spec => []FillsField
<1>1. ASSUME ValuesInv, stage = "sent", field.kind # "timestamp", field.kind # "integer"
      PROVE  field.length = IF field.kind \in Decimals \union Fixed THEN Len(wire)
                            ELSE PrefixSize(field.kind) + Len(wire.data)
  <2>1. Origin(value) /\ EncodeValue(field, value).ok /\ wire = EncodeValue(field, value).bytes
    BY <1>1 DEF ValuesInv, Sent
  <2>2. Sound(field, value)
    BY <2>1, SoundOrigin
  <2> QED
    BY <1>1, <2>1, <2>2 DEF Sound
<1>2. ValuesInv => FillsField
  BY <1>1 DEF FillsField
<1> QED
  BY <1>2, ValuesInvCorrect, PTL
=============================================================================
