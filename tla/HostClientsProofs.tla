-------------------------- MODULE HostClientsProofs --------------------------
(***************************************************************************)
(* Theorems about HostClients, for any levels of servers, parameters,      *)
(* contents, messages and calls.                                           *)
(***************************************************************************)
EXTENDS HostClients, SequenceFacts, SequenceTheorems, TLAPS

Byte == 0 .. ByteSize - 1

-----------------------------------------------------------------------------
(***************************************************************************)
(* A program call's request: what the server reads from it.                *)
(***************************************************************************)
\* A caller's Parameter.
Fits(p) ==
  /\ p \in [usage : Usages, max : Nat, input : Seq(Byte), output : Contents \union {<< >>}]
  /\ Len(p.input) <= p.max
  /\ p.usage \notin {"input", "inout"} => p.input = << >>

Parameter == [usage : Usages, max : Nat, input : Seq(Byte), output : Seq(Nat)]
FitAll(ps) == ps \in Seq(Parameter) /\ \A i \in 1 .. Len(ps) : Fits(ps[i])

\* What a program sees of it.
View(p) == [usage |-> p.usage, max |-> p.max, data |-> Padded(p.input, p.max)]
Views(ps) == [i \in 1 .. Len(ps) |-> View(ps[i])]

\* Only zeros are trimmed.
LEMMA Trimmed ==
  ASSUME NEW d \in Seq(Nat)
  PROVE  \E k \in 0 .. Len(d) : Trim(d) = SubSeq(d, 1, k) /\ \A i \in k + 1 .. Len(d) : d[i] = 0
<1> DEFINE kept == {0} \union {i \in DOMAIN d : d[i] # 0}
           Top(n, m) == m \in kept /\ m <= n /\ \A j \in kept : j <= n => j <= m
           S == {n \in Nat : \E m \in Nat : Top(n, m)}
<1>1. Len(d) \in Nat /\ DOMAIN d = 1 .. Len(d)
  OBVIOUS
<1>2. kept \subseteq 0 .. Len(d)
  BY <1>1
<1>3. 0 \in kept
  OBVIOUS
<1>4. \A i \in 1 .. Len(d) : i \notin kept => d[i] = 0
  BY <1>1
<1> HIDE DEF kept
<1>5. 0 \in S
  BY <1>2, <1>3
<1>6. ASSUME NEW n \in Nat, n \in S PROVE n + 1 \in S
  <2>1. PICK m \in Nat : Top(n, m)
    BY <1>6
  <2>2. CASE n + 1 \in kept
    BY <1>2, <2>2
  <2>3. CASE n + 1 \notin kept
    <3>1. \A j \in kept : j <= n + 1 => j <= n
      BY <1>2, <2>3
    <3>2. Top(n + 1, m)
      BY <2>1, <3>1
    <3> QED
      BY <3>2
  <2> QED
    BY <2>2, <2>3
<1> HIDE DEF S
<1>7. Len(d) \in S
  BY <1>1, <1>5, <1>6, SetInduction
<1>8. PICK m \in Nat : Top(Len(d), m)
  BY <1>7 DEF S
<1>9. \A j \in kept : j <= m
  BY <1>2, <1>8
<1> DEFINE k == CHOOSE i \in kept : \A j \in kept : j <= i
<1>10. k \in kept /\ \A j \in kept : j <= k
  BY <1>8, <1>9
<1>11. Trim(d) = SubSeq(d, 1, k)
  BY DEF Trim, kept
<1> HIDE DEF k
<1>12. \A i \in k + 1 .. Len(d) : d[i] = 0
  BY <1>1, <1>2, <1>4, <1>10
<1> QED
  BY <1>2, <1>10, <1>11, <1>12

\* The program gets what was trimmed.
LEMMA Restored ==
  ASSUME NEW d \in Seq(Nat), NEW max \in Nat, Len(d) <= max
  PROVE  Trim(d) \in Seq(Nat) /\ Len(Trim(d)) <= Len(d) /\ Padded(Trim(d), max) = Padded(d, max)
<1>1. PICK k \in 0 .. Len(d) : Trim(d) = SubSeq(d, 1, k) /\ \A i \in k + 1 .. Len(d) : d[i] = 0
  BY Trimmed
<1> DEFINE t == Trim(d)
<1>2. t \in Seq(Nat) /\ Len(t) = k /\ Len(t) <= Len(d) /\ \A i \in 1 .. k : t[i] = d[i]
  BY <1>1
<1> HIDE DEF t
<1> DEFINE zt == [i \in 1 .. max - Len(t) |-> 0]
           zd == [i \in 1 .. max - Len(d) |-> 0]
<1>3. zt \in Seq(Nat) /\ Len(zt) = max - k /\ \A i \in 1 .. max - k : zt[i] = 0
  BY <1>2
<1>4. zd \in Seq(Nat) /\ Len(zd) = max - Len(d) /\ \A i \in 1 .. max - Len(d) : zd[i] = 0
  OBVIOUS
<1> HIDE DEF zt, zd
<1>5. /\ t \o zt \in Seq(Nat) /\ Len(t \o zt) = max
      /\ \A i \in 1 .. k : (t \o zt)[i] = d[i]
      /\ \A i \in 1 .. max - k : (t \o zt)[k + i] = 0
  <2>1. /\ t \o zt \in Seq(Nat) /\ Len(t \o zt) = Len(t) + Len(zt)
        /\ \A i \in 1 .. Len(t) : (t \o zt)[i] = t[i]
        /\ \A i \in 1 .. Len(zt) : (t \o zt)[Len(t) + i] = zt[i]
    <3>1. t \in Seq(Nat) /\ zt \in Seq(Nat)
      BY <1>2, <1>3
    <3> QED
      BY <3>1, Joined
  <2> QED
    BY <1>1, <1>2, <1>3, <2>1
<1>6. /\ d \o zd \in Seq(Nat) /\ Len(d \o zd) = max
      /\ \A i \in 1 .. Len(d) : (d \o zd)[i] = d[i]
      /\ \A i \in 1 .. max - Len(d) : (d \o zd)[Len(d) + i] = 0
  <2>1. /\ d \o zd \in Seq(Nat) /\ Len(d \o zd) = Len(d) + Len(zd)
        /\ \A i \in 1 .. Len(d) : (d \o zd)[i] = d[i]
        /\ \A i \in 1 .. Len(zd) : (d \o zd)[Len(d) + i] = zd[i]
    <3>1. d \in Seq(Nat) /\ zd \in Seq(Nat)
      BY <1>4
    <3> QED
      BY <3>1, Joined
  <2> QED
    BY <1>4, <2>1
<1>7. ASSUME NEW i \in 1 .. max PROVE (t \o zt)[i] = (d \o zd)[i]
  <2>0. Len(d) \in Nat /\ k \in Nat /\ k <= Len(d) /\ i \in Nat
    BY <1>1
  <2>1. CASE i \in 1 .. k
    <3>1. i \in 1 .. Len(d)
      BY <2>0, <2>1
    <3> QED
      BY <1>5, <1>6, <2>1, <3>1
  <2>2. CASE i \in k + 1 .. Len(d)
    <3>1. i - k \in 1 .. max - k /\ k + (i - k) = i /\ i \in 1 .. Len(d)
      BY <2>0, <2>2
    <3>2. (t \o zt)[i] = 0
      BY <1>5, <3>1
    <3> QED
      BY <1>1, <1>6, <2>2, <3>1, <3>2
  <2>3. CASE Len(d) < i
    <3>1. i - Len(d) \in 1 .. max - Len(d) /\ Len(d) + (i - Len(d)) = i
      BY <2>0, <2>3
    <3>2. i - k \in 1 .. max - k /\ k + (i - k) = i
      BY <2>0, <2>3
    <3>3. (t \o zt)[i] = 0
      BY <1>5, <3>2
    <3>4. (d \o zd)[i] = 0
      BY <1>6, <3>1
    <3> QED
      BY <3>3, <3>4
  <2>4. i \in 1 .. k \/ i \in k + 1 .. Len(d) \/ Len(d) < i
    BY <2>0
  <2> QED
    BY <2>1, <2>2, <2>3, <2>4
<1>8. t \o zt = d \o zd
  <2> DEFINE u == t \o zt
             v == d \o zd
  <2>1. u \in Seq(Nat) /\ v \in Seq(Nat) /\ Len(u) = max /\ Len(v) = max /\ \A i \in 1 .. max : u[i] = v[i]
    BY <1>5, <1>6, <1>7
  <2> HIDE DEF u, v
  <2>2. u = v
    BY <2>1
  <2> QED
    BY <2>2 DEF u, v
<1> QED
  BY <1>2, <1>8 DEF Padded, t, zt, zd

\* A body whose first cells are c and d, and then the entries, each at its place.
Holds(body, c, d, es, at) ==
  /\ body \in Seq(Nat) /\ Len(body) = 2 + at[Len(es)] /\ body[1] = c /\ body[2] = d
  /\ at[0] = 0 /\ \A n \in 0 .. Len(es) : at[n] \in 0 .. at[Len(es)]
  /\ \A n \in 1 .. Len(es) :
        /\ at[n] = at[n - 1] + Len(es[n])
        /\ \A k \in 1 .. Len(es[n]) : body[2 + at[n - 1] + k] = es[n][k]

LEMMA BodyHolds ==
  ASSUME NEW c \in Nat, NEW d \in Nat, NEW es \in Seq(Seq(Nat))
  PROVE  \E at : Holds(<<c, d>> \o FlattenSeq(es), c, d, es, at)
<1> DEFINE whole == FlattenSeq(es)
           head == <<c, d>>
           body == head \o whole
<1>1. PICK at : whole \in Seq(Nat) /\ Lie(whole, es, at)
  BY Flattened
<1>2. head \in Seq(Nat) /\ Len(head) = 2 /\ head[1] = c /\ head[2] = d
  OBVIOUS
<1> HIDE DEF whole, head
<1>3. /\ body \in Seq(Nat) /\ Len(body) = 2 + Len(whole)
      /\ body[1] = c /\ body[2] = d
      /\ \A k \in 1 .. Len(whole) : body[2 + k] = whole[k]
  <2>1. /\ body \in Seq(Nat) /\ Len(body) = Len(head) + Len(whole)
        /\ \A i \in 1 .. Len(head) : body[i] = head[i]
        /\ \A i \in 1 .. Len(whole) : body[Len(head) + i] = whole[i]
    <3>1. head \in Seq(Nat) /\ whole \in Seq(Nat)
      BY <1>1, <1>2
    <3> QED
      BY <3>1, Joined
  <2> QED
    BY <1>2, <2>1
<1> HIDE DEF body
<1>4. Len(es) \in Nat /\ Len(whole) \in Nat
  BY <1>1
<1>5. /\ at[0] = 0 /\ at[Len(es)] = Len(whole) /\ \A m \in 0 .. Len(es) : at[m] \in 0 .. Len(whole)
      /\ \A m \in 1 .. Len(es) : /\ at[m] = at[m - 1] + Len(es[m])
                                 /\ \A k \in 1 .. Len(es[m]) : whole[at[m - 1] + k] = es[m][k]
  BY <1>1 DEF Lie, LieUpTo
<1>6. ASSUME NEW n \in 1 .. Len(es), NEW k \in 1 .. Len(es[n]) PROVE body[2 + at[n - 1] + k] = es[n][k]
  <2>1. n - 1 \in 0 .. Len(es) /\ n \in 0 .. Len(es) /\ Len(es[n]) \in Nat
    BY <1>4
  <2>2. at[n - 1] \in 0 .. Len(whole) /\ at[n] \in 0 .. Len(whole) /\ at[n] = at[n - 1] + Len(es[n])
    BY <1>5, <2>1
  <2>3. at[n - 1] + k \in 1 .. Len(whole) /\ 2 + (at[n - 1] + k) = 2 + at[n - 1] + k
    <3> DEFINE a == at[n - 1]
               b == at[n]
               l == Len(es[n])
    <3>1. a \in 0 .. Len(whole) /\ b \in 0 .. Len(whole) /\ b = a + l /\ l \in Nat /\ k \in 1 .. l
      BY <2>1, <2>2
    <3> HIDE DEF a, b, l
    <3>2. a + k \in 1 .. Len(whole) /\ 2 + (a + k) = 2 + a + k
      BY <1>4, <3>1
    <3> QED
      BY <3>2 DEF a
  <2>4. whole[at[n - 1] + k] = es[n][k]
    BY <1>5
  <2>5. body[2 + (at[n - 1] + k)] = whole[at[n - 1] + k]
    BY <1>3, <2>3
  <2> QED
    BY <2>3, <2>4, <2>5
<1>7. Holds(body, c, d, es, at)
  BY <1>3, <1>5, <1>6 DEF Holds
<1> QED
  BY <1>7 DEF body, head, whole

\* Each entry starts with its length.
LengthFirst(es) == \A n \in 1 .. Len(es) : Len(es[n]) > 0 /\ es[n][1] = Len(es[n])
Found(body, es, at) == \A n \in 1 .. Len(es) + 1 : EntriesIn(body)[n] = 2 + at[n - 1]

\* The server finds the entries by their lengths.
LEMMA EntriesFound ==
  ASSUME NEW body, NEW c, NEW es \in Seq(Seq(Nat)), NEW at, Holds(body, c, Len(es), es, at),
         LengthFirst(es)
  PROVE  Found(body, es, at)
<1> DEFINE N == Len(es)
           Body(f) == [n \in 1 .. N + 1 |-> IF n = 1 THEN 2 ELSE f[n - 1] + body[f[n - 1] + 1]]
           g == CHOOSE f : f = Body(f)
           h == [n \in 1 .. N + 1 |-> 2 + at[n - 1]]
<1>1. N \in Nat /\ body[2] = N
  BY DEF Holds
<1>2. EntriesIn(body) = g
  BY <1>1 DEF EntriesIn
<1> HIDE DEF N
<1>3. at[0] = 0 /\ \A n \in 1 .. N : body[2 + at[n - 1] + 1] = Len(es[n]) /\ at[n] = at[n - 1] + Len(es[n])
  <2>1. ASSUME NEW n \in 1 .. N PROVE body[2 + at[n - 1] + 1] = Len(es[n]) /\ at[n] = at[n - 1] + Len(es[n])
    <3>1. Len(es[n]) > 0 /\ es[n][1] = Len(es[n]) /\ Len(es[n]) \in Nat
      BY DEF LengthFirst, N
    <3>2. 1 \in 1 .. Len(es[n])
      BY <3>1
    <3> QED
      BY <3>1, <3>2 DEF Holds, N
  <2> QED
    BY <2>1 DEF Holds
<1>4. \A n \in 0 .. N : at[n] \in Nat
  BY DEF Holds, N
<1>5. ASSUME NEW n \in 2 .. N + 1
      PROVE  2 + at[n - 1] = (2 + at[n - 1 - 1]) + body[(2 + at[n - 1 - 1]) + 1]
  <2> DEFINE m == n - 1
  <2>1. m \in 1 .. N /\ m - 1 \in 0 .. N /\ m \in 0 .. N
    BY <1>1
  <2> HIDE DEF m
  <2>2. body[2 + at[m - 1] + 1] = Len(es[m]) /\ at[m] = at[m - 1] + Len(es[m])
    BY <1>3, <2>1
  <2>3. at[m] \in Nat /\ at[m - 1] \in Nat /\ Len(es[m]) \in Nat
    BY <1>4, <2>1 DEF N
  <2>4. 2 + at[m] = (2 + at[m - 1]) + body[(2 + at[m - 1]) + 1]
    BY <2>2, <2>3
  <2> QED
    BY <2>4 DEF m
<1>6. \A n \in 1 .. N + 1 : h[n] = IF n = 1 THEN 2 ELSE h[n - 1] + body[h[n - 1] + 1]
  <2> SUFFICES ASSUME NEW n \in 1 .. N + 1 PROVE h[n] = IF n = 1 THEN 2 ELSE h[n - 1] + body[h[n - 1] + 1]
    OBVIOUS
  <2>1. CASE n = 1
    <3>1. h[n] = 2 + at[0]
      BY <2>1
    <3> QED
      BY <1>3, <2>1, <3>1
  <2>2. CASE n # 1
    <3>1. n \in 2 .. N + 1 /\ n - 1 \in 1 .. N + 1
      BY <1>1, <2>2
    <3>2. h[n] = 2 + at[n - 1] /\ h[n - 1] = 2 + at[n - 1 - 1]
      BY <3>1
    <3> QED
      BY <1>5, <2>2, <3>1, <3>2
  <2> QED
    BY <2>1, <2>2
<1>7. h = [n \in 1 .. N + 1 |-> h[n]]
  OBVIOUS
<1> HIDE DEF h
<1>8. h = Body(h)
  BY <1>6, <1>7
<1> HIDE DEF Body
<1>9. g = Body(g)
  BY <1>8
<1> HIDE DEF g
<1>10. \A n \in 1 .. N + 1 : g[n] = IF n = 1 THEN 2 ELSE g[n - 1] + body[g[n - 1] + 1]
  <2>1. PICK f : f = g /\ g = Body(f)
    BY <1>9
  <2> QED
    BY <2>1 DEF Body
<1> DEFINE T == {n \in Nat : n + 1 <= N + 1 => g[n + 1] = h[n + 1]}
<1>11. 0 \in T
  <2>1. 1 \in 1 .. N + 1
    BY <1>1
  <2>2. g[1] = 2 /\ h[1] = 2
    BY <1>6, <1>10, <2>1
  <2> QED
    BY <2>2
<1>12. ASSUME NEW n \in Nat, n \in T PROVE n + 1 \in T
  <2> DEFINE p == n + 1
  <2>1. p \in Nat /\ p >= 1 /\ (p <= N + 1 => g[p] = h[p])
    BY <1>12
  <2> HIDE DEF p
  <2>2. ASSUME p + 1 <= N + 1 PROVE g[p + 1] = h[p + 1]
    <3> DEFINE q == p + 1
    <3>1. q \in 1 .. N + 1 /\ q # 1 /\ q - 1 = p /\ p <= N + 1
      BY <1>1, <2>1, <2>2
    <3> HIDE DEF q
    <3>2. g[q] = g[q - 1] + body[g[q - 1] + 1] /\ h[q] = h[q - 1] + body[h[q - 1] + 1]
      BY <1>6, <1>10, <3>1
    <3>3. g[p] = h[p]
      BY <2>1, <3>1
    <3>4. g[q] = h[q]
      BY <3>1, <3>2, <3>3
    <3> QED
      BY <3>4 DEF q
  <2> QED
    BY <2>1, <2>2 DEF p
<1> HIDE DEF T
<1>13. \A n \in Nat : n \in T
  BY <1>11, <1>12, SetInduction
<1>14. \A n \in 1 .. N + 1 : g[n] = h[n]
  <2> SUFFICES ASSUME NEW n \in 1 .. N + 1 PROVE g[n] = h[n]
    OBVIOUS
  <2>1. n - 1 \in Nat /\ n - 1 + 1 = n /\ n <= N + 1
    BY <1>1
  <2>2. n - 1 \in T
    BY <1>13, <2>1
  <2> QED
    BY <2>1, <2>2 DEF T
<1>15. \A n \in 1 .. N + 1 : h[n] = 2 + at[n - 1]
  BY DEF h
<1> QED
  BY <1>2, <1>14, <1>15 DEF Found, N

LEMMA BytesAreNumbers ==
  ASSUME NEW d \in Seq(Byte)
  PROVE  d \in Seq(Nat)
<1>1. Byte \subseteq Nat
  BY ByteAssumption DEF Byte
<1>2. Len(d) \in Nat /\ d = [i \in 1 .. Len(d) |-> d[i]] /\ \A i \in 1 .. Len(d) : d[i] \in Byte
  OBVIOUS
<1>3. \A i \in 1 .. Len(d) : d[i] \in Nat
  BY <1>1, <1>2
<1> QED
  BY <1>2, <1>3

\* An entry of a request.
Entry(p) == <<EntryHead + Len(Sent(p)), ParameterCodePoint, p.max, UsageCode(p)>> \o Sent(p)

LEMMA EntryCells ==
  ASSUME level \in Nat, NEW p, Fits(p)
  PROVE  /\ Sent(p) \in Seq(Nat) /\ Len(Sent(p)) \in Nat /\ Padded(Sent(p), p.max) = Padded(p.input, p.max)
         /\ Entry(p) \in Seq(Nat) /\ Len(Entry(p)) = 4 + Len(Sent(p))
         /\ Entry(p)[1] = Len(Entry(p)) /\ Entry(p)[3] = p.max /\ Entry(p)[4] = UsageCode(p)
         /\ \A k \in 1 .. Len(Sent(p)) : Entry(p)[4 + k] = Sent(p)[k]
         /\ UsageCode(p) \in KnownUsages /\ Direction(UsageCode(p)) = p.usage
<1>1. /\ p.usage \in Usages /\ p.max \in Nat /\ p.input \in Seq(Nat) /\ Len(p.input) <= p.max
      /\ p.usage \notin {"input", "inout"} => p.input = << >>
  <2>1. p.usage \in Usages /\ p.max \in Nat /\ p.input \in Seq(Byte)
    BY DEF Fits
  <2> QED
    BY <2>1, BytesAreNumbers DEF Fits
<1>2. UsageCode(p) \in Nat /\ UsageCode(p) \in KnownUsages /\ Direction(UsageCode(p)) = p.usage
  <2>1. CASE p.usage = "input"
    <3>1. UsageCode(p) = 11
      BY <2>1 DEF UsageCode
    <3> QED
      BY <2>1, <3>1 DEF KnownUsages, Direction
  <2>2. CASE p.usage = "output"
    <3>1. UsageCode(p) = 22
      BY <2>2 DEF UsageCode
    <3> QED
      BY <2>2, <3>1 DEF KnownUsages, Direction
  <2>3. CASE p.usage = "null"
    <3>1. UsageCode(p) = IF level < 6 THEN 1 ELSE 255
      BY <2>3 DEF UsageCode
    <3>2. CASE level < 6
      BY <2>3, <3>1, <3>2 DEF KnownUsages, Direction
    <3>3. CASE level >= 6
      BY <2>3, <3>1, <3>3 DEF KnownUsages, Direction
    <3> QED
      BY <3>2, <3>3
  <2>4. CASE p.usage = "inout"
    <3>1. UsageCode(p) = IF level >= 5 THEN 33 ELSE 13
      BY <2>4 DEF UsageCode
    <3>2. CASE level >= 5
      BY <2>4, <3>1, <3>2 DEF KnownUsages, Direction
    <3>3. CASE level < 5
      BY <2>4, <3>1, <3>3 DEF KnownUsages, Direction
    <3> QED
      BY <3>2, <3>3
  <2> QED
    BY <1>1, <2>1, <2>2, <2>3, <2>4 DEF Usages
<1>3. Sent(p) \in Seq(Nat) /\ Padded(Sent(p), p.max) = Padded(p.input, p.max)
  <2>1. CASE p.usage \in {"input", "inout"}
    <3>1. Sent(p) = Trim(p.input)
      BY <2>1 DEF Sent
    <3> QED
      BY <1>1, <3>1, Restored
  <2>2. CASE p.usage \notin {"input", "inout"}
    <3>1. Sent(p) = << >> /\ p.input = << >>
      BY <1>1, <2>2 DEF Sent
    <3> QED
      BY <3>1
  <2> QED
    BY <2>1, <2>2
<1> DEFINE d == Sent(p)
           head == <<EntryHead + Len(d), ParameterCodePoint, p.max, UsageCode(p)>>
<1>4. Entry(p) = head \o d /\ d \in Seq(Nat)
  BY <1>3 DEF Entry
<1>5. /\ head \in Seq(Nat) /\ Len(head) = 4 /\ head[1] = 4 + Len(d) /\ head[3] = p.max /\ head[4] = UsageCode(p)
  <2> HIDE DEF d
  <2>1. Len(d) \in Nat
    BY <1>4
  <2> QED
    BY <1>1, <1>2, <2>1 DEF EntryHead, ParameterCodePoint
<1> HIDE DEF d, head
<1>6. /\ head \o d \in Seq(Nat) /\ Len(d) \in Nat /\ Len(head \o d) = Len(head) + Len(d)
      /\ \A i \in 1 .. Len(head) : (head \o d)[i] = head[i]
      /\ \A i \in 1 .. Len(d) : (head \o d)[Len(head) + i] = d[i]
  <2>1. head \in Seq(Nat) /\ d \in Seq(Nat)
    BY <1>4, <1>5
  <2> QED
    BY <2>1, Joined
<1>7. /\ Entry(p) \in Seq(Nat) /\ Len(d) \in Nat /\ Len(Entry(p)) = 4 + Len(d)
      /\ \A i \in 1 .. 4 : Entry(p)[i] = head[i]
      /\ \A i \in 1 .. Len(d) : Entry(p)[4 + i] = d[i]
  BY <1>4, <1>5, <1>6
<1>8. Entry(p)[1] = Len(Entry(p)) /\ Entry(p)[3] = p.max /\ Entry(p)[4] = UsageCode(p)
  BY <1>5, <1>7
<1> QED
  BY <1>2, <1>3, <1>7, <1>8 DEF d

\* An option the server's level knows.
LEMMA OptionKnown ==
  ASSUME level \in Nat, NEW opt \in Options
  PROVE  OptionCode(opt) \in Nat /\ OptionCode(opt) \in KnownOptions
<1> DEFINE c == OptionCode(opt)
<1>1. c \in {0, 1} \/ (c = 2 /\ level >= 7) \/ (c \in {3, 4} /\ level >= 10) \/ (c \in {5, 6} /\ level >= 11)
  BY DEF OptionCode, Options
<1> HIDE DEF c
<1>2. c \in Nat /\ c \in KnownOptions
  BY <1>1 DEF KnownOptions
<1> QED
  BY <1>2 DEF c

\* The server reads each parameter where it is, and knows its usage.
LEMMA RequestRead ==
  ASSUME level \in Nat, NEW ps, FitAll(ps), NEW opt \in Options
  PROVE  LET body == ProgramRequest(ps, opt) IN
         /\ Len(body) > 1 /\ body[1] = OptionCode(opt) /\ OptionCode(opt) \in KnownOptions
         /\ KnownEntries(body)
         /\ SeenIn(body) = Views(ps)
<1> DEFINE N == Len(ps)
           es == [i \in DOMAIN ps |-> Entry(ps[i])]
           c == OptionCode(opt)
           body == <<c, Len(es)>> \o FlattenSeq(es)
<1>1. N \in Nat /\ DOMAIN ps = 1 .. N /\ \A i \in 1 .. N : Fits(ps[i])
  BY DEF FitAll
<1>2. c \in Nat /\ c \in KnownOptions
  BY OptionKnown
<1> HIDE DEF c
<1>3. \A i \in 1 .. N : es[i] = Entry(ps[i]) /\ es[i] \in Seq(Nat)
  BY <1>1, EntryCells
<1>4. es \in Seq(Seq(Nat)) /\ Len(es) = N
  BY <1>1, <1>3
<1>5. ProgramRequest(ps, opt) = body
  BY <1>4 DEF ProgramRequest, Entry, c
<1> HIDE DEF es
<1>6. PICK at : Holds(body, c, Len(es), es, at)
  <2>1. Len(es) \in Nat /\ es \in Seq(Seq(Nat))
    BY <1>1, <1>4
  <2> QED
    BY <1>2, <2>1, BodyHolds
<1> HIDE DEF body
<1>7. \A n \in 1 .. N : Len(es[n]) > 0 /\ es[n][1] = Len(es[n])
  <2> SUFFICES ASSUME NEW n \in 1 .. N PROVE Len(es[n]) > 0 /\ es[n][1] = Len(es[n])
    OBVIOUS
  <2>1. Fits(ps[n]) /\ es[n] = Entry(ps[n])
    BY <1>1, <1>3
  <2>2. Len(Entry(ps[n])) = 4 + Len(Sent(ps[n])) /\ Len(Sent(ps[n])) \in Nat /\ Entry(ps[n])[1] = Len(Entry(ps[n]))
    BY <2>1, EntryCells
  <2> QED
    BY <2>1, <2>2
<1> DEFINE from == EntriesIn(body)
<1>8. \A n \in 1 .. N + 1 : from[n] = 2 + at[n - 1]
  <2>1. LengthFirst(es)
    BY <1>4, <1>7 DEF LengthFirst
  <2>2. es \in Seq(Seq(Nat))
    BY <1>4
  <2>3. Found(body, es, at)
    BY <1>6, <2>1, <2>2, EntriesFound
  <2> QED
    BY <1>4, <2>3 DEF Found, from
<1> HIDE DEF from
<1>9. /\ body \in Seq(Nat) /\ Len(body) = 2 + at[N] /\ body[1] = c /\ body[2] = N
      /\ \A n \in 0 .. N : at[n] \in 0 .. at[N]
      /\ \A n \in 1 .. N : /\ at[n] = at[n - 1] + Len(es[n])
                           /\ \A k \in 1 .. Len(es[n]) : body[2 + at[n - 1] + k] = es[n][k]
  BY <1>4, <1>6 DEF Holds
<1>10. ASSUME NEW n \in 1 .. N
       PROVE  LET p == ps[n] IN
              /\ body[from[n] + 4] = UsageCode(p) /\ body[from[n] + 3] = p.max
              /\ SubSeq(body, from[n] + EntryHead + 1, from[n + 1]) = Sent(p)
  <2> DEFINE p == ps[n]
             e == es[n]
             d == Sent(p)
             a == at[n - 1]
  <2>1. Fits(p) /\ e = Entry(p)
    BY <1>1, <1>3
  <2>2. /\ d \in Seq(Nat) /\ Len(d) \in Nat /\ Len(e) = 4 + Len(d)
        /\ e[3] = p.max /\ e[4] = UsageCode(p) /\ \A k \in 1 .. Len(d) : e[4 + k] = d[k]
    BY <2>1, EntryCells
  <2>3. n \in 1 .. N + 1 /\ n + 1 \in 1 .. N + 1 /\ n + 1 - 1 = n /\ n - 1 \in 0 .. N /\ n \in 0 .. N
    BY <1>1
  <2>4. from[n] = 2 + a /\ from[n + 1] = 2 + at[n]
    BY <1>8, <2>3
  <2>5. at[n] = a + Len(e) /\ a \in 0 .. at[N] /\ at[n] \in 0 .. at[N] /\ at[N] \in Nat
    <3>1. at[n] = a + Len(e)
      BY <1>9
    <3>2. a \in 0 .. at[N] /\ at[n] \in 0 .. at[N] /\ N \in 0 .. N
      BY <1>1, <1>9, <2>3
    <3>3. at[N] \in 0 .. at[N]
      BY <1>9, <3>2
    <3> QED
      BY <3>1, <3>2, <3>3
  <2>6. \A k \in 1 .. Len(e) : body[2 + a + k] = e[k]
    BY <1>9
  <2>7. body \in Seq(Nat) /\ Len(body) = 2 + at[N]
    BY <1>9
  <2> HIDE DEF p, e, d, a
  <2>8. body[2 + a + 4] = UsageCode(p) /\ body[2 + a + 3] = p.max
    <3>1. 3 \in 1 .. Len(e) /\ 4 \in 1 .. Len(e)
      BY <2>2
    <3> QED
      BY <2>2, <2>6, <3>1
  <2>9. SubSeq(body, 2 + a + 4 + 1, 2 + at[n]) = d
    <3> DEFINE s == SubSeq(body, 2 + a + 4 + 1, 2 + at[n])
               b == at[n]
               top == at[N]
    <3>1. a \in Nat /\ b = a + 4 + Len(d) /\ b \in 0 .. top /\ top \in Nat /\ Len(d) \in Nat
      BY <2>2, <2>5
    <3>2. body \in Seq(Nat) /\ Len(body) = 2 + top
      BY <2>7
    <3>3. s = SubSeq(body, 2 + a + 4 + 1, 2 + b)
      OBVIOUS
    <3> HIDE DEF s, b, top
    <3>4. 2 + a + 4 \in Nat /\ 2 + b = 2 + a + 4 + Len(d) /\ 2 + a + 4 + Len(d) <= Len(body)
      BY <3>1, <3>2
    <3>5. /\ s \in Seq(Nat) /\ Len(s) = Len(d)
          /\ \A k \in 1 .. Len(d) : s[k] = body[2 + a + 4 + k]
      <4> DEFINE m == 2 + a + 4
                 l == Len(d)
      <4>1. m \in Nat /\ l \in Nat /\ m + l <= Len(body) /\ s = SubSeq(body, m + 1, m + l)
        BY <3>1, <3>3, <3>4
      <4> HIDE DEF m, l
      <4>2. s \in Seq(Nat) /\ PartOf(s, body, m, l)
        BY <3>2, <4>1, CutIs
      <4> QED
        BY <4>2 DEF PartOf, m, l
    <3>6. ASSUME NEW k \in 1 .. Len(d) PROVE s[k] = d[k]
      <4>1. 4 + k \in 1 .. Len(e) /\ 2 + a + (4 + k) = 2 + a + 4 + k
        BY <2>2, <3>1
      <4>2. body[2 + a + (4 + k)] = e[4 + k] /\ e[4 + k] = d[k]
        BY <2>2, <2>6, <4>1
      <4> QED
        BY <3>5, <4>1, <4>2
    <3>7. s = d
      <4>1. s \in Seq(Nat) /\ d \in Seq(Nat) /\ Len(s) = Len(d) /\ \A k \in 1 .. Len(s) : s[k] = d[k]
        BY <2>2, <3>5, <3>6
      <4> QED
        BY <4>1, SameElements
    <3> QED
      BY <3>7 DEF s
  <2> QED
    BY <2>4, <2>8, <2>9 DEF p, a, d, EntryHead
<1>11. KnownEntries(body)
  <2>1. \A n \in 1 .. N : body[from[n] + 4] \in KnownUsages
    BY <1>1, <1>10, EntryCells
  <2>2. from[N + 1] = Len(body)
    <3>1. N + 1 \in 1 .. N + 1 /\ N + 1 - 1 = N
      BY <1>1
    <3> QED
      BY <1>8, <1>9, <3>1
  <2> QED
    BY <1>9, <2>1, <2>2 DEF KnownEntries, from
<1>12. SeenIn(body) = [i \in 1 .. N |-> View(ps[i])]
  <2>1. SeenIn(body) = [n \in 1 .. N |->
           [usage |-> Direction(body[from[n] + 4]), max |-> body[from[n] + 3],
            data |-> Padded(SubSeq(body, from[n] + EntryHead + 1, from[n + 1]), body[from[n] + 3])]]
    BY <1>9 DEF SeenIn, from
  <2>2. ASSUME NEW n \in 1 .. N
        PROVE  [usage |-> Direction(body[from[n] + 4]), max |-> body[from[n] + 3],
                data |-> Padded(SubSeq(body, from[n] + EntryHead + 1, from[n + 1]), body[from[n] + 3])] = View(ps[n])
    <3>1. Fits(ps[n])
      BY <1>1
    <3>2. Direction(UsageCode(ps[n])) = ps[n].usage /\ Padded(Sent(ps[n]), ps[n].max) = Padded(ps[n].input, ps[n].max)
      BY <3>1, EntryCells
    <3>3. /\ body[from[n] + 4] = UsageCode(ps[n]) /\ body[from[n] + 3] = ps[n].max
          /\ SubSeq(body, from[n] + EntryHead + 1, from[n + 1]) = Sent(ps[n])
      BY <1>10
    <3> QED
      BY <3>2, <3>3 DEF View
  <2> QED
    BY <2>1, <2>2
<1>13. Len(body) > 1
  <2>1. at[N] \in 0 .. at[N]
    BY <1>1, <1>9
  <2> QED
    BY <1>9, <2>1
<1> QED
  <2>1. /\ Len(body) > 1 /\ body[1] = c /\ c \in KnownOptions /\ KnownEntries(body)
        /\ SeenIn(body) = [i \in 1 .. N |-> View(ps[i])]
    BY <1>2, <1>9, <1>11, <1>12, <1>13
  <2> HIDE DEF N
  <2> QED
    BY <1>5, <2>1 DEF N, c, Views

-----------------------------------------------------------------------------
(***************************************************************************)
(* Run-length encoded data: whatever encoding the server chose, the client *)
(* gets the data.                                                          *)
(***************************************************************************)
Unpacked == [ok : BOOLEAN, data : Seq(Nat)]

LEMMA PairsCells ==
  ASSUME NEW b1 \in Nat, NEW b2 \in Nat, NEW count \in Nat
  PROVE  Pairs(b1, b2, count) \in Seq(Nat)
<1> DEFINE es == [i \in 1 .. count |-> <<b1, b2>>]
<1>1. es \in Seq(Seq(Nat))
  OBVIOUS
<1> HIDE DEF es
<1>2. FlattenSeq(es) \in Seq(Nat)
  BY <1>1, Flattened
<1> QED
  BY <1>2 DEF Pairs, es

\* A record of compressed data lies inside of it.
LEMMA RecordInside ==
  ASSUME NEW s \in Seq(Nat), NEW i \in 1 .. Len(s)
  PROVE  LET r == RecordAt(s, i) IN
         r.cells \in Nat /\ i + r.cells \in 1 .. Len(s) + 1 /\ r.data \in Seq(Nat)
<1> DEFINE r == RecordAt(s, i)
<1>1. Len(s) \in Nat /\ s[i] \in Nat /\ Escape \in Nat /\ ByteSize \in Nat
  BY ByteAssumption
<1>2. CASE s[i] # Escape
  <2>1. r = [cells |-> 1, data |-> <<s[i]>>]
    BY <1>2 DEF RecordAt
  <2> QED
    BY <1>1, <2>1
<1>3. CASE s[i] = Escape /\ i + 1 > Len(s)
  <2>1. r = [cells |-> 0, data |-> << >>]
    BY <1>3 DEF RecordAt
  <2> QED
    BY <1>1, <2>1
<1>4. CASE s[i] = Escape /\ ~(i + 1 > Len(s)) /\ s[i + 1] = Escape
  <2>1. r = [cells |-> 2, data |-> <<Escape>>]
    BY <1>4 DEF RecordAt
  <2> QED
    BY <1>1, <1>4, <2>1
<1>5. CASE s[i] = Escape /\ ~(i + 1 > Len(s)) /\ s[i + 1] # Escape /\ i + 4 > Len(s)
  <2>1. r = [cells |-> 0, data |-> << >>]
    BY <1>5 DEF RecordAt
  <2> QED
    BY <1>1, <2>1
<1>6. CASE s[i] = Escape /\ ~(i + 1 > Len(s)) /\ s[i + 1] # Escape /\ ~(i + 4 > Len(s))
  <2>1. i + 4 \in 1 .. Len(s) /\ i + 3 \in 1 .. Len(s) /\ i + 2 \in 1 .. Len(s) /\ i + 1 \in 1 .. Len(s)
    BY <1>1, <1>6
  <2> DEFINE count == s[i + 3] * ByteSize + s[i + 4]
  <2>2. s[i + 1] \in Nat /\ s[i + 2] \in Nat /\ s[i + 3] \in Nat /\ s[i + 4] \in Nat
    BY <2>1, SMTT(30)
  <2>3. \A a, b, c \in Nat : a * b + c \in Nat
    OBVIOUS
  <2>4. count \in Nat
    BY <1>1, <2>2, <2>3
  <2>5. r = [cells |-> 5, data |-> Pairs(s[i + 1], s[i + 2], count)]
    BY <1>6 DEF RecordAt
  <2> HIDE DEF count
  <2>6. Pairs(s[i + 1], s[i + 2], count) \in Seq(Nat)
    BY <2>2, <2>4, PairsCells
  <2> QED
    BY <1>1, <1>6, <2>5, <2>6
<1> QED
  BY <1>2, <1>3, <1>4, <1>5, <1>6

\* What is read from the ith cell on, in terms of what is read behind its record.
Unpacking(s, i, from) ==
  LET r == RecordAt(s, i) IN
  IF r.cells = 0 \/ ~from[i + r.cells].ok THEN Truncated
  ELSE [ok |-> TRUE, data |-> r.data \o from[i + r.cells].data]
Unpacks(s, from) ==
  /\ Decompress(s) = from[1]
  /\ from[Len(s) + 1] = [ok |-> TRUE, data |-> << >>]
  /\ \A i \in 1 .. Len(s) : from[i] = Unpacking(s, i, from)

LEMMA UnpackingCells ==
  ASSUME NEW s \in Seq(Nat), NEW i \in 1 .. Len(s), NEW from,
         \A j \in 1 .. Len(s) + 1 : from[j] \in Unpacked
  PROVE  Unpacking(s, i, from) \in Unpacked
<1> DEFINE r == RecordAt(s, i)
<1>1. r.cells \in Nat /\ i + r.cells \in 1 .. Len(s) + 1 /\ r.data \in Seq(Nat)
  BY RecordInside
<1> DEFINE rest == from[i + r.cells]
<1>2. rest \in Unpacked
  BY <1>1
<1>3. Unpacking(s, i, from) = IF r.cells = 0 \/ ~rest.ok THEN Truncated ELSE [ok |-> TRUE, data |-> r.data \o rest.data]
  BY DEF Unpacking
<1> HIDE DEF rest, r
<1>4. rest.data \in Seq(Nat)
  BY <1>2 DEF Unpacked
<1>5. r.data \o rest.data \in Seq(Nat)
  BY <1>1, <1>4, Joined
<1>6. Truncated \in Unpacked
  BY DEF Truncated, Unpacked
<1> QED
  BY <1>3, <1>5, <1>6 DEF Unpacked

LEMMA DecompressSteps ==
  ASSUME NEW s \in Seq(Nat)
  PROVE  \E from : Unpacks(s, from)
<1> DEFINE L == Len(s)
           D == 1 .. L + 1
           X == Unpacked
           Value(i, f) == IF i > L THEN [ok |-> TRUE, data |-> << >>] ELSE Unpacking(s, i, f)
           Body(f) == [i \in D |-> Value(i, f)]
           g == CHOOSE f : f = Body(f)
           rank == [i \in D |-> L + 1 - i]
           step == [i \in D |-> [f \in [D -> X] |-> Value(i, f)]]
           end == [ok |-> TRUE, data |-> << >>]
<1>1. L \in Nat
  OBVIOUS
<1>2. Decompress(s) = g[1]
  BY DEF Decompress, Unpacking
<1>3. end \in X
  BY DEF Unpacked
<1> HIDE DEF g, X
<1>4. ASSUME NEW i \in D, NEW f \in [D -> X] PROVE Value(i, f) \in X
  <2>1. CASE i > L
    BY <1>3, <2>1
  <2>2. CASE ~(i > L)
    <3>1. i \in 1 .. L
      BY <1>1, <2>2
    <3>2. \A j \in 1 .. Len(s) + 1 : f[j] \in Unpacked
      BY DEF X
    <3>3. Unpacking(s, i, f) \in Unpacked
      BY <3>1, <3>2, UnpackingCells
    <3> QED
      BY <2>2, <3>3 DEF X
  <2> QED
    BY <2>1, <2>2
<1>5. ASSUME NEW i \in D, NEW f, NEW h, \A j \in D : j > i => f[j] = h[j] PROVE Value(i, f) = Value(i, h)
  <2>1. CASE i > L
    BY <2>1
  <2>2. CASE ~(i > L)
    <3> DEFINE r == RecordAt(s, i)
    <3>1. i \in 1 .. L
      BY <1>1, <2>2
    <3>2. r.cells \in Nat /\ i + r.cells \in D
      BY <3>1, RecordInside
    <3>3. r.cells # 0 => f[i + r.cells] = h[i + r.cells]
      <4> DEFINE c == r.cells
      <4> HIDE DEF c
      <4>1. c \in Nat /\ i + c \in D
        BY <3>2 DEF c
      <4>2. c # 0 => i + c > i
        BY <1>1, <3>1, <4>1
      <4>3. c # 0 => f[i + c] = h[i + c]
        BY <1>5, <4>1, <4>2
      <4> QED
        BY <4>3 DEF c
    <3>4. Unpacking(s, i, f) = Unpacking(s, i, h)
      <4> HIDE DEF r
      <4>1. /\ Unpacking(s, i, f) = IF r.cells = 0 \/ ~f[i + r.cells].ok THEN Truncated
                                    ELSE [ok |-> TRUE, data |-> r.data \o f[i + r.cells].data]
            /\ Unpacking(s, i, h) = IF r.cells = 0 \/ ~h[i + r.cells].ok THEN Truncated
                                    ELSE [ok |-> TRUE, data |-> r.data \o h[i + r.cells].data]
        BY DEF Unpacking, r
      <4>2. CASE r.cells = 0
        BY <4>1, <4>2
      <4>3. CASE r.cells # 0
        <5> DEFINE a == f[i + r.cells]
                   b == h[i + r.cells]
        <5>1. a = b
          BY <3>3, <4>3
        <5>2. /\ Unpacking(s, i, f) = IF ~a.ok THEN Truncated ELSE [ok |-> TRUE, data |-> r.data \o a.data]
              /\ Unpacking(s, i, h) = IF ~b.ok THEN Truncated ELSE [ok |-> TRUE, data |-> r.data \o b.data]
          BY <4>1, <4>3
        <5> HIDE DEF a, b
        <5> QED
          BY <5>1, <5>2
      <4> QED
        BY <4>2, <4>3
    <3> QED
      BY <2>2, <3>4
  <2> QED
    BY <2>1, <2>2
<1> HIDE DEF Value
<1>6. \A i \in D : \A f \in [D -> X] : step[i][f] = Value(i, f)
  OBVIOUS
<1>7. step \in [D -> [[D -> X] -> X]]
  BY <1>4
<1>8. rank \in [D -> 0 .. L] /\ \A i, j \in D : rank[j] < rank[i] <=> j > i
  BY <1>1
<1> HIDE DEF step, rank
<1>9. LooksDown(step, D, rank, X)
  <2>1. ASSUME NEW i \in D, NEW f \in [D -> X], NEW h \in [D -> X], \A j \in D : rank[j] < rank[i] => f[j] = h[j]
        PROVE  step[i][f] = step[i][h]
    <3>1. \A j \in D : j > i => f[j] = h[j]
      BY <1>8, <2>1
    <3>2. Value(i, f) = Value(i, h)
      BY <1>5, <3>1
    <3> QED
      BY <1>6, <3>2
  <2> QED
    BY <2>1 DEF LooksDown
<1> HIDE DEF D, L
<1>10. PICK f : Solves(f, D, X, step)
  <2>1. rank \in [D -> 0 .. L]
    BY <1>8
  <2> QED
    BY <1>1, <1>3, <1>7, <1>9, <2>1, RankedRecursionDefines
<1>11. f = Body(f)
  <2>1. \A i \in D : f[i] = Value(i, f)
    BY <1>6, <1>10 DEF Solves
  <2>2. f = [i \in D |-> f[i]]
    BY <1>10 DEF Solves
  <2> QED
    BY <2>1, <2>2
<1> HIDE DEF Body
<1>12. g = Body(g)
  BY <1>11 DEF g
<1>13. \A i \in D : g[i] = Value(i, g)
  <2>1. PICK h : h = g /\ g = Body(h)
    BY <1>12
  <2> QED
    BY <2>1 DEF Body
<1>14. g[L + 1] = end /\ \A i \in 1 .. L : g[i] = Unpacking(s, i, g)
  <2>1. L + 1 \in D /\ L + 1 > L /\ \A i \in 1 .. L : i \in D /\ ~(i > L)
    BY <1>1 DEF D
  <2> QED
    BY <1>13, <2>1 DEF Value
<1> QED
  BY <1>2, <1>14 DEF Unpacks, L

\* An encoding of the first n bytes ends in one of the last of them, or in a repeated pair.
Extends(plain, n, e, to) ==
  \/ \E e0 \in to[n - 1] : e = e0 \o Literal(plain[n])
  \/ \E k \in Repeats(plain, n) : \E e0 \in to[n - 2 * k] : e = e0 \o Repeater(plain[n - 1], plain[n], k)
Encodes(plain, to) ==
  /\ Encodings(plain) = to[Len(plain)] /\ to[0] = {<< >>}
  /\ \A n \in 1 .. Len(plain) : \A e \in to[n] : Extends(plain, n, e, to)

LEMMA RepeatsInside ==
  ASSUME NEW plain, NEW n \in Nat, NEW k \in Repeats(plain, n)
  PROVE  k \in Nat /\ k > 0 /\ 2 * k <= n /\ n - 2 * k \in 0 .. n - 1 /\ n >= 2 /\ n - 1 \in 1 .. n
<1>1. k \in 1 .. n \div 2
  BY DEF Repeats
<1>2. n \div 2 \in Nat /\ 2 * (n \div 2) <= n
  OBVIOUS
<1> HIDE DEF Repeats
<1> DEFINE h == n \div 2
<1>3. k \in 1 .. h /\ h \in Nat /\ 2 * h <= n
  BY <1>1, <1>2
<1> HIDE DEF h
<1> QED
  BY <1>3

LEMMA RecordCells ==
  ASSUME NEW b1 \in Byte, NEW b2 \in Byte, NEW k \in Nat
  PROVE  Literal(b1) \in Seq(Nat) /\ Repeater(b1, b2, k) \in Seq(Nat)
<1>1. Byte \subseteq Nat /\ Escape \in Nat /\ ByteSize \in Nat /\ ByteSize > 0
  BY ByteAssumption DEF Byte
<1>2. k \div ByteSize \in Nat /\ k % ByteSize \in Nat
  BY <1>1
<1> HIDE DEF Byte
<1> QED
  BY <1>1, <1>2 DEF Literal, Repeater

LEMMA EncodingSteps ==
  ASSUME NEW plain \in Seq(Byte)
  PROVE  \E to : Encodes(plain, to)
<1> DEFINE L == Len(plain)
           D == 0 .. L
           X == SUBSET Seq(Nat)
           Value(n, f) == IF n = 0 THEN {<< >>}
                          ELSE {e \o Literal(plain[n]) : e \in f[n - 1]}
                               \union UNION {{e \o Repeater(plain[n - 1], plain[n], k) : e \in f[n - 2 * k]} :
                                               k \in Repeats(plain, n)}
           Body(f) == [n \in D |-> Value(n, f)]
           g == CHOOSE f : f = Body(f)
           rank == [n \in D |-> n]
           step == [n \in D |-> [f \in [D -> X] |-> Value(n, f)]]
<1>1. L \in Nat
  OBVIOUS
<1>2. Encodings(plain) = g[L]
  BY DEF Encodings
<1>3. ASSUME NEW n \in D, n # 0, NEW k \in Repeats(plain, n)
      PROVE  /\ k \in Nat /\ n - 2 * k \in D /\ n - 2 * k < n
             /\ plain[n] \in Byte /\ plain[n - 1] \in Byte
  <2>1. n \in Nat /\ n <= L
    BY <1>1
  <2>2. k \in Nat /\ k > 0 /\ 2 * k <= n /\ n - 2 * k \in 0 .. n - 1 /\ n >= 2 /\ n - 1 \in 1 .. n
    BY <2>1, RepeatsInside
  <2>3. n \in 1 .. L /\ n - 1 \in 1 .. L
    BY <1>1, <2>1, <2>2
  <2>4. n - 2 * k \in D /\ n - 2 * k < n
    <3> DEFINE m == n - 2 * k
    <3>1. m \in 0 .. n - 1
      BY <2>2
    <3> HIDE DEF m
    <3>2. m \in D /\ m < n
      BY <1>1, <2>1, <3>1
    <3> QED
      BY <3>2 DEF m
  <2> QED
    BY <2>2, <2>3, <2>4
<1>4. \A n \in D : n # 0 => n - 1 \in D /\ n - 1 < n /\ plain[n] \in Byte
  BY <1>1
<1> HIDE DEF g, X, D
<1>5. ASSUME NEW n \in D, NEW f \in [D -> X] PROVE Value(n, f) \in X
  <2>1. CASE n = 0
    BY <2>1 DEF X
  <2>2. CASE n # 0
    <3>1. ASSUME NEW e \in f[n - 1] PROVE e \o Literal(plain[n]) \in Seq(Nat)
      <4>1. e \in Seq(Nat)
        BY <1>4, <2>2 DEF X
      <4>2. Literal(plain[n]) \in Seq(Nat)
        BY <1>4, <2>2, RecordCells
      <4> QED
        BY <4>1, <4>2, Joined
    <3>2. ASSUME NEW k \in Repeats(plain, n), NEW e \in f[n - 2 * k]
          PROVE  e \o Repeater(plain[n - 1], plain[n], k) \in Seq(Nat)
      <4>1. k \in Nat /\ n - 2 * k \in D /\ plain[n] \in Byte /\ plain[n - 1] \in Byte
        BY <1>3, <2>2
      <4>2. e \in Seq(Nat)
        BY <4>1 DEF X
      <4>3. Repeater(plain[n - 1], plain[n], k) \in Seq(Nat)
        BY <4>1, RecordCells
      <4> QED
        BY <4>2, <4>3, Joined
    <3>3. {e \o Literal(plain[n]) : e \in f[n - 1]} \subseteq Seq(Nat)
      BY <3>1
    <3>4. UNION {{e \o Repeater(plain[n - 1], plain[n], k) : e \in f[n - 2 * k]} : k \in Repeats(plain, n)} \subseteq Seq(Nat)
      <4> DEFINE Of(k) == {e \o Repeater(plain[n - 1], plain[n], k) : e \in f[n - 2 * k]}
                 K == Repeats(plain, n)
      <4>1. \A k \in K : Of(k) \subseteq Seq(Nat)
        BY <3>2
      <4> HIDE DEF Of, K
      <4>2. UNION {Of(k) : k \in K} \subseteq Seq(Nat)
        BY <4>1
      <4> QED
        BY <4>2 DEF Of, K
    <3> QED
      BY <2>2, <3>3, <3>4 DEF X
  <2> QED
    BY <2>1, <2>2
<1>6. ASSUME NEW n \in D, NEW f, NEW h, \A j \in D : j < n => f[j] = h[j] PROVE Value(n, f) = Value(n, h)
  <2>1. CASE n = 0
    BY <2>1
  <2>2. CASE n # 0
    <3>1. f[n - 1] = h[n - 1]
      BY <1>4, <1>6, <2>2
    <3>2. \A k \in Repeats(plain, n) : f[n - 2 * k] = h[n - 2 * k]
      BY <1>3, <1>6, <2>2
    <3>3. {e \o Literal(plain[n]) : e \in f[n - 1]} = {e \o Literal(plain[n]) : e \in h[n - 1]}
      BY <3>1
    <3>4. UNION {{e \o Repeater(plain[n - 1], plain[n], k) : e \in f[n - 2 * k]} : k \in Repeats(plain, n)}
          = UNION {{e \o Repeater(plain[n - 1], plain[n], k) : e \in h[n - 2 * k]} : k \in Repeats(plain, n)}
      BY <3>2
    <3> QED
      BY <2>2, <3>3, <3>4
  <2> QED
    BY <2>1, <2>2
<1>7. \A n \in D : \A f, e : n # 0 /\ e \in Value(n, f) => Extends(plain, n, e, f)
  BY DEF Extends
<1>8. \A f : Value(0, f) = {<< >>}
  OBVIOUS
<1> HIDE DEF Value
<1>9. \A n \in D : \A f \in [D -> X] : step[n][f] = Value(n, f)
  OBVIOUS
<1>10. step \in [D -> [[D -> X] -> X]]
  BY <1>5
<1>11. rank \in [D -> 0 .. L] /\ \A i \in D : rank[i] = i
  BY <1>1 DEF D
<1> HIDE DEF step, rank
<1>12. LooksDown(step, D, rank, X)
  <2>1. ASSUME NEW n \in D, NEW f \in [D -> X], NEW h \in [D -> X], \A j \in D : rank[j] < rank[n] => f[j] = h[j]
        PROVE  step[n][f] = step[n][h]
    <3>1. \A j \in D : j < n => f[j] = h[j]
      BY <1>11, <2>1
    <3>2. Value(n, f) = Value(n, h)
      BY <1>6, <3>1
    <3> QED
      BY <1>9, <3>2
  <2> QED
    BY <2>1 DEF LooksDown
<1> HIDE DEF L
<1>13. {} \in X /\ rank \in [D -> 0 .. L]
  BY <1>11 DEF X
<1>14. PICK f : Solves(f, D, X, step)
  BY <1>1, <1>10, <1>12, <1>13, RankedRecursionDefines
<1>15. f = Body(f)
  <2>1. \A i \in D : f[i] = Value(i, f)
    BY <1>9, <1>14 DEF Solves
  <2>2. f = [i \in D |-> f[i]]
    BY <1>14 DEF Solves
  <2> QED
    BY <2>1, <2>2
<1> HIDE DEF Body
<1>16. g = Body(g)
  BY <1>15 DEF g
<1>17. \A i \in D : g[i] = Value(i, g)
  <2>1. PICK h : h = g /\ g = Body(h)
    BY <1>16
  <2> QED
    BY <2>1 DEF Body
<1>18. 0 \in D /\ \A n \in 1 .. L : n \in D /\ n # 0
  BY <1>1 DEF D
<1>19. g[0] = {<< >>}
  BY <1>8, <1>17, <1>18
<1>20. ASSUME NEW n \in 1 .. L, NEW e \in g[n] PROVE Extends(plain, n, e, g)
  BY <1>7, <1>17, <1>18
<1> QED
  BY <1>2, <1>19, <1>20 DEF Encodes, L

\* What is behind the last record is read first.
LEMMA UnpackedFromTheEnd ==
  ASSUME NEW s \in Seq(Nat), NEW from, Unpacks(s, from)
  PROVE  \A i \in 1 .. Len(s) + 1 : from[i] \in Unpacked
<1> DEFINE L == Len(s)
           T == {n \in Nat : \A i \in 1 .. L + 1 : L + 1 - i <= n => from[i] \in Unpacked}
<1>1. L \in Nat
  OBVIOUS
<1>2. from[L + 1] \in Unpacked
  BY DEF Unpacks, Unpacked
<1>3. 0 \in T
  <2>1. \A i \in 1 .. L + 1 : L + 1 - i <= 0 => i = L + 1
    BY <1>1
  <2> QED
    BY <1>2, <2>1
<1>4. ASSUME NEW n \in Nat, n \in T PROVE n + 1 \in T
  <2> SUFFICES ASSUME NEW i \in 1 .. L + 1, L + 1 - i <= n + 1 PROVE from[i] \in Unpacked
    OBVIOUS
  <2>1. CASE i = L + 1
    BY <1>2, <2>1
  <2>2. CASE i \in 1 .. L
    <3> DEFINE r == RecordAt(s, i)
               c == r.cells
               rest == from[i + c]
    <3>1. c \in Nat /\ i + c \in 1 .. L + 1 /\ r.data \in Seq(Nat)
      BY <2>2, RecordInside
    <3>2. from[i] = IF c = 0 \/ ~rest.ok THEN Truncated ELSE [ok |-> TRUE, data |-> r.data \o rest.data]
      BY <2>2 DEF Unpacks, Unpacking
    <3> HIDE DEF r, c
    <3>3. CASE c = 0
      BY <3>2, <3>3 DEF Truncated, Unpacked
    <3>4. CASE c # 0
      <4>1. L + 1 - (i + c) <= n
        BY <1>1, <2>2, <3>1, <3>4
      <4>2. rest \in Unpacked
        BY <1>4, <3>1, <4>1
      <4> HIDE DEF rest
      <4>3. r.data \in Seq(Nat) /\ rest.data \in Seq(Nat)
        BY <3>1, <4>2 DEF Unpacked
      <4>4. r.data \o rest.data \in Seq(Nat)
        BY <4>3, Joined
      <4> QED
        BY <3>2, <4>4 DEF Truncated, Unpacked
    <3> QED
      BY <3>3, <3>4
  <2> QED
    BY <1>1, <2>1, <2>2
<1> HIDE DEF T
<1>5. \A n \in Nat : n \in T
  BY <1>3, <1>4, SetInduction
<1>6. ASSUME NEW i \in 1 .. L + 1 PROVE from[i] \in Unpacked
  <2>1. L + 1 - i \in Nat
    BY <1>1
  <2>2. L + 1 - i \in T
    BY <1>5, <2>1
  <2> QED
    BY <1>1, <2>2 DEF T
<1> QED
  BY <1>6

\* e is how s begins.
Begins(e, s) == e \in Seq(Nat) /\ Len(e) <= Len(s) /\ \A i \in 1 .. Len(e) : s[i] = e[i]
\* It has been read as the first n bytes of the plain.
ReadAs(plain, n, e, from) ==
  from[Len(e) + 1].ok => from[1] = [ok |-> TRUE, data |-> SubSeq(plain, 1, n) \o from[Len(e) + 1].data]

\* A record is read behind what has been read.
LEMMA RecordBehind ==
  ASSUME NEW s \in Seq(Nat), NEW from, Unpacks(s, from), NEW plain \in Seq(Nat),
         NEW m \in Nat, NEW n \in Nat, m <= n, n <= Len(plain),
         NEW e \in Seq(Nat), NEW c \in Seq(Nat), Begins(e \o c, s), Len(c) > 0,
         RecordAt(s, Len(e) + 1) = [cells |-> Len(c), data |-> SubSeq(plain, m + 1, n)],
         ReadAs(plain, m, e, from)
  PROVE  ReadAs(plain, n, e \o c, from)
<1> DEFINE i == Len(e) + 1
           j == Len(e \o c) + 1
           rest == from[j]
           a == SubSeq(plain, 1, m)
           d == SubSeq(plain, m + 1, n)
<1>1. a \in Seq(Nat) /\ d \in Seq(Nat) /\ a \o d = SubSeq(plain, 1, n)
  BY Glued
<1>2. i \in 1 .. Len(s) /\ i + Len(c) = j /\ j \in 1 .. Len(s) + 1
  <2>1. Len(e \o c) = Len(e) + Len(c) /\ Len(e) \in Nat /\ Len(c) \in Nat
    BY Joined
  <2>2. Len(e \o c) <= Len(s) /\ Len(s) \in Nat
    BY DEF Begins
  <2> QED
    BY <2>1, <2>2
<1>3. rest \in Unpacked
  BY <1>2, UnpackedFromTheEnd
<1>4. ASSUME rest.ok PROVE from[i] = [ok |-> TRUE, data |-> d \o rest.data]
  <2> DEFINE r == RecordAt(s, i)
             next == from[i + r.cells]
  <2>1. r = [cells |-> Len(c), data |-> d]
    OBVIOUS
  <2>2. from[i] = IF r.cells = 0 \/ ~next.ok THEN Truncated ELSE [ok |-> TRUE, data |-> r.data \o next.data]
    BY <1>2 DEF Unpacks, Unpacking
  <2> HIDE DEF r, d
  <2>3. r.cells = Len(c) /\ r.data = d
    BY <2>1
  <2>4. next = rest
    BY <1>2, <2>3
  <2> HIDE DEF next, rest
  <2>5. r.cells # 0
    BY <2>3
  <2> QED
    BY <1>4, <2>2, <2>3, <2>4, <2>5
<1>5. rest.ok => from[i].ok
  BY <1>4
<1>6. from[i].ok => from[1] = [ok |-> TRUE, data |-> a \o from[i].data]
  BY DEF ReadAs
<1> HIDE DEF i, j, rest, a, d
<1>7. ASSUME rest.ok PROVE from[1] = [ok |-> TRUE, data |-> (a \o d) \o rest.data]
  <2>1. rest.data \in Seq(Nat)
    BY <1>3 DEF Unpacked
  <2>2. a \o (d \o rest.data) = (a \o d) \o rest.data
    <3> DEFINE u == rest.data
    <3>1. a \in Seq(Nat) /\ d \in Seq(Nat) /\ u \in Seq(Nat)
      BY <1>1, <2>1
    <3> HIDE DEF u
    <3>2. Associative(a, d, u)
      BY <3>1, Associates
    <3> QED
      BY <3>2 DEF Associative, u
  <2>3. from[i].data = d \o rest.data
    <3> DEFINE joined == d \o rest.data
    <3>1. from[i] = [ok |-> TRUE, data |-> joined]
      BY <1>4, <1>7
    <3> HIDE DEF joined
    <3>2. from[i].data = joined
      BY <3>1
    <3> QED
      BY <3>2 DEF joined
  <2>4. from[1] = [ok |-> TRUE, data |-> a \o from[i].data]
    BY <1>5, <1>6, <1>7
  <2> QED
    BY <2>2, <2>3, <2>4
<1> QED
  BY <1>1, <1>7 DEF ReadAs, rest, j

LEMMA LiteralRead ==
  ASSUME NEW s \in Seq(Nat), NEW e \in Seq(Nat), NEW b \in Byte, Begins(e \o Literal(b), s)
  PROVE  /\ Literal(b) \in Seq(Nat) /\ Len(Literal(b)) > 0
         /\ RecordAt(s, Len(e) + 1) = [cells |-> Len(Literal(b)), data |-> <<b>>]
<1> DEFINE c == Literal(b)
           i == Len(e) + 1
           w == e \o c
<1>1. c \in Seq(Nat) /\ b \in Nat /\ Escape \in Nat
  <2>1. b \in Nat /\ Escape \in Nat
    BY ByteAssumption DEF Byte
  <2> HIDE DEF Byte
  <2> QED
    BY <2>1 DEF Literal
<1>2. b # Escape => Len(c) = 1 /\ c[1] = b
  BY DEF Literal
<1>9. b = Escape => Len(c) = 2 /\ c[1] = b /\ c[2] = b
  BY DEF Literal
<1> HIDE DEF c
<1>3. /\ Len(w) = Len(e) + Len(c) /\ \A k \in 1 .. Len(c) : w[Len(e) + k] = c[k]
      /\ Len(e) \in Nat /\ Len(c) \in Nat
  BY <1>1, Joined
<1>4. Len(w) <= Len(s) /\ \A k \in 1 .. Len(w) : s[k] = w[k]
  BY DEF Begins, c
<1> HIDE DEF w
<1>5. \A k \in 1 .. Len(c) : Len(e) + k \in 1 .. Len(w) /\ s[Len(e) + k] = c[k]
  BY <1>3, <1>4
<1>6. Len(e) + Len(c) <= Len(s) /\ Len(s) \in Nat
  BY <1>3, <1>4
<1>7. CASE b # Escape
  <2>1. Len(c) = 1 /\ c[1] = b
    BY <1>2, <1>7
  <2>2. 1 \in 1 .. Len(c)
    BY <2>1
  <2>3. s[i] = b
    BY <1>5, <2>1, <2>2
  <2>4. RecordAt(s, i) = [cells |-> 1, data |-> <<b>>]
    BY <1>7, <2>3 DEF RecordAt
  <2> QED
    BY <1>1, <2>1, <2>4 DEF c
<1>8. CASE b = Escape
  <2>1. Len(c) = 2 /\ c[1] = b /\ c[2] = b
    BY <1>9, <1>8
  <2>2. 1 \in 1 .. Len(c) /\ 2 \in 1 .. Len(c)
    BY <2>1
  <2>3. s[Len(e) + 1] = Escape /\ s[Len(e) + 2] = Escape
    BY <1>5, <1>8, <2>1, <2>2
  <2>4. Len(e) + 2 = i + 1 /\ ~(i + 1 > Len(s))
    BY <1>3, <1>6, <2>1
  <2>5. s[i] = Escape /\ s[i + 1] = Escape
    BY <2>3, <2>4
  <2> HIDE DEF i
  <2>6. RecordAt(s, i) = [cells |-> 2, data |-> <<Escape>>]
    BY <2>4, <2>5 DEF RecordAt
  <2> QED
    BY <1>1, <1>8, <2>1, <2>6 DEF c, i
<1> QED
  BY <1>7, <1>8

LEMMA CountRead ==
  ASSUME NEW k \in Nat, NEW q, NEW r, q = k \div ByteSize, r = k % ByteSize
  PROVE  q * ByteSize + r = k
<1>1. ByteSize \in Nat /\ ByteSize > 0
  BY ByteAssumption
<1>2. \A b, n \in Nat : b > 0 => n % b = n - b * (n \div b)
  BY Z3
<1>3. \A b, n \in Nat : b > 0 => n \div b \in Nat
  OBVIOUS
<1>4. \A b, n, j \in Nat : j * b + (n - b * j) = n
  BY Z3
<1>5. q \in Nat /\ r = k - ByteSize * q
  BY <1>1, <1>2, <1>3
<1>6. q * ByteSize + (k - ByteSize * q) = k
  BY <1>1, <1>4, <1>5
<1>7. q * ByteSize + r = k
  BY <1>5, <1>6
<1> QED
  BY <1>7

LEMMA RepeaterRead ==
  ASSUME NEW s \in Seq(Nat), NEW e \in Seq(Nat), NEW b1 \in Byte, NEW b2 \in Byte, NEW k \in Nat,
         b1 # Escape, Begins(e \o Repeater(b1, b2, k), s)
  PROVE  /\ Repeater(b1, b2, k) \in Seq(Nat) /\ Len(Repeater(b1, b2, k)) > 0
         /\ RecordAt(s, Len(e) + 1) = [cells |-> Len(Repeater(b1, b2, k)), data |-> Pairs(b1, b2, k)]
<1> DEFINE c == Repeater(b1, b2, k)
           i == Len(e) + 1
           w == e \o c
<1>1. c \in Seq(Nat)
  BY RecordCells
<1>2. /\ Len(c) = 5 /\ c[1] = Escape /\ c[2] = b1 /\ c[3] = b2
      /\ c[4] = k \div ByteSize /\ c[5] = k % ByteSize
  BY DEF Repeater
<1> HIDE DEF c
<1>3. /\ Len(w) = Len(e) + Len(c) /\ \A j \in 1 .. Len(c) : w[Len(e) + j] = c[j]
      /\ Len(e) \in Nat /\ Len(c) \in Nat
  BY <1>1, Joined
<1>4. Len(w) <= Len(s) /\ \A j \in 1 .. Len(w) : s[j] = w[j]
  BY DEF Begins, c
<1> HIDE DEF w
<1>5. ASSUME NEW j \in 1 .. 5 PROVE s[Len(e) + j] = c[j]
  <2>1. j \in 1 .. Len(c) /\ Len(e) + j \in 1 .. Len(w)
    BY <1>2, <1>3
  <2> QED
    BY <1>3, <1>4, <2>1
<1>6. Len(e) + 5 <= Len(s) /\ Len(s) \in Nat
  BY <1>2, <1>3, <1>4
<1>7. s[i] = Escape /\ s[i + 1] = b1 /\ s[i + 2] = b2 /\ s[i + 3] = c[4] /\ s[i + 4] = c[5]
  <2>1. s[Len(e) + 1] = c[1] /\ s[Len(e) + 2] = c[2] /\ s[Len(e) + 3] = c[3] /\ s[Len(e) + 4] = c[4] /\ s[Len(e) + 5] = c[5]
    BY <1>5
  <2>2. i + 1 = Len(e) + 2 /\ i + 2 = Len(e) + 3 /\ i + 3 = Len(e) + 4 /\ i + 4 = Len(e) + 5
    BY <1>3
  <2> QED
    BY <1>2, <2>1, <2>2
<1>8. ~(i + 1 > Len(s)) /\ ~(i + 4 > Len(s))
  BY <1>3, <1>6
<1> HIDE DEF i
<1>9. RecordAt(s, i) = [cells |-> 5, data |-> Pairs(s[i + 1], s[i + 2], s[i + 3] * ByteSize + s[i + 4])]
  BY <1>7, <1>8 DEF RecordAt
<1>10. s[i + 3] * ByteSize + s[i + 4] = k
  <2>1. s[i + 3] = k \div ByteSize /\ s[i + 4] = k % ByteSize
    BY <1>2, <1>7
  <2> DEFINE q == s[i + 3]
             r == s[i + 4]
  <2>2. q = k \div ByteSize /\ r = k % ByteSize
    BY <2>1
  <2> HIDE DEF q, r
  <2>3. q * ByteSize + r = k
    BY <2>2, CountRead
  <2> QED
    BY <2>3 DEF q, r
<1> QED
  BY <1>1, <1>2, <1>7, <1>9, <1>10 DEF c, i

\* Every encoding of the first n bytes is read as these, whatever follows it.
IsReadAs(plain, n, to, s, from) ==
  \A e \in to[n] : e \in Seq(Nat) /\ (Begins(e, s) => ReadAs(plain, n, e, from))

LEMMA BeginsBefore ==
  ASSUME NEW e \in Seq(Nat), NEW c \in Seq(Nat), NEW s \in Seq(Nat), Begins(e \o c, s)
  PROVE  Begins(e, s)
<1> DEFINE w == e \o c
<1>1. /\ Len(w) = Len(e) + Len(c) /\ \A k \in 1 .. Len(e) : w[k] = e[k]
      /\ Len(e) \in Nat /\ Len(c) \in Nat /\ Len(s) \in Nat
  BY Joined
<1>2. Len(w) <= Len(s) /\ \A k \in 1 .. Len(w) : s[k] = w[k]
  BY DEF Begins
<1> HIDE DEF w
<1>3. \A k \in 1 .. Len(e) : k \in 1 .. Len(w)
  BY <1>1
<1> QED
  BY <1>1, <1>2, <1>3 DEF Begins

LEMMA EncodingRead ==
  ASSUME NEW bytes \in Seq(Byte), NEW to, Encodes(bytes, to),
         NEW s \in Seq(Nat), NEW from, Unpacks(s, from)
  PROVE  \A n \in 0 .. Len(bytes) : IsReadAs(bytes, n, to, s, from)
<1> DEFINE L == Len(bytes)
           Good(n) == IsReadAs(bytes, n, to, s, from)
           T == {n \in Nat : \A m \in 0 .. L : m <= n => Good(m)}
<1>1. L \in Nat /\ bytes \in Seq(Nat) /\ \A n \in 1 .. L : bytes[n] \in Byte
  BY BytesAreNumbers
<1>2. Good(0)
  <2>1. to[0] = {<< >>}
    BY DEF Encodes
  <2>2. << >> \in Seq(Nat)
    OBVIOUS
  <2>3. ReadAs(bytes, 0, << >>, from)
    <3> DEFINE u == from[1]
    <3>1. u \in Unpacked
      BY UnpackedFromTheEnd
    <3> HIDE DEF u
    <3>2. u.ok \in BOOLEAN /\ u.data \in Seq(Nat) /\ u = [ok |-> u.ok, data |-> u.data]
      BY <3>1 DEF Unpacked
    <3>3. SubSeq(bytes, 1, 0) = << >>
      OBVIOUS
    <3>4. << >> \o u.data = u.data
      BY <3>2, ConcatEmptySeq
    <3>5. u.ok => u = [ok |-> TRUE, data |-> SubSeq(bytes, 1, 0) \o u.data]
      BY <3>2, <3>3, <3>4
    <3>6. Len(<< >>) + 1 = 1
      OBVIOUS
    <3> QED
      BY <3>5, <3>6 DEF ReadAs, u
  <2> QED
    BY <2>1, <2>2, <2>3 DEF IsReadAs
<1>3. ASSUME NEW n \in 1 .. L, \A m \in 0 .. L : m < n => Good(m) PROVE Good(n)
  <2> SUFFICES ASSUME NEW e \in to[n] PROVE e \in Seq(Nat) /\ (Begins(e, s) => ReadAs(bytes, n, e, from))
    BY DEF IsReadAs
  <2>1. n \in Nat /\ n <= L /\ n - 1 \in Nat /\ n - 1 \in 0 .. L /\ n - 1 < n
    BY <1>1
  <2>2. Extends(bytes, n, e, to)
    BY DEF Encodes
  <2>3. CASE \E e0 \in to[n - 1] : e = e0 \o Literal(bytes[n])
    <3>1. PICK e0 \in to[n - 1] : e = e0 \o Literal(bytes[n])
      BY <2>3
    <3>2. Good(n - 1)
      BY <1>3, <2>1
    <3>3. e0 \in Seq(Nat) /\ (Begins(e0, s) => ReadAs(bytes, n - 1, e0, from))
      BY <3>2 DEF IsReadAs
    <3>4. bytes[n] \in Byte /\ Literal(bytes[n]) \in Seq(Nat)
      BY <1>1, RecordCells
    <3>5. e \in Seq(Nat)
      BY <3>1, <3>3, <3>4, Joined
    <3>6. ASSUME Begins(e, s) PROVE ReadAs(bytes, n, e, from)
      <4> DEFINE c == Literal(bytes[n])
                 m == n - 1
      <4>1. c \in Seq(Nat) /\ Len(c) > 0 /\ RecordAt(s, Len(e0) + 1) = [cells |-> Len(c), data |-> <<bytes[n]>>]
        BY <3>1, <3>3, <3>4, <3>6, LiteralRead
      <4>2. m \in Nat /\ m <= n /\ SubSeq(bytes, m + 1, n) = <<bytes[n]>>
        <5> DEFINE t == SubSeq(bytes, m + 1, m + 1)
        <5>1. m \in Nat /\ m <= n /\ m + 1 = n /\ m + 1 <= Len(bytes)
          BY <2>1
        <5> HIDE DEF m
        <5>2. t \in Seq(Nat) /\ Len(t) = 1 /\ \A k \in 1 .. 1 : t[k] = bytes[m + k]
          BY <1>1, <5>1, Cut
        <5> HIDE DEF t
        <5>3. t[1] = bytes[n]
          BY <5>1, <5>2
        <5>4. t = <<bytes[n]>>
          BY <5>2, <5>3
        <5> QED
          BY <5>1, <5>4 DEF t
      <4>3. Begins(e0, s)
        BY <3>1, <3>3, <3>4, <3>6, BeginsBefore
      <4>4. ReadAs(bytes, m, e0, from) /\ Begins(e0 \o c, s) /\ e0 \in Seq(Nat)
        BY <3>1, <3>3, <3>6, <4>3
      <4> HIDE DEF c, m
      <4>5. RecordAt(s, Len(e0) + 1) = [cells |-> Len(c), data |-> SubSeq(bytes, m + 1, n)]
        BY <4>1, <4>2
      <4>6. ReadAs(bytes, n, e0 \o c, from)
        BY <1>1, <2>1, <4>1, <4>2, <4>4, <4>5, RecordBehind
      <4> QED
        BY <3>1, <4>6 DEF c
    <3> QED
      BY <3>5, <3>6
  <2>4. CASE \E k \in Repeats(bytes, n) : \E e0 \in to[n - 2 * k] : e = e0 \o Repeater(bytes[n - 1], bytes[n], k)
    <3>1. PICK k \in Repeats(bytes, n) : \E e0 \in to[n - 2 * k] : e = e0 \o Repeater(bytes[n - 1], bytes[n], k)
      BY <2>4
    <3>2. k \in Nat /\ n - 2 * k \in 0 .. n - 1 /\ n - 1 \in 1 .. n
      BY <2>1, RepeatsInside
    <3>3. bytes[n - 1] # Escape /\ SubSeq(bytes, n - 2 * k + 1, n) = Pairs(bytes[n - 1], bytes[n], k)
      BY DEF Repeats
    <3> DEFINE m == n - 2 * k
               b1 == bytes[n - 1]
               b2 == bytes[n]
               c == Repeater(b1, b2, k)
    <3>4. PICK e0 \in to[m] : e = e0 \o c
      BY <3>1
    <3>5. m \in Nat /\ m <= n /\ m \in 0 .. L /\ m < n /\ b1 \in Byte /\ b2 \in Byte
      <4>1. m \in 0 .. n - 1
        BY <3>2
      <4>2. n - 1 \in 1 .. L
        BY <1>1, <2>1, <3>2
      <4> HIDE DEF m
      <4> QED
        BY <1>1, <2>1, <4>1, <4>2
    <3>6. b1 # Escape /\ SubSeq(bytes, m + 1, n) = Pairs(b1, b2, k)
      BY <3>3
    <3> HIDE DEF m, b1, b2
    <3>7. Good(m)
      BY <1>3, <3>5
    <3>8. e0 \in Seq(Nat) /\ (Begins(e0, s) => ReadAs(bytes, m, e0, from))
      BY <3>7 DEF IsReadAs
    <3>9. c \in Seq(Nat)
      BY <3>2, <3>5, RecordCells
    <3>10. e \in Seq(Nat)
      BY <3>4, <3>8, <3>9, Joined
    <3>11. ASSUME Begins(e, s) PROVE ReadAs(bytes, n, e, from)
      <4>1. Begins(e0 \o c, s)
        BY <3>4, <3>11
      <4>2. Len(c) > 0 /\ RecordAt(s, Len(e0) + 1) = [cells |-> Len(c), data |-> Pairs(b1, b2, k)]
        BY <3>2, <3>5, <3>6, <3>8, <4>1, RepeaterRead
      <4> HIDE DEF c
      <4>3. Begins(e0, s)
        BY <3>8, <3>9, <4>1, BeginsBefore
      <4>4. ReadAs(bytes, m, e0, from)
        BY <3>8, <4>3
      <4>5. RecordAt(s, Len(e0) + 1) = [cells |-> Len(c), data |-> SubSeq(bytes, m + 1, n)]
        BY <3>6, <4>2
      <4>6. ReadAs(bytes, n, e0 \o c, from)
        BY <1>1, <2>1, <3>5, <3>8, <3>9, <4>1, <4>2, <4>4, <4>5, RecordBehind
      <4> QED
        BY <3>4, <4>6
    <3> QED
      BY <3>10, <3>11
  <2> QED
    BY <2>2, <2>3, <2>4 DEF Extends
<1> HIDE DEF Good
<1>4. 0 \in T
  BY <1>2
<1>5. ASSUME NEW n \in Nat, n \in T PROVE n + 1 \in T
  <2> SUFFICES ASSUME NEW m \in 0 .. L, m <= n + 1 PROVE Good(m)
    OBVIOUS
  <2>1. CASE m <= n
    BY <1>5, <2>1
  <2>2. CASE m = n + 1
    <3>1. m \in 1 .. L /\ \A j \in 0 .. L : j < m => j <= n
      BY <1>1, <2>2
    <3> QED
      BY <1>3, <1>5, <3>1
  <2> QED
    BY <1>1, <2>1, <2>2
<1> HIDE DEF T
<1>6. L \in T
  BY <1>1, <1>4, <1>5, SetInduction
<1>7. \A n \in 0 .. L : Good(n)
  BY <1>1, <1>6 DEF T
<1> QED
  BY <1>7 DEF Good

\* Whatever encoding was chosen, the plain comes out.
LEMMA Decompressed ==
  ASSUME NEW bytes \in Seq(Byte), NEW e \in Encodings(bytes)
  PROVE  e \in Seq(Nat) /\ Decompress(e) = [ok |-> TRUE, data |-> bytes]
<1> DEFINE L == Len(bytes)
<1>1. PICK to : Encodes(bytes, to)
  BY EncodingSteps
<1>2. L \in Nat /\ L \in 0 .. L /\ e \in to[L] /\ bytes \in Seq(Nat)
  BY <1>1, BytesAreNumbers DEF Encodes
<1>3. e \in Seq(Nat)
  <2>1. PICK from : Unpacks(<< >>, from)
    <3>1. << >> \in Seq(Nat)
      OBVIOUS
    <3> QED
      BY <3>1, DecompressSteps
  <2>2. << >> \in Seq(Nat)
    OBVIOUS
  <2>3. IsReadAs(bytes, L, to, << >>, from)
    BY <1>1, <1>2, <2>1, <2>2, EncodingRead
  <2> QED
    BY <1>2, <2>3 DEF IsReadAs
<1>4. PICK from : Unpacks(e, from)
  BY <1>3, DecompressSteps
<1>5. IsReadAs(bytes, L, to, e, from)
  BY <1>1, <1>2, <1>3, <1>4, EncodingRead
<1>6. Begins(e, e)
  BY <1>3 DEF Begins
<1>7. ReadAs(bytes, L, e, from)
  BY <1>2, <1>5, <1>6 DEF IsReadAs
<1>8. Decompress(e) = from[1] /\ from[Len(e) + 1] = [ok |-> TRUE, data |-> << >>]
  BY <1>4 DEF Unpacks
<1>9. from[1] = [ok |-> TRUE, data |-> SubSeq(bytes, 1, L) \o << >>]
  BY <1>7, <1>8 DEF ReadAs
<1>10. SubSeq(bytes, 1, L) = bytes /\ bytes \o << >> = bytes
  BY <1>2, ConcatEmptySeq
<1> QED
  BY <1>3, <1>8, <1>9, <1>10

LEMMA DecompressCells ==
  ASSUME NEW s \in Seq(Nat)
  PROVE  Decompress(s) \in Unpacked
<1>1. PICK from : Unpacks(s, from)
  BY DecompressSteps
<1>2. 1 \in 1 .. Len(s) + 1
  OBVIOUS
<1>3. from[1] \in Unpacked
  BY <1>1, <1>2, UnpackedFromTheEnd
<1> QED
  BY <1>1, <1>3 DEF Unpacks

-----------------------------------------------------------------------------
(***************************************************************************)
(* A program's reply: what the client reads from it.                       *)
(***************************************************************************)
OutputsRead == [ok : BOOLEAN, off : Nat, params : Seq(Parameter)]

LEMMA EntryAtCells ==
  ASSUME NEW body \in Seq(Nat), NEW off \in Nat
  PROVE  EntryAt(body, off).cells \in Nat /\ EntryAt(body, off).data \in Seq(Nat)
<1> DEFINE ll == body[off + 1]
           raw == SubSeq(body, off + EntryHead + 1, off + ll)
           nothing == [cells |-> 0, data |-> << >>]
           d == Decompress(raw)
           e == EntryAt(body, off)
<1>1. nothing.cells \in Nat /\ nothing.data \in Seq(Nat)
  OBVIOUS
<1>2. CASE off + EntryHead > Len(body)
  BY <1>1, <1>2 DEF EntryAt
<1>3. CASE ~(off + EntryHead > Len(body))
  <2>1. off + 1 \in 1 .. Len(body) /\ ll \in Nat
    BY <1>3 DEF EntryHead
  <2>2. CASE ll < EntryHead \/ off + ll > Len(body)
    BY <1>1, <1>3, <2>2 DEF EntryAt
  <2>3. CASE ~(ll < EntryHead \/ off + ll > Len(body))
    <3>1. raw \in Seq(Nat)
      <4>1. off + 4 \in Nat /\ ll - 4 \in Nat /\ (off + 4) + (ll - 4) = off + ll /\ off + ll <= Len(body)
        BY <2>1, <2>3 DEF EntryHead
      <4> DEFINE m == off + 4
                 l == ll - 4
      <4>2. raw = SubSeq(body, m + 1, m + l) /\ m \in Nat /\ l \in Nat /\ m + l <= Len(body)
        BY <4>1 DEF EntryHead
      <4> HIDE DEF m, l, raw
      <4> QED
        BY <4>2, Cut
    <3>2. e = IF body[off + 4] \notin Compressed THEN [cells |-> ll, data |-> raw]
              ELSE [cells |-> IF d.ok THEN ll ELSE 0, data |-> d.data]
      BY <1>3, <2>3 DEF EntryAt
    <3> HIDE DEF raw, ll
    <3>3. d \in Unpacked
      BY <3>1, DecompressCells
    <3> HIDE DEF d, e
    <3>4. d.data \in Seq(Nat)
      BY <3>3 DEF Unpacked
    <3>5. e.cells \in Nat /\ e.data \in Seq(Nat)
      BY <2>1, <3>1, <3>2, <3>4
    <3> QED
      BY <3>5 DEF e
  <2> QED
    BY <2>2, <2>3
<1> QED
  BY <1>2, <1>3

LEMMA WithOutputCells ==
  ASSUME NEW body \in Seq(Nat), NEW p \in Parameter, NEW acc \in OutputsRead
  PROVE  WithOutput(body, p, acc) \in OutputsRead
<1> DEFINE e == EntryAt(body, acc.off)
           fills == acc.ok /\ HasEntry(p) /\ e.cells # 0
           q == IF fills THEN [p EXCEPT !.output = e.data] ELSE p
           ok == acc.ok /\ (HasEntry(p) => e.cells # 0)
           off == IF fills THEN acc.off + e.cells ELSE acc.off
<1>1. acc.ok \in BOOLEAN /\ acc.off \in Nat /\ acc.params \in Seq(Parameter)
  BY DEF OutputsRead
<1>2. e.cells \in Nat /\ e.data \in Seq(Nat)
  BY <1>1, EntryAtCells
<1>3. WithOutput(body, p, acc) = [ok |-> ok, off |-> off, params |-> Append(acc.params, q)]
  BY DEF WithOutput
<1> HIDE DEF e, fills
<1>4. [p EXCEPT !.output = e.data] \in Parameter
  BY <1>2 DEF Parameter
<1>5. q \in Parameter /\ off \in Nat /\ ok \in BOOLEAN
  BY <1>1, <1>2, <1>4
<1> HIDE DEF q, off, ok
<1>6. Append(acc.params, q) \in Seq(Parameter)
  BY <1>1, <1>5
<1> QED
  BY <1>3, <1>5, <1>6 DEF OutputsRead

\* What has been read after each parameter.
ReadsOutputs(body, ps, u) ==
  /\ ReadOutputs(body, ps) = u[Len(ps)]
  /\ u[0] = [ok |-> TRUE, off |-> ReplyHead, params |-> << >>]
  /\ \A n \in 0 .. Len(ps) : u[n] \in OutputsRead
  /\ \A n \in 1 .. Len(ps) : u[n] = WithOutput(body, ps[n], u[n - 1])

LEMMA OutputSteps ==
  ASSUME NEW body \in Seq(Nat), NEW ps \in Seq(Parameter)
  PROVE  \E u : ReadsOutputs(body, ps, u)
<1> DEFINE N == Len(ps)
           D == 0 .. N
           X == OutputsRead
           a == [ok |-> TRUE, off |-> ReplyHead, params |-> << >>]
           Body(f) == [n \in D |-> IF n = 0 THEN a ELSE WithOutput(body, ps[n], f[n - 1])]
           g == CHOOSE f : f = Body(f)
           step == [n \in 1 .. N |-> [x \in X |-> WithOutput(body, ps[n], x)]]
<1>1. N \in Nat /\ \A n \in 1 .. N : ps[n] \in Parameter
  OBVIOUS
<1>2. ReadOutputs(body, ps) = g[N]
  BY DEF ReadOutputs
<1>3. a \in X
  BY DEF OutputsRead, ReplyHead
<1>4. ASSUME NEW n \in 1 .. N, NEW x \in X PROVE WithOutput(body, ps[n], x) \in X
  BY <1>1, WithOutputCells
<1>5. step \in [1 .. N -> [X -> X]]
  BY <1>4
<1>6. \A n \in 1 .. N : \A x \in X : step[n][x] = WithOutput(body, ps[n], x)
  OBVIOUS
<1>7. \A n \in 1 .. N : n \in D /\ n # 0 /\ n - 1 \in D
  BY <1>1
<1>8. 0 \in D /\ N \in D /\ \A n \in D : n # 0 => n \in 1 .. N
  BY <1>1
<1> HIDE DEF N, D, X, a, g, step, Body
<1>9. PICK h : Iterates(h, N, X, a, step)
  <2>1. N \in Nat
    BY <1>1
  <2> QED
    BY <1>3, <1>5, <2>1, RecursionDefines
<1>10. h[0] = a /\ \A n \in 1 .. N : h[n] = WithOutput(body, ps[n], h[n - 1])
  <2>1. h[0] = a /\ \A n \in 1 .. N : h[n - 1] \in X /\ h[n] = step[n][h[n - 1]]
    BY <1>7, <1>9 DEF Iterates, D
  <2> QED
    BY <1>6, <2>1
<1>11. h = Body(h)
  <2>1. h = [n \in D |-> h[n]]
    BY <1>9 DEF Iterates, D
  <2>2. \A n \in D : h[n] = IF n = 0 THEN a ELSE WithOutput(body, ps[n], h[n - 1])
    BY <1>8, <1>10
  <2> QED
    BY <2>1, <2>2 DEF Body
<1>12. g = Body(g)
  BY <1>11 DEF g
<1>13. \A n \in D : g[n] = IF n = 0 THEN a ELSE WithOutput(body, ps[n], g[n - 1])
  <2>1. PICK f : f = g /\ g = Body(f)
    BY <1>12
  <2> QED
    BY <2>1 DEF Body
<1>14. g[0] = a /\ \A n \in 1 .. N : g[n] = WithOutput(body, ps[n], g[n - 1])
  BY <1>7, <1>8, <1>13
<1>15. \A n \in D : g[n] \in X
  <2> DEFINE S == {n \in D : g[n] \in X}
  <2>1. 0 \in S
    BY <1>3, <1>8, <1>14
  <2>2. \A n \in 1 .. N : n - 1 \in S => n \in S
    BY <1>4, <1>7, <1>14
  <2> HIDE DEF S
  <2>3. \A n \in 0 .. N : n \in S
    BY <1>1, <2>1, <2>2, CountingUp
  <2> QED
    BY <2>3 DEF S, D
<1> QED
  BY <1>2, <1>14, <1>15 DEF ReadsOutputs, N, D, X, a

\* An entry that gives the plain, plain or compressed.
Carries(e, bytes) ==
  /\ e \in Seq(Nat) /\ Len(e) >= 4 /\ e[1] = Len(e)
  /\ LET raw == SubSeq(e, 5, Len(e)) IN
     IF e[4] \notin Compressed THEN raw = bytes ELSE Decompress(raw) = [ok |-> TRUE, data |-> bytes]

LEMMA OutputEntryCarries ==
  ASSUME NEW bytes \in Seq(Byte), NEW p, HasEntry(p), NEW e \in OutputEntries(p, bytes)
  PROVE  Carries(e, bytes)
<1> DEFINE Right(code, raw) ==
             /\ code \in Nat /\ raw \in Seq(Nat)
             /\ IF code \notin Compressed THEN raw = bytes ELSE Decompress(raw) = [ok |-> TRUE, data |-> bytes]
<1>1. bytes \in Seq(Nat) /\ Len(bytes) \in Nat
  BY BytesAreNumbers
<1>2. PICK code, raw : e = OutputEntry(Len(bytes), code, raw) /\ Right(code, raw)
  <2>1. CASE e = OutputEntry(Len(bytes), 12, bytes)
    <3>1. 12 \in Nat /\ 12 \notin Compressed
      BY DEF Compressed
    <3>2. Right(12, bytes)
      BY <1>1, <3>1
    <3> QED
      BY <2>1, <3>2
  <2>2. CASE e \in {OutputEntry(Len(bytes), IF p.usage = "output" THEN 22 ELSE 23, x) : x \in Encodings(bytes)}
    <3>1. PICK x \in Encodings(bytes) : e = OutputEntry(Len(bytes), IF p.usage = "output" THEN 22 ELSE 23, x)
      BY <2>2
    <3> DEFINE code == IF p.usage = "output" THEN 22 ELSE 23
    <3>2. code \in Nat /\ code \in Compressed
      BY DEF Compressed
    <3> HIDE DEF code
    <3>3. x \in Seq(Nat) /\ Decompress(x) = [ok |-> TRUE, data |-> bytes]
      BY Decompressed
    <3>4. Right(code, x)
      BY <3>2, <3>3
    <3>5. e = OutputEntry(Len(bytes), code, x)
      BY <3>1 DEF code
    <3> HIDE DEF Right
    <3> QED
      BY <3>4, <3>5
  <2> QED
    BY <2>1, <2>2 DEF OutputEntries
<1> DEFINE head == <<EntryHead + Len(raw), ParameterCodePoint, Len(bytes), code>>
<1>3. e = head \o raw
  BY <1>2 DEF OutputEntry
<1>4. code \in Nat /\ raw \in Seq(Nat) /\ Len(raw) \in Nat
  BY <1>2
<1>5. head \in Seq(Nat) /\ Len(head) = 4 /\ head[1] = 4 + Len(raw) /\ head[4] = code
  BY <1>1, <1>4 DEF EntryHead, ParameterCodePoint
<1> HIDE DEF head
<1>6. /\ head \o raw \in Seq(Nat) /\ Len(head \o raw) = Len(head) + Len(raw)
      /\ \A i \in 1 .. Len(head) : (head \o raw)[i] = head[i]
      /\ \A i \in 1 .. Len(raw) : (head \o raw)[Len(head) + i] = raw[i]
  <2>1. head \in Seq(Nat) /\ raw \in Seq(Nat)
    BY <1>4, <1>5
  <2> QED
    BY <2>1, Joined
<1>7. /\ e \in Seq(Nat) /\ Len(e) = 4 + Len(raw) /\ e[1] = Len(e) /\ e[4] = code
      /\ \A i \in 1 .. Len(raw) : e[4 + i] = raw[i]
  BY <1>3, <1>5, <1>6, SMTT(30)
<1> DEFINE t == SubSeq(e, 5, Len(e))
<1>8. t = raw
  <2> DEFINE l == Len(raw)
  <2>1. l \in Nat /\ 4 + l <= Len(e) /\ t = SubSeq(e, 4 + 1, 4 + l)
    BY <1>4, <1>7
  <2> HIDE DEF l, t
  <2>2. t \in Seq(Nat) /\ Len(t) = l /\ \A k \in 1 .. l : t[k] = e[4 + k]
    BY <1>7, <2>1, Cut
  <2>3. t \in Seq(Nat) /\ raw \in Seq(Nat) /\ Len(t) = Len(raw) /\ \A k \in 1 .. Len(t) : t[k] = raw[k]
    BY <1>4, <1>7, <2>2 DEF l
  <2> QED
    BY <2>3, SameElements
<1>9. IF e[4] \notin Compressed THEN raw = bytes ELSE Decompress(raw) = [ok |-> TRUE, data |-> bytes]
  BY <1>2, <1>7
<1> HIDE DEF t, Right
<1>10. /\ e \in Seq(Nat) /\ Len(e) >= 4 /\ e[1] = Len(e)
       /\ IF e[4] \notin Compressed THEN t = bytes ELSE Decompress(t) = [ok |-> TRUE, data |-> bytes]
  BY <1>4, <1>7, <1>8, <1>9
<1> QED
  BY <1>10 DEF Carries, t

\* The client reads it if it arrives.
LEMMA EntryRead ==
  ASSUME NEW body \in Seq(Nat), NEW m \in Nat, m <= Len(body), NEW a \in Nat, NEW bytes, NEW e,
         Carries(e, bytes), a + Len(e) <= Len(body),
         \A k \in 1 .. Len(e) : body[a + k] = e[k]
  PROVE  LET x == EntryAt(SubSeq(body, 1, m), a) IN
         /\ x.cells # 0 => x = [cells |-> Len(e), data |-> bytes]
         /\ a + Len(e) <= m => x.cells # 0
<1> DEFINE r == SubSeq(body, 1, m)
           x == EntryAt(r, a)
           ll == r[a + 1]
           raw == SubSeq(r, a + EntryHead + 1, a + ll)
<1>1. r \in Seq(Nat) /\ Len(r) = m /\ \A k \in 1 .. m : r[k] = body[k]
  <2>1. r = SubSeq(body, 0 + 1, 0 + m) /\ 0 + m <= Len(body)
    OBVIOUS
  <2> HIDE DEF r
  <2>2. r \in Seq(Nat) /\ Len(r) = m /\ \A k \in 1 .. m : r[k] = body[0 + k]
    BY <2>1, Cut
  <2>3. \A k \in 1 .. m : 0 + k = k
    OBVIOUS
  <2> QED
    BY <2>2, <2>3
<1>2. e \in Seq(Nat) /\ Len(e) \in Nat /\ Len(e) >= 4 /\ e[1] = Len(e)
  BY DEF Carries
<1> HIDE DEF r
<1>3. CASE a + EntryHead > Len(r)
  <2>1. x = [cells |-> 0, data |-> << >>]
    BY <1>3 DEF EntryAt
  <2>2. ~(a + Len(e) <= m)
    BY <1>1, <1>2, <1>3 DEF EntryHead
  <2> QED
    BY <2>1, <2>2 DEF r
<1>4. CASE ~(a + EntryHead > Len(r))
  <2>1. a + 4 <= m
    BY <1>1, <1>4 DEF EntryHead
  <2>2. \A k \in 1 .. 4 : a + k \in 1 .. m /\ k \in 1 .. Len(e)
    BY <1>2, <2>1, SMTT(30)
  <2>3. \A k \in 1 .. 4 : r[a + k] = e[k]
    BY <1>1, <2>2
  <2>4. ll = Len(e) /\ r[a + 4] = e[4]
    <3>1. 1 \in 1 .. 4 /\ 4 \in 1 .. 4
      OBVIOUS
    <3>2. r[a + 1] = e[1] /\ r[a + 4] = e[4]
      BY <2>3, <3>1
    <3> QED
      BY <1>2, <3>2
  <2> HIDE DEF ll
  <2>5. CASE a + Len(e) > m
    <3>1. ll < EntryHead \/ a + ll > Len(r)
      BY <1>1, <2>4, <2>5
    <3>2. x = [cells |-> 0, data |-> << >>]
      BY <1>4, <3>1 DEF EntryAt, ll
    <3> QED
      BY <1>2, <2>5, <3>2, SMTT(30) DEF r
  <2>6. CASE a + Len(e) <= m
    <3>1. ~(ll < EntryHead \/ a + ll > Len(r))
      <4>1. ~(Len(e) < EntryHead) /\ ~(a + Len(e) > m)
        BY <1>2, <2>6, SMTT(30) DEF EntryHead
      <4> QED
        BY <1>1, <2>4, <4>1
    <3> DEFINE t == SubSeq(e, 5, Len(e))
               n == Len(e) - 4
    <3>2. raw = t
      <4>1. n \in Nat /\ a + 4 \in Nat /\ (a + 4) + n = a + Len(e) /\ (a + 4) + n <= m /\ 4 + n = Len(e)
        BY <1>2, <2>6
      <4> HIDE DEF n
      <4>2. raw = SubSeq(r, (a + 4) + 1, (a + 4) + n) /\ t = SubSeq(e, 4 + 1, 4 + n)
        BY <2>4, <4>1, SMTT(30) DEF EntryHead
      <4> HIDE DEF raw, t
      <4>3. t \in Seq(Nat) /\ Len(t) = n /\ \A k \in 1 .. n : t[k] = e[4 + k]
        <5>1. 4 + n <= Len(e) /\ n \in Nat /\ e \in Seq(Nat)
          BY <1>2, <4>1
        <5>2. t = SubSeq(e, 4 + 1, 4 + n)
          BY <4>2
        <5> QED
          BY <5>1, <5>2, Cut, SMTT(30)
      <4>4. raw \in Seq(Nat) /\ Len(raw) = n /\ \A k \in 1 .. n : raw[k] = r[(a + 4) + k]
        <5> DEFINE b == a + 4
        <5>1. b \in Nat /\ b + n <= Len(r) /\ raw = SubSeq(r, b + 1, b + n)
          BY <1>1, <4>1, <4>2
        <5> HIDE DEF b
        <5>2. raw \in Seq(Nat) /\ Len(raw) = n /\ \A k \in 1 .. n : raw[k] = r[b + k]
          BY <1>1, <4>1, <5>1, Cut, SMTT(30)
        <5> QED
          BY <5>2 DEF b
      <4>5. ASSUME NEW k \in 1 .. n PROVE raw[k] = t[k]
        <5>1. 4 + k \in 1 .. Len(e) /\ a + (4 + k) = (a + 4) + k /\ (a + 4) + k \in 1 .. m
          BY <4>1
        <5>2. r[a + (4 + k)] = e[4 + k]
          BY <1>1, <5>1
        <5> QED
          BY <4>3, <4>4, <5>1, <5>2
      <4>6. raw \in Seq(Nat) /\ t \in Seq(Nat) /\ Len(raw) = Len(t) /\ \A k \in 1 .. Len(raw) : raw[k] = t[k]
        BY <4>3, <4>4, <4>5
      <4> QED
        BY <4>6, SameElements
    <3> DEFINE d == Decompress(raw)
    <3>3. x = IF r[a + 4] \notin Compressed THEN [cells |-> ll, data |-> raw]
              ELSE [cells |-> IF d.ok THEN ll ELSE 0, data |-> d.data]
      BY <1>4, <3>1 DEF EntryAt, ll
    <3>4. IF e[4] \notin Compressed THEN raw = bytes ELSE d = [ok |-> TRUE, data |-> bytes]
      BY <3>2 DEF Carries
    <3> HIDE DEF raw, d, t
    <3>5. x = [cells |-> Len(e), data |-> bytes]
      BY <2>4, <3>3, <3>4
    <3> QED
      BY <1>2, <3>5 DEF r
  <2> QED
    BY <1>1, <1>2, <2>5, <2>6
<1> QED
  BY <1>3, <1>4

\* What becomes of a parameter: all of what the program left in it, or nothing.
Came(q, p, bytes, ok) ==
  /\ q = p \/ (HasEntry(p) /\ q = [p EXCEPT !.output = bytes])
  /\ ok /\ HasEntry(p) => q = [p EXCEPT !.output = bytes]
CameUpTo(n, acc, ps, left) ==
  Len(acc.params) = n /\ \A i \in 1 .. n : Came(acc.params[i], ps[i], left[i], acc.ok)

LEMMA OutputComes ==
  ASSUME NEW body \in Seq(Nat), NEW ps \in Seq(Parameter), NEW left, NEW n \in 1 .. Len(ps),
         NEW acc \in OutputsRead, CameUpTo(n - 1, acc, ps, left),
         NEW length \in Nat,
         LET x == EntryAt(body, acc.off) IN
         acc.ok /\ HasEntry(ps[n]) /\ x.cells # 0 => x = [cells |-> length, data |-> left[n]]
  PROVE  LET x == EntryAt(body, acc.off)
             next == WithOutput(body, ps[n], acc)
         IN  /\ CameUpTo(n, next, ps, left)
             /\ next.ok <=> acc.ok /\ (HasEntry(ps[n]) => x.cells # 0)
             /\ next.ok => next.off = acc.off + (IF HasEntry(ps[n]) THEN length ELSE 0)
<1> DEFINE p == ps[n]
           x == EntryAt(body, acc.off)
           next == WithOutput(body, p, acc)
           fills == acc.ok /\ HasEntry(p) /\ x.cells # 0
           q == IF fills THEN [p EXCEPT !.output = x.data] ELSE p
           qs == acc.params
<1>1. /\ next.ok = (acc.ok /\ (HasEntry(p) => x.cells # 0))
      /\ next.off = IF fills THEN acc.off + x.cells ELSE acc.off
      /\ next.params = Append(qs, q)
  BY DEF WithOutput
<1>2. acc.ok \in BOOLEAN /\ acc.off \in Nat /\ qs \in Seq(Parameter) /\ p \in Parameter /\ n \in Nat
  BY DEF OutputsRead
<1>3. x.cells \in Nat /\ x.data \in Seq(Nat)
  BY <1>2, EntryAtCells
<1>4. fills => x.cells = length /\ x.data = left[n]
  OBVIOUS
<1>5. q \in Parameter
  <2> HIDE DEF x, p, fills
  <2>1. [p EXCEPT !.output = x.data] \in Parameter
    BY <1>2, <1>3 DEF Parameter
  <2> QED
    BY <1>2, <2>1
<1>6. Came(q, p, left[n], next.ok)
  <2> HIDE DEF x, p, next
  <2>1. CASE fills
    <3>1. q = [p EXCEPT !.output = left[n]]
      BY <1>4, <2>1
    <3> QED
      BY <2>1, <3>1 DEF Came
  <2>2. CASE ~fills
    <3>1. q = p /\ ~(next.ok /\ HasEntry(p))
      BY <1>1, <2>2
    <3> QED
      BY <3>1 DEF Came
  <2> QED
    BY <2>1, <2>2
<1>7. Len(qs) = n - 1 /\ \A i \in 1 .. n - 1 : Came(qs[i], ps[i], left[i], acc.ok)
  BY DEF CameUpTo
<1>8. next.ok => acc.ok
  BY <1>1
<1>9. next.ok => next.off = acc.off + (IF HasEntry(p) THEN length ELSE 0)
  <2> HIDE DEF x, p, next
  <2> SUFFICES ASSUME next.ok PROVE next.off = acc.off + (IF HasEntry(p) THEN length ELSE 0)
    OBVIOUS
  <2>1. CASE HasEntry(p)
    BY <1>1, <1>2, <1>4, <2>1
  <2>2. CASE ~HasEntry(p)
    BY <1>1, <1>2, <2>2
  <2> QED
    BY <2>1, <2>2
<1> HIDE DEF q, next, x, fills, qs
<1>10. Len(next.params) = n /\ next.params[n] = q /\ \A i \in 1 .. n - 1 : next.params[i] = qs[i]
  BY <1>1, <1>2, <1>5, <1>7
<1>11. CameUpTo(n, next, ps, left)
  <2>1. ASSUME NEW i \in 1 .. n PROVE Came(next.params[i], ps[i], left[i], next.ok)
    <3>1. CASE i = n
      BY <1>6, <1>10, <3>1 DEF p
    <3>2. CASE i # n
      <4>1. i \in 1 .. n - 1
        BY <1>2, <3>2
      <4>2. Came(qs[i], ps[i], left[i], acc.ok) /\ next.params[i] = qs[i]
        BY <1>7, <1>10, <4>1
      <4> QED
        BY <1>8, <4>2 DEF Came
    <3> QED
      BY <3>1, <3>2
  <2> QED
    BY <1>10, <2>1 DEF CameUpTo
<1> QED
  BY <1>1, <1>9, <1>11 DEF next, x, p

\* The reply holds an entry for each output, with what the program left in it.
LEMMA OutputsLaid ==
  ASSUME NEW ps, FitAll(ps), NEW left \in Leavings(Views(ps)), NEW outputs \in Outputs(Views(ps), left)
  PROVE  \E es, at :
           /\ Holds(<<0, 0>> \o outputs, 0, 0, es, at) /\ Len(es) = Len(ps)
           /\ \A i \in 1 .. Len(ps) :
                 /\ left[i] \in Seq(Byte)
                 /\ HasEntry(ps[i]) => left[i] \in Contents /\ Carries(es[i], left[i])
                 /\ ~HasEntry(ps[i]) => es[i] = << >>
<1> DEFINE N == Len(ps)
           seen == Views(ps)
           may == [i \in DOMAIN seen |-> OutputEntries(seen[i], left[i])]
<1>1. N \in Nat /\ DOMAIN seen = 1 .. N /\ \A i \in 1 .. N : seen[i] = View(ps[i])
  BY DEF FitAll, Views
<1>2. PICK es \in [DOMAIN seen -> UNION Range(may)] :
        outputs = FlattenSeq(es) /\ \A i \in DOMAIN seen : es[i] \in may[i]
  BY DEF Outputs
<1>3. /\ DOMAIN es = 1 .. N /\ es = [i \in 1 .. N |-> es[i]]
      /\ \A i \in 1 .. N : es[i] \in OutputEntries(seen[i], left[i])
  BY <1>1, <1>2
<1> HIDE DEF may
<1>4. ASSUME NEW i \in 1 .. N
      PROVE  /\ HasEntry(seen[i]) <=> HasEntry(ps[i])
             /\ left[i] \in Contents \union {<< >>}
             /\ HasEntry(seen[i]) => left[i] \in Contents
  <2>1. seen[i].usage = ps[i].usage /\ seen[i].max = ps[i].max
    BY <1>1 DEF View
  <2>2. left[i] \in Contents
    BY <1>1 DEF Leavings
  <2> QED
    BY <2>1, <2>2 DEF HasEntry
<1>5. ASSUME NEW i \in 1 .. N PROVE left[i] \in Seq(Byte)
  <2>1. left[i] \in Contents \/ left[i] = << >>
    BY <1>4
  <2>2. Contents \subseteq Seq(Byte)
    BY RemoteAssumption DEF Byte
  <2>3. << >> \in Seq(Byte)
    OBVIOUS
  <2> QED
    BY <2>1, <2>2, <2>3
<1>6. ASSUME NEW i \in 1 .. N
      PROVE  /\ HasEntry(ps[i]) => left[i] \in Contents /\ Carries(es[i], left[i])
             /\ ~HasEntry(ps[i]) => es[i] = << >>
             /\ es[i] \in Seq(Nat)
  <2>1. es[i] \in OutputEntries(seen[i], left[i]) /\ left[i] \in Seq(Byte)
    BY <1>3, <1>5
  <2>2. CASE HasEntry(seen[i])
    <3>1. Carries(es[i], left[i])
      BY <2>1, <2>2, OutputEntryCarries
    <3> QED
      BY <1>4, <2>2, <3>1 DEF Carries
  <2>3. CASE ~HasEntry(seen[i])
    <3>1. es[i] = << >>
      BY <2>1, <2>3 DEF OutputEntries
    <3> QED
      BY <1>4, <2>3, <3>1
  <2> QED
    BY <2>2, <2>3
<1>7. es \in Seq(Seq(Nat)) /\ Len(es) = N
  BY <1>1, <1>3, <1>6
<1>8. PICK at : Holds(<<0, 0>> \o FlattenSeq(es), 0, 0, es, at)
  <2>1. 0 \in Nat
    OBVIOUS
  <2> QED
    BY <1>7, <2>1, BodyHolds
<1>9. Holds(<<0, 0>> \o outputs, 0, 0, es, at)
  BY <1>2, <1>8
<1> HIDE DEF seen
<1> QED
  BY <1>5, <1>6, <1>7, <1>9

\* What a caller gets.
Gets(out, ps, left, whole) ==
  /\ out.ok \in BOOLEAN /\ CameUpTo(Len(ps), out, ps, left) /\ out.params \in Seq(Parameter)
  /\ whole => out.ok

LEMMA OutputsCome ==
  ASSUME NEW ps, FitAll(ps), NEW left \in Leavings(Views(ps)), NEW outputs \in Outputs(Views(ps), left),
         NEW m \in 0 .. Len(<<0, 0>> \o outputs)
  PROVE  LET body == <<0, 0>> \o outputs IN
         /\ body \in Seq(Nat) /\ body[1] = 0 /\ Len(body) >= 2
         /\ Gets(ReadOutputs(SubSeq(body, 1, m), ps), ps, left, m = Len(body))
         /\ \A i \in 1 .. Len(ps) : HasEntry(ps[i]) => left[i] \in Contents
<1> DEFINE N == Len(ps)
           body == <<0, 0>> \o outputs
           r == SubSeq(body, 1, m)
<1>1. N \in Nat /\ ps \in Seq(Parameter)
  BY DEF FitAll
<1>2. PICK es, at :
        /\ Holds(body, 0, 0, es, at) /\ Len(es) = N
        /\ \A i \in 1 .. N :
              /\ left[i] \in Seq(Byte)
              /\ HasEntry(ps[i]) => left[i] \in Contents /\ Carries(es[i], left[i])
              /\ ~HasEntry(ps[i]) => es[i] = << >>
  BY OutputsLaid
<1> HIDE DEF body
<1>3. /\ body \in Seq(Nat) /\ Len(body) = 2 + at[N] /\ body[1] = 0
      /\ at[0] = 0 /\ \A n \in 0 .. N : at[n] \in 0 .. at[N]
      /\ \A n \in 1 .. N :
            /\ at[n] = at[n - 1] + Len(es[n])
            /\ \A k \in 1 .. Len(es[n]) : body[2 + at[n - 1] + k] = es[n][k]
  BY <1>2 DEF Holds
<1>4. at[N] \in Nat /\ Len(body) >= 2 /\ m \in Nat /\ m <= Len(body)
  <2>1. N \in 0 .. N
    BY <1>1
  <2>2. at[N] \in 0 .. at[N]
    BY <1>3, <2>1
  <2>3. at[N] \in Nat
    BY <2>2
  <2> QED
    BY <1>3, <2>3 DEF body
<1>5. r \in Seq(Nat)
  <2> DEFINE t == SubSeq(body, 0 + 1, 0 + m)
  <2>1. t \in Seq(Nat)
    BY <1>3, <1>4, Cut
  <2> QED
    BY <2>1
<1>6. PICK u : ReadsOutputs(r, ps, u)
  BY <1>1, <1>5, OutputSteps
<1> HIDE DEF r
<1> DEFINE Good(n) == /\ CameUpTo(n, u[n], ps, left)
                      /\ u[n].ok => u[n].off = 2 + at[n]
                      /\ m = Len(body) => u[n].ok
           S == {n \in 0 .. N : Good(n)}
<1>7. 0 \in S
  <2>1. u[0] = [ok |-> TRUE, off |-> ReplyHead, params |-> << >>]
    BY <1>6 DEF ReadsOutputs
  <2>2. u[0].ok /\ u[0].off = 2 /\ u[0].params = << >>
    BY <2>1 DEF ReplyHead
  <2>3. CameUpTo(0, u[0], ps, left)
    BY <2>2 DEF CameUpTo
  <2>4. Good(0)
    BY <1>3, <2>2, <2>3
  <2> HIDE DEF Good
  <2> QED
    BY <1>1, <2>4
<1>8. ASSUME NEW n \in 1 .. N, n - 1 \in S PROVE n \in S
  <2> DEFINE p == ps[n]
             acc == u[n - 1]
             x == EntryAt(r, acc.off)
             length == Len(es[n])
             a == 2 + at[n - 1]
  <2>1. CameUpTo(n - 1, acc, ps, left) /\ (acc.ok => acc.off = a) /\ (m = Len(body) => acc.ok)
    BY <1>8
  <2>2. acc \in OutputsRead /\ u[n] = WithOutput(r, p, acc)
    <3>1. n - 1 \in 0 .. N
      BY <1>1
    <3> QED
      BY <1>6, <3>1 DEF ReadsOutputs
  <2>3. n \in 0 .. N /\ n - 1 \in 0 .. N
    BY <1>1
  <2>4. /\ at[n] = at[n - 1] + length /\ at[n] \in 0 .. at[N] /\ at[n - 1] \in 0 .. at[N]
        /\ \A k \in 1 .. length : body[a + k] = es[n][k]
    BY <1>3, <2>3
  <2>5. HasEntry(p) => Carries(es[n], left[n])
    BY <1>2
  <2>6. ~HasEntry(p) => length = 0
    BY <1>2
  <2> HIDE DEF p, acc, x, length, a, Good
  <2>7. length \in Nat
    BY <2>5, <2>6 DEF Carries, length
  <2>8. a \in Nat /\ a + length <= Len(body) /\ a + length = 2 + at[n]
    <3> DEFINE b == at[n - 1]
               c == at[n]
               top == at[N]
    <3>1. c = b + length /\ c \in 0 .. top /\ b \in 0 .. top /\ top \in Nat /\ Len(body) = 2 + top /\ a = 2 + b
      BY <1>3, <1>4, <2>4 DEF a
    <3> HIDE DEF b, c, top
    <3>2. a \in Nat /\ a + length <= Len(body) /\ a + length = 2 + c
      BY <2>7, <3>1
    <3> QED
      BY <3>2 DEF c
  <2>9. ASSUME acc.ok /\ HasEntry(p)
        PROVE  /\ x.cells # 0 => x = [cells |-> length, data |-> left[n]]
               /\ m = Len(body) => x.cells # 0
    <3> DEFINE y == EntryAt(SubSeq(body, 1, m), a)
               e == es[n]
               bytes == left[n]
    <3>1. x = y
      BY <2>1, <2>9 DEF x, r
    <3>2. Carries(e, bytes) /\ a + Len(e) <= Len(body) /\ \A k \in 1 .. Len(e) : body[a + k] = e[k]
      BY <2>4, <2>5, <2>8, <2>9 DEF length
    <3>3. length = Len(e)
      BY DEF length
    <3> HIDE DEF e, bytes
    <3>4. (y.cells # 0 => y = [cells |-> Len(e), data |-> bytes]) /\ (a + Len(e) <= m => y.cells # 0)
      BY <1>3, <1>4, <2>8, <3>2, EntryRead
    <3> HIDE DEF y
    <3> QED
      BY <2>8, <3>1, <3>3, <3>4 DEF bytes
  <2> DEFINE next == WithOutput(r, p, acc)
  <2>10. /\ CameUpTo(n, next, ps, left)
         /\ next.ok <=> acc.ok /\ (HasEntry(p) => x.cells # 0)
         /\ next.ok => next.off = acc.off + (IF HasEntry(p) THEN length ELSE 0)
    BY <1>1, <1>5, <2>1, <2>2, <2>7, <2>9, OutputComes DEF p, x
  <2> HIDE DEF next
  <2>11. next.ok => next.off = 2 + at[n]
    <3> SUFFICES ASSUME next.ok PROVE next.off = 2 + at[n]
      OBVIOUS
    <3>1. acc.off = a
      BY <2>1, <2>10
    <3>2. next.off = a + length
      BY <2>6, <2>7, <2>8, <2>10, <3>1
    <3> QED
      BY <2>8, <3>2
  <2>12. m = Len(body) => next.ok
    BY <2>1, <2>9, <2>10
  <2>13. Good(n)
    BY <2>2, <2>10, <2>11, <2>12 DEF Good, next
  <2> QED
    BY <2>3, <2>13
<1> HIDE DEF S
<1>9. N \in S
  <2>1. \A n \in 0 .. N : n \in S
    BY <1>1, <1>7, <1>8, CountingUp
  <2> QED
    BY <1>1, <2>1
<1>10. Good(N)
  BY <1>9 DEF S
<1>11. ReadOutputs(r, ps) = u[N] /\ u[N] \in OutputsRead
  <2>1. N \in 0 .. N
    BY <1>1
  <2> QED
    BY <1>6, <2>1 DEF ReadsOutputs
<1>12. Gets(ReadOutputs(r, ps), ps, left, m = Len(body))
  <2>1. u[N].ok \in BOOLEAN /\ u[N].params \in Seq(Parameter)
    BY <1>11 DEF OutputsRead
  <2> QED
    BY <1>10, <1>11, <2>1 DEF Gets
<1>13. \A i \in 1 .. N : HasEntry(ps[i]) => left[i] \in Contents
  BY <1>2
<1> QED
  BY <1>3, <1>4, <1>12, <1>13 DEF body, r

-----------------------------------------------------------------------------
(***************************************************************************)
(* The messages of a reply: whatever it holds, they have their fields.     *)
(***************************************************************************)
Message == [MessageFields -> Seq(Nat)]

LEMMA FieldSet ==
  ASSUME NEW m \in Message, NEW f, NEW d \in Seq(Nat)
  PROVE  [m EXCEPT ![f] = d] \in Message
BY DEF Message

\* A part of a body, all of which is there.
LEMMA PartCells ==
  ASSUME NEW body \in Seq(Nat), NEW i \in Nat, NEW j \in Nat, i <= j, j <= Len(body)
  PROVE  SubSeq(body, i + 1, j) \in Seq(Nat)
<1> DEFINE l == j - i
           t == SubSeq(body, i + 1, j)
<1>1. l \in Nat /\ i + l = j /\ i + l <= Len(body) /\ t = SubSeq(body, i + 1, i + l)
  OBVIOUS
<1> HIDE DEF t, l
<1>2. t \in Seq(Nat)
  BY <1>1, Cut
<1> QED
  BY <1>2 DEF t

\* Reading goes on at a place in the body or stays at its end.
Reader == [off : Nat, data : Seq(Nat)]

LEMMA ReadersCells ==
  ASSUME NEW body \in Seq(Nat), NEW off \in Nat
  PROVE  /\ \A n \in Nat : ReadCells(body, off, n) \in Reader
         /\ ReadField(body, off) \in Reader
<1>1. ASSUME NEW at \in Nat, NEW n \in Nat PROVE ReadCells(body, at, n) \in Reader
  <2>1. CASE at + n > Len(body)
    BY <2>1 DEF ReadCells, ReaderAfter, Reader
  <2>2. CASE ~(at + n > Len(body))
    <3> DEFINE j == at + n
    <3>1. j \in Nat /\ at <= j /\ j <= Len(body)
      BY <2>2
    <3>2. ReadCells(body, at, n) = [off |-> j, data |-> SubSeq(body, at + 1, j)]
      BY <2>2 DEF ReadCells
    <3> HIDE DEF j
    <3>3. SubSeq(body, at + 1, j) \in Seq(Nat)
      BY <3>1, PartCells
    <3> QED
      BY <3>1, <3>2, <3>3 DEF Reader
  <2> QED
    BY <2>1, <2>2
<1>2. ReadField(body, off) \in Reader
  <2> DEFINE ll == ReadCells(body, off, 1)
  <2>1. ll \in Reader
    BY <1>1
  <2>2. ReadField(body, off) = IF ll.data = << >> THEN ll ELSE ReadCells(body, ll.off, ll.data[1])
    BY DEF ReadField
  <2> HIDE DEF ll
  <2>3. ll.off \in Nat /\ ll.data \in Seq(Nat)
    BY <2>1 DEF Reader
  <2>4. CASE ll.data = << >>
    BY <2>1, <2>2, <2>4
  <2>5. CASE ll.data # << >>
    <3>1. ll.data[1] \in Nat
      BY <2>3, <2>5
    <3> QED
      BY <1>1, <2>2, <2>3, <2>5, <3>1
  <2> QED
    BY <2>4, <2>5
<1> QED
  BY <1>1, <1>2

\* One field's turn.
FieldRead(body, f, acc) ==
  LET r == ReadField(body, acc.off) IN
  [off |-> r.off, m |-> IF f \in MessageFields THEN [acc.m EXCEPT ![f] = r.data] ELSE acc.m]
FieldsRead == [off : Nat, m : Message]

LEMMA FieldReadCells ==
  ASSUME NEW body \in Seq(Nat), NEW f, NEW acc \in FieldsRead
  PROVE  FieldRead(body, f, acc) \in FieldsRead
<1> DEFINE r == ReadField(body, acc.off)
           n == IF f \in MessageFields THEN [acc.m EXCEPT ![f] = r.data] ELSE acc.m
<1>1. acc.off \in Nat /\ acc.m \in Message
  BY DEF FieldsRead
<1>2. r.off \in Nat /\ r.data \in Seq(Nat)
  <2>1. r \in Reader
    BY <1>1, ReadersCells
  <2> HIDE DEF r
  <2> QED
    BY <2>1 DEF Reader
<1>3. FieldRead(body, f, acc) = [off |-> r.off, m |-> n]
  BY DEF FieldRead
<1> HIDE DEF r
<1>4. n \in Message
  BY <1>1, <1>2, FieldSet
<1> HIDE DEF n
<1> QED
  BY <1>2, <1>3, <1>4 DEF FieldsRead

FieldNames == MessageFields \union {"key", "libAsked", "unread"}

\* What has been read after each field.
ReadsFields(m, body, off, fields, u) ==
  /\ WithFields(m, body, off, fields) = u[Len(fields)].m
  /\ u[0] = [off |-> off, m |-> m]
  /\ \A n \in 0 .. Len(fields) : u[n] \in FieldsRead
  /\ \A n \in 1 .. Len(fields) : u[n] = FieldRead(body, fields[n], u[n - 1])

LEMMA FieldSteps ==
  ASSUME NEW body \in Seq(Nat), NEW m \in Message, NEW off \in Nat, NEW fields \in Seq(FieldNames)
  PROVE  \E u : ReadsFields(m, body, off, fields, u)
<1> DEFINE N == Len(fields)
           D == 0 .. N
           X == FieldsRead
           a == [off |-> off, m |-> m]
           Body(f) == [n \in D |-> IF n = 0 THEN a ELSE FieldRead(body, fields[n], f[n - 1])]
           g == CHOOSE f : f = Body(f)
           step == [n \in 1 .. N |-> [x \in X |-> FieldRead(body, fields[n], x)]]
<1>1. N \in Nat
  OBVIOUS
<1>2. WithFields(m, body, off, fields) = g[N].m
  BY DEF WithFields, FieldRead
<1>3. a \in X
  BY DEF FieldsRead
<1>4. ASSUME NEW n \in 1 .. N, NEW x \in X PROVE FieldRead(body, fields[n], x) \in X
  BY FieldReadCells
<1>5. step \in [1 .. N -> [X -> X]]
  BY <1>4
<1>6. \A n \in 1 .. N : \A x \in X : step[n][x] = FieldRead(body, fields[n], x)
  OBVIOUS
<1>7. \A n \in 1 .. N : n \in D /\ n # 0 /\ n - 1 \in D
  BY <1>1
<1>8. 0 \in D /\ N \in D /\ \A n \in D : n # 0 => n \in 1 .. N
  BY <1>1
<1> HIDE DEF N, D, X, a, g, step, Body
<1>9. PICK h : Iterates(h, N, X, a, step)
  <2>1. N \in Nat
    BY <1>1
  <2> QED
    BY <1>3, <1>5, <2>1, RecursionDefines
<1>10. h[0] = a /\ \A n \in 1 .. N : h[n] = FieldRead(body, fields[n], h[n - 1])
  <2>1. h[0] = a /\ \A n \in 1 .. N : h[n - 1] \in X /\ h[n] = step[n][h[n - 1]]
    BY <1>7, <1>9 DEF Iterates, D
  <2> QED
    BY <1>6, <2>1
<1>11. h = Body(h)
  <2>1. h = [n \in D |-> h[n]]
    BY <1>9 DEF Iterates, D
  <2>2. \A n \in D : h[n] = IF n = 0 THEN a ELSE FieldRead(body, fields[n], h[n - 1])
    BY <1>8, <1>10
  <2> QED
    BY <2>1, <2>2 DEF Body
<1>12. g = Body(g)
  BY <1>11 DEF g
<1>13. \A n \in D : g[n] = IF n = 0 THEN a ELSE FieldRead(body, fields[n], g[n - 1])
  <2>1. PICK f : f = g /\ g = Body(f)
    BY <1>12
  <2> QED
    BY <2>1 DEF Body
<1>14. g[0] = a /\ \A n \in 1 .. N : g[n] = FieldRead(body, fields[n], g[n - 1])
  BY <1>7, <1>8, <1>13
<1>15. \A n \in D : g[n] \in X
  <2> DEFINE S == {n \in D : g[n] \in X}
  <2>1. 0 \in S
    BY <1>3, <1>8, <1>14
  <2>2. \A n \in 1 .. N : n - 1 \in S => n \in S
    BY <1>4, <1>7, <1>14
  <2> HIDE DEF S
  <2>3. \A n \in 0 .. N : n \in S
    BY <1>1, <2>1, <2>2, CountingUp
  <2> QED
    BY <2>3 DEF S, D
<1> QED
  BY <1>2, <1>14, <1>15 DEF ReadsFields, N, D, X, a

LEMMA FieldLists ==
  Fields06 \in Seq(FieldNames) /\ Fields07 \in Seq(FieldNames)
<1>1. Fields06 \in Seq(FieldNames)
  BY DEF Fields06, FieldNames, MessageFields
<1>2. Fields07 \in Seq(FieldNames)
  <2> DEFINE s == <<"sev", "id", "type", "key", "file", "libAsked", "lib">>
             t == [i \in 1 .. 16 |-> "unread"]
             u == <<"sub", "text", "help">>
             st == s \o t
  <2>1. s \in Seq(FieldNames) /\ t \in Seq(FieldNames) /\ u \in Seq(FieldNames)
    BY DEF FieldNames, MessageFields
  <2>2. Fields07 = (s \o t) \o u
    BY DEF Fields07
  <2> HIDE DEF s, t, u
  <2>3. st \in Seq(FieldNames)
    <3>1. s \in Seq(FieldNames) /\ t \in Seq(FieldNames)
      BY <2>1
    <3> QED
      BY <3>1, Joined
  <2> HIDE DEF st
  <2>4. st \o u \in Seq(FieldNames)
    <3>1. st \in Seq(FieldNames) /\ u \in Seq(FieldNames)
      BY <2>1, <2>3
    <3> QED
      BY <3>1, Joined
  <2> QED
    BY <2>2, <2>4 DEF st
<1> QED
  BY <1>1, <1>2

LEMMA FieldsCells ==
  ASSUME NEW body \in Seq(Nat), NEW m \in Message, NEW off \in Nat, NEW fields \in Seq(FieldNames)
  PROVE  WithFields(m, body, off, fields) \in Message
<1>1. PICK u : ReadsFields(m, body, off, fields, u)
  BY FieldSteps
<1>2. u[Len(fields)] \in FieldsRead
  <2>1. Len(fields) \in 0 .. Len(fields)
    OBVIOUS
  <2> QED
    BY <1>1, <2>1 DEF ReadsFields
<1>3. u[Len(fields)].m \in Message
  BY <1>2 DEF FieldsRead
<1> QED
  BY <1>1, <1>3 DEF ReadsFields

LEMMA MessageCells ==
  ASSUME NEW body \in Seq(Nat), NEW off \in Nat, off + MessageHead <= Len(body)
  PROVE  MessageAt(body, off) \in Message
<1> DEFINE at == off + MessageHead
<1>1. at \in Nat /\ at <= Len(body)
  BY DEF MessageHead
<1>2. NoMessage \in Message
  BY DEF NoMessage, Message
<1>3. MessageAt(body, off) = CASE body[off + 3] = 6 -> Message06(body, at)
                               [] body[off + 3] = 7 -> Message07(body, at)
                               [] OTHER -> MessageClassic(body, at)
  BY DEF MessageAt
<1> HIDE DEF at
<1>4. Message06(body, at) \in Message
  <2> DEFINE r1 == ReadCells(body, at, 1)
             r2 == ReadCells(body, r1.off, 1)
             sev == ReadCells(body, r2.off, 1)
             m == [NoMessage EXCEPT !["sev"] = sev.data]
  <2>1. Message06(body, at) = WithFields(m, body, sev.off, Fields06)
    BY DEF Message06
  <2>2. r1 \in Reader
    BY <1>1, ReadersCells
  <2> HIDE DEF r1
  <2>3. r1.off \in Nat
    BY <2>2 DEF Reader
  <2>4. r2 \in Reader
    BY <2>3, ReadersCells
  <2> HIDE DEF r2
  <2>5. r2.off \in Nat
    BY <2>4 DEF Reader
  <2>6. sev \in Reader
    BY <2>5, ReadersCells
  <2> HIDE DEF sev
  <2>7. sev.off \in Nat /\ sev.data \in Seq(Nat)
    BY <2>6 DEF Reader
  <2>8. m \in Message
    BY <1>2, <2>7, FieldSet
  <2> HIDE DEF m
  <2> QED
    BY <2>1, <2>7, <2>8, FieldLists, FieldsCells
<1>5. Message07(body, at) \in Message
  BY <1>1, <1>2, FieldLists, FieldsCells DEF Message07
<1>6. MessageClassic(body, at) \in Message
  <2> DEFINE cell(i) == IF at + 5 <= Len(body) THEN <<body[at + i]>> ELSE << >>
             lengths == at + 7 <= Len(body)
             subEnd == at + 7 + body[at + 6]
             textEnd == subEnd + body[at + 7]
             slice(i, j) == IF j <= Len(body) THEN SubSeq(body, i + 1, j) ELSE << >>
             sub == IF lengths THEN slice(at + 7, subEnd) ELSE << >>
             text == IF lengths THEN slice(subEnd, textEnd) ELSE << >>
  <2>1. MessageClassic(body, at) =
          [NoMessage EXCEPT !["id"] = cell(1), !["type"] = cell(2), !["sev"] = cell(3),
                            !["file"] = cell(4), !["lib"] = cell(5), !["sub"] = sub, !["text"] = text]
    BY DEF MessageClassic
  <2>2. \A i \in 1 .. 5 : cell(i) \in Seq(Nat)
    <3> SUFFICES ASSUME NEW i \in 1 .. 5 PROVE cell(i) \in Seq(Nat)
      OBVIOUS
    <3>1. CASE at + 5 <= Len(body)
      <4>1. at + i \in 1 .. Len(body)
        BY <1>1, <3>1
      <4>2. body[at + i] \in Nat
        BY <4>1
      <4> QED
        BY <3>1, <4>2
    <3>2. CASE ~(at + 5 <= Len(body))
      BY <3>2
    <3> QED
      BY <3>1, <3>2
  <2>3. ASSUME NEW i \in Nat, NEW j \in Nat, i <= j PROVE slice(i, j) \in Seq(Nat)
    <3>1. CASE j <= Len(body)
      <4>1. SubSeq(body, i + 1, j) \in Seq(Nat)
        BY <2>3, <3>1, PartCells
      <4> QED
        BY <3>1, <4>1
    <3>2. CASE ~(j <= Len(body))
      BY <3>2
    <3> QED
      BY <3>1, <3>2
  <2>4. lengths => /\ at + 7 \in Nat /\ subEnd \in Nat /\ textEnd \in Nat
                   /\ at + 7 <= subEnd /\ subEnd <= textEnd
    <3> SUFFICES ASSUME lengths
                 PROVE  /\ at + 7 \in Nat /\ subEnd \in Nat /\ textEnd \in Nat
                        /\ at + 7 <= subEnd /\ subEnd <= textEnd
      OBVIOUS
    <3>1. body[at + 6] \in Nat /\ body[at + 7] \in Nat
      BY <1>1
    <3> QED
      BY <1>1, <3>1
  <2> HIDE DEF cell, slice, subEnd, textEnd
  <2>5. sub \in Seq(Nat) /\ text \in Seq(Nat)
    <3>1. CASE lengths
      BY <2>3, <2>4, <3>1
    <3>2. CASE ~lengths
      BY <3>2
    <3> QED
      BY <3>1, <3>2
  <2> HIDE DEF sub, text, lengths
  <2>6. /\ cell(1) \in Seq(Nat) /\ cell(2) \in Seq(Nat) /\ cell(3) \in Seq(Nat)
        /\ cell(4) \in Seq(Nat) /\ cell(5) \in Seq(Nat)
    BY <2>2
  <2> DEFINE m1 == [NoMessage EXCEPT !["id"] = cell(1)]
             m2 == [m1 EXCEPT !["type"] = cell(2)]
             m3 == [m2 EXCEPT !["sev"] = cell(3)]
             m4 == [m3 EXCEPT !["file"] = cell(4)]
             m5 == [m4 EXCEPT !["lib"] = cell(5)]
             m6 == [m5 EXCEPT !["sub"] = sub]
             m7 == [m6 EXCEPT !["text"] = text]
  <2>7. MessageClassic(body, at) = m7
    BY <2>1
  <2>8. m1 \in Message
    BY <1>2, <2>6, FieldSet
  <2> HIDE DEF m1
  <2>9. m2 \in Message
    BY <2>6, <2>8, FieldSet
  <2> HIDE DEF m2
  <2>10. m3 \in Message
    BY <2>6, <2>9, FieldSet
  <2> HIDE DEF m3
  <2>11. m4 \in Message
    BY <2>6, <2>10, FieldSet
  <2> HIDE DEF m4
  <2>12. m5 \in Message
    BY <2>6, <2>11, FieldSet
  <2> HIDE DEF m5
  <2>13. m6 \in Message
    BY <2>5, <2>12, FieldSet
  <2> HIDE DEF m6
  <2>14. m7 \in Message
    BY <2>5, <2>13, FieldSet
  <2> QED
    BY <2>7, <2>14
<1> QED
  BY <1>3, <1>4, <1>5, <1>6

\* One message's turn.
MessageRead(body, acc) ==
  IF ~acc.more \/ acc.off + MessageHead > Len(body) THEN acc
  ELSE [off |-> acc.off + body[acc.off + 1],
        list |-> Append(acc.list, MessageAt(body, acc.off)),
        more |-> body[acc.off + 1] # 0]
MessagesRead == [off : Nat, list : Seq(Message), more : BOOLEAN]

LEMMA MessageReadCells ==
  ASSUME NEW body \in Seq(Nat), NEW acc \in MessagesRead
  PROVE  MessageRead(body, acc) \in MessagesRead
<1>1. acc.off \in Nat /\ acc.list \in Seq(Message)
  BY DEF MessagesRead
<1>2. CASE ~acc.more \/ acc.off + MessageHead > Len(body)
  BY <1>2 DEF MessageRead
<1>3. CASE ~(~acc.more \/ acc.off + MessageHead > Len(body))
  <2> DEFINE m == MessageAt(body, acc.off)
             ll == body[acc.off + 1]
             more == ll # 0
  <2>1. ll \in Nat /\ acc.off + MessageHead <= Len(body)
    BY <1>1, <1>3 DEF MessageHead
  <2>2. m \in Message
    BY <1>1, <2>1, MessageCells
  <2>3. MessageRead(body, acc) = [off |-> acc.off + ll, list |-> Append(acc.list, m), more |-> more]
    BY <1>3 DEF MessageRead
  <2>4. more \in BOOLEAN
    OBVIOUS
  <2> HIDE DEF m, ll, more
  <2>5. Append(acc.list, m) \in Seq(Message) /\ acc.off + ll \in Nat
    BY <1>1, <2>1, <2>2
  <2> QED
    BY <2>3, <2>4, <2>5 DEF MessagesRead
<1> QED
  BY <1>2, <1>3

\* What has been read after each message.
ReadsMessages(body, u) ==
  /\ ParseMessages(body) = u[body[2]].list
  /\ u[0] = [off |-> ReplyHead, list |-> << >>, more |-> TRUE]
  /\ \A n \in 0 .. body[2] : u[n] \in MessagesRead
  /\ \A n \in 1 .. body[2] : u[n] = MessageRead(body, u[n - 1])

LEMMA MessageSteps ==
  ASSUME NEW body \in Seq(Nat), Len(body) >= ReplyHead
  PROVE  \E u : ReadsMessages(body, u)
<1> DEFINE N == body[2]
           D == 0 .. N
           X == MessagesRead
           a == [off |-> ReplyHead, list |-> << >>, more |-> TRUE]
           Body(f) == [n \in D |-> IF n = 0 THEN a ELSE MessageRead(body, f[n - 1])]
           g == CHOOSE f : f = Body(f)
           step == [n \in 1 .. N |-> [x \in X |-> MessageRead(body, x)]]
<1>1. N \in Nat
  BY DEF ReplyHead
<1>2. ParseMessages(body) = g[N].list
  <2>1. ~(Len(body) < ReplyHead)
    BY DEF ReplyHead
  <2> QED
    BY <2>1 DEF ParseMessages, MessageRead
<1>3. a \in X
  BY DEF MessagesRead, ReplyHead
<1>4. ASSUME NEW x \in X PROVE MessageRead(body, x) \in X
  BY MessageReadCells
<1>5. step \in [1 .. N -> [X -> X]]
  BY <1>4
<1>6. \A n \in 1 .. N : \A x \in X : step[n][x] = MessageRead(body, x)
  OBVIOUS
<1>7. \A n \in 1 .. N : n \in D /\ n # 0 /\ n - 1 \in D
  BY <1>1
<1>8. 0 \in D /\ N \in D /\ \A n \in D : n # 0 => n \in 1 .. N
  BY <1>1
<1> HIDE DEF N, D, X, a, g, step, Body
<1>9. PICK h : Iterates(h, N, X, a, step)
  BY <1>1, <1>3, <1>5, RecursionDefines
<1>10. h[0] = a /\ \A n \in 1 .. N : h[n] = MessageRead(body, h[n - 1])
  <2>1. h[0] = a /\ \A n \in 1 .. N : h[n - 1] \in X /\ h[n] = step[n][h[n - 1]]
    BY <1>7, <1>9 DEF Iterates, D
  <2> QED
    BY <1>6, <2>1
<1>11. h = Body(h)
  <2>1. h = [n \in D |-> h[n]]
    BY <1>9 DEF Iterates, D
  <2>2. \A n \in D : h[n] = IF n = 0 THEN a ELSE MessageRead(body, h[n - 1])
    BY <1>8, <1>10
  <2> QED
    BY <2>1, <2>2 DEF Body
<1>12. g = Body(g)
  BY <1>11 DEF g
<1>13. \A n \in D : g[n] = IF n = 0 THEN a ELSE MessageRead(body, g[n - 1])
  <2>1. PICK f : f = g /\ g = Body(f)
    BY <1>12
  <2> QED
    BY <2>1 DEF Body
<1>14. g[0] = a /\ \A n \in 1 .. N : g[n] = MessageRead(body, g[n - 1])
  BY <1>7, <1>8, <1>13
<1>15. \A n \in D : g[n] \in X
  <2> DEFINE S == {n \in D : g[n] \in X}
  <2>1. 0 \in S
    BY <1>3, <1>8, <1>14
  <2>2. \A n \in 1 .. N : n - 1 \in S => n \in S
    BY <1>4, <1>7, <1>14
  <2> HIDE DEF S
  <2>3. \A n \in 0 .. N : n \in S
    BY <1>1, <2>1, <2>2, CountingUp
  <2> QED
    BY <2>3 DEF S, D
<1> QED
  BY <1>2, <1>14, <1>15 DEF ReadsMessages, N, D, X, a

LEMMA MessagesCells ==
  ASSUME NEW body \in Seq(Nat)
  PROVE  ParseMessages(body) \in Seq(Message)
<1>1. CASE Len(body) < ReplyHead
  <2>1. ParseMessages(body) = << >>
    BY <1>1 DEF ParseMessages
  <2> QED
    BY <2>1
<1>2. CASE ~(Len(body) < ReplyHead)
  <2>1. Len(body) >= ReplyHead
    BY <1>2 DEF ReplyHead
  <2>2. PICK u : ReadsMessages(body, u)
    BY <2>1, MessageSteps
  <2>3. body[2] \in 0 .. body[2]
    BY <2>1 DEF ReplyHead
  <2>4. u[body[2]] \in MessagesRead
    BY <2>2, <2>3 DEF ReadsMessages
  <2>5. u[body[2]].list \in Seq(Message)
    BY <2>4 DEF MessagesRead
  <2> QED
    BY <2>2, <2>5 DEF ReadsMessages
<1> QED
  BY <1>1, <1>2

\* What the server sends of the messages is made of numbers.
LEMMA SequencesJoined ==
  ASSUME NEW n \in Nat, NEW part, \A i \in 1 .. n : part[i] \in Seq(Nat)
  PROVE  FlattenSeq([i \in 1 .. n |-> part[i]]) \in Seq(Nat)
<1> DEFINE es == [i \in 1 .. n |-> part[i]]
<1>1. es \in Seq(Seq(Nat))
  OBVIOUS
<1> HIDE DEF es
<1>2. FlattenSeq(es) \in Seq(Nat)
  BY <1>1, Flattened
<1> QED
  BY <1>2 DEF es

LEMMA FieldsOfCells ==
  ASSUME NEW m \in Message, NEW names \in Seq(FieldNames)
  PROVE  Fields(m, names) \in Seq(Nat)
<1> DEFINE N == Len(names)
           part == [i \in 1 .. N |-> FieldOf(m, names[i])]
<1>1. N \in Nat /\ DOMAIN names = 1 .. N
  OBVIOUS
<1>2. ASSUME NEW d \in Seq(Nat) PROVE Prefixed(d) \in Seq(Nat)
  <2> DEFINE head == <<Len(d)>>
  <2>1. head \in Seq(Nat) /\ d \in Seq(Nat)
    OBVIOUS
  <2> HIDE DEF head
  <2>2. head \o d \in Seq(Nat)
    BY <2>1, Joined
  <2> QED
    BY <2>2 DEF Prefixed, head
<1>3. \A f : FieldOf(m, f) \in Seq(Nat)
  <2> SUFFICES ASSUME NEW f PROVE FieldOf(m, f) \in Seq(Nat)
    OBVIOUS
  <2>1. CASE f \in MessageFields
    <3>1. m[f] \in Seq(Nat)
      BY <2>1 DEF Message
    <3> QED
      BY <1>2, <2>1, <3>1 DEF FieldOf
  <2>2. CASE f \notin MessageFields
    <3>1. <<1>> \in Seq(Nat)
      OBVIOUS
    <3> QED
      BY <1>2, <2>2, <3>1 DEF FieldOf
  <2> QED
    BY <2>1, <2>2
<1>4. \A i \in 1 .. N : part[i] = FieldOf(m, names[i]) /\ part[i] \in Seq(Nat)
  BY <1>3
<1>5. Fields(m, names) = FlattenSeq([i \in 1 .. N |-> part[i]])
  BY <1>1 DEF Fields
<1> HIDE DEF part, N
<1> QED
  BY <1>1, <1>4, <1>5, SequencesJoined

LEMMA EntryOfMessageCells ==
  ASSUME NEW m \in Message, NEW format
  PROVE  MessageEntry(m, format) \in Seq(Nat)
<1>1. ASSUME NEW s \in Seq(Nat) PROVE Sized(s) \in Seq(Nat)
  <2> DEFINE head == <<1 + Len(s)>>
  <2>1. head \in Seq(Nat) /\ s \in Seq(Nat)
    OBVIOUS
  <2> HIDE DEF head
  <2>2. head \o s \in Seq(Nat)
    BY <2>1, Joined
  <2> QED
    BY <2>2 DEF Sized, head
<1>2. \A s, t \in Seq(Nat) : s \o t \in Seq(Nat)
  <2> SUFFICES ASSUME NEW s \in Seq(Nat), NEW t \in Seq(Nat) PROVE s \o t \in Seq(Nat)
    OBVIOUS
  <2> QED
    BY Joined
<1>3. \A f \in MessageFields : m[f] \in Seq(Nat)
  BY DEF Message
<1>4. {"id", "type", "sev", "file", "lib", "sub", "text"} \subseteq MessageFields
  BY DEF MessageFields
<1> DEFINE six == <<0, 6, 37, 37>> \o m["sev"] \o Fields(m, Fields06)
           seven == <<0, 7>> \o Fields(m, Fields07)
           classic == <<0, 0>> \o m["id"] \o m["type"] \o m["sev"] \o m["file"] \o m["lib"]
                      \o <<Len(m["sub"]), Len(m["text"])>> \o m["sub"] \o m["text"]
<1>5. six \in Seq(Nat)
  <2> DEFINE a == <<0, 6, 37, 37>>
             b == m["sev"]
             c == Fields(m, Fields06)
             ab == a \o b
  <2>1. a \in Seq(Nat) /\ b \in Seq(Nat) /\ c \in Seq(Nat)
    BY <1>3, <1>4, FieldLists, FieldsOfCells
  <2> HIDE DEF a, b, c
  <2>2. ab \in Seq(Nat)
    BY <1>2, <2>1
  <2> HIDE DEF ab
  <2>3. ab \o c \in Seq(Nat)
    BY <1>2, <2>1, <2>2
  <2> QED
    BY <2>3 DEF ab, a, b, c
<1>6. seven \in Seq(Nat)
  <2> DEFINE a == <<0, 7>>
             b == Fields(m, Fields07)
  <2>1. a \in Seq(Nat) /\ b \in Seq(Nat)
    BY FieldLists, FieldsOfCells
  <2> HIDE DEF a, b
  <2>2. a \o b \in Seq(Nat)
    BY <1>2, <2>1
  <2> QED
    BY <2>2 DEF a, b
<1>7. classic \in Seq(Nat)
  <2> DEFINE a == <<0, 0>>
             b == m["id"]
             c == m["type"]
             d == m["sev"]
             e == m["file"]
             f == m["lib"]
             g == <<Len(m["sub"]), Len(m["text"])>>
             h == m["sub"]
             i == m["text"]
  <2>1. /\ a \in Seq(Nat) /\ b \in Seq(Nat) /\ c \in Seq(Nat) /\ d \in Seq(Nat) /\ e \in Seq(Nat)
        /\ f \in Seq(Nat) /\ h \in Seq(Nat) /\ i \in Seq(Nat)
    BY <1>3, <1>4
  <2>2. g \in Seq(Nat)
    <3> HIDE DEF h, i
    <3>1. Len(h) \in Nat /\ Len(i) \in Nat
      BY <2>1
    <3>2. g = <<Len(h), Len(i)>>
      BY DEF h, i
    <3> HIDE DEF g
    <3> QED
      BY <3>1, <3>2
  <2>3. classic = a \o b \o c \o d \o e \o f \o g \o h \o i
    OBVIOUS
  <2> HIDE DEF a, b, c, d, e, f, g, h, i, classic
  <2> DEFINE ab == a \o b
  <2>4. ab \in Seq(Nat)
    BY <1>2, <2>1
  <2> HIDE DEF ab
  <2> DEFINE abc == ab \o c
  <2>5. abc \in Seq(Nat)
    BY <1>2, <2>1, <2>4
  <2> HIDE DEF abc
  <2> DEFINE abcd == abc \o d
  <2>6. abcd \in Seq(Nat)
    BY <1>2, <2>1, <2>5
  <2> HIDE DEF abcd
  <2> DEFINE abcde == abcd \o e
  <2>7. abcde \in Seq(Nat)
    BY <1>2, <2>1, <2>6
  <2> HIDE DEF abcde
  <2> DEFINE af == abcde \o f
  <2>8. af \in Seq(Nat)
    BY <1>2, <2>1, <2>7
  <2> HIDE DEF af
  <2> DEFINE ag == af \o g
  <2>9. ag \in Seq(Nat)
    BY <1>2, <2>2, <2>8
  <2> HIDE DEF ag
  <2> DEFINE ah == ag \o h
  <2>10. ah \in Seq(Nat)
    BY <1>2, <2>1, <2>9
  <2> HIDE DEF ah
  <2>11. ah \o i \in Seq(Nat)
    BY <1>2, <2>1, <2>10
  <2> QED
    BY <2>3, <2>11 DEF ah, ag, af, abcde, abcd, abc, ab
<1>8. MessageEntry(m, format) = Sized(CASE format = 6 -> six [] format = 7 -> seven [] OTHER -> classic)
  BY DEF MessageEntry
<1> HIDE DEF six, seven, classic
<1> DEFINE cells == CASE format = 6 -> six [] format = 7 -> seven [] OTHER -> classic
<1>9. cells \in Seq(Nat)
  <2>1. CASE format = 6
    BY <1>5, <2>1
  <2>2. CASE format = 7
    BY <1>6, <2>2
  <2>3. CASE format # 6 /\ format # 7
    BY <1>7, <2>3
  <2> QED
    BY <2>1, <2>2, <2>3
<1> HIDE DEF cells
<1>10. Sized(cells) \in Seq(Nat)
  BY <1>1, <1>9
<1> QED
  BY <1>8, <1>10 DEF cells

LEMMA MessageReplyCells ==
  ASSUME NEW list \in MessageLists, NEW code, NEW format
  PROVE  MessageReply(Attached(code, list), format) \in Seq(Nat)
<1> DEFINE shown == Attached(code, list)
           N == Len(shown)
           part == [i \in 1 .. N |-> MessageEntry(shown[i], format)]
<1>1. list \in Seq(Message)
  BY RemoteAssumption DEF Message
<1>2. shown \in Seq(Message)
  <2> DEFINE n == IF Len(list) < FewMessages THEN Len(list) ELSE FewMessages
  <2>1. Len(list) \in Nat /\ n \in Nat /\ 0 + n <= Len(list)
    BY <1>1, RemoteAssumption
  <2> HIDE DEF n
  <2>2. SubSeq(list, 0 + 1, 0 + n) \in Seq(Message)
    <3>1. 0 \in Nat /\ n \in Nat /\ 0 + n <= Len(list)
      BY <2>1
    <3> QED
      BY <1>1, <3>1, Cut
  <2>3. SubSeq(list, 1, n) \in Seq(Message)
    BY <2>1, <2>2
  <2>4. shown \in {<< >>, list, SubSeq(list, 1, n)}
    BY DEF Attached, n
  <2>5. << >> \in Seq(Message)
    OBVIOUS
  <2> QED
    BY <1>1, <2>3, <2>4, <2>5
<1> HIDE DEF shown
<1>3. N \in Nat /\ DOMAIN shown = 1 .. N /\ \A i \in 1 .. N : shown[i] \in Message
  BY <1>2
<1>4. \A i \in 1 .. N : part[i] \in Seq(Nat)
  BY <1>3, EntryOfMessageCells
<1>5. MessageReply(shown, format) = <<N>> \o FlattenSeq([i \in 1 .. N |-> part[i]])
  BY <1>3 DEF MessageReply
<1> HIDE DEF part, N
<1> DEFINE head == <<N>>
           rest == FlattenSeq([i \in 1 .. N |-> part[i]])
<1>6. head \in Seq(Nat) /\ rest \in Seq(Nat)
  BY <1>3, <1>4, SequencesJoined
<1> HIDE DEF head, rest
<1>7. head \o rest \in Seq(Nat)
  BY <1>6, Joined
<1> QED
  BY <1>5, <1>7 DEF head, rest, shown

-----------------------------------------------------------------------------
(***************************************************************************)
(* The inductive invariant of the remote command client and its server.    *)
(***************************************************************************)
RemoteTypes ==
  /\ status \in {"new", "loggedOn", "idle", "calling", "lost", "closed"}
  /\ level \in Levels \union {0}
  /\ option \in Options
  /\ outcome \in {"none", "unsent", "failed", "refused", "done"}
  /\ calls \in 0 .. MaxCalls
  /\ FitAll(params)
  /\ messages \in Seq(Message)

\* A request is the one of the call's parameters and option; nobody has read it.
Requested ==
  \/ request = None
  \/ /\ status \in {"calling", "lost", "closed"} /\ job = Unasked /\ reply = None
     /\ \/ request = <<ProgramRequest(params, option)>>
        \/ params = << >> /\ request = << <<OptionCode(option)>> >>

\* What a program saw, and left, are the parameters of the call.
Served ==
  /\ job.did \in {"nothing", "refused", "run"}
  /\ job.did = "run" /\ params # << >> => job.seen = Views(params) /\ job.left \in Leavings(job.seen)

\* A reply tells what was done, and of a program all of its outputs, if whole.
ReplyTells(body) ==
  /\ body \in Seq(Nat) /\ job.did \in {"refused", "run"}
  /\ job.whole => body # << >>
  /\ body # << >> => body[1] = IF job.did = "run" THEN 0 ELSE 1024
  /\ job.did = "run" /\ params # << >> =>
       \E outputs \in Outputs(job.seen, job.left) : \E m \in 0 .. Len(<<0, 0>> \o outputs) :
          /\ body = SubSeq(<<0, 0>> \o outputs, 1, m)
          /\ job.whole <=> m = Len(<<0, 0>> \o outputs)
Replied ==
  \/ reply = None
  \/ /\ status \in {"calling", "lost", "closed"} /\ request = None
     /\ reply = <<Head(reply)>> /\ ReplyTells(Head(reply))

Ended ==
  /\ status = "calling" => outcome = "none"
  /\ outcome = "done" => job.did = "run"
  /\ outcome = "refused" => job.did = "refused"
  /\ outcome = "unsent" => job.did = "nothing"

RemoteInv ==
  RemoteTypes /\ Requested /\ Served /\ Replied /\ Ended

LEMMA RemoteStarts ==
  ASSUME RemoteInit
  PROVE  RemoteInv
<1>1. FitAll(<< >>)
  <2>1. << >> \in Seq(Parameter) /\ Len(<< >>) = 0
    OBVIOUS
  <2> QED
    BY <2>1 DEF FitAll
<1>2. RemoteTypes
  <2>1. << >> \in Seq(Message) /\ MaxCalls \in Nat
    BY RemoteAssumption
  <2> QED
    BY <1>1, <2>1 DEF RemoteInit, RemoteTypes, Options
<1>3. Requested /\ Replied
  BY DEF RemoteInit, Requested, Replied
<1>4. Served /\ Ended
  BY DEF RemoteInit, Served, Ended, Unasked
<1> QED
  BY <1>2, <1>3, <1>4 DEF RemoteInv

\* The request does not depend on what a step leaves alone.
LEMMA RequestSame ==
  ASSUME level' = level
  PROVE  /\ ProgramRequest(params, option)' = ProgramRequest(params', option')
         /\ OptionCode(option)' = OptionCode(option')
BY DEF ProgramRequest, OptionCode, UsageCode, Sent

LEMMA LevelNat ==
  ASSUME RemoteTypes
  PROVE  level \in Nat
BY RemoteAssumption DEF RemoteTypes

\* Nothing of the remote client's moves.
LEMMA RemoteStays ==
  ASSUME RemoteInv, UNCHANGED remoteVars
  PROVE  RemoteInv'
<1> USE DEF RemoteInv, remoteVars
<1>1. RemoteTypes'
  BY DEF RemoteTypes, FitAll, Fits, Options
<1>2. Requested'
  BY RequestSame DEF Requested
<1>3. Served'
  BY DEF Served
<1>4. Replied'
  BY DEF Replied, ReplyTells
<1>5. Ended'
  BY DEF Ended
<1> QED
  BY <1>1, <1>2, <1>3, <1>4, <1>5

\* Connecting.
LEMMA LogonKeeps ==
  ASSUME RemoteInv, Logon \/ ExchangeAttributes
  PROVE  RemoteInv'
<1>1. /\ request = None /\ reply = None /\ status # "calling"
      /\ status' \in {"loggedOn", "idle", "closed"}
      /\ level' = level \/ level' \in Levels
      /\ UNCHANGED <<params, option, outcome, messages, request, reply, job, calls>>
  BY DEF RemoteInv, Requested, Replied, Logon, ExchangeAttributes
<1>2. RemoteTypes'
  BY <1>1 DEF RemoteInv, RemoteTypes, FitAll, Fits, Options
<1>3. Requested' /\ Replied'
  BY <1>1 DEF Requested, Replied
<1>4. Served'
  BY <1>1 DEF RemoteInv, Served
<1>5. Ended'
  BY <1>1 DEF RemoteInv, Ended
<1> QED
  BY <1>2, <1>3, <1>4, <1>5 DEF RemoteInv

\* An exchange that fails, and the end.
LEMMA CloseKeeps ==
  ASSUME RemoteInv, CallFails \/ Close
  PROVE  RemoteInv'
<1>1. /\ status \in {"idle", "calling", "lost"} /\ status' \in {"lost", "closed"}
      /\ UNCHANGED <<level, params, option, request, reply, job, calls>>
      /\ \/ outcome' = "failed" /\ messages' = << >>
         \/ UNCHANGED <<outcome, messages>>
  BY DEF CallFails, Close, Returns
<1>2. RemoteTypes'
  <2>1. messages' \in Seq(Message)
    <3>1. messages \in Seq(Message) /\ << >> \in Seq(Message)
      BY DEF RemoteInv, RemoteTypes
    <3> QED
      BY <1>1, <3>1
  <2> QED
    BY <1>1, <2>1 DEF RemoteInv, RemoteTypes, FitAll, Fits, Options
<1>3. Requested'
  BY <1>1, RequestSame DEF RemoteInv, Requested
<1>4. Replied'
  BY <1>1 DEF RemoteInv, Replied, ReplyTells
<1>5. Served'
  BY <1>1 DEF RemoteInv, Served
<1>6. Ended'
  BY <1>1 DEF RemoteInv, Ended
<1> QED
  BY <1>2, <1>3, <1>4, <1>5, <1>6 DEF RemoteInv

\* Parameters with other input fit as well.
LEMMA InputsFit ==
  ASSUME NEW ps, FitAll(ps), NEW qs \in WithInputs(ps)
  PROVE  FitAll(qs)
<1> DEFINE N == Len(ps)
<1>1. N \in Nat /\ DOMAIN ps = 1 .. N /\ \A i \in 1 .. N : ps[i] \in Parameter /\ Fits(ps[i])
  BY DEF FitAll
<1>2. PICK in \in [DOMAIN ps -> Contents \union {<< >>}] :
        /\ \A i \in DOMAIN ps : in[i] \in Inputs(ps[i])
        /\ qs = [i \in DOMAIN ps |-> [ps[i] EXCEPT !.input = in[i]]]
  BY DEF WithInputs
<1> HIDE DEF N
<1>3. ASSUME NEW i \in 1 .. N PROVE qs[i] \in Parameter /\ Fits(qs[i])
  <2> DEFINE p == ps[i]
             d == in[i]
  <2>1. qs[i] = [p EXCEPT !.input = d]
    BY <1>1, <1>2
  <2>2. p \in Parameter /\ Fits(p) /\ d \in Inputs(p)
    BY <1>1, <1>2
  <2> HIDE DEF p, d
  <2>3. /\ d \in Seq(Byte) /\ Len(d) <= p.max
        /\ p.usage \notin {"input", "inout"} => d = << >>
    <3>1. p.max \in Nat
      BY <2>2 DEF Fits
    <3>2. CASE p.usage \in {"input", "inout"}
      <4>1. d \in Contents /\ Len(d) <= p.max
        BY <2>2, <3>2 DEF Inputs
      <4>2. d \in Seq(Byte)
        BY <4>1, RemoteAssumption DEF Byte
      <4> QED
        BY <3>2, <4>1, <4>2
    <3>3. CASE p.usage \notin {"input", "inout"}
      <4>1. d = << >>
        BY <2>2, <3>3 DEF Inputs
      <4> QED
        BY <3>1, <4>1
    <3> QED
      BY <3>2, <3>3
  <2> DEFINE q == [p EXCEPT !.input = d]
  <2>4. q \in Parameter
    BY <2>2, <2>3 DEF Parameter
  <2>5. p \in [usage : Usages, max : Nat, input : Seq(Byte), output : Contents \union {<< >>}]
    BY <2>2 DEF Fits
  <2>6. q \in [usage : Usages, max : Nat, input : Seq(Byte), output : Contents \union {<< >>}]
    BY <2>3, <2>5
  <2>7. q.input = d /\ q.max = p.max /\ q.usage = p.usage
    BY <2>5
  <2> HIDE DEF q
  <2>8. Fits(q)
    BY <2>3, <2>6, <2>7 DEF Fits
  <2> QED
    BY <2>1, <2>4, <2>8 DEF q
<1>4. qs = [i \in 1 .. N |-> qs[i]] /\ DOMAIN qs = 1 .. N
  BY <1>1, <1>2
<1>5. qs \in Seq(Parameter) /\ Len(qs) = N
  BY <1>1, <1>3, <1>4
<1> QED
  BY <1>3, <1>5 DEF FitAll

LEMMA NewFit ==
  ASSUME NEW ps \in NewParams
  PROVE  FitAll(ps)
<1>1. PICK s \in Signatures :
        ps \in WithInputs([i \in DOMAIN s |-> [usage |-> s[i].usage, max |-> s[i].max,
                                               input |-> << >>, output |-> << >>]])
  BY DEF NewParams
<1> DEFINE qs == [i \in DOMAIN s |-> [usage |-> s[i].usage, max |-> s[i].max, input |-> << >>, output |-> << >>]]
           N == Len(s)
<1>2. N \in Nat /\ DOMAIN s = 1 .. N /\ \A i \in 1 .. N : s[i] \in [usage : Usages, max : Nat]
  <2> DEFINE R == [usage : Usages, max : Nat]
  <2>1. s \in Seq(R)
    BY RemoteAssumption
  <2> HIDE DEF R
  <2>2. Len(s) \in Nat /\ DOMAIN s = 1 .. Len(s) /\ \A i \in 1 .. Len(s) : s[i] \in R
    BY <2>1
  <2> QED
    BY <2>2 DEF R
<1> HIDE DEF N
<1>3. ASSUME NEW i \in 1 .. N PROVE qs[i] \in Parameter /\ Fits(qs[i])
  <2> DEFINE q == [usage |-> s[i].usage, max |-> s[i].max, input |-> << >>, output |-> << >>]
  <2>1. qs[i] = q
    BY <1>2
  <2>2. s[i].usage \in Usages /\ s[i].max \in Nat
    BY <1>2
  <2>3. << >> \in Seq(Byte) /\ << >> \in Seq(Nat) /\ Len(<< >>) <= s[i].max
    BY <2>2
  <2>4. q \in Parameter
    BY <2>2, <2>3 DEF Parameter
  <2>5. Fits(q)
    BY <2>2, <2>3 DEF Fits
  <2> HIDE DEF q
  <2> QED
    BY <2>1, <2>4, <2>5
<1>4. qs = [i \in 1 .. N |-> qs[i]] /\ DOMAIN qs = 1 .. N
  BY <1>2
<1>5. ps \in WithInputs(qs)
  BY <1>1
<1> HIDE DEF qs
<1>6. qs \in Seq(Parameter) /\ Len(qs) = N
  BY <1>2, <1>3, <1>4
<1>7. FitAll(qs)
  BY <1>3, <1>6 DEF FitAll
<1> QED
  BY <1>5, <1>7, InputsFit

\* A call up to its request.
LEMMA CallKeeps ==
  ASSUME RemoteInv, CallProgram \/ RunCommand
  PROVE  RemoteInv'
<1>1. /\ status = "idle" /\ calls < MaxCalls /\ calls' = calls + 1 /\ job' = Unasked
      /\ level' = level /\ reply' = reply /\ option' \in Options
  BY DEF CallProgram, RunCommand, Begin
<1>2. request = None /\ reply = None
  BY <1>1 DEF RemoteInv, Requested, Replied
<1>3. FitAll(params')
  <2>1. CASE CallProgram
    <3>1. params' \in NewParams \/ params' \in WithInputs(params)
      BY <2>1 DEF CallProgram
    <3> QED
      BY <3>1, InputsFit, NewFit DEF RemoteInv, RemoteTypes
  <2>2. CASE RunCommand
    <3>1. params' = << >>
      BY <2>2 DEF RunCommand
    <3>2. << >> \in Seq(Parameter) /\ Len(<< >>) = 0
      OBVIOUS
    <3> QED
      BY <3>1, <3>2 DEF FitAll
  <2> QED
    BY <2>1, <2>2
<1>4. \/ /\ status' = "calling" /\ outcome' = "none" /\ messages' = << >>
         /\ \/ request' = <<ProgramRequest(params', option')>>
            \/ params' = << >> /\ request' = << <<OptionCode(option')>> >>
      \/ status' = status /\ request' = request /\ outcome' = "unsent" /\ messages' = << >>
  BY DEF CallProgram, RunCommand, Begin, Returns
<1>5. RemoteTypes'
  <2>1. status' \in {"calling", "idle"} /\ outcome' \in {"none", "unsent"} /\ messages' = << >>
    BY <1>1, <1>4
  <2>2. messages' \in Seq(Message)
    BY <2>1
  <2>3. calls' \in 0 .. MaxCalls
    BY <1>1, RemoteAssumption DEF RemoteInv, RemoteTypes
  <2>4. FitAll(params)'
    BY <1>3 DEF FitAll, Fits
  <2> QED
    BY <1>1, <2>1, <2>2, <2>3, <2>4 DEF RemoteInv, RemoteTypes, Options
<1>6. Requested'
  BY <1>1, <1>2, <1>4, RequestSame DEF Requested
<1>7. Served' /\ Replied'
  BY <1>1, <1>2 DEF Served, Replied, Unasked
<1>8. Ended'
  BY <1>1, <1>4 DEF Ended, Unasked
<1> QED
  BY <1>5, <1>6, <1>7, <1>8 DEF RemoteInv

\* What a program's reply holds.
ProgramSays(seen, left, b) ==
  /\ seen = Views(params) /\ left \in Leavings(seen)
  /\ \E outputs \in Outputs(seen, left) : b = <<0, 0>> \o outputs

\* The beginning of a body.
LEMMA Beginning ==
  ASSUME NEW b \in Seq(Nat), NEW m \in 0 .. Len(b)
  PROVE  LET t == SubSeq(b, 1, m) IN t \in Seq(Nat) /\ Len(t) = m /\ \A k \in 1 .. m : t[k] = b[k]
<1> DEFINE t == SubSeq(b, 1, m)
<1>1. m \in Nat /\ 0 + m <= Len(b) /\ t = SubSeq(b, 0 + 1, 0 + m)
  OBVIOUS
<1> HIDE DEF t
<1>2. t \in Seq(Nat) /\ Len(t) = m /\ \A k \in 1 .. m : t[k] = b[0 + k]
  BY <1>1, Cut
<1>3. \A k \in 1 .. m : 0 + k = k
  OBVIOUS
<1> QED
  BY <1>2, <1>3 DEF t

LEMMA Answered ==
  ASSUME NEW did \in {"refused", "run"}, NEW seen, NEW left, NEW says, NEW b \in Seq(Nat), Len(b) >= 1,
         b[1] = (IF did = "run" THEN 0 ELSE 1024), Answer(did, seen, left, says, b),
         request' = None, status' = "calling", params' = params,
         did = "run" /\ params # << >> => ProgramSays(seen, left, b)
  PROVE  Served' /\ Replied'
<1>1. PICK m \in 0 .. Len(b) :
        /\ reply' = <<SubSeq(b, 1, m)>>
        /\ job' = [did |-> did, seen |-> seen, left |-> left, says |-> says, whole |-> m = Len(b)]
  BY DEF Answer
<1> DEFINE t == SubSeq(b, 1, m)
           whole == m = Len(b)
<1>2. t \in Seq(Nat) /\ Len(t) = m /\ \A k \in 1 .. m : t[k] = b[k]
  BY Beginning
<1>3. /\ reply' = <<t>> /\ job'.did = did /\ job'.seen = seen /\ job'.left = left /\ job'.whole = whole
  BY <1>1
<1>4. Served'
  BY <1>3 DEF Served, ProgramSays
<1>5. whole => t # << >>
  BY <1>2
<1>6. t # << >> => t[1] = b[1]
  BY <1>2
<1>7. did = "run" /\ params # << >> =>
        \E outputs \in Outputs(seen, left) : \E n \in 0 .. Len(<<0, 0>> \o outputs) :
          t = SubSeq(<<0, 0>> \o outputs, 1, n) /\ (whole <=> n = Len(<<0, 0>> \o outputs))
  <2> SUFFICES ASSUME did = "run" /\ params # << >>
               PROVE  \E outputs \in Outputs(seen, left) : \E n \in 0 .. Len(<<0, 0>> \o outputs) :
                        t = SubSeq(<<0, 0>> \o outputs, 1, n) /\ (whole <=> n = Len(<<0, 0>> \o outputs))
    OBVIOUS
  <2>1. PICK outputs \in Outputs(seen, left) : b = <<0, 0>> \o outputs
    BY DEF ProgramSays
  <2>2. m \in 0 .. Len(<<0, 0>> \o outputs) /\ t = SubSeq(<<0, 0>> \o outputs, 1, m)
        /\ (whole <=> m = Len(<<0, 0>> \o outputs))
    BY <2>1
  <2> QED
    BY <2>2
<1> HIDE DEF t, whole
<1>8. Head(reply)' = t /\ reply' = <<Head(reply)'>>
  BY <1>3
<1>9. ReplyTells(t)'
  BY <1>2, <1>3, <1>5, <1>6, <1>7, SMTT(30) DEF ReplyTells
<1>10. ReplyTells(Head(reply))'
  BY <1>8, <1>9
<1> QED
  BY <1>4, <1>8, <1>10 DEF Replied

\* A first cell, and messages behind it.
LEMMA MessagesBody ==
  ASSUME NEW c \in Nat, NEW list \in MessageLists, NEW code, NEW format
  PROVE  LET b == <<c>> \o MessageReply(Attached(code, list), format) IN
         b \in Seq(Nat) /\ Len(b) >= 1 /\ b[1] = c
<1> DEFINE head == <<c>>
           rest == MessageReply(Attached(code, list), format)
           b == head \o rest
<1>1. head \in Seq(Nat) /\ rest \in Seq(Nat)
  BY MessageReplyCells
<1>2. Len(head) = 1 /\ head[1] = c
  OBVIOUS
<1> HIDE DEF head, rest
<1>3. /\ b \in Seq(Nat) /\ Len(rest) \in Nat /\ Len(b) = Len(head) + Len(rest)
      /\ \A i \in 1 .. Len(head) : b[i] = head[i]
  BY <1>1, Joined
<1> HIDE DEF b
<1>4. b \in Seq(Nat) /\ Len(b) >= 1 /\ b[1] = c
  BY <1>2, <1>3
<1> QED
  BY <1>4 DEF b, head, rest

\* The messages of a job as the call asks for them.
MessagesAsked(list) == MessageReply(Attached(OptionCode(option), list), Format(OptionCode(option)))

\* The server never refuses to understand, and answers to what it was asked.
ServerAnswers ==
  \/ \E list \in MessageLists : Answer("refused", << >>, << >>, list, <<1024>> \o MessagesAsked(list))
  \/ /\ params = << >>
     /\ \E list \in MessageLists : Answer("run", << >>, << >>, list, <<0>> \o MessagesAsked(list))
  \/ \E left \in Leavings(Views(params)) : \E outputs \in Outputs(Views(params), left) :
        Answer("run", Views(params), left, << >>, <<0, 0>> \o outputs)

LEMMA ServeAnswers ==
  ASSUME RemoteInv, Serve
  PROVE  ServerAnswers
<1>1. /\ status = "calling" /\ request # None /\ request' = None
      /\ UNCHANGED <<status, level, params, option, outcome, messages, calls>>
  BY DEF Serve
<1> DEFINE body == Head(request)
           code == body[1]
           isProgramCall == Len(body) > 1
           known == code \in KnownOptions /\ (isProgramCall => KnownEntries(body))
           attached(list) == MessageReply(Attached(code, list), Format(code))
<1>5. level \in Nat /\ FitAll(params) /\ option \in Options
  BY LevelNat DEF RemoteInv, RemoteTypes
<1>6. /\ known /\ (isProgramCall => SeenIn(body) = Views(params)) /\ (~isProgramCall => params = << >>)
      /\ code = OptionCode(option)
  <2>1. CASE request = <<ProgramRequest(params, option)>>
    <3> DEFINE b == ProgramRequest(params, option)
    <3>1. /\ Len(b) > 1 /\ b[1] = OptionCode(option) /\ OptionCode(option) \in KnownOptions
          /\ KnownEntries(b) /\ SeenIn(b) = Views(params)
      BY <1>5, RequestRead
    <3>2. body = b
      BY <2>1
    <3> HIDE DEF b, body
    <3> QED
      BY <3>1, <3>2
  <2>2. CASE params = << >> /\ request = << <<OptionCode(option)>> >>
    <3>1. body = <<OptionCode(option)>>
      BY <2>2
    <3> HIDE DEF body
    <3>2. Len(body) = 1 /\ code = OptionCode(option)
      BY <3>1
    <3> QED
      BY <1>5, <2>2, <3>2, OptionKnown
  <2> QED
    BY <1>1, <2>1, <2>2 DEF RemoteInv, Requested
<1>7. \/ \E list \in MessageLists : Answer("refused", << >>, << >>, list, <<1024>> \o attached(list))
      \/ /\ ~isProgramCall
         /\ \E list \in MessageLists : Answer("run", << >>, << >>, list, <<0>> \o attached(list))
      \/ /\ isProgramCall
         /\ \E left \in Leavings(SeenIn(body)) : \E outputs \in Outputs(SeenIn(body), left) :
               Answer("run", SeenIn(body), left, << >>, <<0, 0>> \o outputs)
  <2> HIDE DEF isProgramCall, attached
  <2>1. /\ ~known => Answer("protocolError", << >>, << >>, << >>, <<512, 0>>)
        /\ known => \/ \E list \in MessageLists : Answer("refused", << >>, << >>, list, <<1024>> \o attached(list))
                    \/ /\ ~isProgramCall
                       /\ \E list \in MessageLists : Answer("run", << >>, << >>, list, <<0>> \o attached(list))
                    \/ /\ isProgramCall
                       /\ \E left \in Leavings(SeenIn(body)) : \E outputs \in Outputs(SeenIn(body), left) :
                             Answer("run", SeenIn(body), left, << >>, <<0, 0>> \o outputs)
    BY DEF Serve, isProgramCall, attached
  <2> HIDE DEF known
  <2> QED
    BY <1>6, <2>1
<1>8. \A list : attached(list) = MessagesAsked(list)
  BY <1>6 DEF MessagesAsked
<1> HIDE DEF isProgramCall, known, body, attached
<1>9. CASE \E list \in MessageLists : Answer("refused", << >>, << >>, list, <<1024>> \o attached(list))
  BY <1>8, <1>9 DEF ServerAnswers
<1>10. CASE ~isProgramCall /\ \E list \in MessageLists : Answer("run", << >>, << >>, list, <<0>> \o attached(list))
  <2>1. params = << >> /\ \E list \in MessageLists : Answer("run", << >>, << >>, list, <<0>> \o MessagesAsked(list))
    BY <1>6, <1>8, <1>10
  <2> QED
    BY <2>1 DEF ServerAnswers
<1>11. CASE /\ isProgramCall
            /\ \E left \in Leavings(SeenIn(body)) : \E outputs \in Outputs(SeenIn(body), left) :
                  Answer("run", SeenIn(body), left, << >>, <<0, 0>> \o outputs)
  <2>1. SeenIn(body) = Views(params)
    BY <1>6, <1>11
  <2>2. \E left \in Leavings(Views(params)) : \E outputs \in Outputs(Views(params), left) :
          Answer("run", Views(params), left, << >>, <<0, 0>> \o outputs)
    BY <1>11, <2>1
  <2> QED
    BY <2>2 DEF ServerAnswers
<1> QED
  BY <1>7, <1>9, <1>10, <1>11

LEMMA ServeKeeps ==
  ASSUME RemoteInv, Serve
  PROVE  RemoteInv'
<1>1. /\ status = "calling" /\ request # None /\ request' = None
      /\ UNCHANGED <<status, level, params, option, outcome, messages, calls>>
  BY DEF Serve
<1>2. RemoteTypes'
  BY <1>1 DEF RemoteInv, RemoteTypes, FitAll, Fits, Options
<1>3. Requested'
  BY <1>1 DEF Requested
<1>4. Ended'
  BY <1>1 DEF RemoteInv, Ended
<1>5. level \in Nat /\ FitAll(params) /\ option \in Options
  BY LevelNat DEF RemoteInv, RemoteTypes
<1>7. ServerAnswers
  BY ServeAnswers
<1>8. CASE \E list \in MessageLists : Answer("refused", << >>, << >>, list, <<1024>> \o MessagesAsked(list))
  <2>1. PICK list \in MessageLists : Answer("refused", << >>, << >>, list, <<1024>> \o MessagesAsked(list))
    BY <1>8
  <2> DEFINE b == <<1024>> \o MessagesAsked(list)
  <2>2. b \in Seq(Nat) /\ Len(b) >= 1 /\ b[1] = 1024
    BY MessagesBody DEF MessagesAsked
  <2> HIDE DEF b
  <2>3. Answer("refused", << >>, << >>, list, b)
    BY <2>1 DEF b
  <2>4. Served' /\ Replied'
    BY <1>1, <2>2, <2>3, Answered
  <2> QED
    BY <1>2, <1>3, <1>4, <2>4 DEF RemoteInv
<1>9. CASE params = << >> /\ \E list \in MessageLists : Answer("run", << >>, << >>, list, <<0>> \o MessagesAsked(list))
  <2>1. PICK list \in MessageLists : Answer("run", << >>, << >>, list, <<0>> \o MessagesAsked(list))
    BY <1>9
  <2> DEFINE b == <<0>> \o MessagesAsked(list)
  <2>2. b \in Seq(Nat) /\ Len(b) >= 1 /\ b[1] = 0
    BY MessagesBody DEF MessagesAsked
  <2> HIDE DEF b
  <2>4. Answer("run", << >>, << >>, list, b)
    BY <2>1 DEF b
  <2>5. Served' /\ Replied'
    BY <1>1, <1>9, <2>2, <2>4, Answered
  <2> QED
    BY <1>2, <1>3, <1>4, <2>5 DEF RemoteInv
<1>10. CASE \E left \in Leavings(Views(params)) : \E outputs \in Outputs(Views(params), left) :
              Answer("run", Views(params), left, << >>, <<0, 0>> \o outputs)
  <2> DEFINE seen == Views(params)
  <2>1. \E left \in Leavings(seen) : \E outputs \in Outputs(seen, left) :
          Answer("run", seen, left, << >>, <<0, 0>> \o outputs)
    BY <1>10
  <2> HIDE DEF seen
  <2>2. PICK left \in Leavings(seen) : \E outputs \in Outputs(seen, left) :
          Answer("run", seen, left, << >>, <<0, 0>> \o outputs)
    BY <2>1
  <2>3. PICK outputs \in Outputs(seen, left) : Answer("run", seen, left, << >>, <<0, 0>> \o outputs)
    BY <2>2
  <2> DEFINE b == <<0, 0>> \o outputs
  <2>4. b \in Seq(Nat) /\ Len(b) >= 1 /\ b[1] = 0
    <3>1. 0 \in 0 .. Len(b)
      <4>1. << 0, 0>> \o outputs \in Seq(Nat)
        BY <1>5, OutputsLaid DEF Holds, seen
      <4> DEFINE w == <<0, 0>> \o outputs
      <4>2. w \in Seq(Nat)
        BY <4>1
      <4> HIDE DEF w
      <4>3. 0 \in 0 .. Len(w)
        BY <4>2
      <4> QED
        BY <4>3 DEF w
    <3>2. b \in Seq(Nat) /\ b[1] = 0 /\ Len(b) >= 2
      BY <1>5, <3>1, OutputsCome DEF seen
    <3> HIDE DEF b
    <3> QED
      BY <3>2
  <2>5. ProgramSays(seen, left, b)
    BY DEF ProgramSays, seen
  <2>6. Answer("run", seen, left, << >>, b)
    BY <2>3
  <2> HIDE DEF b
  <2>7. Served' /\ Replied'
    BY <1>1, <2>4, <2>5, <2>6, Answered
  <2> QED
    BY <1>2, <1>3, <1>4, <2>7 DEF RemoteInv
<1> QED
  BY <1>7, <1>8, <1>9, <1>10 DEF ServerAnswers

\* What the client makes of a reply that says the call was run.
LEMMA Received ==
  ASSUME RemoteInv, reply # None, NEW body, body = Head(reply), body # << >>, body[1] = 0
  PROVE  /\ body \in Seq(Nat) /\ job.did = "run"
         /\ Gets(ReadOutputs(body, params), params, job.left, job.whole)
         /\ \A i \in 1 .. Len(params) : HasEntry(params[i]) => job.left[i] \in Contents
<1>1. ReplyTells(body) /\ FitAll(params) /\ Served
  BY DEF RemoteInv, Replied, RemoteTypes
<1>2. body \in Seq(Nat) /\ job.did = "run"
  BY <1>1 DEF ReplyTells
<1>3. params \in Seq(Parameter)
  BY <1>1 DEF FitAll
<1> DEFINE out == ReadOutputs(body, params)
<1>4. CASE params = << >>
  <2>1. Len(params) = 0
    BY <1>4
  <2>2. PICK u : ReadsOutputs(body, params, u)
    BY <1>2, <1>3, OutputSteps
  <2>3. out = [ok |-> TRUE, off |-> ReplyHead, params |-> << >>]
    BY <2>1, <2>2 DEF ReadsOutputs
  <2>4. out.ok = TRUE /\ out.params = << >>
    BY <2>3
  <2> HIDE DEF out
  <2>5. Len(out.params) = 0 /\ out.params \in Seq(Parameter)
    BY <2>4
  <2>6. CameUpTo(Len(params), out, params, job.left)
    BY <2>1, <2>5 DEF CameUpTo
  <2>7. Gets(out, params, job.left, job.whole)
    BY <2>4, <2>5, <2>6 DEF Gets
  <2> QED
    BY <1>2, <2>1, <2>7 DEF out
<1>5. CASE params # << >>
  <2> DEFINE left == job.left
             whole == job.whole
  <2>1. left \in Leavings(Views(params)) /\ job.seen = Views(params)
    BY <1>1, <1>2, <1>5 DEF Served
  <2>2. PICK outputs \in Outputs(Views(params), left) : \E m \in 0 .. Len(<<0, 0>> \o outputs) :
          body = SubSeq(<<0, 0>> \o outputs, 1, m) /\ (whole <=> m = Len(<<0, 0>> \o outputs))
    BY <1>1, <1>2, <1>5, <2>1 DEF ReplyTells
  <2> HIDE DEF left, whole, out
  <2>3. PICK m \in 0 .. Len(<<0, 0>> \o outputs) :
          body = SubSeq(<<0, 0>> \o outputs, 1, m) /\ (whole <=> m = Len(<<0, 0>> \o outputs))
    BY <2>2
  <2> DEFINE all == m = Len(<<0, 0>> \o outputs)
  <2>4. /\ Gets(out, params, left, all)
        /\ \A i \in 1 .. Len(params) : HasEntry(params[i]) => left[i] \in Contents
    BY <1>1, <2>1, <2>3, OutputsCome DEF out
  <2>5. whole <=> all
    BY <2>3
  <2> HIDE DEF all
  <2>6. Gets(out, params, left, whole)
    BY <2>4, <2>5 DEF Gets
  <2> QED
    BY <1>2, <2>4, <2>6 DEF out, left, whole
<1> QED
  BY <1>4, <1>5

\* What came fits where it is put, and a program would see the same as before.
LEMMA CameFits ==
  ASSUME NEW q \in Parameter, NEW p \in Parameter, Fits(p), NEW bytes, NEW ok, Came(q, p, bytes, ok),
         HasEntry(p) => bytes \in Contents
  PROVE  Fits(q) /\ View(q) = View(p)
<1>1. CASE q = p
  BY <1>1
<1>2. CASE HasEntry(p) /\ q = [p EXCEPT !.output = bytes]
  <2>1. p \in [usage : Usages, max : Nat, input : Seq(Byte), output : Contents \union {<< >>}]
    BY DEF Fits
  <2>2. q.usage = p.usage /\ q.max = p.max /\ q.input = p.input
    BY <1>2, <2>1
  <2>3. q \in [usage : Usages, max : Nat, input : Seq(Byte), output : Contents \union {<< >>}]
    BY <1>2, <2>1
  <2>4. Fits(q)
    BY <2>2, <2>3 DEF Fits
  <2> QED
    BY <2>2, <2>4 DEF View
<1> QED
  BY <1>1, <1>2 DEF Came

LEMMA OutputsFit ==
  ASSUME NEW ps, FitAll(ps), NEW out, NEW left, NEW whole, Gets(out, ps, left, whole),
         \A i \in 1 .. Len(ps) : HasEntry(ps[i]) => left[i] \in Contents
  PROVE  /\ FitAll(out.params) /\ Len(out.params) = Len(ps)
         /\ Views(out.params) = Views(ps)
<1> DEFINE qs == out.params
           N == Len(ps)
<1>1. /\ qs \in Seq(Parameter) /\ Len(qs) = N /\ N \in Nat /\ ps \in Seq(Parameter)
      /\ \A i \in 1 .. N : Came(qs[i], ps[i], left[i], out.ok)
  BY DEF Gets, CameUpTo, FitAll
<1> HIDE DEF qs, N
<1>2. ASSUME NEW i \in 1 .. N PROVE Fits(qs[i]) /\ View(qs[i]) = View(ps[i])
  <2>1. qs[i] \in Parameter /\ ps[i] \in Parameter /\ Fits(ps[i])
    BY <1>1 DEF FitAll, N
  <2>2. HasEntry(ps[i]) => left[i] \in Contents
    BY DEF N
  <2> QED
    BY <1>1, <2>1, <2>2, CameFits
<1>3. FitAll(qs)
  BY <1>1, <1>2 DEF FitAll
<1>4. Views(qs) = Views(ps)
  BY <1>1, <1>2 DEF Views, N
<1> QED
  BY <1>1, <1>3, <1>4 DEF qs, N

\* The rest of a call.
LEMMA ReceiveKeeps ==
  ASSUME RemoteInv, Receive
  PROVE  RemoteInv'
<1> DEFINE body == Head(reply)
           out == ReadOutputs(body, params)
<1>1. /\ status = "calling" /\ reply # None /\ status' = "idle" /\ reply' = None
      /\ UNCHANGED <<level, option, request, job, calls>>
  BY DEF Receive
<1>2. \/ body = << >> /\ outcome' = "failed" /\ messages' = << >> /\ params' = params
      \/ body # << >> /\ body[1] # 0 /\ outcome' = "refused" /\ messages' = ParseMessages(body) /\ params' = params
      \/ /\ body # << >> /\ body[1] = 0
         /\ outcome' = (IF out.ok THEN "done" ELSE "failed") /\ messages' = ParseMessages(body)
         /\ params' = out.params
  BY DEF Receive, Returns
<1> HIDE DEF body, out
<1>3. ReplyTells(body) /\ request = None /\ FitAll(params)
  BY <1>1 DEF RemoteInv, Replied, RemoteTypes, body
<1>4. body \in Seq(Nat)
  BY <1>3 DEF ReplyTells
<1>5. messages' \in Seq(Message)
  <2>1. ParseMessages(body) \in Seq(Message) /\ << >> \in Seq(Message)
    BY <1>4, MessagesCells
  <2> QED
    BY <1>2, <2>1
<1>6. /\ FitAll(params') /\ Views(params') = Views(params) /\ (params' = << >> <=> params = << >>)
      /\ outcome' \in {"failed", "refused", "done"}
      /\ outcome' = "done" => job.did = "run"
      /\ outcome' = "refused" => job.did = "refused"
  <2>1. CASE body # << >> /\ body[1] = 0
    <3>1. /\ job.did = "run" /\ Gets(out, params, job.left, job.whole)
          /\ \A i \in 1 .. Len(params) : HasEntry(params[i]) => job.left[i] \in Contents
      BY <1>1, <2>1, Received DEF body, out
    <3>2. params' = out.params /\ outcome' \in {"failed", "done"}
      BY <1>2, <2>1
    <3>3. FitAll(params') /\ Len(params') = Len(params) /\ Views(params') = Views(params)
      BY <1>3, <3>1, <3>2, OutputsFit
    <3>4. params' = << >> <=> params = << >>
      BY <1>3, <3>3 DEF FitAll
    <3> QED
      BY <3>1, <3>2, <3>3, <3>4
  <2>2. CASE ~(body # << >> /\ body[1] = 0)
    <3>1. params' = params /\ outcome' \in {"failed", "refused"}
      BY <1>2, <2>2
    <3>2. outcome' = "refused" => job.did = "refused"
      BY <1>2, <1>3, <2>2 DEF ReplyTells
    <3> QED
      BY <1>3, <3>1, <3>2
  <2> QED
    BY <2>1, <2>2
<1>7. RemoteTypes'
  <2>1. FitAll(params)'
    BY <1>6 DEF FitAll, Fits
  <2> QED
    BY <1>1, <1>5, <1>6, <2>1 DEF RemoteInv, RemoteTypes, Options
<1>8. Requested' /\ Replied'
  BY <1>1, <1>3 DEF Requested, Replied
<1>9. Served'
  <2>1. Views(params)' = Views(params')
    BY DEF Views, View
  <2> QED
    BY <1>1, <1>6, <2>1 DEF RemoteInv, Served
<1>10. Ended'
  BY <1>1, <1>6 DEF Ended
<1> QED
  BY <1>7, <1>8, <1>9, <1>10 DEF RemoteInv

LEMMA RemoteStepKeeps ==
  ASSUME RemoteInv, [Next]_vars
  PROVE  RemoteInv'
<1>1. CASE RemoteNext
  BY <1>1, LogonKeeps, CloseKeeps, CallKeeps, ReceiveKeeps, ServeKeeps DEF RemoteNext
<1>2. CASE UNCHANGED remoteVars
  BY <1>2, RemoteStays
<1> QED
  BY <1>1, <1>2 DEF Next, vars

\* Always: the request is the one of the parameters and the option of the call,
\* the program's view of them is the caller's, the reply carries what the
\* program left, and the outcome is the one of the reply.
THEOREM RemoteInvCorrect == Spec => []RemoteInv
<1>1. Init => RemoteInv
  BY RemoteStarts DEF Init
<1>2. RemoteInv /\ [Next]_vars => RemoteInv'
  BY RemoteStepKeeps
<1> QED
  BY <1>1, <1>2, PTL DEF Spec

\* The variables of rmtcmd.Client and of the server have their types, and there
\* is at most one request and one reply on their way.
THEOREM RemoteTypesCorrect == Spec => []RemoteTypeOK
<1>1. RemoteInv => RemoteTypeOK
  <2> SUFFICES ASSUME RemoteInv PROVE RemoteTypeOK
    OBVIOUS
  <2>1. /\ status \in {"new", "loggedOn", "idle", "calling", "lost", "closed"}
        /\ level \in Levels \union {0} /\ option \in Options
        /\ outcome \in {"none", "unsent", "failed", "refused", "done"}
        /\ calls \in 0 .. MaxCalls /\ FitAll(params) /\ messages \in Seq(Message)
    BY DEF RemoteInv, RemoteTypes
  <2>2. \A i \in DOMAIN params : params[i].usage \in Usages /\ params[i].output \in Contents \union {<< >>}
    <3>1. ASSUME NEW i \in DOMAIN params
          PROVE  params[i].usage \in Usages /\ params[i].output \in Contents \union {<< >>}
      <4>1. Fits(params[i])
        BY <2>1 DEF FitAll
      <4> QED
        BY <4>1 DEF Fits
    <3> QED
      BY <3>1
  <2>3. \A i \in DOMAIN messages : DOMAIN messages[i] = MessageFields
    <3> DEFINE M == Message
    <3>1. \A m \in M : DOMAIN m = MessageFields
      BY DEF Message
    <3> HIDE DEF M
    <3>2. messages \in Seq(M)
      BY <2>1 DEF M
    <3>3. \A i \in DOMAIN messages : messages[i] \in M
      BY <3>2
    <3> QED
      BY <3>1, <3>3
  <2> DEFINE Short(s) == s = << >> \/ \E b : s = <<b>>
  <2>4. ASSUME NEW s, Short(s) PROVE Len(s) <= 1
    <3>1. CASE s = << >>
      <4>1. Len(s) = 0
        BY <3>1
      <4> QED
        BY <4>1
    <3>2. CASE \E b : s = <<b>>
      <4>1. PICK b : s = <<b>>
        BY <3>2
      <4>2. Len(s) = 1
        BY <4>1
      <4> QED
        BY <4>2
    <3> QED
      BY <2>4, <3>1, <3>2
  <2>5. Len(request) <= 1
    <3>1. Short(request)
      BY DEF RemoteInv, Requested, None
    <3> QED
      BY <2>4, <3>1
  <2>6. Len(reply) <= 1
    <3>1. Short(reply)
      BY DEF RemoteInv, Replied, None
    <3> QED
      BY <2>4, <3>1
  <2>7. job.did \in {"nothing", "refused", "run"}
    BY DEF RemoteInv, Served
  <2> QED
    BY <2>1, <2>2, <2>3, <2>5, <2>6, <2>7 DEF RemoteTypeOK
<1> QED
  BY <1>1, RemoteInvCorrect, PTL

\* A program called through CallProgram sees the caller's parameters, in their
\* order and directions, with the trailing zeros that were not sent.
THEOREM ProgramSeesCorrect == Spec => []ProgramSees
<1>1. RemoteInv => ProgramSees
  <2> SUFFICES ASSUME RemoteInv, job.did = "run", params # << >>
               PROVE  /\ DOMAIN job.seen = DOMAIN params
                      /\ \A i \in DOMAIN params :
                            /\ job.seen[i].usage = params[i].usage
                            /\ job.seen[i].data = Padded(params[i].input, params[i].max)
    BY DEF ProgramSees
  <2>1. job.seen = Views(params) /\ params \in Seq(Parameter)
    BY DEF RemoteInv, Served, RemoteTypes, FitAll
  <2> QED
    BY <2>1 DEF Views, View
<1> QED
  BY <1>1, RemoteInvCorrect, PTL

\* RunCommand and CallProgram return no error only when the server ran the
\* call, an Error with the server's return code only when it refused to, and
\* the server is never asked for what its level does not know.
THEOREM ResultCorrect == Spec => []ResultTrue
<1>1. RemoteInv => ResultTrue
  BY DEF RemoteInv, Ended, Served, ResultTrue
<1> QED
  BY <1>1, RemoteInvCorrect, PTL

\* The outputs after a step of a call.
LEMMA OutputsStep ==
  ASSUME RemoteInv, RemoteNext, status = "calling"
  PROVE  /\ \A i \in DOMAIN params :
               /\ params'[i].output # params[i].output => params'[i].output = job.left[i]
               /\ outcome' = "done" /\ HasEntry(params[i]) => params'[i].output = job.left[i]
         /\ status' = "idle" /\ job.did = "run" /\ job.whole => outcome' = "done"
<1>1. CASE params' = params /\ outcome' # "done" /\ status' # "idle"
  BY <1>1
<1>2. CASE Receive
  <2> DEFINE body == Head(reply)
             out == ReadOutputs(body, params)
  <2>1. /\ reply # None
        /\ \/ body = << >> /\ outcome' = "failed" /\ params' = params
           \/ body # << >> /\ body[1] # 0 /\ outcome' = "refused" /\ params' = params
           \/ /\ body # << >> /\ body[1] = 0
              /\ outcome' = (IF out.ok THEN "done" ELSE "failed") /\ params' = out.params
    BY <1>2 DEF Receive, Returns
  <2> HIDE DEF body, out
  <2>2. ReplyTells(body) /\ FitAll(params)
    BY <2>1 DEF RemoteInv, Replied, RemoteTypes, body
  <2>3. CASE body # << >> /\ body[1] = 0
    <3>1. Gets(out, params, job.left, job.whole)
      BY <2>1, <2>3, Received DEF body, out
    <3>2. outcome' = (IF out.ok THEN "done" ELSE "failed") /\ params' = out.params
      BY <2>1, <2>3
    <3>3. ASSUME NEW i \in DOMAIN params
          PROVE  /\ params'[i].output # params[i].output => params'[i].output = job.left[i]
                 /\ outcome' = "done" /\ HasEntry(params[i]) => params'[i].output = job.left[i]
      <4> DEFINE p == params[i]
                 q == params'[i]
                 bytes == job.left[i]
      <4>1. i \in 1 .. Len(params) /\ Fits(p)
        BY <2>2 DEF FitAll
      <4>2. Came(q, p, bytes, out.ok)
        BY <3>1, <3>2, <4>1 DEF Gets, CameUpTo
      <4>3. outcome' = "done" => out.ok
        BY <3>2
      <4> HIDE DEF p, q, bytes
      <4>4. q = [p EXCEPT !.output = bytes] => q.output = bytes
        BY <4>1 DEF Fits
      <4>5. /\ q.output # p.output => q.output = bytes
            /\ outcome' = "done" /\ HasEntry(p) => q.output = bytes
        BY <4>2, <4>3, <4>4 DEF Came
      <4> QED
        BY <4>5 DEF p, q, bytes
    <3>4. job.whole => outcome' = "done"
      BY <3>1, <3>2 DEF Gets
    <3> QED
      BY <3>3, <3>4
  <2>4. CASE ~(body # << >> /\ body[1] = 0)
    <3>1. params' = params /\ outcome' # "done"
      BY <2>1, <2>4
    <3>2. ~(job.did = "run" /\ job.whole)
      BY <2>2, <2>4 DEF ReplyTells
    <3> QED
      BY <3>1, <3>2
  <2> QED
    BY <2>3, <2>4
<1>3. CASE CallFails
  BY <1>1, <1>3 DEF CallFails, Returns
<1>4. CASE Serve
  <2>1. params' = params /\ outcome' = outcome /\ status' = "calling"
    BY <1>4 DEF Serve
  <2>2. outcome = "none"
    BY DEF RemoteInv, Ended
  <2> QED
    BY <1>1, <2>1, <2>2
<1> QED
  BY <1>2, <1>3, <1>4
     DEF RemoteNext, Logon, ExchangeAttributes, CallProgram, RunCommand, Begin, Close

\* CallProgram returns no error only when every Output and InOut parameter
\* holds what the program left in it, whichever encoding the server chose, and
\* does so for every whole reply; otherwise a parameter keeps what it had or
\* gets all of what was left in it.
THEOREM OutputsCorrect == Spec => OutputsTrue
<1> DEFINE A == status = "calling" =>
                  /\ \A i \in DOMAIN params :
                        /\ params'[i].output # params[i].output => params'[i].output = job.left[i]
                        /\ outcome' = "done" /\ HasEntry(params[i]) => params'[i].output = job.left[i]
                  /\ status' = "idle" /\ job.did = "run" /\ job.whole => outcome' = "done"
<1>1. RemoteInv /\ [Next]_vars => [A]_remoteVars
  <2> SUFFICES ASSUME RemoteInv, [Next]_vars, ~UNCHANGED remoteVars PROVE A
    OBVIOUS
  <2>1. RemoteNext
    BY DEF Next, vars
  <2> QED
    BY <2>1, OutputsStep
<1>2. OutputsTrue <=> [][A]_remoteVars
  BY DEF OutputsTrue
<1> HIDE DEF A
<1> QED
  BY <1>1, <1>2, RemoteInvCorrect, PTL DEF Spec

-----------------------------------------------------------------------------
(***************************************************************************)
(* What ParseMessages makes of the beginning of what MessageReply gives.   *)
(***************************************************************************)
\* A reader that is to be at q has not gone beyond the end of the body.
UpToEnd(q, d) == IF q <= Len(d) THEN q ELSE Len(d)

\* What is read from a body that may end too early: s if it is all there.
ReadsPart(r, d, q, s) ==
  /\ r.off = UpToEnd(q, d) /\ r.data \in {s, << >>}
  /\ q <= Len(d) => r.data = s

\* As far as the body goes, s is behind its first q cells.
There(d, q, s) == \A k \in 1 .. Len(s) : q + k <= Len(d) => d[q + k] = s[k]

LEMMA CellsRead ==
  ASSUME NEW d \in Seq(Nat), NEW q \in Nat, NEW s \in Seq(Nat), There(d, q, s)
  PROVE  ReadsPart(ReadCells(d, UpToEnd(q, d), Len(s)), d, q + Len(s), s)
<1> DEFINE n == Len(s)
           l == Len(d)
           off == UpToEnd(q, d)
           r == ReadCells(d, off, n)
<1>1. n \in Nat /\ l \in Nat /\ off \in Nat
  BY DEF UpToEnd
<1>2. CASE q + n <= l
  <2>1. off = q
    BY <1>1, <1>2 DEF UpToEnd
  <2>2. r = [off |-> q + n, data |-> SubSeq(d, q + 1, q + n)]
    BY <1>1, <1>2, <2>1 DEF ReadCells
  <2>3. SubSeq(d, q + 1, q + n) \in Seq(Nat) /\ PartOf(SubSeq(d, q + 1, q + n), d, q, n)
    <3> DEFINE t == SubSeq(d, q + 1, q + n)
    <3>1. t = SubSeq(d, q + 1, q + n)
      OBVIOUS
    <3> HIDE DEF t
    <3>2. t \in Seq(Nat) /\ PartOf(t, d, q, n)
      BY <1>1, <1>2, <3>1, CutIs
    <3> QED
      BY <3>1, <3>2
  <2> DEFINE t == SubSeq(d, q + 1, q + n)
  <2> HIDE DEF t
  <2>4. t \in Seq(Nat) /\ Len(t) = Len(s) /\ \A k \in 1 .. Len(t) : t[k] = s[k]
    <3>1. \A k \in 1 .. n : d[q + k] = s[k]
      BY <1>1, <1>2 DEF There
    <3> QED
      BY <2>3, <3>1 DEF PartOf, t
  <2>5. t = s
    BY <2>4, SameElements
  <2>6. r = [off |-> q + n, data |-> s]
    BY <2>2, <2>5 DEF t
  <2> HIDE DEF r
  <2>7. r.off = q + n /\ r.data = s
    BY <2>6
  <2>8. UpToEnd(q + n, d) = q + n
    BY <1>2 DEF UpToEnd
  <2>9. ReadsPart(r, d, q + n, s)
    BY <2>7, <2>8 DEF ReadsPart
  <2> QED
    BY <2>9 DEF r
<1>3. CASE ~(q + n <= l) /\ n > 0
  <2>1. off + n > l
    BY <1>1, <1>3 DEF UpToEnd
  <2>2. r = [off |-> l, data |-> << >>]
    BY <2>1 DEF ReadCells, ReaderAfter
  <2> HIDE DEF r
  <2> QED
    BY <1>3, <2>2 DEF ReadsPart, UpToEnd, r
<1>4. CASE ~(q + n <= l) /\ n = 0
  <2>1. off = l /\ off + n = l /\ s = << >>
    BY <1>1, <1>4 DEF UpToEnd
  <2>2. r = [off |-> l, data |-> SubSeq(d, l + 1, l)]
    BY <1>1, <1>4, <2>1 DEF ReadCells
  <2>3. SubSeq(d, l + 1, l) = << >>
    BY <1>1
  <2> HIDE DEF r
  <2> QED
    BY <1>1, <1>4, <2>1, <2>2, <2>3 DEF ReadsPart, UpToEnd, r
<1> QED
  BY <1>1, <1>2, <1>3, <1>4

\* A sequence behind a part of what is there.
LEMMA ThereBehind ==
  ASSUME NEW d \in Seq(Nat), NEW q \in Nat, NEW s \in Seq(Nat), NEW t \in Seq(Nat), There(d, q, s \o t)
  PROVE  There(d, q, s) /\ There(d, q + Len(s), t) /\ s \o t \in Seq(Nat) /\ Len(s \o t) = Len(s) + Len(t)
<1> DEFINE st == s \o t
<1>1. /\ st \in Seq(Nat) /\ Len(s) \in Nat /\ Len(t) \in Nat /\ Len(st) = Len(s) + Len(t)
      /\ \A i \in 1 .. Len(s) : st[i] = s[i]
      /\ \A i \in 1 .. Len(t) : st[Len(s) + i] = t[i]
  BY Joined
<1>2. There(d, q, st)
  OBVIOUS
<1> HIDE DEF st
<1>3. There(d, q, s)
  <2> SUFFICES ASSUME NEW k \in 1 .. Len(s), q + k <= Len(d) PROVE d[q + k] = s[k]
    BY DEF There
  <2>1. k \in 1 .. Len(st) /\ st[k] = s[k]
    BY <1>1
  <2> QED
    BY <1>2, <2>1 DEF There
<1>4. There(d, q + Len(s), t)
  <2> SUFFICES ASSUME NEW k \in 1 .. Len(t), q + Len(s) + k <= Len(d) PROVE d[q + Len(s) + k] = t[k]
    BY DEF There
  <2> DEFINE j == Len(s) + k
  <2>1. j \in 1 .. Len(st) /\ st[j] = t[k] /\ q + Len(s) + k = q + j
    BY <1>1
  <2> HIDE DEF j
  <2>2. d[q + j] = st[j]
    BY <1>2, <2>1 DEF There
  <2> QED
    BY <2>1, <2>2
<1> QED
  BY <1>1, <1>3, <1>4 DEF st

LEMMA FieldReadTrue ==
  ASSUME NEW d \in Seq(Nat), NEW q \in Nat, NEW s \in Seq(Nat), There(d, q, Prefixed(s))
  PROVE  ReadsPart(ReadField(d, UpToEnd(q, d)), d, q + 1 + Len(s), s)
<1> DEFINE l == Len(d)
           n == Len(s)
           one == <<n>>
           ll == ReadCells(d, UpToEnd(q, d), 1)
           r == ReadField(d, UpToEnd(q, d))
<1>1. one \in Seq(Nat) /\ Len(one) = 1 /\ one[1] = n /\ one # << >> /\ l \in Nat /\ n \in Nat
  OBVIOUS
<1>2. Prefixed(s) = one \o s
  BY DEF Prefixed
<1> HIDE DEF one
<1>3. There(d, q, one) /\ There(d, q + 1, s)
  <2>1. There(d, q, one \o s)
    BY <1>2
  <2> QED
    BY <1>1, <2>1, ThereBehind
<1>4. ReadsPart(ll, d, q + 1, one)
  BY <1>1, <1>3, CellsRead
<1>5. r = IF ll.data = << >> THEN ll ELSE ReadCells(d, ll.off, ll.data[1])
  BY DEF ReadField
<1> HIDE DEF r, ll
<1>6. CASE ll.data = << >>
  <2>1. ~(q + 1 <= l)
    BY <1>1, <1>4, <1>6 DEF ReadsPart
  <2>2. r.off = l /\ r.data = << >>
    BY <1>4, <1>5, <1>6, <2>1 DEF ReadsPart, UpToEnd
  <2>3. ~(q + 1 + n <= l)
    BY <1>1, <2>1
  <2> QED
    BY <2>2, <2>3 DEF ReadsPart, UpToEnd, r
<1>7. CASE ll.data # << >>
  <2>1. ll.data = one /\ ll.off = UpToEnd(q + 1, d)
    BY <1>4, <1>7 DEF ReadsPart
  <2>2. r = ReadCells(d, UpToEnd(q + 1, d), n)
    BY <1>1, <1>5, <1>7, <2>1
  <2>3. q + 1 \in Nat
    OBVIOUS
  <2> QED
    BY <1>3, <2>2, <2>3, CellsRead DEF r
<1> QED
  BY <1>6, <1>7

\* Fields of a message as far as they could be read: those of the names are m's
\* if all of them is there, the others are as before.
FieldsTrue(x, m, before, names, n, all) ==
  /\ \A f \in MessageFields : x[f] \in {m[f], << >>}
  /\ all => \A f \in MessageFields : x[f] = IF \E i \in 1 .. n : names[i] = f THEN m[f] ELSE before[f]

LEMMA FieldsReadTrue ==
  ASSUME NEW d \in Seq(Nat), NEW q \in Nat, NEW m \in Message, NEW before \in Message, NEW names \in Seq(FieldNames),
         There(d, q, Fields(m, names)), \A f \in MessageFields : before[f] \in {m[f], << >>}
  PROVE  FieldsTrue(WithFields(before, d, UpToEnd(q, d), names), m, before, names, Len(names),
                    q + Len(Fields(m, names)) <= Len(d))
<1> DEFINE N == Len(names)
           X == Seq(Nat)
           es == [i \in 1 .. N |-> FieldOf(m, names[i])]
           w == FlattenSeq(es)
<1>1. N \in Nat /\ DOMAIN names = 1 .. N /\ Len(d) \in Nat
  OBVIOUS
<1>2. Fields(m, names) = w
  BY <1>1 DEF Fields
<1> DEFINE s(i) == IF names[i] \in MessageFields THEN m[names[i]] ELSE <<1>>
<1>3. ASSUME NEW i \in 1 .. N
      PROVE  /\ s(i) \in Seq(Nat) /\ es[i] = Prefixed(s(i)) /\ es[i] \in X /\ Len(es[i]) = 1 + Len(s(i))
             /\ Len(s(i)) \in Nat /\ (names[i] \in MessageFields => s(i) = m[names[i]])
  <2>1. s(i) \in Seq(Nat)
    BY DEF Message
  <2>2. es[i] = Prefixed(s(i))
    BY DEF FieldOf
  <2>3. names[i] \in MessageFields => s(i) = m[names[i]]
    OBVIOUS
  <2> DEFINE t == s(i)
             one == <<Len(t)>>
  <2>4. t \in Seq(Nat)
    BY <2>1
  <2> HIDE DEF t
  <2>5. one \in Seq(Nat) /\ Len(one) = 1 /\ Len(t) \in Nat
    BY <2>4
  <2>6. Prefixed(t) = one \o t
    BY DEF Prefixed
  <2> HIDE DEF one
  <2>7. Prefixed(t) \in Seq(Nat) /\ Len(Prefixed(t)) = 1 + Len(t)
    <3>1. one \o t \in Seq(Nat) /\ Len(one \o t) = Len(one) + Len(t)
      BY <2>4, <2>5, Joined
    <3> QED
      BY <2>5, <2>6, <3>1
  <2> QED
    BY <2>1, <2>2, <2>3, <2>5, <2>7 DEF t
<1>4. es \in Seq(X) /\ Len(es) = N
  <2>1. es = [i \in 1 .. N |-> es[i]]
    OBVIOUS
  <2> HIDE DEF es, X
  <2> QED
    BY <1>1, <1>3, <2>1
<1>5. PICK at : w \in Seq(Nat) /\ Lie(w, es, at)
  BY <1>4, Flattened
<1>6. PICK u : ReadsFields(before, d, UpToEnd(q, d), names, u)
  <2>1. UpToEnd(q, d) \in Nat
    BY DEF UpToEnd
  <2> QED
    BY <2>1, FieldSteps
<1>7. /\ at[0] = 0 /\ at[N] = Len(w) /\ \A n \in 0 .. N : at[n] \in 0 .. Len(w)
      /\ \A n \in 1 .. N : /\ at[n] = at[n - 1] + Len(es[n])
                           /\ \A k \in 1 .. Len(es[n]) : w[at[n - 1] + k] = es[n][k]
  BY <1>4, <1>5 DEF Lie, LieUpTo
<1>8. There(d, q, w)
  BY <1>2
<1>9. Len(w) \in Nat
  BY <1>5
<1> HIDE DEF es, w, s
<1> DEFINE Right(n) == /\ u[n].off = UpToEnd(q + at[n], d)
                       /\ FieldsTrue(u[n].m, m, before, names, n, q + at[n] <= Len(d))
           S == {n \in 0 .. N : Right(n)}
<1>10. 0 \in S
  <2>1. u[0] = [off |-> UpToEnd(q, d), m |-> before] /\ q + at[0] = q
    BY <1>6, <1>7 DEF ReadsFields
  <2>2. u[0].off = UpToEnd(q, d) /\ u[0].m = before
    BY <2>1
  <2>3. FieldsTrue(before, m, before, names, 0, q + at[0] <= Len(d))
    BY DEF FieldsTrue
  <2> QED
    BY <1>1, <2>1, <2>2, <2>3
<1>11. ASSUME NEW n \in 1 .. N, n - 1 \in S PROVE n \in S
  <2> DEFINE p == n - 1
             f == names[n]
             a == q + at[p]
             b == q + at[n]
             r == ReadField(d, UpToEnd(a, d))
  <2>1. p \in 0 .. N /\ Right(p) /\ at[p] \in Nat /\ at[n] \in Nat /\ p + 1 = n
    BY <1>1, <1>7, <1>9, <1>11
  <2>2. u[n] = FieldRead(d, f, u[p]) /\ u[p] \in FieldsRead
    BY <1>6, <2>1 DEF ReadsFields
  <2>3. a \in Nat /\ b \in Nat /\ b = a + 1 + Len(s(n))
    <3>1. at[n] = at[p] + Len(es[n]) /\ Len(es[n]) = 1 + Len(s(n)) /\ Len(s(n)) \in Nat
      BY <1>3, <1>7
    <3> DEFINE x == at[p]
               y == at[n]
               z == Len(s(n))
    <3>2. x \in Nat /\ y \in Nat /\ z \in Nat /\ y = x + (1 + z)
      BY <2>1, <3>1
    <3> HIDE DEF x, y, z
    <3>3. q + x \in Nat /\ q + y \in Nat /\ q + y = q + x + 1 + z
      BY <3>2
    <3> QED
      BY <3>3 DEF x, y, z
  <2>4. There(d, a, Prefixed(s(n)))
    <3> SUFFICES ASSUME NEW k \in 1 .. Len(es[n]), a + k <= Len(d) PROVE d[a + k] = es[n][k]
      BY <1>3 DEF There
    <3> DEFINE j == at[p] + k
    <3>1. at[n] = at[p] + Len(es[n]) /\ w[at[p] + k] = es[n][k] /\ Len(es[n]) \in Nat /\ at[n] <= Len(w)
      <4>1. at[n] = at[p] + Len(es[n]) /\ w[at[p] + k] = es[n][k]
        BY <1>7
      <4>2. at[n] \in 0 .. Len(w) /\ Len(es[n]) = 1 + Len(s(n)) /\ Len(s(n)) \in Nat
        BY <1>3, <1>7
      <4>3. at[n] <= Len(w)
        BY <1>9, <4>2
      <4>4. Len(es[n]) \in Nat
        BY <4>2
      <4> QED
        BY <4>1, <4>3, <4>4
    <3> DEFINE x == at[p]
               l == Len(es[n])
    <3>4. x \in Nat /\ l \in Nat /\ k \in 1 .. l /\ x + l <= Len(w) /\ Len(w) \in Nat /\ a = q + x
      BY <1>9, <2>1, <3>1
    <3> HIDE DEF x, l, a
    <3>5. x + k \in 1 .. Len(w) /\ q + (x + k) = a + k
      BY <3>4, SMTT(30)
    <3>6. j \in 1 .. Len(w) /\ w[j] = es[n][k] /\ q + j = a + k
      BY <3>1, <3>5 DEF x
    <3> HIDE DEF j
    <3>2. d[q + j] = w[j]
      BY <1>8, <3>6 DEF There
    <3> QED
      BY <3>2, <3>6
  <2> HIDE DEF a, b, p
  <2>5. ReadsPart(r, d, b, s(n))
    BY <1>3, <2>3, <2>4, FieldReadTrue
  <2> HIDE DEF r
  <2>6. u[n] = [off |-> r.off, m |-> IF f \in MessageFields THEN [u[p].m EXCEPT ![f] = r.data] ELSE u[p].m]
    BY <2>1, <2>2 DEF FieldRead, a, r
  <2> DEFINE y == u[p].m
             x == IF f \in MessageFields THEN [y EXCEPT ![f] = r.data] ELSE y
  <2>7. u[n].off = UpToEnd(b, d) /\ u[n].m = x
    BY <2>5, <2>6 DEF ReadsPart
  <2>8. y \in Message /\ FieldsTrue(y, m, before, names, p, a <= Len(d))
    BY <2>1, <2>2 DEF FieldsRead, a
  <2>9. b <= Len(d) => a <= Len(d)
    BY <1>1, <1>3, <2>3
  <2>10. r.data \in {s(n), << >>} /\ (b <= Len(d) => r.data = s(n)) /\ (f \in MessageFields => s(n) = m[f])
    BY <1>3, <2>5 DEF ReadsPart
  <2>11. \A g \in MessageFields : x[g] = IF g = f THEN r.data ELSE y[g]
    BY <2>8 DEF Message
  <2>12. \A g : (\E i \in 1 .. n : names[i] = g) <=> g = f \/ \E i \in 1 .. p : names[i] = g
    <3>1. \A i \in 1 .. n : i = n \/ i \in 1 .. p
      BY <2>1
    <3>2. \A i \in 1 .. p : i \in 1 .. n
      BY <2>1
    <3>3. n \in 1 .. n
      BY <1>1
    <3> QED
      BY <3>1, <3>2, <3>3
  <2> HIDE DEF x, y, f
  <2>13. \A g \in MessageFields : x[g] \in {m[g], << >>}
    BY <2>8, <2>10, <2>11 DEF FieldsTrue
  <2>14. b <= Len(d) => \A g \in MessageFields : x[g] = IF \E i \in 1 .. n : names[i] = g THEN m[g] ELSE before[g]
    BY <2>8, <2>9, <2>10, <2>11, <2>12 DEF FieldsTrue
  <2>15. FieldsTrue(x, m, before, names, n, b <= Len(d))
    BY <2>13, <2>14 DEF FieldsTrue
  <2> QED
    BY <1>1, <2>7, <2>15 DEF b
<1> HIDE DEF S
<1>12. \A n \in 0 .. N : n \in S
  BY <1>1, <1>10, <1>11, CountingUp
<1>13. Right(N)
  <2>1. N \in 0 .. N
    BY <1>1
  <2> QED
    BY <1>12, <2>1 DEF S
<1> QED
  BY <1>2, <1>6, <1>7, <1>13 DEF ReadsFields

\* The server's entry of a message starts with its length.
LEMMA SizedThere ==
  ASSUME NEW d \in Seq(Nat), NEW q \in Nat, NEW s \in Seq(Nat), There(d, q, Sized(s))
  PROVE  /\ Sized(s) \in Seq(Nat) /\ Len(Sized(s)) = 1 + Len(s)
         /\ There(d, q + 1, s)
         /\ q + 1 <= Len(d) => d[q + 1] = Len(Sized(s))
<1> DEFINE one == <<1 + Len(s)>>
<1>1. one \in Seq(Nat) /\ Len(one) = 1 /\ one[1] = 1 + Len(s) /\ Len(s) \in Nat
  OBVIOUS
<1>2. Sized(s) = one \o s
  BY DEF Sized
<1> HIDE DEF one
<1>3. There(d, q, one \o s)
  BY <1>2
<1>4. There(d, q, one) /\ There(d, q + Len(one), s) /\ one \o s \in Seq(Nat) /\ Len(one \o s) = Len(one) + Len(s)
  <2>1. one \in Seq(Nat) /\ s \in Seq(Nat)
    BY <1>1
  <2> QED
    BY ONLY <2>1, <1>3, d \in Seq(Nat), q \in Nat, ThereBehind
<1>5. q + 1 <= Len(d) => d[q + 1] = 1 + Len(s)
  BY <1>1, <1>4 DEF There
<1> QED
  BY <1>1, <1>2, <1>4, <1>5

\* A message as read: fields that are m's, or empty, and all of them m's if its
\* entry is all there.
MessageGot(x, m, all) ==
  /\ x \in Message
  /\ \A f \in MessageFields : x[f] \in {m[f], << >>}
  /\ all => x = m

LEMMA GotAll ==
  ASSUME NEW x \in Message, NEW m \in Message, NEW all,
         \A f \in MessageFields : x[f] \in {m[f], << >>},
         all => \A f \in MessageFields : x[f] = m[f]
  PROVE  MessageGot(x, m, all)
BY DEF MessageGot, Message

\* Every field has its place in the formats.
LEMMA FieldPlaces ==
  /\ \A f \in MessageFields : \E i \in 1 .. Len(Fields07) : Fields07[i] = f
  /\ \A f \in MessageFields : (\E i \in 1 .. Len(Fields06) : Fields06[i] = f) <=> f # "sev"
<1>1. \A f \in MessageFields : \E i \in 1 .. Len(Fields07) : Fields07[i] = f
  <2> DEFINE a == <<"sev", "id", "type", "key", "file", "libAsked", "lib">>
             b == [i \in 1 .. 16 |-> "unread"]
             c == <<"sub", "text", "help">>
             ab == a \o b
             abc == ab \o c
  <2>1. Fields07 = abc
    BY DEF Fields07
  <2>2. a \in Seq(FieldNames) /\ b \in Seq(FieldNames) /\ c \in Seq(FieldNames)
    BY DEF FieldNames, MessageFields
  <2>3. Len(a) = 7 /\ Len(b) = 16 /\ Len(c) = 3
    OBVIOUS
  <2>4. a[1] = "sev" /\ a[2] = "id" /\ a[3] = "type" /\ a[5] = "file" /\ a[7] = "lib"
    OBVIOUS
  <2>5. c[1] = "sub" /\ c[2] = "text" /\ c[3] = "help"
    OBVIOUS
  <2> HIDE DEF a, b, c
  <2>6. /\ ab \in Seq(FieldNames) /\ Len(ab) = 23
        /\ \A i \in 1 .. 7 : ab[i] = a[i]
    <3>1. a \in Seq(FieldNames) /\ b \in Seq(FieldNames)
      BY <2>2
    <3>2. a \o b \in Seq(FieldNames) /\ Len(a \o b) = Len(a) + Len(b) /\ \A i \in 1 .. Len(a) : (a \o b)[i] = a[i]
      BY ONLY <3>1, Joined
    <3> QED
      BY <2>3, <3>2
  <2> HIDE DEF ab
  <2>7. /\ Len(abc) = 26 /\ \A i \in 1 .. 23 : abc[i] = ab[i]
        /\ \A i \in 1 .. 3 : abc[23 + i] = c[i]
    <3>1. ab \in Seq(FieldNames) /\ c \in Seq(FieldNames)
      BY <2>2, <2>6
    <3>2. /\ Len(ab \o c) = Len(ab) + Len(c)
          /\ \A i \in 1 .. Len(ab) : (ab \o c)[i] = ab[i]
          /\ \A i \in 1 .. Len(c) : (ab \o c)[Len(ab) + i] = c[i]
      BY ONLY <3>1, Joined
    <3> DEFINE w == ab \o c
    <3>3. /\ Len(w) = Len(ab) + Len(c)
          /\ \A i \in 1 .. Len(ab) : w[i] = ab[i]
          /\ \A i \in 1 .. Len(c) : w[Len(ab) + i] = c[i]
      BY <3>2
    <3> HIDE DEF w
    <3>4. Len(w) = 26 /\ (\A i \in 1 .. 23 : w[i] = ab[i]) /\ \A i \in 1 .. 3 : w[23 + i] = c[i]
      BY <2>3, <2>6, <3>3
    <3> QED
      BY <3>4 DEF w
  <2> HIDE DEF abc
  <2>8. /\ abc[1] = "sev" /\ abc[2] = "id" /\ abc[3] = "type" /\ abc[5] = "file" /\ abc[7] = "lib"
        /\ abc[23 + 1] = "sub" /\ abc[23 + 2] = "text" /\ abc[23 + 3] = "help"
    BY <2>4, <2>5, <2>6, <2>7, SMTT(30)
  <2>9. {1, 2, 3, 5, 7, 23 + 1, 23 + 2, 23 + 3} \subseteq 1 .. Len(abc)
    BY <2>7
  <2> QED
    BY <2>1, <2>8, <2>9 DEF MessageFields
<1>2. \A f \in MessageFields : (\E i \in 1 .. Len(Fields06) : Fields06[i] = f) <=> f # "sev"
  <2>1. /\ Len(Fields06) = 7 /\ Fields06[1] = "type" /\ Fields06[2] = "id" /\ Fields06[3] = "file" /\ Fields06[4] = "lib"
        /\ Fields06[5] = "text" /\ Fields06[6] = "sub" /\ Fields06[7] = "help"
    BY DEF Fields06
  <2>2. \A i \in 1 .. 7 : i \in {1, 2, 3, 4, 5, 6, 7}
    OBVIOUS
  <2>3. {1, 2, 3, 4, 5, 6, 7} \subseteq 1 .. 7
    OBVIOUS
  <2> QED
    BY <2>1, <2>2, <2>3 DEF MessageFields
<1> QED
  BY <1>1, <1>2

\* Nothing of a message.
LEMMA NothingYet ==
  NoMessage \in Message /\ \A f \in MessageFields : NoMessage[f] = << >>
BY DEF NoMessage, Message

LEMMA Format07Read ==
  ASSUME NEW d \in Seq(Nat), NEW q \in Nat, NEW m \in Message, There(d, q, MessageEntry(m, 7)), q + MessageHead <= Len(d)
  PROVE  MessageGot(MessageAt(d, q), m, q + Len(MessageEntry(m, 7)) <= Len(d))
<1> DEFINE a == <<0, 7>>
           b == Fields(m, Fields07)
           e == MessageEntry(m, 7)
           x == MessageAt(d, q)
<1>1. e = Sized(a \o b)
  BY DEF MessageEntry
<1>2. a \in Seq(Nat) /\ b \in Seq(Nat) /\ Len(a) = 2 /\ a[2] = 7
  BY FieldLists, FieldsOfCells
<1> HIDE DEF a, b
<1>3. a \o b \in Seq(Nat) /\ Len(a \o b) = 2 + Len(b) /\ Len(b) \in Nat
  <2>1. a \in Seq(Nat) /\ b \in Seq(Nat)
    BY <1>2
  <2>2. a \o b \in Seq(Nat) /\ Len(a \o b) = Len(a) + Len(b) /\ Len(b) \in Nat
    BY ONLY <2>1, Joined
  <2> QED
    BY <1>2, <2>2
<1>4. There(d, q + 1, a \o b) /\ Len(e) = 3 + Len(b)
  <2> DEFINE ab == a \o b
  <2>1. ab \in Seq(Nat) /\ There(d, q, Sized(ab)) /\ Len(ab) = 2 + Len(b)
    BY <1>1, <1>3
  <2> HIDE DEF ab
  <2>2. There(d, q + 1, ab) /\ Len(Sized(ab)) = 1 + Len(ab)
    BY <2>1, SizedThere
  <2>3. 1 + (2 + Len(b)) = 3 + Len(b)
    BY <1>3
  <2> QED
    BY <1>1, <2>1, <2>2, <2>3 DEF ab
<1>5. There(d, q + 1, a) /\ There(d, q + 3, b)
  <2> DEFINE p == q + 1
  <2>1. p \in Nat /\ p + 2 = q + 3 /\ a \in Seq(Nat) /\ b \in Seq(Nat) /\ There(d, p, a \o b)
    BY <1>2, <1>4
  <2> HIDE DEF p
  <2>2. There(d, p, a) /\ There(d, p + Len(a), b)
    BY ONLY <2>1, d \in Seq(Nat), ThereBehind
  <2> QED
    BY <1>2, <2>1, <2>2 DEF p
<1>6. q + 3 <= Len(d) /\ q + 3 \in Nat
  BY DEF MessageHead
<1>7. d[q + 3] = 7
  <2>1. q + 1 + 2 = q + 3
    OBVIOUS
  <2> QED
    BY <1>2, <1>5, <1>6, <2>1 DEF There
<1>8. x = WithFields(NoMessage, d, UpToEnd(q + 3, d), Fields07)
  <2>1. UpToEnd(q + 3, d) = q + 3 /\ q + MessageHead = q + 3
    BY <1>6 DEF UpToEnd, MessageHead
  <2> QED
    BY <1>7, <2>1 DEF MessageAt, Message07
<1> HIDE DEF e, x
<1>9. FieldsTrue(x, m, NoMessage, Fields07, Len(Fields07), q + 3 + Len(b) <= Len(d))
  BY <1>5, <1>6, <1>8, NothingYet, FieldLists, FieldsReadTrue DEF b
<1>10. x \in Message
  BY MessageCells DEF x
<1>11. (q + Len(e) <= Len(d)) <=> (q + 3 + Len(b) <= Len(d))
  BY <1>3, <1>4
<1>12. /\ \A f \in MessageFields : x[f] \in {m[f], << >>}
       /\ q + 3 + Len(b) <= Len(d) => \A f \in MessageFields : x[f] = m[f]
  BY <1>9, FieldPlaces DEF FieldsTrue
<1> QED
  BY <1>10, <1>11, <1>12, GotAll DEF e, x

LEMMA Format06Read ==
  ASSUME NEW d \in Seq(Nat), NEW q \in Nat, NEW m \in Message, Len(m["sev"]) = 1,
         There(d, q, MessageEntry(m, 6)), q + MessageHead <= Len(d)
  PROVE  MessageGot(MessageAt(d, q), m, q + Len(MessageEntry(m, 6)) <= Len(d))
<1> DEFINE a == <<0, 6, 37, 37>>
           b == m["sev"]
           c == Fields(m, Fields06)
           ab == a \o b
           e == MessageEntry(m, 6)
           x == MessageAt(d, q)
<1>1. e = Sized(ab \o c)
  BY DEF MessageEntry
<1>2. a \in Seq(Nat) /\ b \in Seq(Nat) /\ c \in Seq(Nat) /\ Len(a) = 4 /\ a[2] = 6 /\ a[3] = 37 /\ a[4] = 37 /\ Len(b) = 1
  BY FieldLists, FieldsOfCells DEF Message, MessageFields
<1> HIDE DEF a, b, c
<1>3. ab \in Seq(Nat) /\ Len(ab) = 5
  <2>1. a \in Seq(Nat) /\ b \in Seq(Nat)
    BY <1>2
  <2>2. a \o b \in Seq(Nat) /\ Len(a \o b) = Len(a) + Len(b)
    BY ONLY <2>1, Joined
  <2> QED
    BY <1>2, <2>2
<1> DEFINE abc == ab \o c
           p == q + 1
<1>4. ab = a \o b
  OBVIOUS
<1> HIDE DEF ab
<1>5. abc \in Seq(Nat) /\ Len(abc) = 5 + Len(c) /\ Len(c) \in Nat
  <2>1. ab \in Seq(Nat) /\ c \in Seq(Nat)
    BY <1>2, <1>3
  <2>2. ab \o c \in Seq(Nat) /\ Len(ab \o c) = Len(ab) + Len(c) /\ Len(c) \in Nat
    BY ONLY <2>1, Joined
  <2> QED
    BY <1>3, <2>2
<1>6. abc = ab \o c /\ e = Sized(abc) /\ There(d, q, Sized(abc))
  BY <1>1
<1> HIDE DEF abc, e
<1>7. There(d, p, abc) /\ Len(e) = 6 + Len(c)
  <2>1. There(d, q + 1, abc) /\ Len(Sized(abc)) = 1 + Len(abc)
    <3>1. abc \in Seq(Nat) /\ There(d, q, Sized(abc))
      BY <1>5, <1>6
    <3> QED
      BY ONLY <3>1, d \in Seq(Nat), q \in Nat, SizedThere
  <2> QED
    BY <1>5, <1>6, <2>1
<1>8. p \in Nat /\ p + 4 = q + 5 /\ p + 5 = q + 6 /\ p + 2 = q + 3 /\ p + 3 = q + 4
  OBVIOUS
<1> HIDE DEF p
<1>9. There(d, p, ab) /\ There(d, q + 6, c)
  <2>1. ab \in Seq(Nat) /\ c \in Seq(Nat) /\ There(d, p, ab \o c)
    BY <1>2, <1>3, <1>6, <1>7
  <2>2. There(d, p, ab) /\ There(d, p + Len(ab), c)
    BY ONLY <1>8, <2>1, d \in Seq(Nat), ThereBehind
  <2> QED
    BY <1>3, <1>8, <2>2
<1>10. There(d, p, a) /\ There(d, q + 5, b)
  <2>1. a \in Seq(Nat) /\ b \in Seq(Nat) /\ There(d, p, a \o b)
    BY <1>2, <1>4, <1>9
  <2>2. There(d, p, a) /\ There(d, p + Len(a), b)
    BY ONLY <1>8, <2>1, d \in Seq(Nat), ThereBehind
  <2> QED
    BY <1>2, <1>8, <2>2
<1>11. q + 3 <= Len(d) /\ q + 3 \in Nat /\ q + 4 \in Nat /\ q + 5 \in Nat /\ q + 6 \in Nat /\ Len(d) \in Nat
  BY DEF MessageHead
<1>12. d[q + 3] = 6
  BY <1>2, <1>8, <1>10, <1>11, SMTT(30) DEF There
<1> DEFINE ccsid == <<37>>
           r1 == ReadCells(d, UpToEnd(q + 3, d), 1)
           r2 == ReadCells(d, r1.off, 1)
           r3 == ReadCells(d, r2.off, 1)
           y == [NoMessage EXCEPT !["sev"] = r3.data]
<1>13. ccsid \in Seq(Nat) /\ Len(ccsid) = 1 /\ There(d, q + 3, ccsid) /\ There(d, q + 4, ccsid)
  <2>1. q + 4 <= Len(d) => d[q + 4] = 37
    BY <1>2, <1>8, <1>10, SMTT(30) DEF There
  <2>2. q + 5 <= Len(d) => d[q + 5] = 37
    BY <1>2, <1>8, <1>10 DEF There
  <2>3. q + 3 + 1 = q + 4 /\ q + 4 + 1 = q + 5 /\ ccsid[1] = 37 /\ \A k \in 1 .. 1 : k = 1
    OBVIOUS
  <2>4. ccsid \in Seq(Nat) /\ Len(ccsid) = 1
    OBVIOUS
  <2> HIDE DEF ccsid
  <2> QED
    BY <2>1, <2>2, <2>3, <2>4 DEF There
<1> HIDE DEF ccsid
<1>14. r1.off = UpToEnd(q + 4, d)
  <2>1. ReadsPart(ReadCells(d, UpToEnd(q + 3, d), Len(ccsid)), d, q + 3 + Len(ccsid), ccsid)
    BY <1>11, <1>13, CellsRead
  <2>2. q + 3 + 1 = q + 4
    OBVIOUS
  <2> QED
    BY <1>13, <2>1, <2>2 DEF ReadsPart
<1> HIDE DEF r1
<1>15. r2.off = UpToEnd(q + 5, d)
  <2>1. ReadsPart(ReadCells(d, UpToEnd(q + 4, d), Len(ccsid)), d, q + 4 + Len(ccsid), ccsid)
    BY <1>11, <1>13, CellsRead
  <2>2. q + 4 + 1 = q + 5
    OBVIOUS
  <2> QED
    BY <1>13, <1>14, <2>1, <2>2 DEF ReadsPart
<1> HIDE DEF r2
<1>16. r3.off = UpToEnd(q + 6, d) /\ r3.data \in {b, << >>} /\ (q + 6 <= Len(d) => r3.data = b)
  <2>1. ReadsPart(ReadCells(d, UpToEnd(q + 5, d), Len(b)), d, q + 5 + Len(b), b)
    BY <1>2, <1>10, <1>11, CellsRead
  <2>2. q + 5 + 1 = q + 6
    OBVIOUS
  <2> QED
    BY <1>2, <1>15, <2>1, <2>2 DEF ReadsPart
<1>17. x = WithFields(y, d, UpToEnd(q + 6, d), Fields06)
  <2>1. UpToEnd(q + 3, d) = q + MessageHead /\ q + MessageHead = q + 3
    BY <1>11 DEF UpToEnd, MessageHead
  <2>2. x = Message06(d, q + MessageHead)
    BY <1>12 DEF MessageAt
  <2>3. Message06(d, UpToEnd(q + 3, d)) = WithFields(y, d, r3.off, Fields06)
    BY DEF Message06, r1, r2
  <2> QED
    BY <1>16, <2>1, <2>2, <2>3
<1> HIDE DEF r3, x
<1>18. y \in Message /\ \A f \in MessageFields : y[f] = IF f = "sev" THEN r3.data ELSE << >>
  <2>1. r3.data \in Seq(Nat)
    <3>1. << >> \in Seq(Nat)
      OBVIOUS
    <3> QED
      BY <1>2, <1>16, <3>1
  <2>2. y \in Message
    BY <2>1, NothingYet, FieldSet
  <2> QED
    BY <2>2, NothingYet DEF Message
<1> HIDE DEF y
<1>19. \A f \in MessageFields : y[f] \in {m[f], << >>}
  BY <1>16, <1>18 DEF b
<1>20. FieldsTrue(x, m, y, Fields06, Len(Fields06), q + 6 + Len(c) <= Len(d))
  <2>1. Fields06 \in Seq(FieldNames) /\ There(d, q + 6, Fields(m, Fields06)) /\ q + 6 \in Nat
    BY <1>9, <1>11, FieldLists DEF c
  <2> QED
    BY <1>17, <1>18, <1>19, <2>1, FieldsReadTrue DEF c
<1>21. x \in Message
  BY MessageCells DEF x
<1>22. (q + Len(e) <= Len(d)) <=> (q + 6 + Len(c) <= Len(d))
  BY <1>5, <1>7
<1>23. \A f \in MessageFields : x[f] \in {m[f], << >>}
  BY <1>20 DEF FieldsTrue
<1>24. ASSUME q + 6 + Len(c) <= Len(d), NEW f \in MessageFields PROVE x[f] = m[f]
  <2>1. q + 6 <= Len(d)
    BY <1>5, <1>11, <1>24
  <2>2. x[f] = IF f # "sev" THEN m[f] ELSE y[f]
    BY <1>20, <1>24, FieldPlaces DEF FieldsTrue
  <2> QED
    BY <1>16, <1>18, <2>1, <2>2 DEF b
<1> QED
  BY <1>21, <1>22, <1>23, <1>24, GotAll DEF e, x



\* The classic format: what comes behind the length, from its cells 2 and 3 on.
LEMMA ClassicLaid ==
  ASSUME NEW d \in Seq(Nat), NEW q \in Nat, NEW m \in Message, \A f \in FixedFields : Len(m[f]) = 1,
         There(d, q, MessageEntry(m, 0))
  PROVE  /\ Len(MessageEntry(m, 0)) = 10 + Len(m["sub"]) + Len(m["text"])
         /\ q + 3 <= Len(d) => d[q + 3] = 0
         /\ There(d, q + 3, m["id"]) /\ There(d, q + 4, m["type"]) /\ There(d, q + 5, m["sev"])
         /\ There(d, q + 6, m["file"]) /\ There(d, q + 7, m["lib"])
         /\ q + 9 <= Len(d) => d[q + 9] = Len(m["sub"])
         /\ q + 10 <= Len(d) => d[q + 10] = Len(m["text"])
         /\ There(d, q + 10, m["sub"])
         /\ There(d, q + 10 + Len(m["sub"]), m["text"])
<1> DEFINE a == <<0, 0>>
           id == m["id"]
           type == m["type"]
           sev == m["sev"]
           file == m["file"]
           lib == m["lib"]
           g == <<Len(m["sub"]), Len(m["text"])>>
           sub == m["sub"]
           text == m["text"]
           e == MessageEntry(m, 0)
           p == q + 1
<1>1. /\ id \in Seq(Nat) /\ type \in Seq(Nat) /\ sev \in Seq(Nat) /\ file \in Seq(Nat) /\ lib \in Seq(Nat)
      /\ sub \in Seq(Nat) /\ text \in Seq(Nat)
      /\ Len(id) = 1 /\ Len(type) = 1 /\ Len(sev) = 1 /\ Len(file) = 1 /\ Len(lib) = 1
  BY DEF Message, MessageFields, FixedFields
<1>2. a \in Seq(Nat) /\ Len(a) = 2 /\ a[2] = 0
  OBVIOUS
<1>3. e = Sized(a \o id \o type \o sev \o file \o lib \o g \o sub \o text)
  BY DEF MessageEntry
<1>4. g = <<Len(sub), Len(text)>>
  OBVIOUS
<1>5. There(d, q, e)
  OBVIOUS
<1> HIDE DEF a, id, type, sev, file, lib, g, sub, text, e
<1>6. Len(sub) \in Nat /\ Len(text) \in Nat
  BY <1>1
<1>7. g \in Seq(Nat) /\ Len(g) = 2 /\ g[1] = Len(sub) /\ g[2] = Len(text)
  BY <1>4, <1>6
<1> DEFINE s1 == a \o id
           s2 == s1 \o type
           s3 == s2 \o sev
           s4 == s3 \o file
           s5 == s4 \o lib
           s6 == s5 \o g
           s7 == s6 \o sub
           s8 == s7 \o text
<1>8. e = Sized(s8)
  BY <1>3
<1>9. s1 \in Seq(Nat) /\ Len(s1) = 3
  <2>1. a \in Seq(Nat) /\ id \in Seq(Nat)
    BY <1>1, <1>2
  <2>2. a \o id \in Seq(Nat) /\ Len(a \o id) = Len(a) + Len(id)
    BY ONLY <2>1, Joined
  <2> QED
    BY <1>1, <1>2, <2>2
<1>10. s1 = a \o id
  OBVIOUS
<1> HIDE DEF s1
<1>11. s2 \in Seq(Nat) /\ Len(s2) = 4
  <2>1. s1 \in Seq(Nat) /\ type \in Seq(Nat)
    BY <1>1, <1>9
  <2>2. s1 \o type \in Seq(Nat) /\ Len(s1 \o type) = Len(s1) + Len(type)
    BY ONLY <2>1, Joined
  <2> QED
    BY <1>1, <1>9, <2>2
<1>12. s2 = s1 \o type
  OBVIOUS
<1> HIDE DEF s2
<1>13. s3 \in Seq(Nat) /\ Len(s3) = 5
  <2>1. s2 \in Seq(Nat) /\ sev \in Seq(Nat)
    BY <1>1, <1>11
  <2>2. s2 \o sev \in Seq(Nat) /\ Len(s2 \o sev) = Len(s2) + Len(sev)
    BY ONLY <2>1, Joined
  <2> QED
    BY <1>1, <1>11, <2>2
<1>14. s3 = s2 \o sev
  OBVIOUS
<1> HIDE DEF s3
<1>15. s4 \in Seq(Nat) /\ Len(s4) = 6
  <2>1. s3 \in Seq(Nat) /\ file \in Seq(Nat)
    BY <1>1, <1>13
  <2>2. s3 \o file \in Seq(Nat) /\ Len(s3 \o file) = Len(s3) + Len(file)
    BY ONLY <2>1, Joined
  <2> QED
    BY <1>1, <1>13, <2>2
<1>16. s4 = s3 \o file
  OBVIOUS
<1> HIDE DEF s4
<1>17. s5 \in Seq(Nat) /\ Len(s5) = 7
  <2>1. s4 \in Seq(Nat) /\ lib \in Seq(Nat)
    BY <1>1, <1>15
  <2>2. s4 \o lib \in Seq(Nat) /\ Len(s4 \o lib) = Len(s4) + Len(lib)
    BY ONLY <2>1, Joined
  <2> QED
    BY <1>1, <1>15, <2>2
<1>18. s5 = s4 \o lib
  OBVIOUS
<1> HIDE DEF s5
<1>19. s6 \in Seq(Nat) /\ Len(s6) = 9
  <2>1. s5 \in Seq(Nat) /\ g \in Seq(Nat)
    BY <1>7, <1>17
  <2>2. s5 \o g \in Seq(Nat) /\ Len(s5 \o g) = Len(s5) + Len(g)
    BY ONLY <2>1, Joined
  <2> QED
    BY <1>7, <1>17, <2>2
<1>20. s6 = s5 \o g
  OBVIOUS
<1> HIDE DEF s6
<1>21. s7 \in Seq(Nat) /\ Len(s7) = 9 + Len(sub)
  <2>1. s6 \in Seq(Nat) /\ sub \in Seq(Nat)
    BY <1>1, <1>19
  <2>2. s6 \o sub \in Seq(Nat) /\ Len(s6 \o sub) = Len(s6) + Len(sub)
    BY ONLY <2>1, Joined
  <2> QED
    BY <1>19, <2>2
<1>22. s7 = s6 \o sub
  OBVIOUS
<1> HIDE DEF s7
<1>23. s8 \in Seq(Nat) /\ Len(s8) = 9 + Len(sub) + Len(text)
  <2>1. s7 \in Seq(Nat) /\ text \in Seq(Nat)
    BY <1>1, <1>21
  <2>2. s7 \o text \in Seq(Nat) /\ Len(s7 \o text) = Len(s7) + Len(text)
    BY ONLY <2>1, Joined
  <2> QED
    BY <1>21, <2>2
<1>24. s8 = s7 \o text
  OBVIOUS
<1> HIDE DEF s8
<1>25. There(d, p, s8) /\ Len(e) = 1 + Len(s8)
  BY <1>5, <1>8, <1>23, SizedThere
<1>26. /\ p \in Nat /\ p + 2 = q + 3 /\ p + 3 = q + 4 /\ p + 4 = q + 5 /\ p + 5 = q + 6 /\ p + 6 = q + 7
       /\ p + 7 = q + 8 /\ p + 9 = q + 10 /\ p + (9 + Len(sub)) = q + 10 + Len(sub)
       /\ q + 8 + 1 = q + 9 /\ q + 8 + 2 = q + 10
  BY <1>6
<1> HIDE DEF p
<1>27. There(d, p, s7) /\ There(d, q + 10 + Len(sub), text)
  <2>1. s7 \in Seq(Nat) /\ text \in Seq(Nat) /\ There(d, p, s7 \o text)
    BY <1>1, <1>21, <1>24, <1>25
  <2>2. There(d, p, s7) /\ There(d, p + Len(s7), text)
    BY ONLY <1>26, <2>1, d \in Seq(Nat), ThereBehind
  <2> QED
    BY <1>21, <1>26, <2>2
<1>28. There(d, p, s6) /\ There(d, q + 10, sub)
  <2>1. s6 \in Seq(Nat) /\ sub \in Seq(Nat) /\ There(d, p, s6 \o sub)
    BY <1>1, <1>19, <1>22, <1>27
  <2>2. There(d, p, s6) /\ There(d, p + Len(s6), sub)
    BY ONLY <1>26, <2>1, d \in Seq(Nat), ThereBehind
  <2> QED
    BY <1>19, <1>26, <2>2
<1>29. There(d, p, s5) /\ There(d, q + 8, g)
  <2>1. s5 \in Seq(Nat) /\ g \in Seq(Nat) /\ There(d, p, s5 \o g)
    BY <1>7, <1>17, <1>20, <1>28
  <2>2. There(d, p, s5) /\ There(d, p + Len(s5), g)
    BY ONLY <1>26, <2>1, d \in Seq(Nat), ThereBehind
  <2> QED
    BY <1>17, <1>26, <2>2
<1>30. There(d, p, s4) /\ There(d, q + 7, lib)
  <2>1. s4 \in Seq(Nat) /\ lib \in Seq(Nat) /\ There(d, p, s4 \o lib)
    BY <1>1, <1>15, <1>18, <1>29
  <2>2. There(d, p, s4) /\ There(d, p + Len(s4), lib)
    BY ONLY <1>26, <2>1, d \in Seq(Nat), ThereBehind
  <2> QED
    BY <1>15, <1>26, <2>2
<1>31. There(d, p, s3) /\ There(d, q + 6, file)
  <2>1. s3 \in Seq(Nat) /\ file \in Seq(Nat) /\ There(d, p, s3 \o file)
    BY <1>1, <1>13, <1>16, <1>30
  <2>2. There(d, p, s3) /\ There(d, p + Len(s3), file)
    BY ONLY <1>26, <2>1, d \in Seq(Nat), ThereBehind
  <2> QED
    BY <1>13, <1>26, <2>2
<1>32. There(d, p, s2) /\ There(d, q + 5, sev)
  <2>1. s2 \in Seq(Nat) /\ sev \in Seq(Nat) /\ There(d, p, s2 \o sev)
    BY <1>1, <1>11, <1>14, <1>31
  <2>2. There(d, p, s2) /\ There(d, p + Len(s2), sev)
    BY ONLY <1>26, <2>1, d \in Seq(Nat), ThereBehind
  <2> QED
    BY <1>11, <1>26, <2>2
<1>33. There(d, p, s1) /\ There(d, q + 4, type)
  <2>1. s1 \in Seq(Nat) /\ type \in Seq(Nat) /\ There(d, p, s1 \o type)
    BY <1>1, <1>9, <1>12, <1>32
  <2>2. There(d, p, s1) /\ There(d, p + Len(s1), type)
    BY ONLY <1>26, <2>1, d \in Seq(Nat), ThereBehind
  <2> QED
    BY <1>9, <1>26, <2>2
<1>34. There(d, p, a) /\ There(d, q + 3, id)
  <2>1. a \in Seq(Nat) /\ id \in Seq(Nat) /\ There(d, p, a \o id)
    BY <1>1, <1>2, <1>10, <1>33
  <2>2. There(d, p, a) /\ There(d, p + Len(a), id)
    BY ONLY <1>26, <2>1, d \in Seq(Nat), ThereBehind
  <2> QED
    BY <1>2, <1>26, <2>2
<1>35. q + 3 <= Len(d) => d[q + 3] = 0
  BY <1>2, <1>26, <1>34 DEF There
<1>36. (q + 9 <= Len(d) => d[q + 9] = Len(sub)) /\ (q + 10 <= Len(d) => d[q + 10] = Len(text))
  BY <1>7, <1>26, <1>29 DEF There
<1>37. Len(e) = 10 + Len(sub) + Len(text)
  BY <1>6, <1>23, <1>25
<1> QED
  BY <1>27, <1>28, <1>30, <1>31, <1>32, <1>33, <1>34, <1>35, <1>36, <1>37 DEF id, type, sev, file, lib, sub, text, e

LEMMA SliceRead ==
  ASSUME NEW d \in Seq(Nat), NEW i \in Nat, NEW s \in Seq(Nat), There(d, i, s), i + Len(s) <= Len(d)
  PROVE  SubSeq(d, i + 1, i + Len(s)) = s
<1>1. UpToEnd(i, d) = i /\ Len(s) \in Nat /\ Len(d) \in Nat
  BY DEF UpToEnd
<1>2. ReadCells(d, i, Len(s)).data = s
  BY <1>1, CellsRead DEF ReadsPart
<1> QED
  BY <1>2 DEF ReadCells

LEMMA OneCell ==
  ASSUME NEW d \in Seq(Nat), NEW i \in Nat, NEW s \in Seq(Nat), There(d, i, s), Len(s) = 1, i + 1 <= Len(d)
  PROVE  <<d[i + 1]>> = s
<1> DEFINE v == s[1]
<1>1. d[i + 1] = v /\ v \in Nat
  BY DEF There
<1>2. <<v>> \in Seq(Nat) /\ Len(<<v>>) = 1 /\ <<v>>[1] = v
  BY <1>1
<1> DEFINE t == <<v>>
<1>3. t \in Seq(Nat) /\ Len(t) = Len(s) /\ \A k \in 1 .. Len(t) : t[k] = s[k]
  BY <1>2
<1> HIDE DEF t
<1>4. t = s
  BY <1>3, SameElements
<1> QED
  BY <1>1, <1>4 DEF t

\* A message as its format shows it.
LEMMA ShownFields ==
  ASSUME NEW m \in Message, NEW format
  PROVE  /\ Shown(m, format) \in Message
         /\ \A f \in MessageFields : Shown(m, format)[f] = IF format = 0 /\ f = "help" THEN << >> ELSE m[f]
<1>1. << >> \in Seq(Nat)
  OBVIOUS
<1>2. [m EXCEPT !["help"] = << >>] \in Message
  BY <1>1, FieldSet
<1>3. \A f \in MessageFields : [m EXCEPT !["help"] = << >>][f] = IF f = "help" THEN << >> ELSE m[f]
  BY DEF Message
<1> QED
  BY <1>2, <1>3 DEF Shown

LEMMA EndsBefore ==
  ASSUME NEW q \in Nat, NEW l \in Nat, NEW n1 \in Nat, NEW n2 \in Nat
  PROVE  /\ q + 10 \in Nat /\ q + 10 + n1 \in Nat
         /\ q + 10 + n1 <= l => q + 10 <= l
         /\ q + 10 + n1 + n2 <= l => q + 8 <= l /\ q + 10 <= l /\ q + 10 + n1 <= l
         /\ q + (10 + n1 + n2) = q + 10 + n1 + n2
OBVIOUS

LEMMA FormatClassicRead ==
  ASSUME NEW d \in Seq(Nat), NEW q \in Nat, NEW m \in Message, \A f \in FixedFields : Len(m[f]) = 1,
         There(d, q, MessageEntry(m, 0)), q + MessageHead <= Len(d)
  PROVE  MessageGot(MessageAt(d, q), Shown(m, 0), q + Len(MessageEntry(m, 0)) <= Len(d))
<1> DEFINE e == MessageEntry(m, 0)
           x == MessageAt(d, q)
           l == Len(d)
           n1 == Len(m["sub"])
           n2 == Len(m["text"])
           at == q + MessageHead
           cell(i) == IF at + 5 <= Len(d) THEN <<d[at + i]>> ELSE << >>
           lengths == at + 7 <= Len(d)
           subEnd == at + 7 + d[at + 6]
           textEnd == subEnd + d[at + 7]
           slice(i, j) == IF j <= Len(d) THEN SubSeq(d, i + 1, j) ELSE << >>
           s == IF lengths THEN slice(at + 7, subEnd) ELSE << >>
           t == IF lengths THEN slice(subEnd, textEnd) ELSE << >>
<1>1. /\ l \in Nat /\ n1 \in Nat /\ n2 \in Nat /\ at = q + 3 /\ at \in Nat
      /\ \A f \in MessageFields : m[f] \in Seq(Nat)
      /\ {"id", "type", "sev", "file", "lib", "sub", "text"} \subseteq MessageFields
  BY DEF MessageHead, Message, MessageFields
<1>17. q + 3 <= l
  BY DEF MessageHead
<1>18. /\ q + 10 \in Nat /\ q + 10 + n1 \in Nat
       /\ q + 10 + n1 <= l => q + 10 <= l
       /\ q + 10 + n1 + n2 <= l => q + 8 <= l /\ q + 10 <= l /\ q + 10 + n1 <= l
       /\ q + (10 + n1 + n2) = q + 10 + n1 + n2
  <2>1. l \in Nat /\ n1 \in Nat /\ n2 \in Nat
    BY <1>1
  <2> HIDE DEF l, n1, n2
  <2> QED
    BY <2>1, EndsBefore
<1>2. /\ Len(e) = 10 + n1 + n2 /\ d[q + 3] = 0
      /\ There(d, q + 3, m["id"]) /\ There(d, q + 4, m["type"]) /\ There(d, q + 5, m["sev"])
      /\ There(d, q + 6, m["file"]) /\ There(d, q + 7, m["lib"])
      /\ q + 9 <= l => d[q + 9] = n1
      /\ q + 10 <= l => d[q + 10] = n2
      /\ There(d, q + 10, m["sub"]) /\ There(d, q + 10 + n1, m["text"])
  BY <1>17, ClassicLaid
<1>3. x = MessageClassic(d, at)
  <2>1. ~(d[q + 3] = 6) /\ ~(d[q + 3] = 7)
    BY <1>1, <1>2
  <2> QED
    BY <2>1 DEF MessageAt
<1>4. x = [NoMessage EXCEPT !["id"] = cell(1), !["type"] = cell(2), !["sev"] = cell(3),
                            !["file"] = cell(4), !["lib"] = cell(5), !["sub"] = s, !["text"] = t]
  BY <1>3 DEF MessageClassic
<1>5. x \in Message
  BY MessageCells
<1> HIDE DEF x, at
<1>6. at + 5 = q + 8 /\ at + 6 = q + 9 /\ at + 7 = q + 10
  BY <1>1
<1>7. IF q + 8 <= l
      THEN /\ cell(1) = m["id"] /\ cell(2) = m["type"] /\ cell(3) = m["sev"]
           /\ cell(4) = m["file"] /\ cell(5) = m["lib"]
      ELSE /\ cell(1) = << >> /\ cell(2) = << >> /\ cell(3) = << >>
           /\ cell(4) = << >> /\ cell(5) = << >>
  <2>1. CASE q + 8 <= l
    <3>1. /\ at + 1 = q + 3 + 1 /\ at + 2 = q + 4 + 1 /\ at + 3 = q + 5 + 1 /\ at + 4 = q + 6 + 1 /\ at + 5 = q + 7 + 1
          /\ q + 3 + 1 <= l /\ q + 4 + 1 <= l /\ q + 5 + 1 <= l /\ q + 6 + 1 <= l /\ q + 7 + 1 <= l
          /\ q + 3 \in Nat /\ q + 4 \in Nat /\ q + 5 \in Nat /\ q + 6 \in Nat /\ q + 7 \in Nat
      BY <1>1, <2>1
    <3>2. Len(m["id"]) = 1 /\ Len(m["type"]) = 1 /\ Len(m["sev"]) = 1 /\ Len(m["file"]) = 1 /\ Len(m["lib"]) = 1
      BY DEF FixedFields
    <3>3. <<d[q + 3 + 1]>> = m["id"]
      BY <1>1, <1>2, <3>1, <3>2, OneCell
    <3>4. <<d[q + 4 + 1]>> = m["type"]
      BY <1>1, <1>2, <3>1, <3>2, OneCell
    <3>5. <<d[q + 5 + 1]>> = m["sev"]
      BY <1>1, <1>2, <3>1, <3>2, OneCell
    <3>6. <<d[q + 6 + 1]>> = m["file"]
      BY <1>1, <1>2, <3>1, <3>2, OneCell
    <3>7. <<d[q + 7 + 1]>> = m["lib"]
      BY <1>1, <1>2, <3>1, <3>2, OneCell
    <3>8. at + 5 <= Len(d)
      BY <1>6, <2>1
    <3> QED
      BY <2>1, <3>1, <3>3, <3>4, <3>5, <3>6, <3>7, <3>8
  <2>2. CASE ~(q + 8 <= l)
    <3>1. ~(at + 5 <= Len(d))
      BY <1>6, <2>2
    <3> QED
      BY <2>2, <3>1
  <2> QED
    BY <2>1, <2>2
<1>8. lengths => subEnd = q + 10 + n1 /\ textEnd = q + 10 + n1 + n2
  <2> SUFFICES ASSUME lengths PROVE subEnd = q + 10 + n1 /\ textEnd = q + 10 + n1 + n2
    OBVIOUS
  <2>1. q + 10 <= l /\ q + 9 <= l
    BY <1>1, <1>6
  <2>2. d[at + 6] = n1 /\ d[at + 7] = n2
    BY <1>2, <1>6, <2>1
  <2> QED
    BY <1>6, <2>2
<1>9. s \in {m["sub"], << >>} /\ (q + 10 + n1 <= l => s = m["sub"])
  <2>1. CASE q + 10 + n1 <= l
    <3>1. lengths /\ q + 10 \in Nat
      BY <1>6, <1>18, <2>1
    <3>2. SubSeq(d, q + 10 + 1, q + 10 + n1) = m["sub"]
      BY <1>1, <1>2, <2>1, <3>1, SliceRead
    <3>3. s = m["sub"]
      BY <1>6, <1>8, <2>1, <3>1, <3>2
    <3> QED
      BY <3>3
  <2>2. CASE ~(q + 10 + n1 <= l)
    <3>1. lengths => s = << >>
      BY <1>8, <2>2
    <3> QED
      BY <2>2, <3>1
  <2> QED
    BY <2>1, <2>2
<1>10. t \in {m["text"], << >>} /\ (q + 10 + n1 + n2 <= l => t = m["text"])
  <2>1. CASE q + 10 + n1 + n2 <= l
    <3>1. lengths /\ q + 10 + n1 \in Nat
      BY <1>6, <1>18, <2>1
    <3>2. SubSeq(d, q + 10 + n1 + 1, q + 10 + n1 + n2) = m["text"]
      BY <1>1, <1>2, <2>1, <3>1, SliceRead
    <3>3. t = m["text"]
      BY <1>8, <2>1, <3>1, <3>2
    <3> QED
      BY <3>3
  <2>2. CASE ~(q + 10 + n1 + n2 <= l)
    <3>1. lengths => t = << >>
      BY <1>8, <2>2
    <3> QED
      BY <2>2, <3>1
  <2> QED
    BY <2>1, <2>2
<1> HIDE DEF cell, s, t, lengths, subEnd, textEnd, slice, e
<1>11. /\ x["id"] = cell(1) /\ x["type"] = cell(2) /\ x["sev"] = cell(3) /\ x["file"] = cell(4) /\ x["lib"] = cell(5)
       /\ x["sub"] = s /\ x["text"] = t /\ x["help"] = << >>
  BY <1>4 DEF NoMessage, MessageFields
<1> DEFINE y == Shown(m, 0)
<1>12. y \in Message /\ \A f \in MessageFields : y[f] = IF f = "help" THEN << >> ELSE m[f]
  BY ShownFields
<1> HIDE DEF y
<1>13. /\ y["id"] = m["id"] /\ y["type"] = m["type"] /\ y["sev"] = m["sev"] /\ y["file"] = m["file"]
       /\ y["lib"] = m["lib"] /\ y["sub"] = m["sub"] /\ y["text"] = m["text"] /\ y["help"] = << >>
  BY <1>12 DEF MessageFields
<1>14. \A f \in MessageFields : x[f] \in {y[f], << >>}
  <2>1. /\ x["id"] \in {y["id"], << >>} /\ x["type"] \in {y["type"], << >>} /\ x["sev"] \in {y["sev"], << >>}
        /\ x["file"] \in {y["file"], << >>} /\ x["lib"] \in {y["lib"], << >>}
    BY <1>7, <1>11, <1>13
  <2>2. x["sub"] \in {y["sub"], << >>} /\ x["text"] \in {y["text"], << >>} /\ x["help"] \in {y["help"], << >>}
    BY <1>9, <1>10, <1>11, <1>13
  <2> QED
    BY <2>1, <2>2 DEF MessageFields
<1>15. ASSUME q + Len(e) <= l PROVE \A f \in MessageFields : x[f] = y[f]
  <2>1. q + 8 <= l /\ q + 10 + n1 <= l /\ q + 10 + n1 + n2 <= l
    BY <1>2, <1>15, <1>18
  <2>2. /\ x["id"] = y["id"] /\ x["type"] = y["type"] /\ x["sev"] = y["sev"] /\ x["file"] = y["file"] /\ x["lib"] = y["lib"]
        /\ x["sub"] = y["sub"] /\ x["text"] = y["text"] /\ x["help"] = y["help"]
    BY <1>7, <1>9, <1>10, <1>11, <1>13, <2>1
  <2> QED
    BY <2>2 DEF MessageFields
<1>16. MessageGot(x, y, q + Len(e) <= l)
  BY <1>5, <1>12, <1>14, <1>15, GotAll
<1> QED
  BY <1>16 DEF x, y, e

Formats == {0, 6, 7}
Fixed(m) == \A f \in FixedFields : Len(m[f]) = 1

\* An entry starts with its length, and has a format.
LEMMA EntryHeads ==
  ASSUME NEW m \in Message, Fixed(m), NEW format \in Formats
  PROVE  LET e == MessageEntry(m, format) IN
         e \in Seq(Nat) /\ Len(e) \in Nat /\ Len(e) >= MessageHead /\ e[1] = Len(e)
<1> DEFINE e == MessageEntry(m, format)
<1>1. e \in Seq(Nat)
  BY EntryOfMessageCells
<1>2. ASSUME NEW s \in Seq(Nat), e = Sized(s), Len(s) >= 2 PROVE Len(e) \in Nat /\ Len(e) >= MessageHead /\ e[1] = Len(e)
  <2> HIDE DEF e
  <2>1. Len(s) \in Nat /\ Len(e) \in Nat
    BY <1>1
  <2>2. 0 \in Nat /\ e \in Seq(Nat)
    BY <1>1
  <2>3. There(e, 0, Sized(s))
    BY <1>2, <2>1 DEF There
  <2>4. Len(Sized(s)) = 1 + Len(s) /\ (0 + 1 <= Len(e) => e[0 + 1] = Len(Sized(s)))
    BY ONLY <2>2, <2>3, s \in Seq(Nat), SizedThere
  <2> QED
    BY <1>2, <2>1, <2>4 DEF MessageHead
<1>6. SUFFICES Len(e) \in Nat /\ Len(e) >= MessageHead /\ e[1] = Len(e)
  BY <1>1
<1>3. CASE format = 0
  <2> DEFINE s == <<0, 0>> \o m["id"] \o m["type"] \o m["sev"] \o m["file"] \o m["lib"]
                  \o <<Len(m["sub"]), Len(m["text"])>> \o m["sub"] \o m["text"]
  <2>1. e = Sized(s) /\ e = MessageEntry(m, 0)
    BY <1>3 DEF MessageEntry
  <2>2. There(e, 0, e)
    BY <1>1 DEF There
  <2> HIDE DEF s, e
  <2>3. \A f \in FixedFields : Len(m[f]) = 1
    BY DEF Fixed
  <2>4. Len(m["sub"]) \in Nat /\ Len(m["text"]) \in Nat
    BY DEF Message, MessageFields
  <2>5. Len(e) = 10 + Len(m["sub"]) + Len(m["text"])
    BY <1>1, <2>1, <2>2, <2>3, ClassicLaid
  <2>6. 0 \in Nat /\ Len(e) \in Nat /\ Len(e) >= 10
    <3> DEFINE n1 == Len(m["sub"])
               n2 == Len(m["text"])
    <3>1. n1 \in Nat /\ n2 \in Nat /\ Len(e) = 10 + n1 + n2
      BY <2>4, <2>5
    <3> HIDE DEF n1, n2
    <3> QED
      BY <3>1
  <2>7. e = <<1 + Len(s)>> \o s
    BY <2>1 DEF Sized
  <2>8. s \in Seq(Nat)
    <3>1. \A f \in MessageFields : m[f] \in Seq(Nat)
      BY DEF Message
    <3>2. {"id", "type", "sev", "file", "lib", "sub", "text"} \subseteq MessageFields
      BY DEF MessageFields
    <3> QED
      BY <3>1, <3>2 DEF s
  <2>9. Len(s) \in Nat /\ Len(s) >= 2
    <3> DEFINE one == <<1 + Len(s)>>
    <3>1. one \in Seq(Nat) /\ Len(one) = 1 /\ e = one \o s /\ Len(s) \in Nat
      BY <2>7, <2>8
    <3> HIDE DEF one
    <3>2. Len(one \o s) = Len(one) + Len(s)
      BY ONLY <3>1, <2>8, Joined
    <3> QED
      BY <2>6, <3>1, <3>2
  <2> QED
    BY <1>2, <2>1, <2>8, <2>9
<1>4. CASE format = 6
  <2> DEFINE a == <<0, 6, 37, 37>>
             b == m["sev"]
             c == Fields(m, Fields06)
             ab == a \o b
  <2>1. e = Sized(ab \o c)
    BY <1>4 DEF MessageEntry
  <2>2. a \in Seq(Nat) /\ b \in Seq(Nat) /\ c \in Seq(Nat) /\ Len(a) = 4
    BY FieldLists, FieldsOfCells DEF Message, MessageFields
  <2> HIDE DEF a, b, c, e
  <2>3. ab \in Seq(Nat) /\ Len(ab) = Len(a) + Len(b) /\ Len(b) \in Nat
    BY ONLY <2>2, Joined
  <2> HIDE DEF ab
  <2>4. ab \o c \in Seq(Nat) /\ Len(ab \o c) = Len(ab) + Len(c) /\ Len(c) \in Nat
    <3>1. ab \in Seq(Nat) /\ c \in Seq(Nat)
      BY <2>2, <2>3
    <3> QED
      BY ONLY <3>1, Joined
  <2> DEFINE s == ab \o c
  <2>5. s \in Seq(Nat) /\ Len(s) >= 2 /\ e = Sized(s)
    BY <2>1, <2>2, <2>3, <2>4
  <2> HIDE DEF s
  <2> QED
    BY <1>2, <2>5
<1>5. CASE format = 7
  <2> DEFINE a == <<0, 7>>
             b == Fields(m, Fields07)
  <2>1. e = Sized(a \o b)
    BY <1>5 DEF MessageEntry
  <2>2. a \in Seq(Nat) /\ b \in Seq(Nat) /\ Len(a) = 2
    BY FieldLists, FieldsOfCells
  <2> HIDE DEF a, b, e
  <2>3. a \o b \in Seq(Nat) /\ Len(a \o b) = Len(a) + Len(b) /\ Len(b) \in Nat
    BY ONLY <2>2, Joined
  <2> DEFINE s == a \o b
  <2>4. s \in Seq(Nat) /\ Len(s) >= 2 /\ e = Sized(s)
    BY <2>1, <2>2, <2>3
  <2> HIDE DEF s
  <2> QED
    BY <1>2, <2>4
<1> QED
  BY <1>3, <1>4, <1>5 DEF Formats

\* What is read of a message where its entry begins.
LEMMA EntryGot ==
  ASSUME NEW d \in Seq(Nat), NEW q \in Nat, NEW m \in Message, Fixed(m), NEW format \in Formats,
         There(d, q, MessageEntry(m, format)), q + MessageHead <= Len(d)
  PROVE  MessageGot(MessageAt(d, q), Shown(m, format), q + Len(MessageEntry(m, format)) <= Len(d))
<1>1. \A f \in FixedFields : Len(m[f]) = 1
  BY DEF Fixed
<1>2. CASE format = 0
  BY <1>1, <1>2, FormatClassicRead
<1>3. CASE format = 6
  <2>1. Len(m["sev"]) = 1 /\ Shown(m, 6) = m
    BY <1>1 DEF FixedFields, Shown
  <2>2. There(d, q, MessageEntry(m, 6))
    BY <1>3
  <2> QED
    BY <1>3, <2>1, <2>2, Format06Read
<1>4. CASE format = 7
  <2>1. Shown(m, 7) = m
    BY DEF Shown
  <2>2. There(d, q, MessageEntry(m, 7))
    BY <1>4
  <2> QED
    BY <1>4, <2>1, <2>2, Format07Read
<1> QED
  BY <1>2, <1>3, <1>4 DEF Formats

\* The messages read are those shown, or the first of them if the reply is not
\* whole, the last one perhaps without some of its fields.
Listed(ms, list, all) ==
  IF all THEN ms = list
  ELSE /\ Len(ms) <= Len(list)
       /\ \A i \in 1 .. Len(ms) - 1 : ms[i] = list[i]
       /\ Len(ms) > 0 => \A f \in MessageFields : ms[Len(ms)][f] \in {list[Len(ms)][f], << >>}

Entries(list, format) == [i \in 1 .. Len(list) |-> MessageEntry(list[i], format)]
ShownList(list, format) == [i \in DOMAIN list |-> Shown(list[i], format)]

\* What has been read after k messages of d, if it is the beginning of what holds the entries.
ReadUpTo(acc, n, k, d, list, format, at) ==
  /\ k \in 0 .. n /\ acc.off = 2 + at[k] /\ acc.list \in Seq(Message) /\ Len(acc.list) = k /\ acc.more
  /\ k = n \/ 2 + at[k] + MessageHead > Len(d)
  /\ \A i \in 1 .. k : /\ MessageGot(acc.list[i], Shown(list[i], format), 2 + at[i] <= Len(d))
                       /\ i < k => 2 + at[i] <= Len(d)

\* d is the beginning of a body that holds the entries.
BeginsWith(d, body) == d \in Seq(Nat) /\ Len(d) <= Len(body) /\ \A k \in 1 .. Len(d) : d[k] = body[k]

LEMMA MessageComes ==
  ASSUME NEW list \in Seq(Message), \A i \in 1 .. Len(list) : Fixed(list[i]), NEW format \in Formats,
         NEW body, NEW c, NEW at, Holds(body, c, Len(list), Entries(list, format), at),
         NEW d, BeginsWith(d, body),
         NEW n \in 1 .. Len(list), NEW k \in Nat, NEW acc,
         ReadUpTo(acc, n - 1, k, d, list, format, at)
  PROVE  \E j \in {k, k + 1} : ReadUpTo(MessageRead(d, acc), n, j, d, list, format, at)
<1> DEFINE N == Len(list)
           es == Entries(list, format)
           a == at[k]
           x == MessageRead(d, acc)
<1>1. N \in Nat /\ Len(d) \in Nat /\ d \in Seq(Nat) /\ k \in 0 .. n - 1 /\ n - 1 \in Nat
  BY DEF BeginsWith, ReadUpTo
<1>2. Len(es) = N
  BY <1>1 DEF Entries
<1>3. /\ at[N] \in Nat /\ \A i \in 0 .. N : at[i] \in 0 .. at[N]
      /\ Len(body) = 2 + at[N]
      /\ \A i \in 1 .. N : /\ at[i] = at[i - 1] + Len(es[i])
                           /\ \A j \in 1 .. Len(es[i]) : body[2 + at[i - 1] + j] = es[i][j]
  <2>1. N \in 0 .. N
    BY <1>1
  <2>2. Holds(body, c, N, es, at)
    OBVIOUS
  <2> HIDE DEF N, es
  <2>3. /\ Len(body) = 2 + at[N] /\ \A i \in 0 .. N : at[i] \in 0 .. at[N]
        /\ \A i \in 1 .. N : /\ at[i] = at[i - 1] + Len(es[i])
                             /\ \A j \in 1 .. Len(es[i]) : body[2 + at[i - 1] + j] = es[i][j]
    BY <1>2, <2>2 DEF Holds
  <2>4. at[N] \in Nat
    BY <2>1, <2>3
  <2> QED
    BY <2>3, <2>4
<1>4. a \in Nat /\ acc.off = 2 + a /\ acc.more /\ acc.list \in Seq(Message) /\ Len(acc.list) = k
  BY <1>1, <1>3 DEF ReadUpTo
<1> HIDE DEF x
<1>5. CASE 2 + a + MessageHead > Len(d)
  <2>1. x = acc
    BY <1>4, <1>5 DEF MessageRead, x
  <2>2. k \in 0 .. n
    BY <1>1
  <2>3. ReadUpTo(x, n, k, d, list, format, at)
    BY <1>5, <2>1, <2>2 DEF ReadUpTo
  <2> QED
    BY <2>3 DEF x
<1>6. CASE ~(2 + a + MessageHead > Len(d))
  <2> DEFINE q == 2 + a
             e == es[n]
             read == MessageAt(d, q)
             m == list[n]
  <2>1. k = n - 1
    BY <1>6 DEF ReadUpTo
  <2>2. q \in Nat /\ q + MessageHead <= Len(d)
    BY <1>1, <1>4, <1>6, SMTT(30) DEF MessageHead
  <2>3. m \in Message /\ Fixed(m) /\ e = MessageEntry(m, format)
    BY DEF Entries
  <2> HIDE DEF e, m
  <2>4. e \in Seq(Nat) /\ Len(e) \in Nat /\ Len(e) >= MessageHead /\ e[1] = Len(e)
    BY <2>3, EntryHeads
  <2>5. at[n] = a + Len(e) /\ \A j \in 1 .. Len(e) : body[q + j] = e[j]
    BY <1>3, <2>1 DEF e
  <2>6. q + Len(e) = 2 + at[n]
    BY <1>4, <2>4, <2>5
  <2> HIDE DEF q
  <2>7. There(d, q, e)
    <3> SUFFICES ASSUME NEW j \in 1 .. Len(e), q + j <= Len(d) PROVE d[q + j] = e[j]
      BY DEF There
    <3>1. q + j \in 1 .. Len(d)
      BY <1>1, <2>2, <2>4
    <3> QED
      BY <2>5, <3>1 DEF BeginsWith
  <2>8. MessageGot(read, Shown(m, format), 2 + at[n] <= Len(d)) /\ read \in Message
    <3>1. MessageGot(read, Shown(m, format), q + Len(MessageEntry(m, format)) <= Len(d))
      BY <1>1, <2>2, <2>3, <2>7, EntryGot
    <3> QED
      BY <2>3, <2>6, <3>1 DEF MessageGot
  <2>9. d[q + 1] = Len(e) /\ q + 1 <= Len(d)
    <3>1. q + 1 <= Len(d) /\ 1 \in 1 .. Len(e)
      BY <1>1, <2>2, <2>4 DEF MessageHead
    <3> QED
      BY <2>4, <2>7, <3>1 DEF There
  <2> DEFINE ms == Append(acc.list, read)
  <2> HIDE DEF read
  <2>10. x = [off |-> q + d[q + 1], list |-> ms, more |-> d[q + 1] # 0]
    <3>1. acc.off = q /\ ~(~acc.more \/ acc.off + MessageHead > Len(d))
      BY <1>4, <1>6 DEF q
    <3> QED
      BY <3>1 DEF MessageRead, x, read
  <2>11. x.off = 2 + at[n] /\ x.list = ms /\ x.more
    <3> HIDE DEF ms
    <3>1. x = [off |-> q + Len(e), list |-> ms, more |-> Len(e) # 0]
      BY <2>9, <2>10
    <3>2. Len(e) # 0
      BY <2>4 DEF MessageHead
    <3>3. x.off = q + Len(e) /\ x.list = ms /\ x.more = (Len(e) # 0)
      BY <3>1
    <3> QED
      BY <2>6, <3>2, <3>3
  <2>12. /\ ms \in Seq(Message) /\ Len(ms) = n /\ ms[n] = read
         /\ \A i \in 1 .. k : ms[i] = acc.list[i]
    <3> DEFINE l == acc.list
    <3>1. l \in Seq(Message) /\ Len(l) = k /\ k + 1 = n /\ k \in Nat
      BY <1>1, <1>4, <2>1
    <3> HIDE DEF l
    <3>2. /\ Append(l, read) \in Seq(Message) /\ Len(Append(l, read)) = n /\ Append(l, read)[n] = read
          /\ \A i \in 1 .. k : Append(l, read)[i] = l[i]
      BY <2>8, <3>1
    <3> QED
      BY <3>2 DEF l
  <2> HIDE DEF ms
  <2>13. ASSUME NEW i \in 1 .. n
         PROVE  /\ MessageGot(ms[i], Shown(list[i], format), 2 + at[i] <= Len(d))
                /\ i < n => 2 + at[i] <= Len(d)
    <3>1. CASE i = n
      BY <2>8, <2>12, <3>1 DEF m
    <3>2. CASE i \in 1 .. k
      <4>1. /\ MessageGot(acc.list[i], Shown(list[i], format), 2 + at[i] <= Len(d))
            /\ i < k => 2 + at[i] <= Len(d)
        BY <3>2 DEF ReadUpTo
      <4>2. i < k \/ i = k
        BY <1>1, <3>2
      <4>3. 2 + a <= Len(d)
        BY <1>1, <2>2 DEF q, MessageHead
      <4> QED
        BY <2>12, <3>2, <4>1, <4>2, <4>3
    <3> QED
      BY <1>1, <2>1, <3>1, <3>2
  <2>14. ReadUpTo(x, n, n, d, list, format, at)
    <3>1. n \in 0 .. n
      OBVIOUS
    <3> QED
      BY <2>11, <2>12, <2>13, <3>1 DEF ReadUpTo
  <2>15. n = k + 1
    BY <1>1, <2>1
  <2> QED
    BY <2>14, <2>15 DEF x
<1> QED
  BY <1>5, <1>6

LEMMA MessagesCome ==
  ASSUME NEW list \in Seq(Message), \A i \in 1 .. Len(list) : Fixed(list[i]), NEW format \in Formats,
         NEW body, NEW c, NEW at, Holds(body, c, Len(list), Entries(list, format), at),
         NEW d, BeginsWith(d, body)
  PROVE  Listed(ParseMessages(d), ShownList(list, format), Len(d) = Len(body))
<1> DEFINE N == Len(list)
           es == Entries(list, format)
           shown == ShownList(list, format)
           ms == ParseMessages(d)
<1>1. N \in Nat /\ Len(d) \in Nat /\ d \in Seq(Nat) /\ Len(es) = N
  BY DEF BeginsWith, Entries
<1>2. shown \in Seq(Message) /\ Len(shown) = N /\ \A i \in 1 .. N : shown[i] = Shown(list[i], format)
  <2>1. \A i \in 1 .. N : Shown(list[i], format) \in Message
    BY ShownFields
  <2>2. shown = [i \in 1 .. N |-> Shown(list[i], format)]
    BY DEF ShownList
  <2> QED
    BY <1>1, <2>1, <2>2
<1>3. /\ Len(body) = 2 + at[N] /\ body[2] = N /\ at[0] = 0 /\ at[N] \in Nat
      /\ \A i \in 0 .. N : at[i] \in 0 .. at[N]
      /\ \A i \in 1 .. N : at[i] = at[i - 1] + Len(es[i])
  <2>1. Holds(body, c, N, es, at)
    OBVIOUS
  <2> HIDE DEF N, es
  <2>2. /\ Len(body) = 2 + at[N] /\ body[2] = N /\ at[0] = 0 /\ \A i \in 0 .. N : at[i] \in 0 .. at[N]
        /\ \A i \in 1 .. N : at[i] = at[i - 1] + Len(es[i])
    BY <1>1, <2>1 DEF Holds
  <2>3. N \in 0 .. N
    BY <1>1
  <2>4. at[N] \in Nat
    BY <2>2, <2>3
  <2> QED
    BY <2>2, <2>4
<1>4. CASE Len(d) < 2
  <2>1. ms = << >> /\ Len(d) # Len(body)
    BY <1>1, <1>3, <1>4 DEF ParseMessages, ReplyHead
  <2>2. Len(<< >>) = 0 /\ ~(0 > 0) /\ \A i \in 1 .. 0 - 1 : FALSE
    OBVIOUS
  <2>3. Len(<< >>) <= Len(shown)
    BY <1>1, <1>2, <2>2
  <2> HIDE DEF ms, shown
  <2>4. Listed(ms, shown, Len(d) = Len(body))
    BY <2>1, <2>2, <2>3 DEF Listed
  <2> QED
    BY <2>4 DEF ms, shown
<1>5. CASE ~(Len(d) < 2)
  <2>1. Len(d) >= ReplyHead /\ d[2] = N
    <3>1. 2 \in 1 .. Len(d)
      BY <1>1, <1>5
    <3> QED
      BY <1>1, <1>3, <1>5, <3>1 DEF BeginsWith, ReplyHead
  <2>2. PICK u : ReadsMessages(d, u)
    BY <1>1, <2>1, MessageSteps
  <2>3. /\ ms = u[N].list
        /\ u[0] = [off |-> 2, list |-> << >>, more |-> TRUE]
        /\ \A n \in 1 .. N : u[n] = MessageRead(d, u[n - 1])
    BY <2>1, <2>2 DEF ReadsMessages, ReplyHead
  <2> DEFINE Right(n) == \E k \in Nat : ReadUpTo(u[n], n, k, d, list, format, at)
             S == {n \in 0 .. N : Right(n)}
  <2>4. 0 \in S
    <3>1. ReadUpTo(u[0], 0, 0, d, list, format, at)
      <4>1. u[0].off = 2 /\ u[0].list = << >> /\ u[0].more
        BY <2>3
      <4>2. << >> \in Seq(Message) /\ Len(<< >>) = 0 /\ \A i \in 1 .. 0 : FALSE
        OBVIOUS
      <4> QED
        BY <1>3, <4>1, <4>2 DEF ReadUpTo
    <3> QED
      BY <1>1, <3>1
  <2>5. ASSUME NEW n \in 1 .. N, n - 1 \in S PROVE n \in S
    <3>1. PICK k \in Nat : ReadUpTo(u[n - 1], n - 1, k, d, list, format, at)
      BY <2>5
    <3>2. \E j \in {k, k + 1} : ReadUpTo(MessageRead(d, u[n - 1]), n, j, d, list, format, at)
      BY <3>1, MessageComes
    <3>3. Right(n)
      BY <2>3, <3>2
    <3> QED
      BY <1>1, <3>3
  <2> HIDE DEF S
  <2>6. \A n \in 0 .. N : n \in S
    BY <1>1, <2>4, <2>5, CountingUp
  <2>7. PICK k \in Nat : ReadUpTo(u[N], N, k, d, list, format, at)
    <3>1. N \in 0 .. N
      BY <1>1
    <3> QED
      BY <2>6, <3>1 DEF S
  <2>8. /\ k \in 0 .. N /\ ms \in Seq(Message) /\ Len(ms) = k
        /\ k = N \/ 2 + at[k] + MessageHead > Len(d)
        /\ \A i \in 1 .. k : /\ MessageGot(ms[i], shown[i], 2 + at[i] <= Len(d))
                             /\ i < k => 2 + at[i] <= Len(d)
    <3> DEFINE acc == u[N]
    <3>1. ReadUpTo(acc, N, k, d, list, format, at) /\ ms = acc.list
      BY <2>3, <2>7
    <3> HIDE DEF acc, ms, shown
    <3>2. /\ k \in 0 .. N /\ ms \in Seq(Message) /\ Len(ms) = k
          /\ k = N \/ 2 + at[k] + MessageHead > Len(d)
          /\ \A i \in 1 .. k : /\ MessageGot(ms[i], Shown(list[i], format), 2 + at[i] <= Len(d))
                               /\ i < k => 2 + at[i] <= Len(d)
      BY <3>1 DEF ReadUpTo
    <3>3. \A i \in 1 .. k : i \in 1 .. N
      BY <1>1, <3>2
    <3>4. ASSUME NEW i \in 1 .. k PROVE MessageGot(ms[i], shown[i], 2 + at[i] <= Len(d)) /\ (i < k => 2 + at[i] <= Len(d))
      <4>1. shown[i] = Shown(list[i], format)
        BY <1>2, <3>3
      <4> QED
        BY <3>2, <4>1
    <3> QED
      BY <3>2, <3>4
  <2> HIDE DEF ms, shown
  <2>9. CASE Len(d) = Len(body)
    <3>1. k = N
      <4> SUFFICES ASSUME k # N PROVE FALSE
        OBVIOUS
      <4> DEFINE n == k + 1
      <4>1. n \in 1 .. N /\ n - 1 = k /\ n \in 0 .. N
        BY <1>1, <2>8
      <4> HIDE DEF n
      <4>2. at[n] = at[k] + Len(es[n]) /\ at[n] \in 0 .. at[N] /\ at[k] \in Nat
        BY <1>3, <2>8, <4>1
      <4>3. Len(es[n]) \in Nat /\ Len(es[n]) >= MessageHead
        <5>1. list[n] \in Message /\ Fixed(list[n]) /\ es[n] = MessageEntry(list[n], format)
          BY <4>1 DEF Entries
        <5> QED
          BY <5>1, EntryHeads
      <4>4. 2 + at[k] + MessageHead > 2 + at[N]
        BY <1>3, <2>8, <2>9
      <4> DEFINE x == at[k]
                 y == at[n]
                 z == at[N]
                 w == Len(es[n])
      <4>5. x \in Nat /\ z \in Nat /\ w \in Nat /\ w >= MessageHead /\ y = x + w /\ y \in 0 .. z /\ 2 + x + MessageHead > 2 + z
        BY <1>3, <4>2, <4>3, <4>4
      <4> HIDE DEF x, y, z, w
      <4> QED
        BY <4>5 DEF MessageHead
    <3>2. \A i \in 1 .. N : ms[i] = shown[i]
      <4> SUFFICES ASSUME NEW i \in 1 .. N PROVE ms[i] = shown[i]
        OBVIOUS
      <4>1. at[i] \in 0 .. at[N]
        BY <1>1, <1>3
      <4>2. 2 + at[i] <= Len(d)
        BY <1>3, <2>9, <4>1
      <4> QED
        BY <2>8, <3>1, <4>2 DEF MessageGot
    <3>3. ms = shown
      BY <1>2, <2>8, <3>1, <3>2, SameElements
    <3> QED
      BY <2>9, <3>3 DEF Listed, ms, shown
  <2>10. CASE Len(d) # Len(body)
    <3>1. Len(ms) <= Len(shown)
      BY <1>1, <1>2, <2>8
    <3>2. ASSUME NEW i \in 1 .. Len(ms) - 1 PROVE ms[i] = shown[i]
      <4>1. i \in 1 .. k /\ i < k
        BY <2>8
      <4> QED
        BY <2>8, <4>1 DEF MessageGot
    <3>3. ASSUME Len(ms) > 0 PROVE \A f \in MessageFields : ms[Len(ms)][f] \in {shown[Len(ms)][f], << >>}
      <4>1. Len(ms) \in 1 .. k
        BY <2>8, <3>3
      <4> QED
        BY <2>8, <4>1 DEF MessageGot
    <3>4. Listed(ms, shown, Len(d) = Len(body))
      BY <2>10, <3>1, <3>2, <3>3 DEF Listed
    <3> QED
      BY <3>4 DEF ms, shown
  <2> QED
    BY <2>9, <2>10
<1> QED
  BY <1>4, <1>5

\* A body of the reply to a call, with its return code.
LEMMA MessagesHeld ==
  ASSUME NEW list \in Seq(Message), \A i \in 1 .. Len(list) : Fixed(list[i]), NEW format \in Formats, NEW c \in Nat
  PROVE  \E at : Holds(<<c>> \o MessageReply(list, format), c, Len(list), Entries(list, format), at)
<1> DEFINE N == Len(list)
           es == Entries(list, format)
           w == FlattenSeq(es)
           one == <<c>>
           two == <<N>>
           both == <<c, N>>
<1>1. N \in Nat /\ DOMAIN list = 1 .. N
  OBVIOUS
<1>2. es \in Seq(Seq(Nat)) /\ Len(es) = N
  <2> DEFINE X == Seq(Nat)
  <2>1. \A i \in 1 .. N : es[i] \in X
    BY EntryOfMessageCells DEF Entries
  <2>2. es = [i \in 1 .. N |-> es[i]]
    BY DEF Entries
  <2> HIDE DEF es, X
  <2>3. es \in Seq(X) /\ Len(es) = N
    BY <1>1, <2>1, <2>2
  <2> QED
    BY <2>3 DEF X
<1>3. MessageReply(list, format) = two \o w
  BY <1>1 DEF MessageReply, Entries
<1> HIDE DEF es
<1>4. w \in Seq(Nat)
  BY <1>2, Flattened
<1>5. one \in Seq(Nat) /\ two \in Seq(Nat) /\ one \o two = both
  <2>1. /\ one \in Seq(Nat) /\ two \in Seq(Nat) /\ both \in Seq(Nat)
        /\ Len(one) = 1 /\ Len(two) = 1 /\ Len(both) = 2 /\ one[1] = c /\ two[1] = N /\ both[1] = c /\ both[2] = N
    BY <1>1
  <2> HIDE DEF one, two, both, N
  <2>2. /\ one \o two \in Seq(Nat) /\ Len(one \o two) = Len(one) + Len(two)
        /\ \A i \in 1 .. Len(one) : (one \o two)[i] = one[i]
        /\ \A i \in 1 .. Len(two) : (one \o two)[Len(one) + i] = two[i]
    <3>1. one \in Seq(Nat) /\ two \in Seq(Nat)
      BY <2>1
    <3> QED
      BY ONLY <3>1, Joined
  <2> DEFINE t == one \o two
  <2>3. t \in Seq(Nat) /\ Len(t) = 2 /\ t[1] = c /\ t[2] = N
    <3>1. t[1 + 1] = two[1] /\ t[1] = one[1]
      BY <2>1, <2>2
    <3> QED
      BY <2>1, <2>2, <3>1
  <2> HIDE DEF t
  <2>4. \A k \in 1 .. 2 : k = 1 \/ k = 2
    OBVIOUS
  <2>5. \A k \in 1 .. Len(t) : t[k] = both[k]
    BY <2>1, <2>3, <2>4
  <2>6. t = both
    BY ONLY <2>1, <2>3, <2>5, SameElements
  <2> QED
    BY <2>1, <2>6 DEF t
<1>6. PICK at : Holds(both \o w, c, N, es, at)
  BY <1>1, <1>2, BodyHolds
<1> HIDE DEF w, one, two, both, N
<1>7. one \o (two \o w) = both \o w
  <2>1. Associative(one, two, w)
    BY ONLY <1>4, <1>5, Associates
  <2> QED
    BY <1>5, <2>1 DEF Associative
<1>8. Holds(one \o MessageReply(list, format), c, N, es, at)
  BY <1>3, <1>6, <1>7
<1> QED
  BY <1>8 DEF one, es, N

\* Without messages in the reply there are none.
LEMMA NoMessagesRead ==
  ASSUME NEW d \in Seq(Nat), Len(d) >= 2 => d[2] = 0
  PROVE  ParseMessages(d) = << >>
<1>1. CASE Len(d) < ReplyHead
  BY <1>1 DEF ParseMessages
<1>2. CASE ~(Len(d) < ReplyHead)
  <2>1. Len(d) >= ReplyHead /\ d[2] = 0
    BY <1>2 DEF ReplyHead
  <2>2. PICK u : ReadsMessages(d, u)
    BY <2>1, MessageSteps
  <2> QED
    BY <2>1, <2>2 DEF ReadsMessages
<1> QED
  BY <1>1, <1>2

-----------------------------------------------------------------------------
(***************************************************************************)
(* The messages of a call.                                                 *)
(***************************************************************************)
LevelFormat == IF level >= 11 THEN 7 ELSE IF level >= 10 THEN 6 ELSE 0

LEMMA WholeList ==
  ASSUME NEW S, NEW s \in Seq(S)
  PROVE  SubSeq(s, 1, Len(s)) = s
<1> DEFINE n == Len(s)
           t == SubSeq(s, 1, n)
<1>1. n \in Nat /\ 0 \in Nat /\ 0 + n <= Len(s) /\ t = SubSeq(s, 0 + 1, 0 + n)
  OBVIOUS
<1> HIDE DEF t
<1>2. t \in Seq(S) /\ PartOf(t, s, 0, n)
  BY <1>1, CutIs
<1>3. Len(t) = Len(s) /\ \A k \in 1 .. Len(t) : t[k] = s[k]
  BY <1>1, <1>2 DEF PartOf
<1>4. t = s
  BY <1>2, <1>3, SameElements
<1> QED
  BY <1>4 DEF t

\* The option asks for what the caller wants, in the format of the level.
LEMMA WantedAttached ==
  ASSUME level \in Nat, option \in Options, NEW list \in Seq(Message)
  PROVE  /\ Attached(OptionCode(option), list) = Wanted(list)
         /\ Format(OptionCode(option)) \in Formats
         /\ Format(OptionCode(option)) = LevelFormat \/ Wanted(list) = << >>
         /\ \/ Wanted(list) = << >> \/ Wanted(list) = list
            \/ FewMessages <= Len(list) /\ Wanted(list) = SubSeq(list, 1, FewMessages)
<1> DEFINE code == OptionCode(option)
           w == Wanted(list)
           few == SubSeq(list, 1, IF Len(list) < FewMessages THEN Len(list) ELSE FewMessages)
<1>1. few = IF Len(list) <= FewMessages THEN list ELSE SubSeq(list, 1, FewMessages)
  <2>1. Len(list) \in Nat /\ FewMessages \in Nat
    BY RemoteAssumption
  <2>2. CASE Len(list) < FewMessages
    BY <2>1, <2>2, WholeList
  <2>3. CASE Len(list) = FewMessages
    <3>1. few = SubSeq(list, 1, Len(list))
      BY <2>1, <2>3
    <3> QED
      BY <2>1, <2>3, <3>1, WholeList
  <2>4. CASE Len(list) > FewMessages
    BY <2>1, <2>4
  <2> QED
    BY <2>1, <2>2, <2>3, <2>4
<1>2. Attached(code, list) = IF code = 1 THEN << >> ELSE IF code \in {2, 4, 6} THEN list ELSE few
  BY DEF Attached
<1>5. SUFFICES /\ Attached(code, list) = w /\ Format(code) \in Formats
               /\ Format(code) = LevelFormat \/ w = << >>
               /\ \/ w = << >> \/ w = list
                  \/ FewMessages <= Len(list) /\ w = SubSeq(list, 1, FewMessages)
  OBVIOUS
<1> HIDE DEF few
<1>3. CASE option = "none"
  <2>1. code = 1 /\ Wanted(list) = << >>
    BY <1>3 DEF OptionCode, Wanted
  <2>2. Format(1) = 0
    BY DEF Format
  <2> HIDE DEF code
  <2>3. Attached(code, list) = w /\ Format(code) \in Formats /\ w = << >>
    BY <1>2, <2>1, <2>2 DEF Formats
  <2> HIDE DEF w
  <2> QED
    BY <2>3
<1>4. CASE option # "none"
  <2> DEFINE all == option = "all" /\ level >= 7
  <2>1. Wanted(list) = IF all THEN list ELSE few
    BY <1>1, <1>4 DEF Wanted
  <2>2. code = IF ~all THEN (IF level >= 11 THEN 5 ELSE IF level >= 10 THEN 3 ELSE 0)
               ELSE IF level >= 11 THEN 6 ELSE IF level >= 10 THEN 4 ELSE 2
    <3>1. (option = "few" \/ level < 7) <=> ~all
      BY <1>4 DEF Options
    <3> QED
      BY <1>4, <3>1 DEF OptionCode
  <2>3. /\ code = 1 \/ (code \in {2, 4, 6} <=> all)
        /\ code # 1
        /\ level >= 11 => code \in {5, 6}
        /\ ~(level >= 11) /\ level >= 10 => code \in {3, 4}
        /\ ~(level >= 10) => code \in {0, 2}
    <3> HIDE DEF code, all
    <3> QED
      BY <2>2
  <2> HIDE DEF code, all
  <2>4. Attached(code, list) = Wanted(list)
    BY <1>2, <2>1, <2>3
  <2>5. Format(code) = LevelFormat /\ LevelFormat \in Formats
    <3>1. CASE level >= 11
      BY <2>3, <3>1 DEF Format, LevelFormat, Formats
    <3>2. CASE ~(level >= 11) /\ level >= 10
      BY <2>3, <3>2 DEF Format, LevelFormat, Formats
    <3>3. CASE ~(level >= 10)
      <4>1. ~(level >= 11)
        BY <3>3
      <4> QED
        BY <2>3, <3>3, <4>1 DEF Format, LevelFormat, Formats
    <3> QED
      BY <3>1, <3>2, <3>3
  <2>6. Wanted(list) = list \/ (FewMessages <= Len(list) /\ Wanted(list) = SubSeq(list, 1, FewMessages))
    <3>1. Len(list) \in Nat /\ FewMessages \in Nat
      BY RemoteAssumption
    <3> QED
      BY <1>1, <2>1, <3>1
  <2>7. Attached(code, list) = w /\ (w = list \/ (FewMessages <= Len(list) /\ w = SubSeq(list, 1, FewMessages)))
    BY <2>4, <2>6
  <2> HIDE DEF w
  <2> QED
    BY <2>5, <2>7
<1> QED
  BY <1>3, <1>4

\* The messages that a job has to say, and a caller wants.
LEMMA WantedMessages ==
  ASSUME level \in Nat, option \in Options, NEW list \in MessageLists
  PROVE  /\ list \in Seq(Message) /\ Wanted(list) \in Seq(Message)
         /\ \A i \in 1 .. Len(Wanted(list)) : Fixed(Wanted(list)[i])
<1> DEFINE w == Wanted(list)
<1>1. list \in Seq(Message) /\ FewMessages \in Nat
  BY RemoteAssumption DEF Message
<1>2. \A i \in 1 .. Len(list) : Fixed(list[i])
  <2>1. DOMAIN list = 1 .. Len(list)
    BY <1>1
  <2> QED
    BY <2>1, RemoteAssumption DEF Fixed
<1>3. \/ w = << >> \/ w = list
      \/ FewMessages <= Len(list) /\ w = SubSeq(list, 1, FewMessages)
  BY <1>1, WantedAttached
<1> HIDE DEF w
<1>4. CASE w = << >>
  <2>1. << >> \in Seq(Message) /\ \A i \in 1 .. Len(<< >>) : FALSE
    OBVIOUS
  <2>2. w \in Seq(Message) /\ \A i \in 1 .. Len(w) : Fixed(w[i])
    BY <1>4, <2>1
  <2> QED
    BY <1>1, <2>2 DEF w
<1>5. CASE w = list
  BY <1>1, <1>2, <1>5 DEF w
<1>6. CASE FewMessages <= Len(list) /\ w = SubSeq(list, 1, FewMessages)
  <2>1. 0 + FewMessages <= Len(list) /\ w = SubSeq(list, 0 + 1, 0 + FewMessages)
    BY <1>1, <1>6
  <2>2. w \in Seq(Message) /\ PartOf(w, list, 0, FewMessages)
    BY <1>1, <2>1, CutIs
  <2>3. \A i \in 1 .. Len(w) : w[i] = list[i] /\ i \in 1 .. Len(list)
    BY <1>1, <1>6, <2>2 DEF PartOf
  <2>4. \A i \in 1 .. Len(w) : Fixed(w[i])
    BY <1>2, <2>3
  <2> QED
    BY <1>1, <2>2, <2>4 DEF w
<1> QED
  BY <1>3, <1>4, <1>5, <1>6

\* The messages that a reply on its way holds are those that were wanted, and
\* what has been returned as well; before the first call nothing has.
MessagesComing ==
  reply # None /\ Head(reply) # << >> =>
    Listed(ParseMessages(Head(reply)), ShownList(Wanted(job.says), LevelFormat), job.whole)
MessagesReturned ==
  outcome \in {"done", "refused"} =>
    Listed(messages, ShownList(Wanted(job.says), LevelFormat), job.whole)
MessagesInv ==
  /\ MessagesComing /\ MessagesReturned
  /\ status \in {"new", "loggedOn"} => outcome = "none"

LEMMA SaysSame ==
  ASSUME UNCHANGED <<level, option, job>>
  PROVE  /\ ShownList(Wanted(job.says), LevelFormat)' = ShownList(Wanted(job.says), LevelFormat)
         /\ job'.whole = job.whole
BY DEF ShownList, Wanted, LevelFormat, Shown

\* A reply with messages for the caller.
LEMMA MessagesAnswered ==
  ASSUME level \in Nat, option \in Options, NEW c \in Nat, NEW list \in MessageLists, NEW did, NEW seen, NEW left,
         Answer(did, seen, left, list, <<c>> \o MessagesAsked(list)), UNCHANGED <<level, option>>
  PROVE  MessagesComing'
<1> DEFINE code == OptionCode(option)
           format == Format(code)
           w == Wanted(list)
           body == <<c>> \o MessageReply(w, format)
           shown == ShownList(w, LevelFormat)
<1>1. w \in Seq(Message) /\ (\A i \in 1 .. Len(w) : Fixed(w[i])) /\ list \in Seq(Message)
  BY WantedMessages
<1>2. Attached(code, list) = w /\ format \in Formats /\ (format = LevelFormat \/ w = << >>)
  BY <1>1, WantedAttached
<1>3. body = <<c>> \o MessagesAsked(list)
  BY <1>2 DEF MessagesAsked
<1>4. body \in Seq(Nat)
  BY <1>3, MessagesBody DEF MessagesAsked
<1>5. shown = ShownList(w, format)
  <2>1. CASE w = << >>
    <3>1. DOMAIN w = {}
      BY <2>1
    <3> QED
      BY <3>1 DEF ShownList
  <2>2. CASE format = LevelFormat
    BY <2>2
  <2> QED
    BY <1>2, <2>1, <2>2
<1> HIDE DEF w, format, code
<1>6. PICK at : Holds(body, c, Len(w), Entries(w, format), at)
  BY <1>1, <1>2, MessagesHeld
<1> HIDE DEF body, shown
<1>7. PICK m \in 0 .. Len(body) :
        /\ reply' = <<SubSeq(body, 1, m)>>
        /\ job' = [did |-> did, seen |-> seen, left |-> left, says |-> list, whole |-> m = Len(body)]
  BY <1>3 DEF Answer
<1> DEFINE d == SubSeq(body, 1, m)
           whole == m = Len(body)
<1>8. d \in Seq(Nat) /\ Len(d) = m /\ \A k \in 1 .. m : d[k] = body[k]
  BY <1>4, Beginning
<1>9. reply' = <<d>> /\ job'.says = list /\ job'.whole = whole
  BY <1>7
<1> HIDE DEF d
<1>10. BeginsWith(d, body)
  BY <1>4, <1>8 DEF BeginsWith
<1>11. Listed(ParseMessages(d), shown, Len(d) = Len(body))
  BY <1>1, <1>2, <1>5, <1>6, <1>10, MessagesCome
<1>12. Listed(ParseMessages(d), shown, whole)
  BY <1>8, <1>11
<1> HIDE DEF whole
<1>13. ShownList(Wanted(job.says), LevelFormat)' = shown
  BY <1>9 DEF shown, w, ShownList, Wanted, LevelFormat, Shown
<1>14. Head(reply)' = d
  BY <1>9
<1>15. ParseMessages(Head(reply))' = ParseMessages(d)
  BY <1>14
<1>16. Listed(ParseMessages(d), shown, job'.whole)
  BY <1>9, <1>12
<1> QED
  BY <1>13, <1>15, <1>16 DEF MessagesComing, Listed

LEMMA MessagesStep ==
  ASSUME RemoteInv, MessagesInv, [Next]_vars
  PROVE  MessagesInv'
<1>1. CASE Logon \/ ExchangeAttributes
  <2>1. status \in {"new", "loggedOn"} /\ UNCHANGED <<outcome, reply>>
    BY <1>1 DEF Logon, ExchangeAttributes
  <2>2. outcome' = "none" /\ reply' = None
    BY <2>1 DEF MessagesInv, RemoteInv, Replied
  <2> QED
    BY <2>2 DEF MessagesInv, MessagesComing, MessagesReturned
<1>2. CASE CallProgram \/ RunCommand
  <2>1. status = "idle" /\ status' \in {"idle", "calling"} /\ reply' = reply /\ outcome' \in {"none", "unsent"}
    BY <1>2 DEF CallProgram, RunCommand, Begin, Returns
  <2>2. reply' = None
    BY <2>1 DEF RemoteInv, Replied
  <2> QED
    BY <2>1, <2>2 DEF MessagesInv, MessagesComing, MessagesReturned
<1>3. CASE Receive
  <2> DEFINE body == Head(reply)
             ms == ParseMessages(body)
             out == ReadOutputs(body, params)
  <2>1. /\ reply # None /\ reply' = None /\ status' = "idle" /\ UNCHANGED <<level, option, job>>
    BY <1>3 DEF Receive
  <2>2. outcome' = "failed" \/ (body # << >> /\ messages' = ms)
    BY <1>3 DEF Receive, Returns
  <2>3. body # << >> => Listed(ms, ShownList(Wanted(job.says), LevelFormat), job.whole)
    BY <2>1 DEF MessagesInv, MessagesComing
  <2> DEFINE shown == ShownList(Wanted(job.says), LevelFormat)
             whole == job.whole
  <2>4. shown' = shown /\ whole' = whole
    BY <2>1, SaysSame
  <2> HIDE DEF body, ms, shown, whole
  <2>5. outcome' \in {"done", "refused"} => Listed(messages', shown, whole)
    BY <2>2, <2>3 DEF shown, whole
  <2>6. MessagesReturned'
    <3>1. outcome' \in {"done", "refused"} => Listed(messages', shown', whole')
      BY <2>4, <2>5
    <3> QED
      BY <3>1 DEF MessagesReturned, Listed, shown, whole
  <2> QED
    BY <2>1, <2>6 DEF MessagesInv, MessagesComing
<1>4. CASE CallFails \/ Close \/ UNCHANGED remoteVars
  <2>1. /\ UNCHANGED <<level, option, job, reply>>
        /\ status' \in {"lost", "closed"} \/ (status' = status /\ outcome' = outcome)
        /\ outcome' = "failed" \/ UNCHANGED <<outcome, messages>>
    BY <1>4 DEF CallFails, Close, Returns, remoteVars
  <2> DEFINE shown == ShownList(Wanted(job.says), LevelFormat)
             whole == job.whole
             ms == ParseMessages(Head(reply))
  <2>2. shown' = shown /\ whole' = whole
    BY <2>1, SaysSame
  <2>3. ms' = ms /\ Head(reply)' = Head(reply)
    BY <2>1
  <2> HIDE DEF shown, whole, ms
  <2>4. /\ reply # None /\ Head(reply) # << >> => Listed(ms, shown, whole)
        /\ outcome \in {"done", "refused"} => Listed(messages, shown, whole)
    BY DEF MessagesInv, MessagesComing, MessagesReturned, shown, whole, ms
  <2>5. /\ reply' # None /\ Head(reply)' # << >> => Listed(ms', shown', whole')
        /\ outcome' \in {"done", "refused"} => Listed(messages', shown', whole')
    BY <2>1, <2>2, <2>3, <2>4
  <2>6. MessagesComing' /\ MessagesReturned'
    BY <2>5 DEF MessagesComing, MessagesReturned, Listed, shown, whole, ms
  <2>7. status' \in {"new", "loggedOn"} => outcome' = "none"
    BY <2>1 DEF MessagesInv
  <2> QED
    BY <2>6, <2>7 DEF MessagesInv
<1>5. CASE Serve
  <2>1. /\ status = "calling" /\ UNCHANGED <<status, level, option, params, outcome>>
    BY <1>5 DEF Serve
  <2>2. outcome' = "none" /\ status' = "calling"
    BY <2>1 DEF RemoteInv, Ended
  <2>3. level \in Nat /\ option \in Options /\ FitAll(params)
    BY LevelNat DEF RemoteInv, RemoteTypes
  <2>4. MessagesComing'
    <3>1. ServerAnswers
      BY <1>5, ServeAnswers
    <3>2. CASE \E list \in MessageLists : Answer("refused", << >>, << >>, list, <<1024>> \o MessagesAsked(list))
      <4>1. PICK list \in MessageLists : Answer("refused", << >>, << >>, list, <<1024>> \o MessagesAsked(list))
        BY <3>2
      <4>2. 1024 \in Nat
        OBVIOUS
      <4> QED
        BY <2>1, <2>3, <4>1, <4>2, MessagesAnswered
    <3>3. CASE \E list \in MessageLists : Answer("run", << >>, << >>, list, <<0>> \o MessagesAsked(list))
      <4>1. PICK list \in MessageLists : Answer("run", << >>, << >>, list, <<0>> \o MessagesAsked(list))
        BY <3>3
      <4>2. 0 \in Nat
        OBVIOUS
      <4> QED
        BY <2>1, <2>3, <4>1, <4>2, MessagesAnswered
    <3>4. CASE \E left \in Leavings(Views(params)) : \E outputs \in Outputs(Views(params), left) :
                 Answer("run", Views(params), left, << >>, <<0, 0>> \o outputs)
      <4> DEFINE seen == Views(params)
      <4>1. PICK left \in Leavings(seen) : \E outputs \in Outputs(seen, left) :
              Answer("run", seen, left, << >>, <<0, 0>> \o outputs)
        BY <3>4
      <4>2. PICK outputs \in Outputs(seen, left) : Answer("run", seen, left, << >>, <<0, 0>> \o outputs)
        BY <4>1
      <4>3. PICK es, at : Holds(<<0, 0>> \o outputs, 0, 0, es, at)
        BY <2>3, OutputsLaid
      <4> DEFINE b == <<0, 0>> \o outputs
      <4>4. b \in Seq(Nat) /\ b[2] = 0
        BY <4>3 DEF Holds
      <4> HIDE DEF b, seen
      <4>5. PICK m \in 0 .. Len(b) :
              /\ reply' = <<SubSeq(b, 1, m)>>
              /\ job' = [did |-> "run", seen |-> seen, left |-> left, says |-> << >>, whole |-> m = Len(b)]
        BY <4>2 DEF Answer, b
      <4> DEFINE d == SubSeq(b, 1, m)
      <4>6. d \in Seq(Nat) /\ (Len(d) >= 2 => d[2] = 0)
        BY <4>4, Beginning
      <4>7. reply' = <<d>> /\ job'.says = << >>
        BY <4>5
      <4> HIDE DEF d
      <4>8. ParseMessages(d) = << >>
        BY <4>6, NoMessagesRead
      <4>9. ParseMessages(Head(reply))' = << >>
        <5>1. Head(reply)' = d
          BY <4>7
        <5> QED
          BY <4>8, <5>1
      <4>10. ShownList(Wanted(job.says), LevelFormat)' = << >>
        <5>1. Wanted(job.says)' = << >>
          <6>1. Len(<< >>) = 0 /\ 0 <= FewMessages
            BY RemoteAssumption
          <6> QED
            BY <4>7, <6>1 DEF Wanted
        <5>2. [i \in DOMAIN << >> |-> Shown(<< >>[i], LevelFormat')] = << >>
          OBVIOUS
        <5> QED
          BY <5>1, <5>2 DEF ShownList
      <4>11. Listed(<< >>, << >>, job'.whole)
        <5>1. Len(<< >>) = 0 /\ Len(<< >>) <= Len(<< >>) /\ ~(Len(<< >>) > 0) /\ \A i \in 1 .. Len(<< >>) - 1 : FALSE
          OBVIOUS
        <5> QED
          BY <5>1 DEF Listed
      <4> QED
        BY <4>9, <4>10, <4>11 DEF MessagesComing, Listed
    <3> QED
      BY <3>1, <3>2, <3>3, <3>4 DEF ServerAnswers
  <2> QED
    BY <2>2, <2>4 DEF MessagesInv, MessagesReturned
<1> QED
  BY <1>1, <1>2, <1>3, <1>4, <1>5 DEF Next, vars, RemoteNext

\* The messages returned are those the caller asked for, read with the format
\* of the server's level; of a reply cut short they are the first ones, of
\* which the last may lack fields: whatever is asked for at whatever level, and
\* wherever the reply ends.
THEOREM MessagesCorrect == Spec => []MessagesTrue
<1>1. Init => RemoteInv /\ MessagesInv
  BY RemoteStarts DEF Init, RemoteInit, MessagesInv, MessagesComing, MessagesReturned
<1>2. RemoteInv /\ MessagesInv /\ [Next]_vars => (RemoteInv /\ MessagesInv)'
  BY RemoteStepKeeps, MessagesStep
<1>3. RemoteInv /\ MessagesInv => MessagesTrue
  <2> SUFFICES ASSUME MessagesInv, outcome \in {"done", "refused"} PROVE MessagesTrue
    BY DEF MessagesTrue
  <2> DEFINE w == Wanted(job.says)
             list == [i \in DOMAIN w |-> Shown(w[i], LevelFormat)]
             n == Len(messages)
  <2>1. Listed(messages, ShownList(w, LevelFormat), job.whole)
    BY DEF MessagesInv, MessagesReturned
  <2> QED
    BY <2>1, Zenon DEF MessagesTrue, Listed, ShownList, LevelFormat
<1> QED
  BY <1>1, <1>2, <1>3, PTL DEF Spec
=============================================================================
