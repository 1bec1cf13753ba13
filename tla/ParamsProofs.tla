---------------------------- MODULE ParamsProofs ----------------------------
(***************************************************************************)
(* Theorems about HostClients with the clients whose bodies are parameters *)
(* (Params): as-signon, for any levels of servers and any number of        *)
(* attempts, and as-database's formats, arguments and rows, for any        *)
(* statements, values and blocks.                                          *)
(***************************************************************************)
EXTENDS HostClients, SequenceFacts, SequenceTheorems, FiniteSetTheorems, TLAPS

-----------------------------------------------------------------------------
(***************************************************************************)
(* Parameters: what DecodeParams makes of the beginning of what            *)
(* EncodeParams gives, over any set V of cells.                            *)
(***************************************************************************)
ParamsOf(V) == [cp : V, data : Seq(V)]
ParamsRead(V) == [ok : BOOLEAN, params : Seq(ParamsOf(V))]

\* The parameters, each at its place.
LaidOut(whole, ps, at) ==
  /\ at[0] = 0 /\ at[Len(ps)] = Len(whole) /\ \A n \in 0 .. Len(ps) : at[n] \in 0 .. Len(whole)
  /\ \A n \in 1 .. Len(ps) :
        /\ at[n] = at[n - 1] + 2 + Len(ps[n].data)
        /\ whole[at[n - 1] + 1] = 2 + Len(ps[n].data) /\ whole[at[n - 1] + 2] = ps[n].cp
        /\ \A k \in 1 .. Len(ps[n].data) : whole[at[n - 1] + 2 + k] = ps[n].data[k]

LEMMA ParamsLaid ==
  ASSUME NEW V, Nat \subseteq V, NEW ps \in Seq(ParamsOf(V))
  PROVE  EncodeParams(ps) \in Seq(V) /\ \E at : LaidOut(EncodeParams(ps), ps, at)
<1> DEFINE N == Len(ps)
           entry(p) == <<2 + Len(p.data), p.cp>> \o p.data
           es == [n \in 1 .. N |-> entry(ps[n])]
           whole == FlattenSeq(es)
<1>1. N \in Nat /\ DOMAIN ps = 1 .. N
  OBVIOUS
<1>2. ASSUME NEW n \in 1 .. N
      PROVE  /\ es[n] \in Seq(V) /\ Len(ps[n].data) \in Nat /\ Len(es[n]) = 2 + Len(ps[n].data)
             /\ es[n][1] = 2 + Len(ps[n].data) /\ es[n][2] = ps[n].cp
             /\ \A k \in 1 .. Len(ps[n].data) : es[n][2 + k] = ps[n].data[k]
  <2> DEFINE p == ps[n]
             d == p.data
             c == p.cp
             head == <<2 + Len(d), c>>
             e == head \o d
  <2>1. p \in ParamsOf(V)
    OBVIOUS
  <2>2. d \in Seq(V) /\ c \in V
    BY <2>1 DEF ParamsOf
  <2>3. es[n] = e
    OBVIOUS
  <2> HIDE DEF p, d, c, es
  <2>4. Len(d) \in Nat /\ 2 + Len(d) \in V
    BY <2>2
  <2>5. head \in Seq(V) /\ Len(head) = 2 /\ head[1] = 2 + Len(d) /\ head[2] = c
    BY <2>2, <2>4
  <2> HIDE DEF head
  <2>6. /\ e \in Seq(V) /\ Len(e) = Len(head) + Len(d)
        /\ \A i \in 1 .. Len(head) : e[i] = head[i]
        /\ \A i \in 1 .. Len(d) : e[Len(head) + i] = d[i]
    <3>1. head \in Seq(V) /\ d \in Seq(V)
      BY <2>2, <2>5
    <3> QED
      BY <3>1, Joined
  <2> HIDE DEF e
  <2>7. /\ e \in Seq(V) /\ Len(d) \in Nat /\ Len(e) = 2 + Len(d) /\ e[1] = 2 + Len(d) /\ e[2] = c
        /\ \A k \in 1 .. Len(d) : e[2 + k] = d[k]
    BY <2>4, <2>5, <2>6
  <2> QED
    BY <2>3, <2>7 DEF d, c, p
<1>3. es \in Seq(Seq(V)) /\ Len(es) = N
  <2> DEFINE X == Seq(V)
  <2>1. \A n \in 1 .. N : es[n] \in X
    BY <1>2
  <2>2. es = [n \in 1 .. N |-> es[n]]
    OBVIOUS
  <2> HIDE DEF X, es
  <2>3. es \in Seq(X) /\ Len(es) = N
    BY <1>1, <2>1, <2>2
  <2> QED
    BY <2>3 DEF X
<1>4. EncodeParams(ps) = whole
  BY <1>1 DEF EncodeParams
<1> HIDE DEF es
<1>5. whole \in Seq(V) /\ \E at : Lie(whole, es, at)
  BY <1>3, Flattened
<1> HIDE DEF whole
<1>6. PICK at : Lie(whole, es, at)
  BY <1>5
<1>7. /\ at[0] = 0 /\ at[N] = Len(whole) /\ \A m \in 0 .. N : at[m] \in 0 .. Len(whole)
      /\ \A m \in 1 .. N : at[m] = at[m - 1] + Len(es[m]) /\ \A k \in 1 .. Len(es[m]) : whole[at[m - 1] + k] = es[m][k]
  BY <1>3, <1>6 DEF Lie, LieUpTo
<1>8. ASSUME NEW n \in 1 .. N
      PROVE  /\ at[n] = at[n - 1] + 2 + Len(ps[n].data)
             /\ whole[at[n - 1] + 1] = 2 + Len(ps[n].data) /\ whole[at[n - 1] + 2] = ps[n].cp
             /\ \A k \in 1 .. Len(ps[n].data) : whole[at[n - 1] + 2 + k] = ps[n].data[k]
  <2> DEFINE a == at[n - 1]
             l == Len(ps[n].data)
             e == es[n]
  <2>1. a \in Nat
    <3>1. n - 1 \in 0 .. N
      BY <1>1
    <3>2. Len(whole) \in Nat
      BY <1>5
    <3> QED
      BY <1>7, <3>1, <3>2
  <2>2. l \in Nat /\ Len(e) = 2 + l /\ e[1] = 2 + l /\ e[2] = ps[n].cp /\ \A k \in 1 .. l : e[2 + k] = ps[n].data[k]
    BY <1>2
  <2>3. at[n] = a + Len(e) /\ \A k \in 1 .. Len(e) : whole[a + k] = e[k]
    BY <1>7
  <2> HIDE DEF a, l, e
  <2>4. 1 \in 1 .. Len(e) /\ 2 \in 1 .. Len(e) /\ \A k \in 1 .. l : 2 + k \in 1 .. Len(e) /\ a + (2 + k) = a + 2 + k
    BY <2>1, <2>2
  <2>5. /\ at[n] = a + 2 + l /\ whole[a + 1] = 2 + l /\ whole[a + 2] = ps[n].cp
        /\ \A k \in 1 .. l : whole[a + 2 + k] = ps[n].data[k]
    BY <2>1, <2>2, <2>3, <2>4
  <2> QED
    BY <2>5 DEF a, l
<1>9. LaidOut(whole, ps, at)
  BY <1>7, <1>8 DEF LaidOut
<1> QED
  BY <1>4, <1>5, <1>9

\* What DecodeParams reads from the ith cell on, given what it reads behind.
Decoding(body, i, from) ==
  IF i > Len(body) THEN [ok |-> TRUE, params |-> << >>]
  ELSE IF i + 1 > Len(body) \/ ~EndsInside(body[i], Len(body) + 1 - i) THEN Malformed
  ELSE LET rest == from[i + body[i]] IN
       IF ~rest.ok THEN Malformed
       ELSE [ok |-> TRUE,
             params |-> <<Param(body[i + 1], SubSeq(body, i + 2, i + body[i] - 1))>> \o rest.params]

Decodes(from, body, V) ==
  /\ from \in [1 .. Len(body) + 1 -> ParamsRead(V)]
  /\ \A i \in 1 .. Len(body) + 1 : from[i] = Decoding(body, i, from)

LEMMA DecodingInside ==
  ASSUME NEW V, NEW body \in Seq(V), NEW i \in 1 .. Len(body) + 1,
         NEW from \in [1 .. Len(body) + 1 -> ParamsRead(V)]
  PROVE  Decoding(body, i, from) \in ParamsRead(V)
<1> DEFINE X == ParamsRead(V)
           Ps == ParamsOf(V)
           n == Len(body)
           e == body[i]
           rest == from[i + e]
           t == SubSeq(body, i + 2, i + e - 1)
           p == Param(body[i + 1], t)
           ps == rest.params
<1>1. n \in Nat /\ i \in 1 .. n + 1
  OBVIOUS
<1>2. [ok |-> TRUE, params |-> << >>] \in X /\ Malformed \in X
  BY DEF ParamsRead, Malformed
<1>3. CASE ~(i > n) /\ ~(i + 1 > n \/ ~EndsInside(e, n + 1 - i))
  <2>1. e \in 2 .. n + 1 - i /\ i + 1 \in 1 .. n
    BY <1>1, <1>3 DEF EndsInside
  <2>2. i + e \in 1 .. n + 1
    BY <1>1, <2>1
  <2>3. rest \in X
    BY <2>2
  <2>4. rest.ok \in BOOLEAN /\ ps \in Seq(Ps)
    BY <2>3 DEF ParamsRead
  <2>5. t \in Seq(V)
    <3> DEFINE c == i + 1
               l == e - 2
    <3>1. c \in Nat /\ l \in Nat /\ c + l <= n /\ t = SubSeq(body, c + 1, c + l)
      <4>1. c + 1 = i + 2 /\ c + l = i + e - 1 /\ c \in Nat /\ l \in Nat /\ c + l <= n
        BY <1>1, <2>1, SMTT(30)
      <4> QED
        BY <4>1
    <3> HIDE DEF t, c, l
    <3> QED
      BY <3>1, Cut
  <2>6. body[i + 1] \in V
    BY <2>1
  <2> HIDE DEF t
  <2>7. p \in Ps
    BY <2>5, <2>6 DEF Param, ParamsOf
  <2>8. <<p>> \o ps \in Seq(Ps)
    <3> HIDE DEF p, ps, Ps
    <3>1. <<p>> \in Seq(Ps)
      BY <2>7
    <3> QED
      BY <2>4, <3>1, Joined
  <2> HIDE DEF p, ps, Ps, rest
  <2>9. [ok |-> TRUE, params |-> <<p>> \o ps] \in X
    BY <2>8 DEF ParamsRead, Ps
  <2>10. Decoding(body, i, from) = IF ~rest.ok THEN Malformed ELSE [ok |-> TRUE, params |-> <<p>> \o ps]
    BY <1>3 DEF Decoding, p, ps, t, rest
  <2> QED
    BY <1>2, <2>9, <2>10
<1>4. CASE i > n \/ i + 1 > n \/ ~EndsInside(e, n + 1 - i)
  <2>1. Decoding(body, i, from) \in {[ok |-> TRUE, params |-> << >>], Malformed}
    BY <1>4 DEF Decoding
  <2> QED
    BY <1>2, <2>1
<1> QED
  BY <1>3, <1>4

LEMMA DecodeSteps ==
  ASSUME NEW V, NEW body \in Seq(V)
  PROVE  \E from : Decodes(from, body, V) /\ DecodeParams(body) = from[1]
<1> DEFINE n == Len(body)
           D == 1 .. n + 1
           X == ParamsRead(V)
           rank == [i \in D |-> n + 1 - i]
           step == [i \in D |-> [f \in [D -> X] |-> Decoding(body, i, f)]]
           Body(f) == [i \in D |-> Decoding(body, i, f)]
           g == CHOOSE f : f = Body(f)
<1>1. n \in Nat
  OBVIOUS
<1>2. DecodeParams(body) = g[1]
  BY DEF DecodeParams, Decoding
<1>3. rank \in [D -> 0 .. n] /\ \A i \in D : rank[i] = n + 1 - i
  BY <1>1
<1>4. step \in [D -> [[D -> X] -> X]]
  <2>1. \A i \in D : \A f \in [D -> X] : Decoding(body, i, f) \in X
    BY DecodingInside
  <2> HIDE DEF D, X
  <2> QED
    BY <2>1
<1>5. Malformed \in X
  BY DEF Malformed, ParamsRead
<1>6. \A i \in D : \A f \in [D -> X] : step[i][f] = Decoding(body, i, f)
  OBVIOUS
<1> HIDE DEF X, rank, step, Body, g
<1>7. ASSUME NEW i \in D, NEW f1, NEW f2, \A j \in D : rank[j] < rank[i] => f1[j] = f2[j]
      PROVE  Decoding(body, i, f1) = Decoding(body, i, f2)
  <2>1. CASE EndsInside(body[i], n + 1 - i)
    <3> DEFINE e == body[i]
    <3>1. e \in 2 .. n + 1 - i
      BY <2>1 DEF EndsInside
    <3> HIDE DEF e
    <3>2. i + e \in D /\ rank[i + e] < rank[i]
      BY <1>1, <1>3, <3>1
    <3>3. f1[i + e] = f2[i + e]
      BY <1>7, <3>2
    <3> QED
      BY <3>3 DEF Decoding, e
  <2>2. CASE ~EndsInside(body[i], n + 1 - i)
    BY <2>2 DEF Decoding
  <2> QED
    BY <2>1, <2>2
<1>8. PICK h : Solves(h, D, X, step)
  <2>1. LooksDown(step, D, rank, X)
    BY <1>6, <1>7 DEF LooksDown
  <2> HIDE DEF D
  <2> QED
    BY <1>1, <1>3, <1>4, <1>5, <2>1, RankedRecursionDefines
<1>9. \E f : f = Body(f)
  <2>1. h \in [D -> X] /\ \A i \in D : h[i] = Decoding(body, i, h)
    BY <1>6, <1>8 DEF Solves
  <2>2. h = Body(h)
    BY <2>1 DEF Body
  <2> QED
    BY <2>2
<1>10. g = Body(g)
  BY <1>9 DEF g
<1>11. PICK f : f = g /\ g = Body(f)
  BY <1>10
<1>12. /\ \A i \in D : g[i] = Decoding(body, i, g)
       /\ \A i \in D : h[i] = Decoding(body, i, h)
  BY <1>6, <1>8, <1>11 DEF Body, Solves
<1> DEFINE S == {m \in Nat : \A i \in D : rank[i] < m => g[i] = h[i]}
<1>13. 0 \in S
  <2>1. \A i \in D : ~(rank[i] < 0)
    BY <1>3
  <2> QED
    BY <2>1
<1>14. ASSUME NEW m \in Nat, m \in S PROVE m + 1 \in S
  <2>1. ASSUME NEW i \in D, rank[i] < m + 1 PROVE g[i] = h[i]
    <3>1. \A j \in D : rank[j] < rank[i] => rank[j] < m
      <4>1. \A j \in D : rank[j] \in Nat
        BY <1>3
      <4> QED
        BY <2>1, <4>1
    <3>2. \A j \in D : rank[j] < rank[i] => g[j] = h[j]
      BY <1>14, <3>1
    <3>3. Decoding(body, i, g) = Decoding(body, i, h)
      BY <1>7, <3>2
    <3> QED
      BY <1>12, <3>3
  <2> QED
    BY <2>1
<1> HIDE DEF S
<1>15. n + 1 \in S
  BY <1>1, <1>13, <1>14, SetInduction
<1>16. \A i \in D : g[i] = h[i]
  <2>1. \A i \in D : rank[i] < n + 1
    BY <1>1, <1>3
  <2> QED
    BY <1>15, <2>1 DEF S
<1>17. Decodes(h, body, V)
  <2>1. h \in [D -> X]
    BY <1>8 DEF Solves
  <2> QED
    BY <1>12, <2>1 DEF Decodes, X
<1>18. DecodeParams(body) = h[1]
  BY <1>1, <1>2, <1>16
<1> QED
  BY <1>17, <1>18

\* qs are the parameters of ps behind the mth, up to the kth.
Part(qs, ps, m, k) == Len(qs) = k - m /\ \A i \in 1 .. k - m : qs[i] = ps[m + i]

LEMMA PartExtends ==
  ASSUME NEW Ps, NEW ps \in Seq(Ps), NEW m \in Nat, NEW k \in m + 1 .. Len(ps), NEW rest \in Seq(Ps),
         Part(rest, ps, m + 1, k)
  PROVE  <<ps[m + 1]>> \o rest \in Seq(Ps) /\ Part(<<ps[m + 1]>> \o rest, ps, m, k)
<1> DEFINE p == ps[m + 1]
           one == <<p>>
           qs == one \o rest
<1>1. p \in Ps /\ Len(ps) \in Nat
  OBVIOUS
<1> HIDE DEF p
<1>2. one \in Seq(Ps) /\ Len(one) = 1 /\ one[1] = p
  BY <1>1
<1> HIDE DEF one
<1>3. /\ qs \in Seq(Ps) /\ Len(qs) = 1 + Len(rest) /\ qs[1] = p
      /\ \A i \in 1 .. Len(rest) : qs[1 + i] = rest[i]
  <2>1. /\ qs \in Seq(Ps) /\ Len(qs) = Len(one) + Len(rest)
        /\ \A i \in 1 .. Len(one) : qs[i] = one[i]
        /\ \A i \in 1 .. Len(rest) : qs[Len(one) + i] = rest[i]
    <3>1. one \in Seq(Ps) /\ rest \in Seq(Ps)
      BY <1>2
    <3> QED
      BY <3>1, Joined
  <2> QED
    BY <1>2, <2>1
<1> HIDE DEF qs
<1>4. Len(rest) = k - (m + 1) /\ \A i \in 1 .. k - (m + 1) : rest[i] = ps[m + 1 + i]
  BY DEF Part
<1>5. Len(qs) = k - m
  BY <1>1, <1>3, <1>4
<1>6. ASSUME NEW i \in 1 .. k - m PROVE qs[i] = ps[m + i]
  <2>1. CASE i = 1
    BY <1>3, <2>1 DEF p
  <2>2. CASE i # 1
    <3> DEFINE j == i - 1
    <3>1. j \in 1 .. k - (m + 1) /\ 1 + j = i /\ m + 1 + j = m + i
      BY <1>1, <2>2
    <3> HIDE DEF j
    <3>2. qs[1 + j] = rest[j] /\ rest[j] = ps[m + 1 + j]
      BY <1>3, <1>4, <3>1
    <3> QED
      BY <3>1, <3>2
  <2> QED
    BY <2>1, <2>2
<1>7. Part(qs, ps, m, k)
  BY <1>5, <1>6 DEF Part
<1> QED
  BY <1>3, <1>7 DEF qs, one, p

\* What is decoded, if anything, is the first of ps, and all of them from all of whole.
Begun(r, ps, V, all) ==
  /\ r.ok => r.params \in Seq(ParamsOf(V)) /\ \E k \in 0 .. Len(ps) : Part(r.params, ps, 0, k)
  /\ all => r.ok /\ r.params = ps

\* Nothing is decoded of a beginning that ends inside a parameter.
EndsAtOne(r, ps, at, n) == r.ok => \E k \in 0 .. Len(ps) : at[k] = n

LEMMA BeginningDecoded ==
  ASSUME NEW V, Nat \subseteq V, NEW ps \in Seq(ParamsOf(V)), NEW whole \in Seq(V), NEW at,
         LaidOut(whole, ps, at), NEW n \in 0 .. Len(whole)
  PROVE  /\ Begun(DecodeParams(SubSeq(whole, 1, n)), ps, V, n = Len(whole))
         /\ EndsAtOne(DecodeParams(SubSeq(whole, 1, n)), ps, at, n)
<1> DEFINE N == Len(ps)
           L == Len(whole)
           Ps == ParamsOf(V)
           body == SubSeq(whole, 1, n)
<1>1. N \in Nat /\ L \in Nat /\ n \in Nat /\ n <= L /\ ps \in Seq(Ps)
  OBVIOUS
<1>2. body \in Seq(V) /\ Len(body) = n /\ \A k \in 1 .. n : body[k] = whole[k]
  <2> DEFINE t == SubSeq(whole, 0 + 1, 0 + n)
  <2>1. 0 \in Nat /\ 0 + n <= Len(whole)
    BY <1>1
  <2>2. t \in Seq(V) /\ Len(t) = n /\ \A k \in 1 .. n : t[k] = whole[0 + k]
    BY <1>1, <2>1, Cut
  <2>3. t = body /\ \A k \in 1 .. n : 0 + k = k
    OBVIOUS
  <2> HIDE DEF t, body
  <2> QED
    BY <2>2, <2>3
<1> HIDE DEF body
<1>3. PICK from : Decodes(from, body, V) /\ DecodeParams(body) = from[1]
  BY <1>2, DecodeSteps
<1>4. DecodeParams(body) = from[1] /\ \A i \in 1 .. n + 1 : from[i] = Decoding(body, i, from)
  BY <1>2, <1>3 DEF Decodes
<1>5. /\ at[0] = 0 /\ at[N] = L /\ \A m \in 0 .. N : at[m] \in 0 .. L
      /\ \A m \in 1 .. N :
            /\ at[m] = at[m - 1] + 2 + Len(ps[m].data)
            /\ whole[at[m - 1] + 1] = 2 + Len(ps[m].data) /\ whole[at[m - 1] + 2] = ps[m].cp
            /\ \A k \in 1 .. Len(ps[m].data) : whole[at[m - 1] + 2 + k] = ps[m].data[k]
  BY DEF LaidOut
<1>6. \A m \in 1 .. N : ps[m] \in Ps /\ ps[m] = [cp |-> ps[m].cp, data |-> ps[m].data] /\ ps[m].data \in Seq(V)
  <2> SUFFICES ASSUME NEW m \in 1 .. N
               PROVE  ps[m] \in Ps /\ ps[m] = [cp |-> ps[m].cp, data |-> ps[m].data] /\ ps[m].data \in Seq(V)
    OBVIOUS
  <2> DEFINE p == ps[m]
  <2>1. p \in Ps
    BY <1>1
  <2> HIDE DEF p
  <2>2. p = [cp |-> p.cp, data |-> p.data] /\ p.data \in Seq(V)
    BY <2>1 DEF ParamsOf
  <2> QED
    BY <2>1, <2>2 DEF p
<1> HIDE DEF L, N, Ps
<1> DEFINE Good(m) == at[m] <= n =>
                         LET r == from[at[m] + 1] IN
                         /\ r.ok => r.params \in Seq(Ps) /\ \E k \in m .. N : Part(r.params, ps, m, k)
                         /\ r.ok => \E k \in m .. N : at[k] = n
                         /\ n = L => r.ok /\ Part(r.params, ps, m, N)
           S == {j \in 0 .. N : Good(N - j)}
<1>7. 0 \in S
  <2> DEFINE r == from[L + 1]
  <2>1. ASSUME L <= n
        PROVE  /\ r.ok => r.params \in Seq(Ps) /\ \E k \in N .. N : Part(r.params, ps, N, k)
               /\ r.ok => \E k \in N .. N : at[k] = n
               /\ n = L => r.ok /\ Part(r.params, ps, N, N)
    <3>1. n = L /\ L + 1 \in 1 .. n + 1 /\ L + 1 > Len(body)
      BY <1>1, <1>2, <2>1
    <3>2. r = [ok |-> TRUE, params |-> << >>]
      BY <1>4, <3>1 DEF Decoding
    <3>3. r.ok /\ r.params = << >>
      BY <3>2
    <3> HIDE DEF r
    <3>4. r.params \in Seq(Ps) /\ Part(r.params, ps, N, N) /\ N \in N .. N
      BY <1>1, <3>3 DEF Part
    <3>5. at[N] = n
      BY <1>5, <3>1
    <3> QED
      BY <3>3, <3>4, <3>5
  <2>2. N - 0 = N /\ at[N] = L /\ 0 \in 0 .. N
    BY <1>1, <1>5
  <2> QED
    BY <2>1, <2>2
<1>8. ASSUME NEW j \in 1 .. N, j - 1 \in S PROVE j \in S
  <2> DEFINE m == N - j
             q == m + 1
             a == at[m]
             d == ps[q].data
             l == Len(d)
             r == from[a + 1]
             rest == from[at[q] + 1]
  <2>1. m \in 0 .. N - 1 /\ m \in Nat /\ q \in 1 .. N /\ q - 1 = m /\ N - (j - 1) = q /\ j \in 0 .. N
    BY <1>1
  <2>2. Good(q)
    <3>1. Good(N - (j - 1))
      BY <1>8
    <3> HIDE DEF Good
    <3> QED
      BY <2>1, <3>1
  <2> HIDE DEF S, m, q
  <2>3. /\ a \in 0 .. L /\ at[q] \in 0 .. L /\ at[q] = a + 2 + l /\ l \in Nat
        /\ whole[a + 1] = 2 + l /\ whole[a + 2] = ps[q].cp
        /\ \A k \in 1 .. l : whole[a + 2 + k] = d[k]
    <3>1. a \in 0 .. L /\ at[q] \in 0 .. L /\ at[q] = a + 2 + l /\ l \in Nat
      <4>1. d \in Seq(V)
        BY <1>6, <2>1
      <4>2. q \in 0 .. N /\ m \in 0 .. N
        BY <1>1, <2>1
      <4> HIDE DEF d
      <4>3. Len(d) \in Nat
        BY <4>1
      <4> QED
        BY <1>5, <2>1, <4>2, <4>3 DEF d
    <3>2. /\ whole[a + 1] = 2 + l /\ whole[a + 2] = ps[q].cp
          /\ \A k \in 1 .. l : whole[a + 2 + k] = d[k]
      BY <1>5, <2>1
    <3> QED
      BY <3>1, <3>2
  <2> HIDE DEF Good, a, l
  <2>4. Good(m)
    <3> SUFFICES ASSUME a <= n
                 PROVE  /\ r.ok => r.params \in Seq(Ps) /\ \E k \in m .. N : Part(r.params, ps, m, k)
                        /\ r.ok => \E k \in m .. N : at[k] = n
                        /\ n = L => r.ok /\ Part(r.params, ps, m, N)
      BY DEF Good, a
    <3> DEFINE i == a + 1
    <3>1. i \in 1 .. n + 1 /\ Len(body) = n
      BY <1>1, <1>2, <2>3
    <3>2. r = Decoding(body, i, from)
      BY <1>4, <3>1
    <3>3. CASE a = n
      <4>1. i > Len(body)
        BY <1>1, <3>1, <3>3
      <4>2. r = [ok |-> TRUE, params |-> << >>]
        BY <3>2, <4>1 DEF Decoding
      <4>3. r.ok /\ r.params = << >>
        BY <4>2
      <4> HIDE DEF r
      <4>4. r.params \in Seq(Ps) /\ Part(r.params, ps, m, m) /\ m \in m .. N
        BY <1>1, <2>1, <4>3 DEF Part
      <4>5. n # L
        BY <1>1, <2>3, <3>3
      <4>6. at[m] = n
        BY <3>3 DEF a
      <4> QED
        BY <4>4, <4>5, <4>6
    <3>4. CASE a < n /\ at[q] > n
      <4>1. r = Malformed
        <5>1. ~(i > Len(body))
          BY <1>1, <2>3, <3>1, <3>4
        <5>2. i + 1 > Len(body) \/ ~EndsInside(body[i], Len(body) + 1 - i)
          <6>1. i \in 1 .. n
            BY <1>1, <2>3, <3>4
          <6>2. body[i] = 2 + l
            BY <1>2, <2>3, <6>1
          <6> QED
            BY <1>1, <2>3, <3>1, <3>4, <6>2, SMTT(30) DEF EndsInside
        <5> QED
          BY <3>2, <5>1, <5>2 DEF Decoding
      <4>2. ~r.ok
        BY <4>1 DEF Malformed
      <4>3. n # L
        BY <1>1, <2>3, <3>4
      <4> QED
        BY <4>2, <4>3
    <3>5. CASE a < n /\ at[q] <= n
      <4>1. i \in 1 .. n /\ i + 1 \in 1 .. n /\ body[i] = 2 + l /\ body[i + 1] = ps[q].cp
        <5>1. i \in 1 .. n /\ i + 1 \in 1 .. n /\ i + 1 = a + 2
          <6>1. a \in Nat /\ l \in Nat /\ a + 2 + l <= n
            BY <2>3, <3>5
          <6> QED
            BY <1>1, <6>1
        <5> QED
          BY <1>2, <2>3, <5>1
      <4>2. EndsInside(body[i], Len(body) + 1 - i) /\ i + body[i] = at[q] + 1
        BY <1>1, <2>3, <3>1, <3>5, <4>1 DEF EndsInside
      <4> DEFINE t == SubSeq(body, i + 2, i + body[i] - 1)
      <4>3. t = d
        <5> DEFINE c == a + 2
        <5>1. c \in Nat /\ l \in Nat /\ c + l <= Len(body) /\ t = SubSeq(body, c + 1, c + l)
          <6>1. i + 2 = c + 1 /\ i + (2 + l) - 1 = c + l /\ c \in Nat /\ l \in Nat /\ c + l <= n
            BY <1>1, <2>3, <3>5
          <6>2. t = SubSeq(body, i + 2, i + (2 + l) - 1)
            BY <4>1
          <6> HIDE DEF t, c, i
          <6> QED
            BY <3>1, <6>1, <6>2
        <5> HIDE DEF t, c
        <5>2. t \in Seq(V) /\ Len(t) = l /\ \A k \in 1 .. l : t[k] = body[c + k]
          BY <1>2, <5>1, Cut
        <5>3. ASSUME NEW k \in 1 .. l PROVE body[c + k] = d[k]
          <6>1. c + k \in 1 .. n /\ c + k = a + 2 + k
            BY <1>2, <2>3, <5>1 DEF c
          <6> QED
            BY <1>2, <2>3, <6>1
        <5>4. d \in Seq(V) /\ Len(d) = l
          BY <1>6, <2>1 DEF l
        <5> HIDE DEF d
        <5>5. t \in Seq(V) /\ d \in Seq(V) /\ Len(t) = Len(d) /\ \A k \in 1 .. Len(t) : t[k] = d[k]
          BY <5>2, <5>3, <5>4
        <5> QED
          BY <5>5, SameElements
      <4>4. Param(body[i + 1], t) = ps[q]
        BY <1>6, <2>1, <4>1, <4>3 DEF Param
      <4>5. r = IF ~rest.ok THEN Malformed ELSE [ok |-> TRUE, params |-> <<ps[q]>> \o rest.params]
        <5>1. ~(i > Len(body)) /\ ~(i + 1 > Len(body))
          BY <1>1, <3>1, <4>1
        <5> HIDE DEF i
        <5> QED
          BY <3>2, <4>2, <4>4, <5>1 DEF Decoding
      <4>6. /\ rest.ok => rest.params \in Seq(Ps) /\ \E k \in q .. N : Part(rest.params, ps, q, k)
            /\ rest.ok => \E k \in q .. N : at[k] = n
            /\ n = L => rest.ok /\ Part(rest.params, ps, q, N)
        BY <2>2, <3>5 DEF Good
      <4> HIDE DEF r, rest
      <4>7. CASE ~rest.ok
        BY <4>5, <4>6, <4>7 DEF Malformed
      <4>8. CASE rest.ok
        <5>1. r.ok /\ r.params = <<ps[q]>> \o rest.params
          BY <4>5, <4>8
        <5>2. ASSUME NEW k \in q .. N, Part(rest.params, ps, q, k)
              PROVE  k \in m .. N /\ r.params \in Seq(Ps) /\ Part(r.params, ps, m, k)
          <6>1. k \in m + 1 .. Len(ps) /\ k \in m .. N /\ q = m + 1
            BY <1>1, <2>1 DEF N, q
          <6>2. Part(rest.params, ps, m + 1, k) /\ rest.params \in Seq(Ps)
            BY <4>6, <4>8, <5>2, <6>1
          <6> QED
            BY <1>1, <2>1, <5>1, <6>1, <6>2, PartExtends
        <5>3. PICK k \in q .. N : Part(rest.params, ps, q, k)
          BY <4>6, <4>8
        <5>4. N \in q .. N
          BY <1>1, <2>1
        <5>5. \E k1 \in m .. N : at[k1] = n
          <6>1. \A k1 \in q .. N : k1 \in m .. N
            BY <1>1, <2>1
          <6> QED
            BY <4>6, <4>8, <6>1
        <5> QED
          BY <4>6, <5>1, <5>2, <5>3, <5>4, <5>5
      <4> QED
        BY <4>7, <4>8
    <3>6. at[q] \in Nat
      BY <2>3
    <3> QED
      BY <1>1, <2>3, <3>3, <3>4, <3>5, <3>6
  <2> QED
    BY <2>1, <2>4 DEF m, S
<1> HIDE DEF S
<1>9. N \in S
  <2>1. \A j \in 0 .. N : j \in S
    BY <1>1, <1>7, <1>8, CountingUp
  <2> QED
    BY <1>1, <2>1
<1>10. Good(0)
  <2>1. Good(N - N) /\ N - N = 0
    BY <1>1, <1>9 DEF S
  <2> HIDE DEF Good
  <2> QED
    BY <2>1
<1>11. /\ from[1].ok => from[1].params \in Seq(Ps) /\ \E k \in 0 .. N : Part(from[1].params, ps, 0, k)
       /\ from[1].ok => \E k \in 0 .. N : at[k] = n
       /\ n = L => from[1].ok /\ Part(from[1].params, ps, 0, N)
  BY <1>1, <1>5, <1>10
<1>12. n = L => from[1].params = ps
  <2> SUFFICES ASSUME n = L PROVE from[1].params = ps
    OBVIOUS
  <2> DEFINE qs == from[1].params
  <2>1. qs \in Seq(Ps) /\ Part(qs, ps, 0, N)
    BY <1>11
  <2> HIDE DEF qs
  <2>2. qs \in Seq(Ps) /\ ps \in Seq(Ps) /\ Len(qs) = Len(ps) /\ \A k \in 1 .. Len(qs) : qs[k] = ps[k]
    BY <1>1, <2>1 DEF Part, N
  <2>3. qs = ps
    BY <2>2, SameElements
  <2> QED
    BY <2>3 DEF qs
<1> QED
  BY <1>4, <1>11, <1>12 DEF Begun, EndsAtOne, body, N, L, Ps

\* No two parameters have the same code point.
Distinct(ps) == \A i, j \in 1 .. Len(ps) : ps[i].cp = ps[j].cp => i = j

LEMMA FoundPart ==
  ASSUME NEW Ps, NEW ps \in Seq(Ps), Distinct(ps), NEW k \in 0 .. Len(ps), NEW qs \in Seq(Ps), Part(qs, ps, 0, k), NEW cp
  PROVE  /\ \A i \in 1 .. k : ps[i].cp = cp => Find(qs, cp) = ps[i].data
         /\ (\A i \in 1 .. k : ps[i].cp # cp) => Find(qs, cp) = << >>
<1> DEFINE at == {i \in DOMAIN qs : qs[i].cp = cp}
<1>1. k \in Nat /\ DOMAIN qs = 1 .. k /\ \A i \in 1 .. k : i \in 1 .. Len(ps) /\ qs[i] = ps[i]
  <2>1. k - 0 = k /\ \A i \in 1 .. k : 0 + i = i
    OBVIOUS
  <2>2. Len(qs) = k /\ \A i \in 1 .. k : qs[i] = ps[i]
    BY <2>1 DEF Part
  <2> QED
    BY <2>2
<1>2. Find(qs, cp) = IF at = {} THEN << >> ELSE qs[Min(at)].data
  BY DEF Find
<1>3. ASSUME NEW i \in 1 .. k, ps[i].cp = cp PROVE Find(qs, cp) = ps[i].data
  <2>1. at = {i}
    BY <1>1, <1>3 DEF Distinct
  <2> HIDE DEF at
  <2>2. Min(at) = i
    <3>1. Min(at) = CHOOSE x \in {i} : \A y \in {i} : x =< y
      BY <2>1 DEF Min
    <3>2. i \in Nat /\ \E x \in {i} : \A y \in {i} : x =< y
      BY <1>1
    <3> QED
      BY <3>1, <3>2
  <2> QED
    BY <1>1, <1>2, <2>1, <2>2
<1>4. ASSUME \A i \in 1 .. k : ps[i].cp # cp PROVE Find(qs, cp) = << >>
  <2>1. at = {}
    BY <1>1, <1>4
  <2> QED
    BY <1>2, <2>1
<1> QED
  BY <1>3, <1>4

\* A field of the first k parameters: its value if it is there.
FieldThere(qs, ps, k, cp, skip) ==
  /\ \A i \in 1 .. k : ps[i].cp = cp /\ Len(ps[i].data) = skip + 1 => Field(qs, cp, skip) = ps[i].data[skip + 1]
  /\ (\A i \in 1 .. k : ps[i].cp # cp) => Field(qs, cp, skip) = 0

LEMMA FieldOfPart ==
  ASSUME NEW Ps, NEW ps \in Seq(Ps), Distinct(ps), NEW k \in 0 .. Len(ps), NEW qs \in Seq(Ps), Part(qs, ps, 0, k),
         NEW cp, NEW skip \in Nat
  PROVE  FieldThere(qs, ps, k, cp, skip)
<1>1. /\ \A i \in 1 .. k : ps[i].cp = cp => Find(qs, cp) = ps[i].data
      /\ (\A i \in 1 .. k : ps[i].cp # cp) => Find(qs, cp) = << >>
  BY FoundPart
<1>2. ASSUME NEW d PROVE /\ Find(qs, cp) = d /\ Len(d) = skip + 1 => Field(qs, cp, skip) = d[skip + 1]
                         /\ Find(qs, cp) = d /\ Len(d) = 0 => Field(qs, cp, skip) = 0
  BY DEF Field
<1>3. Len(<< >>) = 0
  OBVIOUS
<1> QED
  BY <1>1, <1>2, <1>3 DEF FieldThere

\* ps holds every parameter of A, some of B and no others, each once.
Arranged(ps, A, B) ==
  /\ Distinct(ps)
  /\ \A i \in 1 .. Len(ps) : ps[i] \in A \union B
  /\ \A p \in A : \E i \in 1 .. Len(ps) : ps[i] = p

\* No two of them have the same code point.
OneEach(ps) == \A p, q \in ps : p.cp = q.cp => p = q

\* What the server may put in a reply in any order.
LEMMA AnyOrder ==
  ASSUME NEW Ps, NEW A, NEW B, IsFiniteSet(A), IsFiniteSet(B), A \union B \subseteq Ps, OneEach(A \union B),
         NEW ps, ps \in InAnyOrder(A, B)
  PROVE  ps \in Seq(Ps) /\ Arranged(ps, A, B)
<1>1. PICK some \in SUBSET B : ps \in SetToSeqs(A \union some)
  BY DEF InAnyOrder
<1> DEFINE S == A \union some
           n == Cardinality(S)
           D == 1 .. n
<1>2. S \subseteq A \union B /\ IsFiniteSet(S) /\ n \in Nat
  <2>1. IsFiniteSet(some)
    BY FS_Subset
  <2>2. IsFiniteSet(S)
    BY <2>1, FS_Union
  <2> HIDE DEF S
  <2>3. n \in Nat
    BY <2>2, FS_CardinalityType
  <2> QED
    BY <2>2, <2>3 DEF S
<1>3. ps \in [D -> S] /\ \A i, j \in D : i # j => ps[i] # ps[j]
  BY <1>1 DEF SetToSeqs
<1>4. \A p \in A : p \in S
  OBVIOUS
<1> HIDE DEF S, n
<1>5. ps \in Seq(Ps) /\ Len(ps) = n /\ \A i \in D : ps[i] \in A \union B
  BY <1>2, <1>3
<1>6. \A p \in S : \E i \in D : ps[i] = p
  <2>1. ps \in Injection(D, S)
    BY <1>3 DEF Injection, IsInjective
  <2>2. Cardinality(D) = n /\ IsFiniteSet(D)
    BY <1>2, FS_Interval
  <2>3. ps \in Surjection(D, S)
    BY <1>2, <2>1, <2>2, FS_Injection DEF n
  <2> QED
    BY <2>3 DEF Surjection
<1>7. Distinct(ps)
  <2>1. \A i, j \in D : ps[i].cp = ps[j].cp => i = j
    BY <1>3, <1>5 DEF OneEach
  <2> QED
    BY <1>5, <2>1 DEF Distinct
<1> QED
  BY <1>4, <1>5, <1>6, <1>7 DEF Arranged

\* The beginning of a body without its head.
Follows(body, head, e, n) ==
  /\ Len(body) = n /\ \A k \in 1 .. Len(head) : body[k] = head[k]
  /\ SubSeq(body, Len(head) + 1, n) = SubSeq(e, 1, n - Len(head))
  /\ n - Len(head) \in 0 .. Len(e)

LEMMA Behind ==
  ASSUME NEW S, NEW head \in Seq(S), NEW e \in Seq(S), NEW n \in Nat, Len(head) <= n, n <= Len(head) + Len(e)
  PROVE  Follows(SubSeq(head \o e, 1, n), head, e, n)
<1> DEFINE whole == head \o e
           body == SubSeq(whole, 1, n)
           h == Len(head)
           l == n - h
           t == SubSeq(body, h + 1, n)
           u == SubSeq(e, 1, l)
<1>1. /\ whole \in Seq(S) /\ Len(whole) = h + Len(e) /\ h \in Nat /\ Len(e) \in Nat
      /\ \A i \in 1 .. h : whole[i] = head[i]
      /\ \A i \in 1 .. Len(e) : whole[h + i] = e[i]
  BY Joined
<1> HIDE DEF whole, h
<1>2. l \in Nat /\ h + l = n /\ l <= Len(e) /\ n <= Len(whole)
  BY <1>1 DEF h
<1> HIDE DEF l
<1>3. body \in Seq(S) /\ Len(body) = n /\ \A k \in 1 .. n : body[k] = whole[k]
  <2> DEFINE b == SubSeq(whole, 0 + 1, 0 + n)
  <2>1. 0 \in Nat /\ 0 + n <= Len(whole)
    BY <1>2
  <2>2. b \in Seq(S) /\ Len(b) = n /\ \A k \in 1 .. n : b[k] = whole[0 + k]
    BY <1>1, <2>1, Cut
  <2>3. b = body /\ \A k \in 1 .. n : 0 + k = k
    OBVIOUS
  <2> HIDE DEF b, body
  <2> QED
    BY <2>2, <2>3
<1> HIDE DEF body
<1>4. t \in Seq(S) /\ Len(t) = l /\ \A k \in 1 .. l : t[k] = body[h + k]
  <2>1. h + l <= Len(body)
    BY <1>1, <1>2, <1>3
  <2>2. t = SubSeq(body, h + 1, h + l)
    BY <1>2
  <2> HIDE DEF t
  <2> QED
    BY <1>1, <1>2, <1>3, <2>1, <2>2, Cut
<1>5. u \in Seq(S) /\ Len(u) = l /\ \A k \in 1 .. l : u[k] = e[k]
  <2> DEFINE b == SubSeq(e, 0 + 1, 0 + l)
  <2>1. 0 \in Nat /\ 0 + l <= Len(e)
    BY <1>2
  <2>2. b \in Seq(S) /\ Len(b) = l /\ \A k \in 1 .. l : b[k] = e[0 + k]
    BY <1>2, <2>1, Cut
  <2>3. b = u /\ \A k \in 1 .. l : 0 + k = k
    BY <1>2
  <2> HIDE DEF b, u
  <2> QED
    BY <2>2, <2>3
<1>6. ASSUME NEW k \in 1 .. l PROVE t[k] = u[k]
  <2>1. h + k \in 1 .. n /\ k \in 1 .. Len(e)
    BY <1>1, <1>2
  <2> QED
    BY <1>1, <1>3, <1>4, <1>5, <2>1
<1> HIDE DEF t, u
<1>7. t = u
  BY <1>4, <1>5, <1>6, SameElements
<1>8. \A k \in 1 .. h : body[k] = head[k]
  BY <1>1, <1>2, <1>3
<1>9. SubSeq(body, Len(head) + 1, n) = SubSeq(e, 1, n - Len(head))
  BY <1>7 DEF t, u, l, h
<1>10. Follows(body, head, e, n)
  BY <1>2, <1>3, <1>8, <1>9 DEF Follows, l, h
<1> QED
  BY <1>10 DEF body, whole

\* All of it decodes.
LEMMA WholeDecoded ==
  ASSUME NEW V, Nat \subseteq V, NEW ps \in Seq(ParamsOf(V))
  PROVE  DecodeParams(EncodeParams(ps)).ok /\ DecodeParams(EncodeParams(ps)).params = ps
<1> DEFINE whole == EncodeParams(ps)
           n == Len(whole)
<1>1. whole \in Seq(V) /\ \E at : LaidOut(whole, ps, at)
  BY ParamsLaid
<1> HIDE DEF whole
<1>2. PICK at : LaidOut(whole, ps, at)
  BY <1>1
<1>3. n \in Nat /\ n \in 0 .. Len(whole)
  BY <1>1
<1>4. SubSeq(whole, 1, n) = whole
  BY <1>1
<1> DEFINE r == DecodeParams(SubSeq(whole, 1, n))
<1>5. r.ok /\ r.params = ps
  <2>1. Begun(r, ps, V, n = Len(whole))
    BY <1>1, <1>2, <1>3, BeginningDecoded
  <2> HIDE DEF r
  <2> QED
    BY <2>1 DEF Begun
<1> QED
  BY <1>4, <1>5 DEF whole

LEMMA TailBehind ==
  ASSUME NEW S, NEW s \in Seq(S), Len(s) > 0
  PROVE  Tail(s) = SubSeq(s, 2, Len(s))
<1> DEFINE t == Tail(s)
           u == SubSeq(s, 2, Len(s))
           l == Len(s) - 1
<1>1. l \in Nat /\ 1 + l = Len(s) /\ s # << >>
  OBVIOUS
<1>2. t \in Seq(S) /\ Len(t) = l /\ \A k \in 1 .. l : t[k] = s[k + 1]
  BY <1>1, HeadTailProperties
<1>3. u \in Seq(S) /\ Len(u) = l /\ \A k \in 1 .. l : u[k] = s[1 + k]
  <2>1. u = SubSeq(s, 1 + 1, 1 + l) /\ 1 \in Nat /\ 1 + l <= Len(s)
    BY <1>1
  <2> HIDE DEF u, l
  <2> QED
    BY <1>1, <2>1, Cut
<1> HIDE DEF t, u
<1>4. \A k \in 1 .. l : t[k] = u[k]
  <2>1. \A k \in 1 .. l : k + 1 = 1 + k
    BY <1>1
  <2> QED
    BY <1>2, <1>3, <2>1
<1>5. t = u
  BY <1>2, <1>3, <1>4, SameElements
<1> QED
  BY <1>5 DEF t, u

-----------------------------------------------------------------------------
(***************************************************************************)
(* What signon.Client and the server read of each other's.                 *)
(***************************************************************************)
SomeAttributes(lvl) ==
  InAnyOrder({Param(ServerSeed, <<TheServerSeed>>), Param(PasswordLevel, <<lvl>>)},
             {Param(JobName, <<EBCDIC, TheJob>>), Param(Unread, <<EBCDIC>>)})
SomeInfo ==
  InAnyOrder({}, {Param(UserID, <<EBCDIC, TheUser>>), Param(CurrentDate, <<TheDate>>), Param(Unread, <<EBCDIC>>)})

LEMMA ParamOfOne ==
  ASSUME NEW V, NEW cp \in V, NEW a \in V
  PROVE  /\ Param(cp, <<a>>) \in ParamsOf(V) /\ Param(cp, <<a>>).cp = cp
         /\ Param(cp, <<a>>).data = <<a>> /\ Len(<<a>>) = 1
BY DEF Param, ParamsOf

LEMMA ParamOfTwo ==
  ASSUME NEW V, NEW cp \in V, NEW a \in V, NEW b \in V
  PROVE  /\ Param(cp, <<a, b>>) \in ParamsOf(V) /\ Param(cp, <<a, b>>).cp = cp
         /\ Param(cp, <<a, b>>).data = <<a, b>> /\ Len(<<a, b>>) = 2
BY DEF Param, ParamsOf

LEMMA AttributesOf ==
  ASSUME NEW lvl \in Nat, NEW ps \in SomeAttributes(lvl)
  PROVE  /\ ps \in Seq(ParamsOf(Nat)) /\ Distinct(ps)
         /\ \E i \in 1 .. Len(ps) : ps[i].cp = ServerSeed /\ Len(ps[i].data) = 1 /\ ps[i].data[1] = TheServerSeed
         /\ \E i \in 1 .. Len(ps) : ps[i].cp = PasswordLevel /\ Len(ps[i].data) = 1 /\ ps[i].data[1] = lvl
<1> DEFINE Ps == ParamsOf(Nat)
           a1 == Param(ServerSeed, <<TheServerSeed>>)
           a2 == Param(PasswordLevel, <<lvl>>)
           b1 == Param(JobName, <<EBCDIC, TheJob>>)
           b2 == Param(Unread, <<EBCDIC>>)
<1>1. /\ ServerSeed = 4355 /\ PasswordLevel = 4377 /\ JobName = 4383 /\ Unread = 4369
      /\ TheServerSeed \in Nat /\ TheJob \in Nat /\ EBCDIC \in Nat
  BY DEF ServerSeed, PasswordLevel, JobName, Unread, TheServerSeed, TheJob, EBCDIC
<1>2. /\ a1 \in Ps /\ a1.cp = 4355 /\ Len(a1.data) = 1 /\ a1.data[1] = TheServerSeed
      /\ a2 \in Ps /\ a2.cp = 4377 /\ Len(a2.data) = 1 /\ a2.data[1] = lvl
      /\ b1 \in Ps /\ b1.cp = 4383 /\ b2 \in Ps /\ b2.cp = 4369
  <2>1. a1 \in Ps /\ a1.cp = 4355 /\ a1.data = <<TheServerSeed>>
    <3>1. ServerSeed \in Nat /\ TheServerSeed \in Nat
      BY <1>1
    <3> QED
      BY <1>1, <3>1, ParamOfOne
  <2>2. a2 \in Ps /\ a2.cp = 4377 /\ a2.data = <<lvl>>
    <3>1. PasswordLevel \in Nat
      BY <1>1
    <3> QED
      BY <1>1, <3>1, ParamOfOne
  <2>3. b1 \in Ps /\ b1.cp = 4383
    <3>1. JobName \in Nat /\ EBCDIC \in Nat /\ TheJob \in Nat
      BY <1>1
    <3> QED
      BY <1>1, <3>1, ParamOfTwo
  <2>4. b2 \in Ps /\ b2.cp = 4369
    <3>1. Unread \in Nat
      BY <1>1
    <3> QED
      BY <1>1, <3>1, ParamOfOne
  <2> HIDE DEF a1, a2, b1, b2
  <2> QED
    BY <2>1, <2>2, <2>3, <2>4
<1>3. ps \in InAnyOrder({a1, a2}, {b1, b2})
  BY DEF SomeAttributes
<1> HIDE DEF a1, a2, b1, b2, Ps
<1>4. IsFiniteSet({a1, a2}) /\ IsFiniteSet({b1, b2})
  <2>1. \A x, y : IsFiniteSet({x, y})
    <3> TAKE x, y
    <3>1. IsFiniteSet({x}) /\ IsFiniteSet({y}) /\ {x, y} = {x} \union {y}
      BY FS_Singleton
    <3> QED
      BY <3>1, FS_Union
  <2> QED
    BY <2>1
<1>5. {a1, a2} \union {b1, b2} \subseteq Ps /\ \A p, q \in {a1, a2} \union {b1, b2} : p.cp = q.cp => p = q
  BY <1>2
<1> DEFINE A == {a1, a2}
           B == {b1, b2}
<1>6. a1 \in A /\ a2 \in A
  OBVIOUS
<1> HIDE DEF A, B
<1>7. IsFiniteSet(A) /\ IsFiniteSet(B) /\ A \union B \subseteq Ps /\ ps \in InAnyOrder(A, B)
  BY <1>3, <1>4, <1>5 DEF A, B
<1>8. OneEach(A \union B)
  BY <1>5 DEF OneEach, A, B
<1>9. ps \in Seq(Ps) /\ Arranged(ps, A, B)
  <2>1. IsFiniteSet(A) /\ IsFiniteSet(B) /\ A \union B \subseteq Ps
    BY <1>7
  <2>2. ps \in InAnyOrder(A, B)
    BY <1>7
  <2> QED
    BY <1>8, <2>1, <2>2, AnyOrder
<1> QED
  BY <1>1, <1>2, <1>6, <1>9 DEF Ps, Arranged

LEMMA InfoOf ==
  ASSUME NEW ps \in SomeInfo
  PROVE  /\ ps \in Seq(ParamsOf(Nat)) /\ Distinct(ps)
         /\ \A i \in 1 .. Len(ps) : /\ ps[i].cp = UserID => Len(ps[i].data) = 2
                                    /\ ps[i].cp = CurrentDate => Len(ps[i].data) = 1
<1> DEFINE Ps == ParamsOf(Nat)
           b1 == Param(UserID, <<EBCDIC, TheUser>>)
           b2 == Param(CurrentDate, <<TheDate>>)
           b3 == Param(Unread, <<EBCDIC>>)
           B == {b1, b2, b3}
<1>1. /\ UserID = 4356 /\ CurrentDate = 4358 /\ Unread = 4369
      /\ TheUser \in Nat /\ TheDate \in Nat /\ EBCDIC \in Nat
  BY DEF UserID, CurrentDate, Unread, TheUser, TheDate, EBCDIC
<1>2. /\ b1 \in Ps /\ b1.cp = 4356 /\ Len(b1.data) = 2
      /\ b2 \in Ps /\ b2.cp = 4358 /\ Len(b2.data) = 1
      /\ b3 \in Ps /\ b3.cp = 4369
  <2>1. b1 \in Ps /\ b1.cp = 4356 /\ b1.data = <<EBCDIC, TheUser>>
    <3>1. UserID \in Nat /\ EBCDIC \in Nat /\ TheUser \in Nat
      BY <1>1
    <3> QED
      BY <1>1, <3>1, ParamOfTwo
  <2>2. b2 \in Ps /\ b2.cp = 4358 /\ b2.data = <<TheDate>>
    <3>1. CurrentDate \in Nat
      BY <1>1
    <3> QED
      BY <1>1, <3>1, ParamOfOne
  <2>3. b3 \in Ps /\ b3.cp = 4369
    <3>1. Unread \in Nat
      BY <1>1
    <3> QED
      BY <1>1, <3>1, ParamOfOne
  <2> HIDE DEF b1, b2, b3
  <2> QED
    BY <2>1, <2>2, <2>3
<1>3. ps \in InAnyOrder({}, B)
  BY DEF SomeInfo
<1> HIDE DEF b1, b2, b3, Ps
<1>4. IsFiniteSet(B) /\ IsFiniteSet({})
  <2>1. IsFiniteSet({b1}) /\ IsFiniteSet({b2}) /\ IsFiniteSet({b3})
    BY FS_Singleton
  <2>2. IsFiniteSet({b1} \union {b2})
    BY <2>1, FS_Union
  <2>3. IsFiniteSet(({b1} \union {b2}) \union {b3})
    BY <2>1, <2>2, FS_Union
  <2>4. B = ({b1} \union {b2}) \union {b3}
    OBVIOUS
  <2> QED
    BY <2>3, <2>4, FS_EmptySet
<1>5. {} \union B \subseteq Ps /\ OneEach({} \union B)
  BY <1>2 DEF OneEach
<1>6. \A p \in {} \union B : p \in B
  OBVIOUS
<1> HIDE DEF B
<1>7. ps \in Seq(Ps) /\ Distinct(ps) /\ \A i \in 1 .. Len(ps) : ps[i] \in {} \union B
  BY <1>3, <1>4, <1>5, AnyOrder DEF Arranged
<1> QED
  BY <1>1, <1>2, <1>6, <1>7 DEF Ps, B

\* The bodies of the two replies that carry parameters.
AttributesBody(lvl, slvl, ps) == <<0, 1, slvl>> \o EncodeParams(ps)
InfoBody(ps) == <<0>> \o EncodeParams(ps)

\* The client has the seed and the level of the server if it got all of its
\* reply, and in any case the server level it read the reply by.
LEMMA AttributesRead ==
  ASSUME NEW lvl \in Nat, NEW slvl \in Nat, NEW ps \in SomeAttributes(lvl),
         NEW n \in 0 .. Len(AttributesBody(lvl, slvl, ps))
  PROVE  LET body == SubSeq(AttributesBody(lvl, slvl, ps), 1, n)
             r == DecodeParams(SubSeq(body, 4, Len(body)))
         IN  /\ body \in Seq(Nat) /\ Len(body) = n
             /\ n >= 3 => body[1] = 0 /\ body[3] = slvl
             /\ n = Len(AttributesBody(lvl, slvl, ps)) =>
                   /\ n >= 3 /\ r.ok
                   /\ Field(r.params, ServerSeed, 0) = TheServerSeed
                   /\ Field(r.params, PasswordLevel, 0) = lvl
<1> DEFINE Ps == ParamsOf(Nat)
           e == EncodeParams(ps)
           head == <<0, 1, slvl>>
           whole == head \o e
           body == SubSeq(whole, 1, n)
           m == n - 3
           r == DecodeParams(SubSeq(body, 4, Len(body)))
<1>1. /\ ps \in Seq(Ps) /\ Distinct(ps)
      /\ \E i \in 1 .. Len(ps) : ps[i].cp = ServerSeed /\ Len(ps[i].data) = 1 /\ ps[i].data[1] = TheServerSeed
      /\ \E i \in 1 .. Len(ps) : ps[i].cp = PasswordLevel /\ Len(ps[i].data) = 1 /\ ps[i].data[1] = lvl
  BY AttributesOf
<1>2. e \in Seq(Nat) /\ \E at : LaidOut(e, ps, at)
  BY <1>1, ParamsLaid
<1> HIDE DEF e, Ps
<1>3. head \in Seq(Nat) /\ Len(head) = 3 /\ head[1] = 0 /\ head[3] = slvl
  OBVIOUS
<1> HIDE DEF head
<1>4. whole \in Seq(Nat) /\ Len(whole) = 3 + Len(e) /\ Len(e) \in Nat /\ n \in 0 .. Len(whole)
  <2>1. whole \in Seq(Nat) /\ Len(whole) = Len(head) + Len(e)
    BY <1>2, <1>3, Joined
  <2>2. n \in 0 .. Len(whole)
    BY DEF AttributesBody, head, e
  <2> QED
    BY <1>2, <1>3, <2>1, <2>2
<1> HIDE DEF whole
<1>5. body \in Seq(Nat) /\ Len(body) = n
  <2> DEFINE b == SubSeq(whole, 0 + 1, 0 + n)
  <2>1. 0 \in Nat /\ n \in Nat /\ 0 + n <= Len(whole)
    BY <1>4
  <2>2. b \in Seq(Nat) /\ Len(b) = n
    BY <1>4, <2>1, Cut
  <2>3. b = body
    BY <2>1
  <2> QED
    BY <2>2, <2>3
<1>6. ASSUME n >= 3
      PROVE  /\ body[1] = 0 /\ body[3] = slvl
             /\ SubSeq(body, 4, n) = SubSeq(e, 1, m) /\ m \in 0 .. Len(e)
  <2>1. n \in Nat /\ Len(head) <= n /\ n <= Len(head) + Len(e)
    BY <1>3, <1>4, <1>6
  <2>2. body = SubSeq(head \o e, 1, n)
    BY DEF whole
  <2> HIDE DEF body
  <2>3. Follows(SubSeq(head \o e, 1, n), head, e, n)
    BY <1>2, <1>3, <2>1, Behind
  <2>4. Follows(body, head, e, n)
    BY <2>2, <2>3
  <2> QED
    BY <1>3, <2>4 DEF Follows
<1>7. ASSUME n = Len(whole)
      PROVE  /\ n >= 3 /\ r.ok
             /\ Field(r.params, ServerSeed, 0) = TheServerSeed
             /\ Field(r.params, PasswordLevel, 0) = lvl
  <2>1. n >= 3 /\ m = Len(e)
    BY <1>4, <1>7
  <2>2. SubSeq(body, 4, Len(body)) = SubSeq(e, 1, m) /\ m \in 0 .. Len(e)
    BY <1>5, <1>6, <2>1
  <2>3. SubSeq(e, 1, m) = e
    BY <1>2, <2>1
  <2>4. r.ok /\ r.params = ps
    <3>1. r = DecodeParams(e)
      BY <2>2, <2>3
    <3> QED
      BY <1>1, <3>1, WholeDecoded DEF Ps, e
  <2> HIDE DEF r
  <2>5. Part(ps, ps, 0, Len(ps)) /\ Len(ps) \in 0 .. Len(ps)
    BY <1>1 DEF Part
  <2>6. \A cp : \A i \in 1 .. Len(ps) : ps[i].cp = cp /\ Len(ps[i].data) = 1 => Field(ps, cp, 0) = ps[i].data[1]
    <3> SUFFICES ASSUME NEW cp, NEW i \in 1 .. Len(ps), ps[i].cp = cp /\ Len(ps[i].data) = 1
                 PROVE  Field(ps, cp, 0) = ps[i].data[1]
      OBVIOUS
    <3>1. 0 \in Nat /\ 0 + 1 = 1
      OBVIOUS
    <3>2. FieldThere(ps, ps, Len(ps), cp, 0)
      BY <1>1, <2>5, <3>1, FieldOfPart
    <3> QED
      BY <3>1, <3>2 DEF FieldThere
  <2> QED
    BY <1>1, <2>1, <2>4, <2>6
<1> QED
  BY <1>5, <1>6, <1>7 DEF AttributesBody, whole, head, e, body, r

\* What the Client takes of the beginning of what an accepting server says.
LEMMA InfoRead ==
  ASSUME NEW ps \in SomeInfo, NEW n \in 0 .. Len(InfoBody(ps)), InfoFrom(SubSeq(InfoBody(ps), 1, n)).got # "error"
  PROVE  LET info == InfoFrom(SubSeq(InfoBody(ps), 1, n)) IN
         /\ info.got = "info"
         /\ \E qs \in Seq(ParamsOf(Nat)) : \E k \in 0 .. Len(ps) :
               /\ Part(qs, ps, 0, k) /\ info.info = InfoFields(qs)
               /\ n = Len(InfoBody(ps)) => k = Len(ps)
<1> DEFINE Ps == ParamsOf(Nat)
           e == EncodeParams(ps)
           head == <<0>>
           whole == head \o e
           body == SubSeq(whole, 1, n)
           m == n - 1
           r == DecodeParams(Tail(body))
<1>1. ps \in Seq(Ps) /\ Distinct(ps)
  BY InfoOf
<1>2. e \in Seq(Nat) /\ \E at : LaidOut(e, ps, at)
  BY <1>1, ParamsLaid
<1> HIDE DEF e, Ps
<1>3. head \in Seq(Nat) /\ Len(head) = 1 /\ head[1] = 0
  OBVIOUS
<1> HIDE DEF head
<1>4. whole \in Seq(Nat) /\ Len(whole) = 1 + Len(e) /\ Len(e) \in Nat /\ n \in 0 .. Len(whole)
  <2>1. whole \in Seq(Nat) /\ Len(whole) = Len(head) + Len(e)
    BY <1>2, <1>3, Joined
  <2>2. n \in 0 .. Len(whole)
    BY DEF InfoBody, head, e
  <2> QED
    BY <1>2, <1>3, <2>1, <2>2
<1> HIDE DEF whole
<1>5. body \in Seq(Nat) /\ Len(body) = n
  <2> DEFINE b == SubSeq(whole, 0 + 1, 0 + n)
  <2>1. 0 \in Nat /\ n \in Nat /\ 0 + n <= Len(whole)
    BY <1>4
  <2>2. b \in Seq(Nat) /\ Len(b) = n
    BY <1>4, <2>1, Cut
  <2>3. b = body
    BY <2>1
  <2> QED
    BY <2>2, <2>3
<1>6. InfoFrom(body).got # "error" /\ InfoFrom(SubSeq(InfoBody(ps), 1, n)) = InfoFrom(body)
  BY DEF InfoBody, whole, head, e
<1> HIDE DEF body
<1>7. body # << >> /\ n >= 1
  <2>1. body # << >>
    BY <1>6 DEF InfoFrom
  <2> QED
    BY <1>4, <1>5, <2>1
<1>8. body[1] = 0 /\ SubSeq(body, 2, n) = SubSeq(e, 1, m) /\ m \in 0 .. Len(e)
  <2>1. n \in Nat /\ Len(head) <= n /\ n <= Len(head) + Len(e)
    BY <1>3, <1>4, <1>7
  <2>2. body = SubSeq(head \o e, 1, n)
    BY DEF whole, body
  <2>3. Follows(SubSeq(head \o e, 1, n), head, e, n)
    BY <1>2, <1>3, <2>1, Behind
  <2>4. Follows(body, head, e, n)
    BY <2>2, <2>3
  <2> QED
    BY <1>3, <2>4 DEF Follows
<1>9. Tail(body) = SubSeq(e, 1, m)
  <2>1. Tail(body) = SubSeq(body, 2, n)
    BY <1>5, <1>7, TailBehind
  <2> QED
    BY <1>8, <2>1
<1>10. /\ r.ok => r.params \in Seq(Ps) /\ \E k \in 0 .. Len(ps) : Part(r.params, ps, 0, k)
       /\ m = Len(e) => r.ok /\ r.params = ps
  <2>1. PICK at : LaidOut(e, ps, at)
    BY <1>2
  <2>2. ps \in Seq(ParamsOf(Nat)) /\ m \in 0 .. Len(e) /\ Nat \subseteq Nat
    BY <1>1, <1>8 DEF Ps
  <2>3. Begun(DecodeParams(SubSeq(e, 1, m)), ps, Nat, m = Len(e))
    BY <1>2, <2>1, <2>2, BeginningDecoded
  <2>4. Begun(r, ps, Nat, m = Len(e))
    BY <1>9, <2>3
  <2> HIDE DEF r
  <2> QED
    BY <2>4 DEF Begun, Ps
<1>11. r.ok /\ InfoFrom(body) = [got |-> "info", info |-> InfoFields(r.params)]
  BY <1>6, <1>7, <1>8 DEF InfoFrom
<1> HIDE DEF r
<1>12. n = Len(InfoBody(ps)) => m = Len(e)
  <2>1. Len(InfoBody(ps)) = 1 + Len(e)
    BY <1>4 DEF InfoBody, whole, head, e
  <2> QED
    BY <1>4, <2>1
<1>13. \E k \in 0 .. Len(ps) : Part(r.params, ps, 0, k) /\ (m = Len(e) => k = Len(ps))
  <2>1. CASE m = Len(e)
    <3>1. Part(r.params, ps, 0, Len(ps)) /\ Len(ps) \in 0 .. Len(ps)
      BY <1>1, <1>10, <2>1 DEF Part
    <3> QED
      BY <3>1
  <2>2. CASE m # Len(e)
    BY <1>10, <1>11, <2>2
  <2> QED
    BY <2>1, <2>2
<1>14. r.params \in Seq(ParamsOf(Nat))
  BY <1>10, <1>11 DEF Ps
<1> QED
  BY <1>6, <1>11, <1>12, <1>13, <1>14

\* What the server sent as a field, or zero if it did not.
SentField(ps, cp) ==
  LET at == {i \in DOMAIN ps : ps[i].cp = cp} IN
  IF at = {} THEN 0 ELSE Last(ps[CHOOSE i \in at : TRUE].data)

\* The field of ps is the last cell behind skip ones.
FieldBehind(ps, cp, skip) == \A i \in 1 .. Len(ps) : ps[i].cp = cp => Len(ps[i].data) = skip + 1

LEMMA FieldHolds ==
  ASSUME NEW Ps, NEW ps \in Seq(Ps), Distinct(ps), NEW k \in 0 .. Len(ps), NEW qs \in Seq(Ps), Part(qs, ps, 0, k),
         NEW cp, NEW skip \in Nat, FieldBehind(ps, cp, skip)
  PROVE  Field(qs, cp, skip) = SentField(ps, cp) \/ (k # Len(ps) /\ Field(qs, cp, skip) = 0)
<1> DEFINE at == {i \in DOMAIN ps : ps[i].cp = cp}
<1>1. /\ \A i \in 1 .. k : ps[i].cp = cp /\ Len(ps[i].data) = skip + 1 => Field(qs, cp, skip) = ps[i].data[skip + 1]
      /\ (\A i \in 1 .. k : ps[i].cp # cp) => Field(qs, cp, skip) = 0
  <2>1. FieldThere(qs, ps, k, cp, skip)
    BY FieldOfPart
  <2> QED
    BY <2>1 DEF FieldThere
<1>2. DOMAIN ps = 1 .. Len(ps) /\ Len(ps) \in Nat /\ k \in Nat /\ \A i \in 1 .. k : i \in 1 .. Len(ps)
  OBVIOUS
<1>3. CASE \A i \in 1 .. Len(ps) : ps[i].cp # cp
  <2>1. at = {}
    BY <1>2, <1>3
  <2>2. SentField(ps, cp) = 0
    BY <2>1 DEF SentField
  <2> QED
    BY <1>1, <1>2, <1>3, <2>2
<1>4. ASSUME NEW i \in 1 .. Len(ps), ps[i].cp = cp
      PROVE  Field(qs, cp, skip) = SentField(ps, cp) \/ (k # Len(ps) /\ Field(qs, cp, skip) = 0)
  <2>0. Len(ps[i].data) = skip + 1
    BY <1>4 DEF FieldBehind
  <2>1. at = {i}
    BY <1>2, <1>4 DEF Distinct
  <2>2. (CHOOSE j \in at : TRUE) = i
    BY <2>1
  <2>3. SentField(ps, cp) = Last(ps[i].data)
    BY <2>1, <2>2 DEF SentField
  <2>4. Last(ps[i].data) = ps[i].data[skip + 1]
    BY <2>0 DEF Last
  <2>5. CASE i \in 1 .. k
    BY <1>1, <1>4, <2>0, <2>3, <2>4, <2>5
  <2>6. CASE i \notin 1 .. k
    <3>1. k # Len(ps)
      BY <1>2, <2>6
    <3>2. \A j \in 1 .. k : ps[j].cp # cp
      BY <1>2, <1>4, <2>6 DEF Distinct
    <3> QED
      BY <1>1, <3>1, <3>2
  <2> QED
    BY <2>5, <2>6
<1> QED
  BY <1>3, <1>4

\* The parameters of a sign-on request.
AuthParams(sub, slvl) ==
  <<Param(ClientCCSID, <<Unicode>>), Param(AuthData, <<sub>>), Param(UserID, <<TheUser>>)>>
  \o IF slvl >= 5 THEN <<Param(ReturnMessages, <<1>>)>> ELSE << >>

LEMMA AuthParamsAre ==
  ASSUME NEW sub, NEW slvl \in Nat
  PROVE  LET ps == AuthParams(sub, slvl) IN
         /\ ps \in Seq(ParamsOf(Nat \union {sub})) /\ Distinct(ps)
         /\ Len(ps) = (IF slvl >= 5 THEN 4 ELSE 3)
         /\ ps[1].cp = ClientCCSID /\ ps[2] = Param(AuthData, <<sub>>) /\ ps[3].cp = UserID
         /\ slvl >= 5 => ps[4].cp = ReturnMessages
<1> DEFINE V == Nat \union {sub}
           Ps == ParamsOf(V)
           p1 == Param(ClientCCSID, <<Unicode>>)
           p2 == Param(AuthData, <<sub>>)
           p3 == Param(UserID, <<TheUser>>)
           p4 == Param(ReturnMessages, <<1>>)
           ps == AuthParams(sub, slvl)
<1>1. /\ ClientCCSID = 4371 /\ AuthData = 4357 /\ UserID = 4356 /\ ReturnMessages = 4392
      /\ Unicode \in V /\ TheUser \in V /\ 1 \in V /\ sub \in V
      /\ ClientCCSID \in V /\ AuthData \in V /\ UserID \in V /\ ReturnMessages \in V
  BY DEF ClientCCSID, AuthData, UserID, ReturnMessages, Unicode, TheUser
<1> HIDE DEF V
<1>2. p1 \in Ps /\ p1.cp = 4371
  BY <1>1, ParamOfOne
<1>3. p2 \in Ps /\ p2.cp = 4357
  BY <1>1, ParamOfOne
<1>4. p3 \in Ps /\ p3.cp = 4356
  BY <1>1, ParamOfOne
<1>5. p4 \in Ps /\ p4.cp = 4392
  BY <1>1, ParamOfOne
<1>6. ps = <<p1, p2, p3>> \o IF slvl >= 5 THEN <<p4>> ELSE << >>
  BY DEF AuthParams
<1>7. p2 = Param(AuthData, <<sub>>)
  OBVIOUS
<1> HIDE DEF ps, p1, p2, p3, p4, Ps
<1>8. CASE slvl >= 5
  <2> DEFINE three == <<p1, p2, p3>>
             one == <<p4>>
  <2>1. three \in Seq(Ps) /\ Len(three) = 3 /\ three[1] = p1 /\ three[2] = p2 /\ three[3] = p3
    BY <1>2, <1>3, <1>4
  <2>5. one \in Seq(Ps) /\ Len(one) = 1 /\ one[1] = p4
    BY <1>5
  <2>6. ps = three \o one
    BY <1>6, <1>8
  <2> HIDE DEF three, one
  <2>7. /\ ps \in Seq(Ps) /\ Len(ps) = 3 + 1
        /\ \A i \in 1 .. 3 : ps[i] = three[i]
        /\ \A i \in 1 .. 1 : ps[3 + i] = one[i]
    <3>1. three \in Seq(Ps) /\ one \in Seq(Ps)
      BY <2>1, <2>5
    <3>2. /\ three \o one \in Seq(Ps) /\ Len(three \o one) = Len(three) + Len(one)
          /\ \A i \in 1 .. Len(three) : (three \o one)[i] = three[i]
          /\ \A i \in 1 .. Len(one) : (three \o one)[Len(three) + i] = one[i]
      BY <3>1, Joined
    <3> QED
      BY <2>1, <2>5, <2>6, <3>2
  <2>2. Len(ps) = 4 /\ ps[1] = p1 /\ ps[2] = p2 /\ ps[3] = p3 /\ ps[4] = p4 /\ ps \in Seq(Ps)
    <3>1. 1 \in 1 .. 3 /\ 2 \in 1 .. 3 /\ 3 \in 1 .. 3 /\ 1 \in 1 .. 1 /\ 3 + 1 = 4
      OBVIOUS
    <3> QED
      BY <2>1, <2>5, <2>7, <3>1
  <2>3. \A i \in 1 .. 4 : i = 1 \/ i = 2 \/ i = 3 \/ i = 4
    OBVIOUS
  <2>4. Distinct(ps)
    BY <1>2, <1>3, <1>4, <1>5, <2>2, <2>3 DEF Distinct
  <2> QED
    BY <1>1, <1>2, <1>3, <1>4, <1>5, <1>7, <1>8, <2>2, <2>4 DEF Ps, V, ps
<1>9. CASE ~(slvl >= 5)
  <2>1. ps = <<p1, p2, p3>>
    BY <1>6, <1>9
  <2>2. Len(ps) = 3 /\ ps[1] = p1 /\ ps[2] = p2 /\ ps[3] = p3 /\ ps \in Seq(Ps)
    BY <1>2, <1>3, <1>4, <2>1
  <2>3. \A i \in 1 .. 3 : i = 1 \/ i = 2 \/ i = 3
    OBVIOUS
  <2>4. Distinct(ps)
    BY <1>2, <1>3, <1>4, <2>2, <2>3 DEF Distinct
  <2> QED
    BY <1>1, <1>2, <1>3, <1>4, <1>7, <1>9, <2>2, <2>4 DEF Ps, V, ps
<1> QED
  BY <1>8, <1>9

\* What the server finds in a sign-on request.
Request(body, a, sub, slvl) ==
  LET r == DecodeParams(Tail(body)) IN
  /\ body[1] = a /\ r.ok /\ Find(r.params, AuthData) = <<sub>>
  /\ {r.params[i].cp : i \in DOMAIN r.params} \subseteq
        {ClientCCSID, AuthData, UserID} \union IF slvl >= 5 THEN {ReturnMessages} ELSE {}

LEMMA AuthParamsRead ==
  ASSUME NEW a, NEW sub, NEW slvl \in Nat
  PROVE  Request(<<a>> \o EncodeParams(AuthParams(sub, slvl)), a, sub, slvl)
<1> DEFINE ps == AuthParams(sub, slvl)
           V == Nat \union {sub}
           W == V \union {a}
           Ps == ParamsOf(V)
           e == EncodeParams(ps)
           head == <<a>>
           body == head \o e
           r == DecodeParams(Tail(body))
<1>1. /\ ps \in Seq(Ps) /\ Distinct(ps)
      /\ Len(ps) = (IF slvl >= 5 THEN 4 ELSE 3)
      /\ ps[1].cp = ClientCCSID /\ ps[2] = Param(AuthData, <<sub>>) /\ ps[3].cp = UserID
      /\ slvl >= 5 => ps[4].cp = ReturnMessages
  BY AuthParamsAre
<1>2. Nat \subseteq V /\ V \subseteq W /\ a \in W
  OBVIOUS
<1> HIDE DEF ps, V, W
<1>3. e \in Seq(V) /\ DecodeParams(e).ok /\ DecodeParams(e).params = ps
  BY <1>1, <1>2, ParamsLaid, WholeDecoded
<1> HIDE DEF e
<1>4. e \in Seq(W) /\ head \in Seq(W) /\ Len(head) = 1 /\ head[1] = a
  BY <1>2, <1>3
<1> HIDE DEF head
<1>5. /\ body \in Seq(W) /\ Len(body) = 1 + Len(e) /\ Len(e) \in Nat
      /\ body[1] = a /\ \A i \in 1 .. Len(e) : body[1 + i] = e[i]
  <2>1. head \in Seq(W) /\ e \in Seq(W)
    BY <1>4
  <2>2. /\ body \in Seq(W) /\ Len(e) \in Nat /\ Len(body) = Len(head) + Len(e)
        /\ \A i \in 1 .. Len(head) : body[i] = head[i]
        /\ \A i \in 1 .. Len(e) : body[Len(head) + i] = e[i]
    BY <2>1, Joined
  <2> QED
    BY <1>4, <2>2
<1> HIDE DEF body
<1>6. Tail(body) = e
  <2> DEFINE t == Tail(body)
  <2>1. body # << >>
    BY <1>5
  <2>2. t \in Seq(W) /\ Len(t) = Len(e) /\ \A i \in 1 .. Len(e) : t[i] = body[i + 1]
    BY <1>5, <2>1, HeadTailProperties
  <2> HIDE DEF t
  <2>3. \A i \in 1 .. Len(t) : t[i] = e[i]
    BY <1>5, <2>2
  <2>4. t = e
    BY <1>4, <2>2, <2>3, SameElements
  <2> QED
    BY <2>4 DEF t
<1>7. r.ok /\ r.params = ps
  BY <1>3, <1>6
<1>8. Find(ps, AuthData) = <<sub>>
  <2>1. Len(ps) \in Nat /\ 2 \in 1 .. Len(ps)
    BY <1>1
  <2>2. Part(ps, ps, 0, Len(ps)) /\ Len(ps) \in 0 .. Len(ps)
    BY <1>1, <2>1 DEF Part
  <2>3. \A i \in 1 .. Len(ps) : ps[i].cp = AuthData => Find(ps, AuthData) = ps[i].data
    BY <1>1, <2>2, FoundPart
  <2>4. ps[2].cp = AuthData /\ ps[2].data = <<sub>>
    BY <1>1 DEF Param
  <2> QED
    BY <2>1, <2>3, <2>4
<1>9. {ps[i].cp : i \in DOMAIN ps} \subseteq
         {ClientCCSID, AuthData, UserID} \union IF slvl >= 5 THEN {ReturnMessages} ELSE {}
  <2>1. DOMAIN ps = 1 .. Len(ps)
    <3>1. ps \in Seq(Ps)
      BY <1>1
    <3> HIDE DEF Ps
    <3> QED
      BY <3>1
  <2>2. ps[2].cp = AuthData
    BY <1>1 DEF Param
  <2>3. \A i \in 1 .. Len(ps) : i = 1 \/ i = 2 \/ i = 3 \/ (slvl >= 5 /\ i = 4)
    BY <1>1
  <2>4. ASSUME NEW i \in 1 .. Len(ps)
        PROVE  ps[i].cp \in {ClientCCSID, AuthData, UserID} \union IF slvl >= 5 THEN {ReturnMessages} ELSE {}
    BY <1>1, <2>2, <2>3
  <2> QED
    BY <2>1, <2>4
<1> HIDE DEF r
<1>10. /\ body[1] = a /\ r.ok /\ Find(r.params, AuthData) = <<sub>>
       /\ {r.params[i].cp : i \in DOMAIN r.params} \subseteq
             {ClientCCSID, AuthData, UserID} \union IF slvl >= 5 THEN {ReturnMessages} ELSE {}
  BY <1>5, <1>7, <1>8, <1>9
<1> QED
  BY <1>10 DEF ps, e, head, body, r, Request

-----------------------------------------------------------------------------
(***************************************************************************)
(* The invariant of a sign-on.                                             *)
(***************************************************************************)
SeedsRequest == EncodeParams(<<Param(ServerSeed, <<TheClientSeed>>)>>)

SignonTypes ==
  /\ stage \in {"new", "exchanging", "ready", "calling", "lost", "closed"}
  /\ server \in [level : PasswordLevels, serverLevel : ServerLevels, clientSeed : {0, TheClientSeed}, told : BOOLEAN]
  /\ given \in {"none", "right", "wrong"}
  /\ stage = "calling" => given # "none"
  /\ stage \in {"new", "exchanging", "calling"} => result.got = "nothing"

\* The client has what the server told it.
Agreed ==
  stage \in {"ready", "calling"} =>
    /\ attrs.serverLevel = server.serverLevel
    /\ server.told => attrs.seeds = <<server.clientSeed, TheServerSeed>> /\ attrs.level = server.level

\* What a request on its way is.
RequestOnItsWay ==
  sent # << >> =>
    /\ back = << >> /\ stage \in {"exchanging", "calling", "lost", "closed"}
    /\ stage = "exchanging" => sent = <<SeedsRequest>>
    /\ stage = "calling" => sent = <<SignonRequest(given)>>

\* The beginning of the server's attributes, or of its refusal.
AttributesTell(body) ==
  /\ server.clientSeed = TheClientSeed
  /\ \/ \E ps \in SomeAttributes(server.level) :
          \E n \in 0 .. Len(AttributesBody(server.level, server.serverLevel, ps)) :
             /\ body = SubSeq(AttributesBody(server.level, server.serverLevel, ps), 1, n)
             /\ server.told <=> n = Len(AttributesBody(server.level, server.serverLevel, ps))
     \/ ~server.told /\ \E n \in 0 .. 1 : body = SubSeq(<<OtherRefusal>>, 1, n)

\* The beginning of what the server answers to a sign-on request.
InfoTells(body) ==
  \/ /\ verdict.did = "accepted" /\ verdict.rc = 0 /\ given = "right" /\ verdict.said \in SomeInfo
     /\ \E n \in 0 .. Len(InfoBody(verdict.said)) :
          /\ body = SubSeq(InfoBody(verdict.said), 1, n)
          /\ verdict.whole <=> n = Len(InfoBody(verdict.said))
  \/ /\ verdict.did = "refused" /\ verdict.rc \in {PasswordIncorrect, OtherRefusal}
     /\ \E n \in 0 .. 1 : body = SubSeq(<<verdict.rc>>, 1, n)

\* What a reply on its way is.
ReplyOnItsWay ==
  back # << >> =>
    /\ sent = << >> /\ stage \in {"exchanging", "calling", "lost", "closed"}
    /\ stage = "exchanging" => AttributesTell(Head(back))
    /\ stage = "calling" => InfoTells(Head(back))

\* The parts of SignonTrue.
Holds(v, cp) == v = SentField(verdict.said, cp) \/ (~verdict.whole /\ v = 0)
InfoSaid ==
  result.got = "info" =>
    /\ verdict.did = "accepted" /\ given = "right"
    /\ Holds(result.info.user, UserID) /\ Holds(result.info.date, CurrentDate)
RefusalSaid == result.got = "refused" => verdict.did = "refused" /\ result.rc = verdict.rc
IncorrectSaid == verdict.rc = PasswordIncorrect /\ server.told => given = "wrong"
Understood == verdict.did # "protocolError"

SignonInv ==
  /\ SignonTypes /\ Agreed /\ RequestOnItsWay /\ ReplyOnItsWay
  /\ InfoSaid /\ RefusalSaid /\ IncorrectSaid /\ Understood

LEMMA PartsOfSignonTrue ==
  ASSUME InfoSaid, RefusalSaid, IncorrectSaid, Understood
  PROVE  SignonTrue
<1>1. \A v, cp : Holds(v, cp) <=>
        (v = (LET at == {i \in DOMAIN verdict.said : verdict.said[i].cp = cp} IN
              IF at = {} THEN 0 ELSE Last(verdict.said[CHOOSE i \in at : TRUE].data))
         \/ (~verdict.whole /\ v = 0))
  BY DEF Holds, SentField
<1> QED
  BY <1>1 DEF InfoSaid, RefusalSaid, IncorrectSaid, Understood, SignonTrue

LEMMA SignonStarts ==
  ASSUME Init
  PROVE  SignonInv
<1>1. SignonInit
  BY DEF Init
<1>2. SignonTypes
  <2>1. server \in [level : PasswordLevels, serverLevel : ServerLevels, clientSeed : {0}, told : {FALSE}]
    BY <1>1 DEF SignonInit
  <2>2. server \in [level : PasswordLevels, serverLevel : ServerLevels, clientSeed : {0, TheClientSeed}, told : BOOLEAN]
    BY <2>1, Zenon
  <2> QED
    BY <1>1, <2>2 DEF SignonInit, SignonTypes, Nothing
<1>3. Agreed /\ RequestOnItsWay /\ ReplyOnItsWay
  BY <1>1 DEF SignonInit, Agreed, RequestOnItsWay, ReplyOnItsWay
<1>4. InfoSaid /\ RefusalSaid /\ Understood
  BY <1>1 DEF SignonInit, InfoSaid, RefusalSaid, Understood, Nothing, Undecided
<1>5. IncorrectSaid
  BY <1>1 DEF SignonInit, IncorrectSaid, Undecided, PasswordIncorrect
<1> QED
  BY <1>2, <1>3, <1>4, <1>5 DEF SignonInv

\* What does not change as long as what it speaks of does not.
LEMMA SignonSame ==
  /\ UNCHANGED attrs => \A p : SignonRequest(p)' = SignonRequest(p)
  /\ UNCHANGED server => \A b : AttributesTell(b) => AttributesTell(b)'
  /\ UNCHANGED <<verdict, given>> => \A b : InfoTells(b) => InfoTells(b)'
  /\ UNCHANGED <<verdict, given, result>> /\ InfoSaid => InfoSaid'
  /\ UNCHANGED <<verdict, result>> /\ RefusalSaid => RefusalSaid'
  /\ UNCHANGED <<verdict, server, given>> /\ IncorrectSaid => IncorrectSaid'
  /\ UNCHANGED verdict /\ Understood => Understood'
<1>1. UNCHANGED attrs => \A p : SignonRequest(p)' = SignonRequest(p)
  BY DEF SignonRequest
<1>2. UNCHANGED server => \A b : AttributesTell(b) => AttributesTell(b)'
  BY Zenon DEF AttributesTell
<1>3. UNCHANGED <<verdict, given>> => \A b : InfoTells(b) => InfoTells(b)'
  BY Zenon DEF InfoTells
<1>4. UNCHANGED <<verdict, given, result>> /\ InfoSaid => InfoSaid'
  BY Zenon DEF InfoSaid, Holds
<1>5. UNCHANGED <<verdict, result>> /\ RefusalSaid => RefusalSaid'
  BY DEF RefusalSaid
<1>6. UNCHANGED <<verdict, server, given>> /\ IncorrectSaid => IncorrectSaid'
  BY DEF IncorrectSaid
<1>7. UNCHANGED verdict /\ Understood => Understood'
  BY DEF Understood
<1> QED
  BY <1>1, <1>2, <1>3, <1>4, <1>5, <1>6, <1>7

LEMMA SignonStutters ==
  ASSUME SignonInv, UNCHANGED signonVars
  PROVE  SignonInv'
<1>1. UNCHANGED <<stage, server, attrs, given, sent, back, verdict, result, tries>>
  BY DEF signonVars
<1>2. SignonTypes' /\ Agreed'
  BY <1>1 DEF SignonInv, SignonTypes, Agreed
<1>3. RequestOnItsWay'
  BY <1>1, SignonSame DEF SignonInv, RequestOnItsWay
<1>4. ReplyOnItsWay'
  BY <1>1, SignonSame DEF SignonInv, ReplyOnItsWay
<1>5. InfoSaid' /\ RefusalSaid' /\ IncorrectSaid' /\ Understood'
  BY <1>1, SignonSame DEF SignonInv
<1> QED
  BY <1>2, <1>3, <1>4, <1>5 DEF SignonInv

LEMMA ConnectKeeps ==
  ASSUME SignonInv, SignonConnect
  PROVE  SignonInv'
<1>1. /\ stage = "new" /\ stage' \in {"exchanging", "closed"}
      /\ UNCHANGED <<server, attrs, given, back, verdict, result>>
      /\ stage' = "exchanging" => sent' = <<SeedsRequest>>
      /\ stage' = "closed" => sent' = sent
  BY DEF SignonConnect, SeedsRequest
<1>2. SignonTypes' /\ Agreed'
  BY <1>1 DEF SignonInv, SignonTypes, Agreed
<1>3. back = << >> /\ sent = << >>
  BY <1>1 DEF SignonInv, RequestOnItsWay, ReplyOnItsWay
<1>4. RequestOnItsWay' /\ ReplyOnItsWay'
  BY <1>1, <1>3 DEF RequestOnItsWay, ReplyOnItsWay
<1>5. InfoSaid' /\ RefusalSaid' /\ IncorrectSaid' /\ Understood'
  BY <1>1, SignonSame DEF SignonInv
<1> QED
  BY <1>2, <1>4, <1>5 DEF SignonInv

LEMMA AttributesKeep ==
  ASSUME SignonInv, ReadAttributes
  PROVE  SignonInv'
<1> DEFINE body == Head(back)
           r == DecodeParams(SubSeq(body, 4, Len(body)))
           read == [seeds |-> <<TheClientSeed, Field(r.params, ServerSeed, 0)>>,
                    level |-> Field(r.params, PasswordLevel, 0),
                    serverLevel |-> body[3],
                    job |-> Field(r.params, JobName, 1)]
<1>1. /\ stage = "exchanging" /\ back # << >> /\ back' = << >>
      /\ UNCHANGED <<server, given, sent, verdict, result>>
      /\ IF Len(body) < 3 \/ body[1] # 0 \/ ~r.ok
         THEN stage' = "closed" /\ UNCHANGED attrs
         ELSE stage' = "ready" /\ attrs' = read
  BY DEF ReadAttributes
<1>2. SignonTypes /\ sent = << >> /\ AttributesTell(body)
  BY <1>1 DEF SignonInv, ReplyOnItsWay
<1> HIDE DEF body
<1>3. SignonTypes' /\ RequestOnItsWay' /\ ReplyOnItsWay'
  BY <1>1, <1>2 DEF SignonTypes, RequestOnItsWay, ReplyOnItsWay
<1>4. InfoSaid' /\ RefusalSaid' /\ IncorrectSaid' /\ Understood'
  BY <1>1, SignonSame DEF SignonInv
<1>5. Agreed'
  <2>1. CASE Len(body) < 3 \/ body[1] # 0 \/ ~r.ok
    BY <1>1, <2>1 DEF Agreed
  <2>2. CASE ~(Len(body) < 3 \/ body[1] # 0 \/ ~r.ok)
    <3> DEFINE lvl == server.level
               slvl == server.serverLevel
    <3>1. lvl \in Nat /\ slvl \in Nat
      <4>1. lvl \in PasswordLevels /\ slvl \in ServerLevels
        BY <1>2 DEF SignonTypes
      <4> QED
        BY <4>1, SignonAssumption
    <3>2. stage' = "ready" /\ attrs' = read
      BY <1>1, <2>2
    <3>3. /\ read.seeds = <<TheClientSeed, Field(r.params, ServerSeed, 0)>> /\ read.serverLevel = body[3]
          /\ read.level = Field(r.params, PasswordLevel, 0)
      OBVIOUS
    <3>4. ASSUME ~server.told /\ \E n \in 0 .. 1 : body = SubSeq(<<OtherRefusal>>, 1, n)
          PROVE  FALSE
      <4>1. PICK n \in 0 .. 1 : body = SubSeq(<<OtherRefusal>>, 1, n)
        BY <3>4
      <4>2. Len(body) = n
        BY <4>1
      <4> QED
        BY <2>2, <4>2
    <3>5. ASSUME NEW ps \in SomeAttributes(lvl), NEW n \in 0 .. Len(AttributesBody(lvl, slvl, ps)),
                 body = SubSeq(AttributesBody(lvl, slvl, ps), 1, n),
                 server.told <=> n = Len(AttributesBody(lvl, slvl, ps))
          PROVE  /\ read.serverLevel = slvl
                 /\ server.told => read.seeds = <<TheClientSeed, TheServerSeed>> /\ read.level = lvl
      <4> HIDE DEF lvl, slvl
      <4>1. /\ Len(body) = n
            /\ n >= 3 => body[3] = slvl
            /\ n = Len(AttributesBody(lvl, slvl, ps)) =>
                  Field(r.params, ServerSeed, 0) = TheServerSeed /\ Field(r.params, PasswordLevel, 0) = lvl
        BY <3>1, <3>5, AttributesRead
      <4> HIDE DEF r
      <4>2. n >= 3
        BY <2>2, <4>1
      <4> QED
        BY <3>3, <3>5, <4>1, <4>2
    <3>6. server.clientSeed = TheClientSeed
      BY <1>2 DEF AttributesTell
    <3> HIDE DEF read
    <3>7. read.serverLevel = slvl /\ (server.told => read.seeds = <<TheClientSeed, TheServerSeed>> /\ read.level = lvl)
      <4>1. \/ \E ps \in SomeAttributes(lvl) : \E n \in 0 .. Len(AttributesBody(lvl, slvl, ps)) :
                  /\ body = SubSeq(AttributesBody(lvl, slvl, ps), 1, n)
                  /\ server.told <=> n = Len(AttributesBody(lvl, slvl, ps))
            \/ ~server.told /\ \E n \in 0 .. 1 : body = SubSeq(<<OtherRefusal>>, 1, n)
        BY <1>2, Zenon DEF AttributesTell
      <4> HIDE DEF lvl, slvl
      <4> QED
        BY <3>4, <3>5, <4>1, Zenon
    <3> QED
      BY <1>1, <3>2, <3>6, <3>7 DEF Agreed
  <2> QED
    BY <2>1, <2>2
<1> QED
  BY <1>3, <1>4, <1>5 DEF SignonInv

LEMMA AuthenticateKeeps ==
  ASSUME SignonInv, Authenticate
  PROVE  SignonInv'
<1>1. PICK password \in {"right", "wrong"} :
        /\ given' = password
        /\ \/ stage' = "calling" /\ sent' = <<SignonRequest(password)>> /\ result' = Nothing
           \/ result' = [got |-> "error"] /\ UNCHANGED <<stage, sent>>
  BY DEF Authenticate
<1>2. stage = "ready" /\ verdict' = Undecided /\ UNCHANGED <<server, attrs, back>>
  BY DEF Authenticate
<1>3. back = << >> /\ sent = << >>
  BY <1>2 DEF SignonInv, RequestOnItsWay, ReplyOnItsWay
<1>4. SignonTypes'
  BY <1>1, <1>2 DEF SignonInv, SignonTypes, Nothing
<1>5. Agreed'
  BY <1>1, <1>2 DEF SignonInv, Agreed
<1>6. SignonRequest(password)' = SignonRequest(password)
  BY <1>2, SignonSame
<1>7. stage' = "calling" => sent' = <<SignonRequest(given)>>'
  <2>1. stage' = "calling" => sent' = <<SignonRequest(password)>>
    BY <1>1, <1>2
  <2> QED
    BY <1>1, <1>2, <2>1 DEF SignonRequest
<1>8. RequestOnItsWay'
  BY <1>1, <1>2, <1>3, <1>7 DEF RequestOnItsWay
<1>9. ReplyOnItsWay'
  BY <1>2, <1>3 DEF ReplyOnItsWay
<1>10. InfoSaid' /\ RefusalSaid'
  BY <1>1 DEF InfoSaid, RefusalSaid, Nothing
<1>11. IncorrectSaid' /\ Understood'
  BY <1>2 DEF IncorrectSaid, Understood, Undecided, PasswordIncorrect
<1> QED
  BY <1>4, <1>5, <1>8, <1>9, <1>10, <1>11 DEF SignonInv

\* What the server said.
ToldBy(read) ==
  /\ read.got \in {"error", "refused", "info"}
  /\ read.got = "refused" => verdict.did = "refused" /\ read.rc = verdict.rc
  /\ read.got = "info" => /\ verdict.did = "accepted" /\ given = "right"
                          /\ Holds(read.info.user, UserID) /\ Holds(read.info.date, CurrentDate)

\* What the Client makes of the reply to its request is just that.
LEMMA InfoIsTold ==
  ASSUME NEW body, InfoTells(body)
  PROVE  ToldBy(InfoFrom(body))
<1> DEFINE read == InfoFrom(body)
<1>1. CASE /\ verdict.did = "refused" /\ verdict.rc \in {PasswordIncorrect, OtherRefusal}
           /\ \E n \in 0 .. 1 : body = SubSeq(<<verdict.rc>>, 1, n)
  <2>1. verdict.rc \in Nat /\ verdict.rc # 0
    BY <1>1 DEF PasswordIncorrect, OtherRefusal
  <2>2. PICK n \in 0 .. 1 : body = SubSeq(<<verdict.rc>>, 1, n)
    BY <1>1
  <2>3. body = << >> \/ (body # << >> /\ body[1] = verdict.rc)
    BY <2>1, <2>2
  <2>4. CASE body = << >>
    <3>1. read = [got |-> "error"]
      BY <2>4 DEF InfoFrom
    <3> QED
      BY <3>1 DEF ToldBy
  <2>5. CASE body # << >> /\ body[1] = verdict.rc
    <3>1. read = [got |-> "refused", rc |-> verdict.rc]
      BY <2>1, <2>5 DEF InfoFrom
    <3> QED
      BY <1>1, <3>1 DEF ToldBy
  <2> QED
    BY <2>3, <2>4, <2>5
<1>2. CASE /\ verdict.did = "accepted" /\ given = "right" /\ verdict.said \in SomeInfo
           /\ \E n \in 0 .. Len(InfoBody(verdict.said)) :
                /\ body = SubSeq(InfoBody(verdict.said), 1, n)
                /\ verdict.whole <=> n = Len(InfoBody(verdict.said))
  <2> DEFINE ps == verdict.said
  <2>1. PICK n \in 0 .. Len(InfoBody(ps)) :
          body = SubSeq(InfoBody(ps), 1, n) /\ (verdict.whole <=> n = Len(InfoBody(ps)))
    BY <1>2
  <2>2. ps \in SomeInfo
    BY <1>2
  <2>3. /\ ps \in Seq(ParamsOf(Nat)) /\ Distinct(ps)
        /\ \A i \in 1 .. Len(ps) : /\ ps[i].cp = UserID => Len(ps[i].data) = 2
                                   /\ ps[i].cp = CurrentDate => Len(ps[i].data) = 1
    BY <2>2, InfoOf
  <2>4. CASE read.got = "error"
    BY <2>4 DEF ToldBy
  <2>5. CASE read.got # "error"
    <3> HIDE DEF ps
    <3>1. /\ read.got = "info"
          /\ \E qs \in Seq(ParamsOf(Nat)) : \E k \in 0 .. Len(ps) :
                /\ Part(qs, ps, 0, k) /\ read.info = InfoFields(qs)
                /\ n = Len(InfoBody(ps)) => k = Len(ps)
      BY <2>1, <2>2, <2>5, InfoRead
    <3> HIDE DEF read
    <3>2. PICK qs \in Seq(ParamsOf(Nat)) : \E k \in 0 .. Len(ps) :
                /\ Part(qs, ps, 0, k) /\ read.info = InfoFields(qs)
                /\ n = Len(InfoBody(ps)) => k = Len(ps)
      BY <3>1
    <3>3. PICK k \in 0 .. Len(ps) :
                /\ Part(qs, ps, 0, k) /\ read.info = InfoFields(qs)
                /\ n = Len(InfoBody(ps)) => k = Len(ps)
      BY <3>2
    <3>4. read.info.user = Field(qs, UserID, 1) /\ read.info.date = Field(qs, CurrentDate, 0)
      BY <3>3 DEF InfoFields
    <3>5. verdict.whole => k = Len(ps)
      BY <2>1, <3>3
    <3> DEFINE Ps == ParamsOf(Nat)
    <3>6. ps \in Seq(Ps) /\ qs \in Seq(Ps) /\ Distinct(ps) /\ k \in 0 .. Len(ps) /\ Part(qs, ps, 0, k)
      BY <2>3, <3>3
    <3> HIDE DEF Ps
    <3>7. Field(qs, UserID, 1) = SentField(ps, UserID) \/ (k # Len(ps) /\ Field(qs, UserID, 1) = 0)
      <4>1. FieldBehind(ps, UserID, 1)
        BY <2>3 DEF FieldBehind
      <4> QED
        BY <3>6, <4>1, FieldHolds
    <3>8. Field(qs, CurrentDate, 0) = SentField(ps, CurrentDate) \/ (k # Len(ps) /\ Field(qs, CurrentDate, 0) = 0)
      <4>1. FieldBehind(ps, CurrentDate, 0)
        BY <2>3 DEF FieldBehind
      <4> QED
        BY <3>6, <4>1, FieldHolds
    <3>9. Holds(read.info.user, UserID) /\ Holds(read.info.date, CurrentDate)
      BY <3>4, <3>5, <3>7, <3>8, Zenon DEF Holds, ps
    <3> QED
      BY <1>2, <3>1, <3>9 DEF read, ToldBy
  <2> QED
    BY <2>4, <2>5
<1> QED
  BY <1>1, <1>2 DEF InfoTells

LEMMA InfoKeeps ==
  ASSUME SignonInv, ReadInfo
  PROVE  SignonInv'
<1>1. /\ stage = "calling" /\ back # << >> /\ stage' = "ready" /\ back' = << >>
      /\ result' = InfoFrom(Head(back))
      /\ UNCHANGED <<server, attrs, given, sent, verdict>>
  BY DEF ReadInfo
<1>2. sent = << >> /\ InfoTells(Head(back))
  BY <1>1 DEF SignonInv, ReplyOnItsWay
<1>3. ToldBy(result')
  BY <1>1, <1>2, InfoIsTold
<1>4. SignonTypes' /\ Agreed'
  BY <1>1 DEF SignonInv, SignonTypes, Agreed
<1>5. RequestOnItsWay' /\ ReplyOnItsWay'
  BY <1>1, <1>2 DEF RequestOnItsWay, ReplyOnItsWay
<1>6. InfoSaid'
  <2>1. \A v, cp : Holds(v, cp) => Holds(v, cp)'
    BY <1>1, Zenon DEF Holds
  <2>2. result'.got = "info" => /\ verdict.did = "accepted" /\ given = "right"
                                /\ Holds(result'.info.user, UserID) /\ Holds(result'.info.date, CurrentDate)
    BY <1>3 DEF ToldBy
  <2>3. result'.got = "info" => Holds(result.info.user, UserID)' /\ Holds(result.info.date, CurrentDate)'
    BY <1>1, <2>2, Zenon DEF Holds
  <2> QED
    BY <1>1, <2>2, <2>3 DEF InfoSaid
<1>7. RefusalSaid'
  BY <1>1, <1>3 DEF RefusalSaid, ToldBy
<1>8. IncorrectSaid' /\ Understood'
  BY <1>1, SignonSame DEF SignonInv
<1> QED
  BY <1>4, <1>5, <1>6, <1>7, <1>8 DEF SignonInv

LEMMA FailsKeeps ==
  ASSUME SignonInv, SignonFails
  PROVE  SignonInv'
<1>1. /\ stage \in {"exchanging", "calling"} /\ stage' \in {"closed", "lost"}
      /\ result' = [got |-> "error"] \/ result' = result
      /\ UNCHANGED <<server, attrs, given, sent, back, verdict>>
  BY DEF SignonFails
<1>2. SignonTypes' /\ Agreed'
  BY <1>1 DEF SignonInv, SignonTypes, Agreed
<1>3. RequestOnItsWay' /\ ReplyOnItsWay'
  BY <1>1 DEF SignonInv, RequestOnItsWay, ReplyOnItsWay
<1>4. InfoSaid' /\ RefusalSaid'
  <2>1. result'.got \notin {"info", "refused"}
    BY <1>1 DEF SignonInv, SignonTypes
  <2> QED
    BY <2>1 DEF InfoSaid, RefusalSaid
<1>5. IncorrectSaid' /\ Understood'
  BY <1>1, SignonSame DEF SignonInv
<1> QED
  BY <1>2, <1>3, <1>4, <1>5 DEF SignonInv

LEMMA CloseKeeps ==
  ASSUME SignonInv, SignonClose
  PROVE  SignonInv'
<1>1. /\ stage \in {"ready", "lost"} /\ stage' = "closed"
      /\ UNCHANGED <<server, attrs, given, sent, back, verdict, result>>
  BY DEF SignonClose
<1>2. SignonTypes' /\ Agreed'
  BY <1>1 DEF SignonInv, SignonTypes, Agreed
<1>3. RequestOnItsWay' /\ ReplyOnItsWay'
  BY <1>1 DEF SignonInv, RequestOnItsWay, ReplyOnItsWay
<1>4. InfoSaid' /\ RefusalSaid' /\ IncorrectSaid' /\ Understood'
  BY <1>1, SignonSame DEF SignonInv
<1> QED
  BY <1>2, <1>3, <1>4 DEF SignonInv

\* The server takes the client's seed from the request.
LEMMA SeedRead ==
  Field(DecodeParams(SeedsRequest).params, ServerSeed, 0) = TheClientSeed
<1> DEFINE p == Param(ServerSeed, <<TheClientSeed>>)
           ps == <<p>>
           Ps == ParamsOf(Nat)
<1>1. p \in Ps /\ p.cp = ServerSeed /\ p.data = <<TheClientSeed>>
  <2>1. ServerSeed \in Nat /\ TheClientSeed \in Nat
    BY DEF ServerSeed, TheClientSeed
  <2> QED
    BY <2>1, ParamOfOne
<1> HIDE DEF p
<1>2. ps \in Seq(Ps) /\ Len(ps) = 1 /\ ps[1] = p
  BY <1>1
<1>3. DecodeParams(SeedsRequest).params = ps
  <2>1. SeedsRequest = EncodeParams(ps)
    BY DEF SeedsRequest, p
  <2>2. ps \in Seq(ParamsOf(Nat)) /\ Nat \subseteq Nat
    BY <1>2
  <2> QED
    BY <2>1, <2>2, WholeDecoded
<1> HIDE DEF ps, Ps
<1>4. Find(ps, ServerSeed) = <<TheClientSeed>>
  <2>1. Distinct(ps)
    BY <1>2 DEF Distinct
  <2>2. Part(ps, ps, 0, 1) /\ 1 \in 0 .. Len(ps)
    BY <1>2 DEF Part
  <2>3. \A i \in 1 .. 1 : ps[i].cp = ServerSeed => Find(ps, ServerSeed) = ps[i].data
    BY <1>2, <2>1, <2>2, FoundPart
  <2> QED
    BY <1>1, <1>2, <2>3
<1> QED
  BY <1>3, <1>4 DEF Field

LEMMA GiveKeeps ==
  ASSUME SignonInv, GiveAttributes
  PROVE  SignonInv'
<1> DEFINE lvl == server.level
           slvl == server.serverLevel
<1>1. /\ stage = "exchanging" /\ sent # << >> /\ sent' = << >>
      /\ UNCHANGED <<stage, attrs, given, result>>
  BY DEF GiveAttributes
<1>2. \E ps \in SomeAttributes(lvl) :
         \/ Replies("attributes", 0, AttributesBody(lvl, slvl, ps), ps)
         \/ Replies("refused", OtherRefusal, <<OtherRefusal>>, << >>)
  BY Zenon DEF GiveAttributes, SomeAttributes, AttributesBody
<1>3. server' = [server EXCEPT !.clientSeed = TheClientSeed,
                               !.told = verdict'.whole /\ verdict'.did = "attributes"]
  <2>1. Head(sent) = SeedsRequest
    BY <1>1 DEF SignonInv, RequestOnItsWay
  <2> QED
    BY <2>1, SeedRead, Zenon DEF GiveAttributes
<1>4. SignonTypes
  BY DEF SignonInv
<1>5. /\ server'.level = lvl /\ server'.serverLevel = slvl /\ server'.clientSeed = TheClientSeed
      /\ server'.told = (verdict'.whole /\ verdict'.did = "attributes")
  BY <1>3, <1>4 DEF SignonTypes
<1>6. server' \in [level : PasswordLevels, serverLevel : ServerLevels, clientSeed : {0, TheClientSeed}, told : BOOLEAN]
  BY <1>3, <1>4 DEF SignonTypes
<1> HIDE DEF lvl, slvl
<1>7. SignonTypes' /\ Agreed' /\ RequestOnItsWay'
  BY <1>1, <1>4, <1>6 DEF SignonTypes, Agreed, RequestOnItsWay
<1>8. AttributesTell(Head(back))' /\ verdict'.rc \in {0, OtherRefusal} /\ verdict'.did \in {"attributes", "refused"}
  <2>1. PICK ps \in SomeAttributes(lvl) :
         \/ Replies("attributes", 0, AttributesBody(lvl, slvl, ps), ps)
         \/ Replies("refused", OtherRefusal, <<OtherRefusal>>, << >>)
    BY <1>2
  <2>2. CASE Replies("attributes", 0, AttributesBody(lvl, slvl, ps), ps)
    <3>1. PICK n \in 0 .. Len(AttributesBody(lvl, slvl, ps)) :
            /\ back' = <<SubSeq(AttributesBody(lvl, slvl, ps), 1, n)>>
            /\ verdict' = [did |-> "attributes", rc |-> 0, said |-> ps, whole |-> n = Len(AttributesBody(lvl, slvl, ps))]
      BY <2>2 DEF Replies
    <3>2. verdict'.did = "attributes" /\ verdict'.rc = 0
      BY <3>1
    <3>3. verdict'.whole = (n = Len(AttributesBody(lvl, slvl, ps)))
      BY <3>1, Zenon
    <3>4. server'.told <=> n = Len(AttributesBody(lvl, slvl, ps))
      BY <1>5, <3>2, <3>3, Zenon
    <3>5. Head(back') = SubSeq(AttributesBody(lvl, slvl, ps), 1, n)
      BY <3>1
    <3>6. AttributesTell(Head(back))'
      BY <1>5, <3>4, <3>5, Zenon DEF AttributesTell
    <3> QED
      BY <3>2, <3>6
  <2>3. CASE Replies("refused", OtherRefusal, <<OtherRefusal>>, << >>)
    <3>1. PICK n \in 0 .. Len(<<OtherRefusal>>) :
            /\ back' = <<SubSeq(<<OtherRefusal>>, 1, n)>>
            /\ verdict' = [did |-> "refused", rc |-> OtherRefusal, said |-> << >>, whole |-> n = Len(<<OtherRefusal>>)]
      BY <2>3 DEF Replies
    <3>2. verdict'.did = "refused" /\ verdict'.rc = OtherRefusal
      BY <3>1
    <3>3. ~server'.told
      BY <1>5, <3>2
    <3>4. Head(back') = SubSeq(<<OtherRefusal>>, 1, n) /\ n \in 0 .. 1
      BY <3>1
    <3>5. AttributesTell(Head(back))'
      BY <1>5, <3>3, <3>4, Zenon DEF AttributesTell
    <3> QED
      BY <3>2, <3>5
  <2> QED
    BY <2>1, <2>2, <2>3
<1>9. ReplyOnItsWay'
  BY <1>1, <1>8 DEF ReplyOnItsWay
<1>10. InfoSaid' /\ RefusalSaid'
  BY <1>1, <1>4 DEF SignonTypes, InfoSaid, RefusalSaid
<1>11. IncorrectSaid' /\ Understood'
  BY <1>8 DEF IncorrectSaid, Understood, PasswordIncorrect, OtherRefusal
<1> QED
  BY <1>7, <1>9, <1>10, <1>11 DEF SignonInv

\* Client and server take the same scheme for the same level.
LEMMA SameScheme ==
  ASSUME NEW lvl \in Nat
  PROVE  Scheme(lvl) = SchemeOf(lvl)
BY DEF Scheme, SchemeOf

LEMMA DecideKeeps ==
  ASSUME SignonInv, Decide
  PROVE  SignonInv'
<1> DEFINE body == Head(sent)
           r == DecodeParams(Tail(body))
           scheme == SchemeOf(server.level)
           sub == Substitute(Scheme(attrs.level), given, attrs.seeds)
           right == /\ body[1] = AuthType(scheme)
                    /\ Find(r.params, AuthData) = <<Substitute(scheme, "right", <<server.clientSeed, TheServerSeed>>)>>
<1>1. /\ stage = "calling" /\ sent # << >> /\ sent' = << >>
      /\ UNCHANGED <<stage, server, attrs, given, result>>
  BY DEF Decide
<1>2. SignonTypes /\ Agreed /\ body = SignonRequest(given)
  BY <1>1 DEF SignonInv, RequestOnItsWay
<1>3. server.level \in Nat /\ server.serverLevel \in Nat /\ attrs.serverLevel = server.serverLevel
  <2>1. server.level \in PasswordLevels /\ server.serverLevel \in ServerLevels
    BY <1>2 DEF SignonTypes
  <2> QED
    BY <1>1, <1>2, <2>1, SignonAssumption DEF Agreed
<1>4. body = <<AuthType(Scheme(attrs.level))>> \o EncodeParams(AuthParams(sub, server.serverLevel))
  BY <1>2, <1>3 DEF SignonRequest, AuthParams
<1>5. IF ~r.ok \/ ~Known(r.params)
      THEN Replies("protocolError", OtherRefusal, <<OtherRefusal>>, << >>)
      ELSE \/ right /\ \E ps \in SomeInfo : Replies("accepted", 0, InfoBody(ps), ps)
           \/ ~right /\ Replies("refused", PasswordIncorrect, <<PasswordIncorrect>>, << >>)
           \/ Replies("refused", OtherRefusal, <<OtherRefusal>>, << >>)
  BY Zenon DEF Decide, SomeInfo, InfoBody
<1> HIDE DEF body, sub, scheme
<1>6. /\ body[1] = AuthType(Scheme(attrs.level)) /\ r.ok /\ Find(r.params, AuthData) = <<sub>>
      /\ Known(r.params)
  <2>1. /\ body[1] = AuthType(Scheme(attrs.level)) /\ r.ok /\ Find(r.params, AuthData) = <<sub>>
        /\ {r.params[i].cp : i \in DOMAIN r.params} \subseteq
              {ClientCCSID, AuthData, UserID} \union IF server.serverLevel >= 5 THEN {ReturnMessages} ELSE {}
    <3> DEFINE a == AuthType(Scheme(attrs.level))
               slvl == server.serverLevel
    <3>1. slvl \in Nat /\ body = <<a>> \o EncodeParams(AuthParams(sub, slvl))
      BY <1>3, <1>4
    <3> HIDE DEF a, slvl
    <3>2. Request(body, a, sub, slvl)
      BY <3>1, AuthParamsRead
    <3> QED
      BY <3>2 DEF a, slvl, Request
  <2> HIDE DEF r
  <2> QED
    BY <2>1 DEF Known
<1> HIDE DEF r
<1>7. right => given = "right"
  <2>1. right => sub = Substitute(scheme, "right", <<server.clientSeed, TheServerSeed>>)
    BY <1>6
  <2>2. sub.password = given
    BY DEF sub, Substitute
  <2>3. Substitute(scheme, "right", <<server.clientSeed, TheServerSeed>>).password = "right"
    BY DEF Substitute
  <2> QED
    BY <2>1, <2>2, <2>3
<1>8. given = "right" /\ server.told => right
  <2> SUFFICES ASSUME given = "right", server.told PROVE right
    OBVIOUS
  <2>1. attrs.seeds = <<server.clientSeed, TheServerSeed>> /\ attrs.level = server.level
    BY <1>1, <1>2 DEF Agreed
  <2>2. Scheme(attrs.level) = scheme
    BY <1>3, <2>1, SameScheme DEF scheme
  <2> QED
    BY <1>6, <2>1, <2>2 DEF sub
<1>9. given \in {"right", "wrong"}
  BY <1>1, <1>2 DEF SignonTypes
<1> HIDE DEF right
<1>10. /\ InfoTells(Head(back))' /\ verdict'.did \in {"accepted", "refused"}
       /\ verdict'.rc = PasswordIncorrect /\ server.told => given = "wrong"
  <2>1. \/ right /\ \E ps \in SomeInfo : Replies("accepted", 0, InfoBody(ps), ps)
        \/ \E rc \in {PasswordIncorrect, OtherRefusal} :
              Replies("refused", rc, <<rc>>, << >>) /\ (rc = PasswordIncorrect => ~right)
    BY <1>5, <1>6 DEF PasswordIncorrect, OtherRefusal
  <2>2. ASSUME right, NEW ps \in SomeInfo, Replies("accepted", 0, InfoBody(ps), ps)
        PROVE  /\ InfoTells(Head(back))' /\ verdict'.did = "accepted" /\ verdict'.rc = 0
    <3>1. PICK n \in 0 .. Len(InfoBody(ps)) :
            /\ back' = <<SubSeq(InfoBody(ps), 1, n)>>
            /\ verdict' = [did |-> "accepted", rc |-> 0, said |-> ps, whole |-> n = Len(InfoBody(ps))]
      BY <2>2 DEF Replies
    <3>2. verdict'.did = "accepted" /\ verdict'.rc = 0 /\ verdict'.said = ps
      BY <3>1
    <3>3. verdict'.whole = (n = Len(InfoBody(ps)))
      BY <3>1, Zenon
    <3>4. Head(back') = SubSeq(InfoBody(ps), 1, n) /\ given' = "right"
      BY <1>1, <1>7, <2>2, <3>1
    <3>5. InfoTells(Head(back))'
      BY <3>2, <3>3, <3>4, Zenon DEF InfoTells
    <3> QED
      BY <3>2, <3>5
  <2>3. ASSUME NEW rc \in {PasswordIncorrect, OtherRefusal}, Replies("refused", rc, <<rc>>, << >>)
        PROVE  InfoTells(Head(back))' /\ verdict'.did = "refused" /\ verdict'.rc = rc
    <3>1. PICK n \in 0 .. Len(<<rc>>) :
            /\ back' = <<SubSeq(<<rc>>, 1, n)>>
            /\ verdict' = [did |-> "refused", rc |-> rc, said |-> << >>, whole |-> n = Len(<<rc>>)]
      BY <2>3 DEF Replies
    <3>2. verdict'.did = "refused" /\ verdict'.rc = rc
      BY <3>1
    <3>3. Head(back') = SubSeq(<<rc>>, 1, n) /\ n \in 0 .. 1
      BY <3>1
    <3>4. InfoTells(Head(back))'
      BY <3>2, <3>3, Zenon DEF InfoTells
    <3> QED
      BY <3>2, <3>4
  <2>4. CASE right /\ \E ps \in SomeInfo : Replies("accepted", 0, InfoBody(ps), ps)
    <3>1. InfoTells(Head(back))' /\ verdict'.did = "accepted" /\ verdict'.rc = 0
      BY <2>2, <2>4
    <3> QED
      BY <3>1 DEF PasswordIncorrect
  <2>5. CASE \E rc \in {PasswordIncorrect, OtherRefusal} :
               Replies("refused", rc, <<rc>>, << >>) /\ (rc = PasswordIncorrect => ~right)
    <3>1. PICK rc \in {PasswordIncorrect, OtherRefusal} :
            Replies("refused", rc, <<rc>>, << >>) /\ (rc = PasswordIncorrect => ~right)
      BY <2>5
    <3>2. InfoTells(Head(back))' /\ verdict'.did = "refused" /\ verdict'.rc = rc
      BY <2>3, <3>1
    <3> QED
      BY <1>8, <1>9, <3>1, <3>2
  <2> QED
    BY <2>1, <2>4, <2>5
<1>11. SignonTypes' /\ Agreed' /\ RequestOnItsWay'
  BY <1>1, <1>2 DEF SignonTypes, Agreed, RequestOnItsWay
<1>12. ReplyOnItsWay'
  BY <1>1, <1>10 DEF ReplyOnItsWay
<1>13. InfoSaid' /\ RefusalSaid'
  BY <1>1, <1>2 DEF SignonTypes, InfoSaid, RefusalSaid
<1>14. IncorrectSaid' /\ Understood'
  BY <1>1, <1>10 DEF IncorrectSaid, Understood
<1> QED
  BY <1>11, <1>12, <1>13, <1>14 DEF SignonInv

\* Each step of the program keeps the invariant of a sign-on.
LEMMA SignonKept ==
  ASSUME SignonInv, [Next]_vars
  PROVE  SignonInv'
<1>1. CASE client = "signon" /\ SignonNext
  <2>1. CASE SignonConnect
    BY <2>1, ConnectKeeps
  <2>2. CASE ReadAttributes
    BY <2>2, AttributesKeep
  <2>3. CASE Authenticate
    BY <2>3, AuthenticateKeeps
  <2>4. CASE ReadInfo
    BY <2>4, InfoKeeps
  <2>5. CASE SignonFails
    BY <2>5, FailsKeeps
  <2>6. CASE SignonClose
    BY <2>6, CloseKeeps
  <2>7. CASE GiveAttributes
    BY <2>7, GiveKeeps
  <2>8. CASE Decide
    BY <2>8, DecideKeeps
  <2> QED
    BY <1>1, <2>1, <2>2, <2>3, <2>4, <2>5, <2>6, <2>7, <2>8 DEF SignonNext
<1>2. CASE UNCHANGED signonVars
  BY <1>2, SignonStutters
<1> QED
  BY <1>1, <1>2, Zenon DEF Next, vars

\* Theorem: SignonInv holds in every state.  A request on its way is the one
\* that belongs to the Client's stage, a reply on its way is the beginning of
\* what the server decided on, and a Client that has read attributes agrees
\* with the server on its level and, if all of them arrived, on seeds and
\* password level (Client.Connect and Client.Authenticate).
THEOREM SignonInvCorrect == Spec => []SignonInv
<1>1. Init => SignonInv
  BY SignonStarts
<1>2. SignonInv /\ [Next]_vars => SignonInv'
  BY SignonKept
<1> QED
  BY <1>1, <1>2, PTL DEF Spec

\* Theorem: for all password and server levels, in every state, a sign-on
\* has succeeded only if the server accepted the password of this attempt,
\* its SignonInfo holds what the server sent wherever in the reply, the right
\* password is never called incorrect by a server whose attributes arrived,
\* and no server gets a parameter beyond its level (parseSignonInfoReply,
\* buildSignonInfoRequest).
THEOREM SignonCorrect == Spec => []SignonTrue
<1>1. SignonInv => SignonTrue
  BY PartsOfSignonTrue DEF SignonInv
<1> QED
  BY <1>1, SignonInvCorrect, PTL


\* Sequences of c cells each, one behind the other.
Pieces(w, es, c) ==
  Len(w) = Len(es) * c /\ \A i \in 1 .. Len(es) : \A k \in 1 .. c : w[(i - 1) * c + k] = es[i][k]

LEMMA OneMore == \A m, c \in Nat : m * c \in Nat /\ (m + 1) * c = m * c + c
OBVIOUS

LEMMA EqualPieces ==
  ASSUME NEW S, NEW es \in Seq(Seq(S)), NEW c \in Nat, \A i \in 1 .. Len(es) : Len(es[i]) = c
  PROVE  FlattenSeq(es) \in Seq(S) /\ Pieces(FlattenSeq(es), es, c)
<1> DEFINE w == FlattenSeq(es)
           N == Len(es)
<1>1. w \in Seq(S) /\ \E at : Lie(w, es, at)
  BY Flattened
<1> HIDE DEF w
<1>2. PICK at : Lie(w, es, at)
  BY <1>1
<1>3. /\ N \in Nat /\ at[0] = 0 /\ at[N] = Len(w)
      /\ \A m \in 1 .. N : at[m] = at[m - 1] + c /\ \A k \in 1 .. c : w[at[m - 1] + k] = es[m][k]
  <2> DEFINE X == Seq(S)
  <2>1. es \in Seq(X)
    OBVIOUS
  <2> HIDE DEF X
  <2>2. N \in Nat
    BY <2>1
  <2> QED
    BY <1>2, <2>2 DEF Lie, LieUpTo
<1> HIDE DEF N
<1> DEFINE Good == {m \in 0 .. N : at[m] = m * c}
<1>4. 0 \in Good
  BY <1>3
<1>5. ASSUME NEW m \in 1 .. N, m - 1 \in Good PROVE m \in Good
  <2> DEFINE p == m - 1
  <2>1. p \in Nat /\ p + 1 = m /\ m \in 0 .. N
    BY <1>3
  <2>2. at[p] = p * c
    BY <1>5
  <2> HIDE DEF p
  <2>3. at[m] = p * c + c
    BY <1>3, <2>1, <2>2 DEF p
  <2>4. m * c = p * c + c
    BY <2>1, OneMore
  <2> QED
    BY <2>1, <2>3, <2>4
<1>6. \A m \in 0 .. N : at[m] = m * c
  <2> HIDE DEF Good
  <2>1. \A m \in 0 .. N : m \in Good
    BY <1>3, <1>4, <1>5, CountingUp
  <2> QED
    BY <2>1 DEF Good
<1>7. \A i \in 1 .. N : i - 1 \in 0 .. N
  BY <1>3
<1>8. Len(w) = N * c
  BY <1>3, <1>6
<1>9. \A i \in 1 .. N : \A k \in 1 .. c : w[(i - 1) * c + k] = es[i][k]
  BY <1>3, <1>6, <1>7
<1> QED
  BY <1>1, <1>8, <1>9 DEF Pieces, N, w

\* The cells of the descriptions in a format.
Describes(d, es, c) ==
  /\ Len(d) \in Nat /\ Len(es) \in Nat /\ d[2] = Len(es) /\ FormatHead + Len(es) * c <= Len(d)
  /\ \A i \in 1 .. Len(es) : \A k \in 1 .. c : d[FormatHead + (i - 1) * c + k] = es[i][k]

\* w behind a head of h cells.
BehindHead(d, head, w, h) ==
  /\ Len(d) = h + Len(w) /\ Len(w) \in Nat
  /\ \A i \in 1 .. h : d[i] = head[i]
  /\ \A i \in 1 .. Len(w) : d[h + i] = w[i]

LEMMA HeadJoined ==
  ASSUME NEW S, NEW head \in Seq(S), NEW w \in Seq(S), NEW h, Len(head) = h
  PROVE  head \o w \in Seq(S) /\ BehindHead(head \o w, head, w, h)
<1> DEFINE d == head \o w
<1>1. /\ d \in Seq(S) /\ Len(head) \in Nat /\ Len(w) \in Nat /\ Len(d) = Len(head) + Len(w)
      /\ \A i \in 1 .. Len(head) : d[i] = head[i]
      /\ \A i \in 1 .. Len(w) : d[Len(head) + i] = w[i]
  <2>1. head \in Seq(S) /\ w \in Seq(S)
    OBVIOUS
  <2> QED
    BY ONLY <2>1, Joined
<1> HIDE DEF d
<1>2. BehindHead(d, head, w, h)
  BY <1>1 DEF BehindHead
<1> QED
  BY <1>1, <1>2 DEF d

LEMMA FormatLaid ==
  ASSUME NEW es \in Seq(Seq(Nat)), NEW c \in Nat, \A i \in 1 .. Len(es) : Len(es[i]) = c,
         NEW head \in Seq(Nat), Len(head) = 3, head[2] = Len(es), NEW more \in Seq(Nat)
  PROVE  /\ head \o FlattenSeq(es) \in Seq(Nat) /\ Describes(head \o FlattenSeq(es), es, c)
         /\ Len(head \o FlattenSeq(es)) = 3 + Len(es) * c
         /\ (head \o FlattenSeq(es)) \o more \in Seq(Nat)
         /\ Describes((head \o FlattenSeq(es)) \o more, es, c)
<1> DEFINE N == Len(es)
           w == FlattenSeq(es)
           d == head \o w
           a == d \o more
           l == N * c
<1>1. w \in Seq(Nat) /\ Len(w) = l /\ \A i \in 1 .. N : \A k \in 1 .. c : w[(i - 1) * c + k] = es[i][k]
  <2>1. w \in Seq(Nat) /\ Pieces(w, es, c)
    BY EqualPieces
  <2> HIDE DEF w
  <2> QED
    BY <2>1, Zenon DEF Pieces
<1>2. N \in Nat
  <2> DEFINE X == Seq(Nat)
  <2>1. es \in Seq(X)
    OBVIOUS
  <2> HIDE DEF X
  <2> QED
    BY <2>1
<1> HIDE DEF w, N
<1>3. l \in Nat
  BY <1>2
<1>4. \A i \in 1 .. N : \A k \in 1 .. c : (i - 1) * c + k \in 1 .. l
  <2> SUFFICES ASSUME NEW i \in 1 .. N, NEW k \in 1 .. c PROVE (i - 1) * c + k \in 1 .. l
    OBVIOUS
  <2> DEFINE p == i - 1
             q == N - i
  <2>1. p \in Nat /\ p + 1 = i /\ q \in Nat /\ N = i + q
    BY <1>2
  <2> HIDE DEF p, q
  <2>2. p * c \in Nat /\ i * c = p * c + c
    BY <2>1, OneMore
  <2>3. l = i * c + q * c /\ q * c \in Nat
    BY <2>1, SMT DEF l
  <2> HIDE DEF l
  <2> DEFINE u == p * c
             v == q * c
  <2>4. u \in Nat /\ v \in Nat /\ l = u + c + v
    BY <2>2, <2>3
  <2> HIDE DEF u, v
  <2>5. u + k \in 1 .. l
    BY <1>3, <2>4
  <2> QED
    BY <2>5 DEF p, u
<1> HIDE DEF l
<1>5. /\ d \in Seq(Nat) /\ Len(d) = 3 + l /\ d[2] = N
      /\ \A i \in 1 .. l : d[3 + i] = w[i]
  <2>1. d \in Seq(Nat) /\ BehindHead(d, head, w, 3)
    BY <1>1, HeadJoined
  <2> HIDE DEF d
  <2> QED
    BY <1>1, <2>1 DEF N, BehindHead
<1> HIDE DEF d
<1>6. /\ a \in Seq(Nat) /\ Len(a) = 3 + l + Len(more) /\ Len(more) \in Nat
      /\ \A i \in 1 .. 3 + l : a[i] = d[i]
  <2>1. /\ a \in Seq(Nat) /\ Len(a) = Len(d) + Len(more) /\ Len(more) \in Nat
        /\ \A i \in 1 .. Len(d) : a[i] = d[i]
    <3>1. d \in Seq(Nat) /\ more \in Seq(Nat)
      BY <1>5
    <3> QED
      BY <3>1, Joined
  <2> QED
    BY <1>5, <2>1
<1> HIDE DEF a
<1>7. ASSUME NEW i \in 1 .. N, NEW k \in 1 .. c
      PROVE  LET j == FormatHead + (i - 1) * c + k IN d[j] = es[i][k] /\ a[j] = es[i][k]
  <2> DEFINE j == (i - 1) * c + k
             m == FormatHead + (i - 1) * c + k
  <2>1. j \in 1 .. l /\ w[j] = es[i][k]
    BY <1>1, <1>4
  <2>2. m = 3 + j
    <3> DEFINE p == (i - 1) * c
    <3>1. p \in Nat
      BY <1>2
    <3> HIDE DEF p
    <3>2. FormatHead + p + k = 3 + (p + k)
      BY <3>1 DEF FormatHead
    <3> QED
      BY <3>2 DEF p
  <2> HIDE DEF j, m
  <2>3. d[m] = es[i][k] /\ a[m] = es[i][k]
    BY <1>3, <1>5, <1>6, <2>1, <2>2
  <2> QED
    BY <2>3 DEF m
<1>8. d[2] = N /\ Len(d) \in Nat /\ 3 + l <= Len(d)
  BY <1>3, <1>5
<1>9. a[2] = N /\ Len(a) \in Nat /\ 3 + l <= Len(a)
  BY <1>3, <1>5, <1>6
<1>11. Describes(d, es, c)
  BY <1>2, <1>7, <1>8 DEF Describes, N, l, FormatHead
<1>10. Describes(a, es, c)
  BY <1>2, <1>7, <1>9 DEF Describes, N, l, FormatHead
<1> QED
  BY <1>5, <1>6, <1>10, <1>11 DEF a, d, w, l, N

\* A description of c cells, more of which are its own than type and length.
Describing(es, fields, c) ==
  /\ es \in Seq(Seq(Nat)) /\ Len(es) = Len(fields)
  /\ \A i \in 1 .. Len(fields) : Len(es[i]) = c /\ es[i][1] = fields[i].type /\ es[i][2] = fields[i].length

Base(i, c) == FormatHead + (i - 1) * c

\* Where names are read as they are, so are the fields.
LEMMA FieldsRead ==
  ASSUME NEW fields \in Seq(Descriptions), NEW es, NEW plain \in BOOLEAN, NEW c, c = (IF plain THEN PlainCells ELSE SuperCells),
         NEW d, Describes(d, es, c), Describing(es, fields, c),
         \A i \in 1 .. Len(fields) :
            (IF plain THEN PlainName(d, Base(i, c)) ELSE SuperName(d, Base(i, c))) = fields[i].name
  PROVE  FieldsOf(d, plain) = [ok |-> TRUE, fields |-> fields]
<1> DEFINE N == Len(fields)
           Name(base) == IF plain THEN PlainName(d, base) ELSE SuperName(d, base)
           read == [i \in 1 .. d[2] |-> LET base == FormatHead + (i - 1) * c IN
                                        Column(d[base + 1], d[base + 2], Name(base))]
<1>1. N \in Nat /\ DOMAIN fields = 1 .. N /\ c \in {4, 5} /\ Len(es) = N
  BY DEF PlainCells, SuperCells, NameRoom, Describing
<1>2. d[2] = N /\ Len(d) \in Nat /\ FormatHead + N * c <= Len(d)
  BY <1>1 DEF Describes
<1>3. N * c \in Nat /\ FormatHead = 3
  BY <1>1 DEF FormatHead
<1>4. ~(Len(d) < FormatHead \/ FormatHead + d[2] * c > Len(d))
  <2> DEFINE l == N * c
  <2>1. d[2] * c = l
    BY <1>2
  <2>2. l \in Nat /\ FormatHead + l <= Len(d)
    BY <1>2, <1>3
  <2> HIDE DEF l
  <2> QED
    BY <1>2, <1>3, <2>1, <2>2
<1>5. ASSUME NEW i \in 1 .. N
      PROVE  LET base == FormatHead + (i - 1) * c IN Column(d[base + 1], d[base + 2], Name(base)) = fields[i]
  <2> DEFINE base == FormatHead + (i - 1) * c
             f == fields[i]
  <2>1. f \in Descriptions
    OBVIOUS
  <2> HIDE DEF f
  <2>2. f = Column(f.type, f.length, f.name)
    BY <2>1 DEF Descriptions, Column
  <2>3. 1 \in 1 .. c /\ 2 \in 1 .. c
    BY <1>1
  <2>4. d[base + 1] = es[i][1] /\ d[base + 2] = es[i][2]
    BY <1>1, <2>3 DEF Describes
  <2>5. es[i][1] = f.type /\ es[i][2] = f.length
    BY DEF Describing, f
  <2>6. Name(base) = f.name
    BY DEF Base, f
  <2> HIDE DEF base, Name
  <2> QED
    BY <2>2, <2>4, <2>5, <2>6 DEF base, f
<1>6. read = fields
  <2>1. \A i \in 1 .. N : read[i] = fields[i]
    BY <1>2, <1>5
  <2>2. DOMAIN read = 1 .. N /\ read = [i \in 1 .. N |-> read[i]]
    BY <1>2
  <2>3. fields = [i \in 1 .. N |-> fields[i]]
    BY <1>1
  <2> HIDE DEF read
  <2> QED
    BY <2>1, <2>2, <2>3, Zenon
<1>7. FieldsOf(d, plain) = [ok |-> TRUE, fields |-> read]
  BY <1>4, Zenon DEF FieldsOf
<1> QED
  BY <1>6, <1>7

LEMMA PlainPiece ==
  ASSUME NEW f \in Descriptions, Len(f.name) <= NameRoom
  PROVE  LET e == <<f.type, f.length, Len(f.name)>> \o Filled(f.name) IN
         /\ e \in Seq(Nat) /\ Len(e) = 5 /\ e[1] = f.type /\ e[2] = f.length /\ e[3] = Len(f.name)
         /\ \A k \in 1 .. Len(f.name) : e[3 + k] = f.name[k]
<1> DEFINE n == f.name
           l == Len(n)
           zeros == [i \in 1 .. NameRoom - l |-> 0]
           filled == n \o zeros
           head == <<f.type, f.length, l>>
           e == head \o filled
<1>1. f.type \in Nat /\ f.length \in Nat /\ n \in Seq(Nat) /\ l \in 0 .. 2
  <2>1. f.type \in Nat /\ f.length \in Nat /\ n \in Seq(Nat)
    BY DEF Descriptions
  <2>2. l <= 2
    BY DEF NameRoom
  <2> HIDE DEF n
  <2>3. l \in Nat
    BY <2>1
  <2> HIDE DEF l
  <2> QED
    BY ONLY <2>1, <2>2, <2>3
<1> HIDE DEF n, l
<1>2. zeros \in Seq(Nat) /\ Len(zeros) = 2 - l
  <2> DEFINE m == NameRoom - l
  <2>1. m \in Nat /\ m = 2 - l
    BY <1>1 DEF NameRoom
  <2> HIDE DEF m
  <2>2. [i \in 1 .. m |-> 0] \in Seq(Nat) /\ Len([i \in 1 .. m |-> 0]) = m
    BY <2>1
  <2> QED
    BY <2>1, <2>2 DEF m
<1> HIDE DEF zeros
<1>3. filled \in Seq(Nat) /\ BehindHead(filled, n, zeros, l)
  BY <1>1, <1>2, HeadJoined DEF l
<1> HIDE DEF filled
<1>4. Len(filled) = 2 /\ \A k \in 1 .. l : filled[k] = n[k]
  BY <1>1, <1>2, <1>3 DEF BehindHead
<1>5. head \in Seq(Nat) /\ Len(head) = 3 /\ head[1] = f.type /\ head[2] = f.length /\ head[3] = l
  BY <1>1
<1> HIDE DEF head
<1>6. e \in Seq(Nat) /\ BehindHead(e, head, filled, 3)
  BY <1>3, <1>5, HeadJoined
<1> HIDE DEF e
<1>7. /\ Len(e) = 5 /\ e[1] = f.type /\ e[2] = f.length /\ e[3] = l
      /\ \A k \in 1 .. l : e[3 + k] = n[k]
  <2>1. /\ Len(e) = 5 /\ \A k \in 1 .. 3 : e[k] = head[k]
        /\ \A k \in 1 .. 2 : e[3 + k] = filled[k]
    BY <1>4, <1>6 DEF BehindHead
  <2>2. \A k \in 1 .. l : k \in 1 .. 2
    BY <1>1
  <2>3. 1 \in 1 .. 3 /\ 2 \in 1 .. 3 /\ 3 \in 1 .. 3
    OBVIOUS
  <2> QED
    BY <1>4, <1>5, <2>1, <2>2, <2>3
<1> QED
  BY <1>6, <1>7 DEF e, head, filled, zeros, n, l, Filled

LEMMA PlainNameRead ==
  ASSUME NEW d \in Seq(Nat), NEW base \in Nat, NEW n \in Seq(Nat), Len(n) <= NameRoom, base + 5 <= Len(d),
         d[base + 3] = Len(n), \A k \in 1 .. Len(n) : d[base + 3 + k] = n[k]
  PROVE  PlainName(d, base) = n
<1> DEFINE l == Len(n)
           m == base + 3
           t == SubSeq(d, m + 1, m + l)
<1>1. l \in 0 .. 2 /\ m \in Nat /\ m + l <= Len(d) /\ l \in Nat
  <2>1. l <= 2 /\ l \in Nat
    BY DEF NameRoom
  <2>2. m \in Nat /\ m + 2 <= Len(d) /\ Len(d) \in Nat
    OBVIOUS
  <2> HIDE DEF l, m
  <2> QED
    BY <2>1, <2>2
<1>2. CASE l = 0
  <2>1. n = << >>
    BY <1>2
  <2> QED
    BY <1>2, <2>1 DEF PlainName
<1>3. CASE l # 0
  <2>1. PlainName(d, base) = SubSeq(d, base + 4, base + 3 + l)
    BY <1>1, <1>3 DEF PlainName, NameRoom
  <2>2. base + 4 = m + 1 /\ base + 3 + l = m + l
    BY <1>1
  <2>3. PlainName(d, base) = t
    BY <2>1, <2>2
  <2> HIDE DEF m, l, t
  <2>4. t \in Seq(Nat) /\ PartOf(t, d, m, l)
    BY <1>1, CutIs DEF t
  <2>5. t \in Seq(Nat) /\ n \in Seq(Nat) /\ Len(t) = Len(n) /\ \A k \in 1 .. Len(t) : t[k] = n[k]
    BY <2>4 DEF PartOf, l, m
  <2>6. t = n
    BY <2>5, SameElements
  <2> QED
    BY <2>3, <2>6
<1> QED
  BY <1>2, <1>3

LEMMA PlainRead ==
  ASSUME NEW fields \in Seq(Descriptions), \A i \in 1 .. Len(fields) : Len(fields[i].name) <= NameRoom
  PROVE  /\ PlainFormat(fields) \in Seq(Nat) /\ PlainFormat(fields) # << >>
         /\ FieldsOf(PlainFormat(fields), TRUE) = [ok |-> TRUE, fields |-> fields]
<1> DEFINE N == Len(fields)
           e(f) == <<f.type, f.length, Len(f.name)>> \o Filled(f.name)
           es == [i \in 1 .. N |-> e(fields[i])]
           head == <<1, N, 0>>
           d == head \o FlattenSeq(es)
<1>1. N \in Nat /\ DOMAIN fields = 1 .. N
  OBVIOUS
<1>2. ASSUME NEW i \in 1 .. N
      PROVE  /\ es[i] \in Seq(Nat) /\ Len(es[i]) = 5 /\ es[i][1] = fields[i].type /\ es[i][2] = fields[i].length
             /\ es[i][3] = Len(fields[i].name)
             /\ \A k \in 1 .. Len(fields[i].name) : es[i][3 + k] = fields[i].name[k]
  <2> DEFINE f == fields[i]
             g == e(f)
  <2>1. f \in Descriptions /\ Len(f.name) <= NameRoom
    OBVIOUS
  <2>2. es[i] = g
    OBVIOUS
  <2> HIDE DEF f, es
  <2>3. /\ g \in Seq(Nat) /\ Len(g) = 5 /\ g[1] = f.type /\ g[2] = f.length /\ g[3] = Len(f.name)
        /\ \A k \in 1 .. Len(f.name) : g[3 + k] = f.name[k]
    BY <2>1, PlainPiece
  <2> HIDE DEF g
  <2> QED
    BY <2>2, <2>3 DEF f
<1>3. es \in Seq(Seq(Nat)) /\ Len(es) = N
  <2> DEFINE X == Seq(Nat)
  <2>1. \A n \in 1 .. N : es[n] \in X
    BY <1>2
  <2>2. es = [n \in 1 .. N |-> es[n]]
    OBVIOUS
  <2> HIDE DEF X, es
  <2>3. es \in Seq(X) /\ Len(es) = N
    BY <1>1, <2>1, <2>2
  <2> QED
    BY <2>3 DEF X
<1>4. PlainFormat(fields) = d
  BY <1>1 DEF PlainFormat
<1> HIDE DEF es
<1>5. head \in Seq(Nat) /\ Len(head) = 3 /\ head[2] = N
  BY <1>1
<1> HIDE DEF head
<1>6. d \in Seq(Nat) /\ Describes(d, es, 5) /\ Len(d) = 3 + N * 5
  <2>1. \A i \in 1 .. Len(es) : Len(es[i]) = 5
    BY <1>2, <1>3
  <2>2. << >> \in Seq(Nat) /\ 5 \in Nat
    OBVIOUS
  <2>3. /\ head \in Seq(Nat) /\ Len(head) = 3 /\ head[2] = Len(es) /\ es \in Seq(Seq(Nat))
    BY <1>3, <1>5
  <2>4. d \in Seq(Nat) /\ Describes(d, es, 5) /\ Len(d) = 3 + Len(es) * 5
    BY ONLY <2>1, <2>2, <2>3, FormatLaid DEF d
  <2> QED
    BY <1>3, <2>4
<1> HIDE DEF d, N
<1>7. ASSUME NEW i \in 1 .. N PROVE PlainName(d, Base(i, 5)) = fields[i].name
  <2> DEFINE n == fields[i].name
             b == Base(i, 5)
  <2>1. n \in Seq(Nat) /\ Len(n) <= NameRoom /\ Len(n) \in 0 .. 2
    <3>1. fields[i] \in Descriptions
      BY DEF N
    <3>2. n \in Seq(Nat)
      BY <3>1 DEF Descriptions
    <3>3. Len(n) <= 2
      BY DEF N, NameRoom
    <3> HIDE DEF n
    <3>4. Len(n) \in Nat
      BY <3>2
    <3> DEFINE l == Len(n)
    <3>5. l \in Nat /\ l <= 2
      BY <3>3, <3>4
    <3> HIDE DEF l
    <3>6. l \in 0 .. 2
      BY ONLY <3>5
    <3> QED
      BY <3>2, <3>3, <3>6 DEF NameRoom, l
  <2>2. b \in Nat /\ b + 5 <= Len(d) /\ \A k \in 1 .. 5 : d[b + k] = es[i][k]
    <3>1. b = 3 + (i - 1) * 5
      BY DEF Base, FormatHead
    <3>2. \A k \in 1 .. 5 : d[3 + (i - 1) * 5 + k] = es[i][k]
      BY <1>3, <1>6 DEF Describes, FormatHead
    <3> DEFINE p == (i - 1) * 5
    <3>3. p \in Nat /\ 3 + p + 5 <= 3 + N * 5
      BY <1>1
    <3>4. Len(d) = 3 + N * 5
      BY <1>6
    <3> HIDE DEF p
    <3>5. 3 + p \in Nat /\ 3 + p + 5 <= Len(d)
      BY <3>3, <3>4
    <3> QED
      BY <3>1, <3>2, <3>5 DEF p
  <2>3. es[i][3] = Len(n) /\ \A k \in 1 .. Len(n) : es[i][3 + k] = n[k]
    BY <1>2
  <2> HIDE DEF n, b
  <2>4. d[b + 3] = Len(n)
    BY <2>2, <2>3
  <2>5. \A k \in 1 .. Len(n) : d[b + 3 + k] = n[k]
    <3> SUFFICES ASSUME NEW k \in 1 .. Len(n) PROVE d[b + 3 + k] = n[k]
      OBVIOUS
    <3> DEFINE l == Len(n)
    <3>0. l \in 0 .. 2 /\ k \in 1 .. l /\ b \in Nat
      BY <2>1, <2>2
    <3> HIDE DEF l
    <3>1. 3 + k \in 1 .. 5 /\ b + (3 + k) = b + 3 + k
      BY <3>0
    <3> QED
      BY <2>2, <2>3, <3>1
  <2>6. PlainName(d, b) = n
    BY <1>6, <2>1, <2>2, <2>4, <2>5, PlainNameRead
  <2> QED
    BY <2>6 DEF n, b
<1>8. Describing(es, fields, 5)
  BY <1>2, <1>3 DEF Describing, N
<1>9. FieldsOf(d, TRUE) = [ok |-> TRUE, fields |-> fields]
  <2>1. 5 = PlainCells /\ TRUE \in BOOLEAN
    BY DEF PlainCells, NameRoom
  <2>2. \A i \in 1 .. Len(fields) : PlainName(d, Base(i, 5)) = fields[i].name
    BY <1>7 DEF N
  <2> QED
    BY <1>6, <1>8, <2>1, <2>2, FieldsRead
<1>10. d # << >>
  BY <1>1, <1>6
<1> QED
  BY <1>4, <1>6, <1>9, <1>10

\* The same steps from the same beginning lead to the same sums.
Sums(a, n, c) == \A m \in 1 .. n : a[m] = a[m - 1] + c[m]
SameUpTo(a, b, n) == \A m \in 0 .. n : a[m] = b[m]

LEMMA SameSums ==
  ASSUME NEW n \in Nat, NEW a, NEW b, NEW c, a[0] = b[0], Sums(a, n, c), Sums(b, n, c)
  PROVE  SameUpTo(a, b, n)
<1> DEFINE S == {m \in 0 .. n : a[m] = b[m]}
<1>1. 0 \in S /\ \A m \in 1 .. n : m - 1 \in S => m \in S
  BY DEF Sums
<1> HIDE DEF S
<1>2. \A m \in 0 .. n : m \in S
  BY <1>1, CountingUp
<1> QED
  BY <1>2 DEF S, SameUpTo

\* Where each field of a row begins, by the lengths of those before it.
Places(place, fields) ==
  /\ place[0] = 0 /\ \A m \in 0 .. Len(fields) : place[m] \in Nat /\ PlaceOf(fields, m + 1) = place[m]
  /\ \A m \in 1 .. Len(fields) : place[m] = place[m - 1] + fields[m].length

LEMMA PlacesAre ==
  ASSUME NEW fields \in Seq(Descriptions)
  PROVE  \E place : Places(place, fields)
<1> DEFINE N == Len(fields)
           D == 1 .. N + 1
           Body(f) == [k \in D |-> IF k = 1 THEN 0 ELSE f[k - 1] + fields[k - 1].length]
           g == CHOOSE f : f = Body(f)
           step == [n \in 1 .. N |-> [x \in Nat |-> x + fields[n].length]]
<1>1. N \in Nat /\ \A n \in 1 .. N : fields[n].length \in Nat
  <2>1. \A n \in 1 .. N : fields[n] \in Descriptions
    OBVIOUS
  <2> QED
    BY <2>1 DEF Descriptions
<1>2. \A i : PlaceOf(fields, i) = g[i]
  BY DEF PlaceOf
<1>3. step \in [1 .. N -> [Nat -> Nat]] /\ \A n \in 1 .. N : \A x \in Nat : step[n][x] = x + fields[n].length
  BY <1>1
<1> HIDE DEF N, step, g, Body
<1>4. PICK h : Iterates(h, N, Nat, 0, step)
  BY <1>1, <1>3, RecursionDefines
<1>5. h[0] = 0 /\ (\A n \in 0 .. N : h[n] \in Nat) /\ \A n \in 1 .. N : h[n] = h[n - 1] + fields[n].length
  <2>1. \A n \in 1 .. N : n - 1 \in 0 .. N
    BY <1>1
  <2> QED
    BY <1>3, <1>4, <2>1 DEF Iterates
<1>6. \E f : f = Body(f)
  <2> DEFINE f == [k \in D |-> h[k - 1]]
  <2>1. \A k \in D : f[k] = IF k = 1 THEN 0 ELSE f[k - 1] + fields[k - 1].length
    <3> SUFFICES ASSUME NEW k \in D PROVE f[k] = IF k = 1 THEN 0 ELSE f[k - 1] + fields[k - 1].length
      OBVIOUS
    <3>1. CASE k = 1
      BY <1>5, <3>1
    <3>2. CASE k # 1
      <4>1. k - 1 \in 1 .. N /\ k - 1 \in D
        BY <1>1, <3>2
      <4>2. f[k] = h[k - 1] /\ f[k - 1] = h[k - 1 - 1]
        BY <4>1
      <4> QED
        BY <1>5, <3>2, <4>1, <4>2
    <3> QED
      BY <3>1, <3>2
  <2>2. f = [k \in D |-> f[k]]
    OBVIOUS
  <2> HIDE DEF f, D
  <2>3. f = Body(f)
    BY <2>1, <2>2 DEF Body
  <2> QED
    BY <2>3
<1>7. g = Body(g)
  BY <1>6 DEF g
<1>8. \A k \in D : g[k] = IF k = 1 THEN 0 ELSE g[k - 1] + fields[k - 1].length
  <2>1. PICK f : f = g /\ g = Body(f)
    BY <1>7
  <2> QED
    BY <2>1 DEF Body
<1> DEFINE at == [m \in 0 .. N |-> g[m + 1]]
<1>9. at[0] = h[0] /\ \A m \in 1 .. N : at[m] = at[m - 1] + fields[m].length
  <2>1. 0 + 1 = 1 /\ 1 \in D /\ 0 \in 0 .. N /\ g[1] = 0
    BY <1>1, <1>8
  <2>2. ASSUME NEW m \in 1 .. N PROVE at[m] = at[m - 1] + fields[m].length
    <3>1. m \in 0 .. N /\ m - 1 \in 0 .. N /\ m + 1 \in D /\ m + 1 # 1 /\ m + 1 - 1 = m /\ m - 1 + 1 = m
      BY <1>1
    <3>2. at[m] = g[m + 1] /\ at[m - 1] = g[m]
      BY <3>1
    <3> QED
      BY <1>8, <3>1, <3>2
  <2> QED
    BY <1>5, <2>1, <2>2
<1>10. \A m \in 0 .. N : at[m] = g[m + 1]
  OBVIOUS
<1> HIDE DEF at, D
<1> DEFINE c == [m \in 1 .. N |-> fields[m].length]
<1>11. Sums(at, N, c) /\ Sums(h, N, c)
  BY <1>5, <1>9 DEF Sums
<1> HIDE DEF c
<1>12. \A m \in 0 .. N : at[m] = h[m]
  <2>1. SameUpTo(at, h, N)
    BY <1>1, <1>9, <1>11, SameSums
  <2> QED
    BY <2>1 DEF SameUpTo
<1>13. Places(h, fields)
  BY <1>2, <1>5, <1>10, <1>12 DEF Places, N
<1> QED
  BY <1>13

\* The places of the same pieces are the same, however many follow.
LEMMA SamePlaces ==
  ASSUME NEW whole, NEW es, NEW at, Lie(whole, es, at), NEW part, NEW fs, NEW before, Lie(part, fs, before),
         Len(es) \in Nat, Len(fs) \in 0 .. Len(es), \A m \in 1 .. Len(fs) : fs[m] = es[m]
  PROVE  Len(part) = at[Len(fs)]
<1> DEFINE n == Len(fs)
           c == [m \in 1 .. n |-> Len(es[m])]
<1>1. n \in Nat /\ n \in 0 .. n /\ \A m \in 1 .. n : m \in 1 .. Len(es)
  OBVIOUS
<1>2. at[0] = 0 /\ before[0] = 0 /\ before[n] = Len(part)
  BY DEF Lie, LieUpTo
<1>3. Sums(at, n, c) /\ Sums(before, n, c)
  BY <1>1 DEF Lie, LieUpTo, Sums
<1> HIDE DEF n, c
<1>4. SameUpTo(at, before, n)
  BY <1>1, <1>2, <1>3, SameSums
<1> QED
  BY <1>1, <1>2, <1>4 DEF n, SameUpTo

LEMMA ElementsIn ==
  ASSUME NEW S, NEW s \in Seq(S)
  PROVE  Len(s) \in Nat /\ \A i \in 1 .. Len(s) : s[i] \in S
OBVIOUS

\* What SuperName finds from an entry on, given what it finds behind.
Seeking(d, base, pos, from) ==
  LET entry == base + d[base + 3] + pos IN
  IF pos + 3 > d[base + 4] \/ entry + 3 > Len(d) THEN << >>
  ELSE LET ll == d[entry + 1] IN
       IF ll < 3 \/ entry + ll > Len(d) THEN << >>
       ELSE IF d[entry + 2] = NameEntry THEN SubSeq(d, entry + 4, entry + ll)
       ELSE from[pos + ll]

LEMMA SeekingInside ==
  ASSUME NEW d \in Seq(Nat), NEW base \in Nat, base + 4 <= Len(d), NEW pos \in Nat, NEW from \in [Nat -> Seq(Nat)]
  PROVE  Seeking(d, base, pos, from) \in Seq(Nat)
<1> DEFINE o == d[base + 3]
           end == d[base + 4]
           entry == base + o + pos
           ll == d[entry + 1]
<1>0. Len(d) \in Nat /\ \A i \in 1 .. Len(d) : d[i] \in Nat
  BY ElementsIn
<1>1. o \in Nat /\ end \in Nat /\ Len(d) \in Nat
  <2>1. base + 3 \in 1 .. Len(d) /\ base + 4 \in 1 .. Len(d)
    BY <1>0
  <2> QED
    BY <1>0, <2>1
<1> HIDE DEF o, end
<1>2. entry \in Nat
  BY <1>1
<1> HIDE DEF entry
<1>3. CASE pos + 3 <= end /\ entry + 3 <= Len(d) /\ ~(ll < 3 \/ entry + ll > Len(d))
  <2>1. entry + 1 \in 1 .. Len(d)
    BY <1>1, <1>2, <1>3
  <2>2. ll \in Nat
    BY <1>0, <2>1
  <2> HIDE DEF ll
  <2>3. SubSeq(d, entry + 4, entry + ll) \in Seq(Nat)
    <3> DEFINE m == entry + 3
               n == ll - 3
    <3>1. m \in Nat /\ n \in Nat /\ m + n <= Len(d) /\ entry + 4 = m + 1 /\ entry + ll = m + n
      BY <1>1, <1>2, <1>3, <2>2
    <3> HIDE DEF m, n
    <3>2. SubSeq(d, m + 1, m + n) \in Seq(Nat)
      BY <3>1, Cut
    <3> QED
      BY <3>1, <3>2
  <2>4. from[pos + ll] \in Seq(Nat)
    BY <2>2
  <2> DEFINE x == SubSeq(d, entry + 4, entry + ll)
             y == from[pos + ll]
  <2>5. Seeking(d, base, pos, from) \in {<< >>, x, y}
    BY DEF Seeking, entry, o, ll
  <2>6. x \in Seq(Nat) /\ y \in Seq(Nat) /\ << >> \in Seq(Nat)
    BY <2>3, <2>4
  <2> HIDE DEF x, y
  <2> QED
    BY <2>5, <2>6
<1>4. CASE pos + 3 > end \/ entry + 3 > Len(d) \/ (ll < 3 \/ entry + ll > Len(d))
  <2>1. Seeking(d, base, pos, from) = << >>
    BY <1>4 DEF Seeking, entry, o, ll, end
  <2> QED
    BY <2>1
<1>5. (pos + 3 <= end \/ pos + 3 > end) /\ (entry + 3 <= Len(d) \/ entry + 3 > Len(d))
  BY <1>1, <1>2
<1> QED
  BY <1>3, <1>4, <1>5, Zenon

\* What SuperName finds is what Seeking says at each entry.
Seeks(g, d, base) == \A pos \in Nat : g[pos] = Seeking(d, base, pos, g)

LEMMA SuperNameSeeks ==
  ASSUME NEW d \in Seq(Nat), NEW base \in Nat, base + 4 <= Len(d)
  PROVE  \E g : Seeks(g, d, base) /\ SuperName(d, base) = g[0]
<1> DEFINE X == Seq(Nat)
           N == d[base + 4]
           Body(f) == [pos \in Nat |-> Seeking(d, base, pos, f)]
           g == CHOOSE f : f = Body(f)
           rank == [pos \in Nat |-> IF pos <= N THEN N - pos ELSE 0]
           step == [pos \in Nat |-> [f \in [Nat -> X] |-> Seeking(d, base, pos, f)]]
<1>1. N \in Nat
  <2>1. base + 4 \in 1 .. Len(d)
    OBVIOUS
  <2> QED
    BY <2>1
<1>2. SuperName(d, base) = g[0]
  BY DEF SuperName, Seeking
<1> HIDE DEF N
<1>3. rank \in [Nat -> 0 .. N] /\ \A pos \in Nat : rank[pos] = IF pos <= N THEN N - pos ELSE 0
  BY <1>1
<1>4. step \in [Nat -> [[Nat -> X] -> X]]
  <2>1. \A pos \in Nat : \A f \in [Nat -> X] : Seeking(d, base, pos, f) \in X
    BY SeekingInside
  <2> HIDE DEF X
  <2> QED
    BY <2>1
<1>5. << >> \in X
  OBVIOUS
<1>6. \A pos \in Nat : \A f \in [Nat -> X] : step[pos][f] = Seeking(d, base, pos, f)
  OBVIOUS
<1> HIDE DEF X, rank, step, Body, g
<1>7. ASSUME NEW pos \in Nat, NEW f1, NEW f2, \A j \in Nat : rank[j] < rank[pos] => f1[j] = f2[j]
      PROVE  Seeking(d, base, pos, f1) = Seeking(d, base, pos, f2)
  <2> DEFINE entry == base + d[base + 3] + pos
             ll == d[entry + 1]
  <2>1. CASE pos + 3 <= N /\ entry + 3 <= Len(d) /\ ~(ll < 3 \/ entry + ll > Len(d))
    <3>1. ll \in Nat /\ ll >= 3
      <4> DEFINE o == d[base + 3]
      <4>1. o \in Nat /\ Len(d) \in Nat
        <5>1. base + 3 \in 1 .. Len(d)
          OBVIOUS
        <5> QED
          BY <5>1
      <4> HIDE DEF o
      <4>2. entry \in Nat
        BY <4>1 DEF o
      <4> HIDE DEF entry
      <4>3. entry + 1 \in 1 .. Len(d)
        BY <2>1, <4>1, <4>2
      <4>4. ll \in Nat
        BY <4>3
      <4> HIDE DEF ll
      <4> QED
        BY <2>1, <4>4
    <3> HIDE DEF ll
    <3>2. pos + ll \in Nat /\ rank[pos + ll] < rank[pos]
      <4> DEFINE q == pos + ll
      <4>1. q \in Nat /\ pos < q /\ pos < N
        BY <1>1, <2>1, <3>1
      <4> HIDE DEF q
      <4>2. rank[q] = (IF q <= N THEN N - q ELSE 0) /\ rank[pos] = (IF pos <= N THEN N - pos ELSE 0)
        BY <1>3, <4>1
      <4>3. rank[q] < rank[pos]
        BY <1>1, <4>1, <4>2
      <4> QED
        BY <4>1, <4>3 DEF q
    <3>3. f1[pos + ll] = f2[pos + ll]
      BY <1>7, <3>2
    <3> QED
      BY <3>3 DEF Seeking, ll
  <2>2. CASE pos + 3 > N \/ entry + 3 > Len(d) \/ (ll < 3 \/ entry + ll > Len(d))
    BY <2>2 DEF Seeking, N
  <2>3. entry + 3 <= Len(d) \/ entry + 3 > Len(d)
    <3>1. base + 3 \in 1 .. Len(d)
      OBVIOUS
    <3> QED
      BY <3>1
  <2> QED
    BY <1>1, <2>1, <2>2, <2>3
<1>8. PICK h : Solves(h, Nat, X, step)
  <2>1. LooksDown(step, Nat, rank, X)
    <3>1. \A pos \in Nat : \A f1, f2 \in [Nat -> X] :
             (\A j \in Nat : rank[j] < rank[pos] => f1[j] = f2[j]) => step[pos][f1] = step[pos][f2]
      <4> SUFFICES ASSUME NEW pos \in Nat, NEW f1 \in [Nat -> X], NEW f2 \in [Nat -> X],
                          \A j \in Nat : rank[j] < rank[pos] => f1[j] = f2[j]
                   PROVE  step[pos][f1] = step[pos][f2]
        OBVIOUS
      <4>1. Seeking(d, base, pos, f1) = Seeking(d, base, pos, f2)
        BY <1>7
      <4> QED
        BY <1>6, <4>1
    <3> QED
      BY <3>1, Zenon DEF LooksDown
  <2> QED
    BY <1>1, <1>3, <1>4, <1>5, <2>1, RankedRecursionDefines
<1>9. \E f : f = Body(f)
  <2>1. h \in [Nat -> X] /\ \A pos \in Nat : h[pos] = Seeking(d, base, pos, h)
    BY <1>6, <1>8 DEF Solves
  <2>2. h = Body(h)
    BY <2>1 DEF Body
  <2> QED
    BY <2>2
<1>10. g = Body(g)
  BY <1>9 DEF g
<1>11. PICK f : f = g /\ g = Body(f)
  BY <1>10
<1>12. Seeks(g, d, base)
  BY <1>11 DEF Body, Seeks
<1> QED
  BY <1>2, <1>12

\* The cells of a field's entries, behind the first E of a format.
Entries(d, E, n) ==
  /\ E + 7 + Len(n) <= Len(d)
  /\ d[E + 1] = 4 /\ d[E + 2] = OtherEntry /\ d[E + 5] = 3 + Len(n) /\ d[E + 6] = NameEntry
  /\ \A k \in 1 .. Len(n) : d[E + 7 + k] = n[k]

LEMMA SuperNameRead ==
  ASSUME NEW d \in Seq(Nat), NEW base \in Nat, base + 4 <= Len(d), NEW E \in Nat, NEW n \in Seq(Nat),
         Entries(d, E, n), base + d[base + 3] = E, d[base + 4] = 7 + Len(n)
  PROVE  SuperName(d, base) = n
<1> DEFINE l == Len(n)
           m == E + 7
           t == SubSeq(d, m + 1, m + l)
<1>1. PICK g : Seeks(g, d, base) /\ SuperName(d, base) = g[0]
  BY SuperNameSeeks
<1>2. l \in Nat /\ Len(d) \in Nat /\ E + 7 + l <= Len(d) /\ m \in Nat /\ m + l <= Len(d)
  <2>1. l \in Nat /\ Len(d) \in Nat
    OBVIOUS
  <2>2. E + 7 + l <= Len(d)
    BY DEF Entries
  <2> HIDE DEF l
  <2> QED
    BY <2>1, <2>2
<1>3. d[E + 1] = 4 /\ d[E + 2] # NameEntry /\ d[E + 5] = 3 + l /\ d[E + 6] = NameEntry
  BY DEF Entries, OtherEntry, NameEntry
<1>4. g[0] = Seeking(d, base, 0, g) /\ g[4] = Seeking(d, base, 4, g)
  BY <1>1 DEF Seeks
<1> HIDE DEF l, m, t
<1>5. g[0] = g[4]
  <2>1. base + d[base + 3] + 0 = E /\ d[base + 4] = 7 + l
    BY DEF l
  <2>2. ~(0 + 3 > 7 + l \/ E + 3 > Len(d)) /\ ~(4 < 3 \/ E + 4 > Len(d)) /\ 0 + 4 = 4
    BY <1>2
  <2> QED
    BY <1>3, <1>4, <2>1, <2>2 DEF Seeking
<1>6. g[4] = t
  <2> DEFINE c == E + 4
  <2>1. base + d[base + 3] + 4 = c /\ d[base + 4] = 7 + l
    BY DEF l
  <2>2. /\ ~(4 + 3 > 7 + l \/ c + 3 > Len(d)) /\ ~(3 + l < 3 \/ c + (3 + l) > Len(d))
        /\ c + 1 = E + 5 /\ c + 2 = E + 6 /\ c + 4 = m + 1 /\ c + (3 + l) = m + l
    BY <1>2 DEF m
  <2> HIDE DEF c
  <2>3. g[4] = SubSeq(d, c + 4, c + (3 + l))
    BY <1>3, <1>4, <2>1, <2>2 DEF Seeking
  <2> QED
    BY <2>2, <2>3 DEF t
<1>7. t \in Seq(Nat) /\ PartOf(t, d, m, l)
  BY <1>2, CutIs DEF t
<1>8. \A k \in 1 .. l : d[m + k] = n[k]
  BY DEF Entries, l, m
<1>9. t \in Seq(Nat) /\ n \in Seq(Nat) /\ Len(t) = Len(n) /\ \A k \in 1 .. Len(t) : t[k] = n[k]
  BY <1>7, <1>8 DEF PartOf, l
<1>10. t = n
  BY <1>9, SameElements
<1> QED
  BY <1>1, <1>5, <1>6, <1>10

LEMMA EntriesPiece ==
  ASSUME NEW f \in Descriptions
  PROVE  /\ EntriesOf(f) \in Seq(Nat) /\ Len(EntriesOf(f)) = 7 + Len(f.name) /\ Entries(EntriesOf(f), 0, f.name)
<1> DEFINE n == f.name
           a == <<4, OtherEntry, 37, 0>>
           b == <<3 + Len(n), NameEntry, 37>>
           c == a \o b
           e == c \o n
<1>1. n \in Seq(Nat) /\ Len(n) \in Nat
  BY DEF Descriptions
<1> HIDE DEF n
<1>2. /\ a \in Seq(Nat) /\ Len(a) = 4 /\ a[1] = 4 /\ a[2] = OtherEntry
      /\ b \in Seq(Nat) /\ Len(b) = 3 /\ b[1] = 3 + Len(n) /\ b[2] = NameEntry
  BY <1>1 DEF OtherEntry, NameEntry
<1> HIDE DEF a, b
<1>3. c \in Seq(Nat) /\ BehindHead(c, a, b, 4)
  BY <1>2, HeadJoined
<1> HIDE DEF c
<1>4. Len(c) = 7 /\ c[1] = 4 /\ c[2] = OtherEntry /\ c[5] = 3 + Len(n) /\ c[6] = NameEntry
  <2>1. 1 \in 1 .. 4 /\ 2 \in 1 .. 4 /\ 1 \in 1 .. 3 /\ 2 \in 1 .. 3 /\ 4 + 1 = 5 /\ 4 + 2 = 6
    OBVIOUS
  <2> QED
    BY <1>2, <1>3, <2>1 DEF BehindHead
<1>5. e \in Seq(Nat) /\ BehindHead(e, c, n, 7)
  BY <1>1, <1>3, <1>4, HeadJoined
<1> HIDE DEF e
<1>6. Len(e) = 7 + Len(n) /\ e[1] = 4 /\ e[2] = OtherEntry /\ e[5] = 3 + Len(n) /\ e[6] = NameEntry
  <2>1. 1 \in 1 .. 7 /\ 2 \in 1 .. 7 /\ 5 \in 1 .. 7 /\ 6 \in 1 .. 7
    OBVIOUS
  <2> QED
    BY <1>4, <1>5, <2>1 DEF BehindHead
<1>7. Entries(e, 0, n)
  <2>1. \A k \in 1 .. Len(n) : e[7 + k] = n[k]
    BY <1>5 DEF BehindHead
  <2>2. 0 + 7 + Len(n) <= Len(e) /\ \A k \in 1 .. Len(n) : 0 + 7 + k = 7 + k
    BY <1>1, <1>6
  <2> QED
    BY <1>6, <2>1, <2>2 DEF Entries
<1>8. EntriesOf(f) = e
  BY DEF EntriesOf, e, c, a, b, n
<1> QED
  BY <1>5, <1>6, <1>7, <1>8 DEF n

\* A copy of a field's entries has the same cells.
LEMMA EntriesCopied ==
  ASSUME NEW e \in Seq(Nat), NEW n \in Seq(Nat), Len(e) = 7 + Len(n), Entries(e, 0, n),
         NEW d \in Seq(Nat), NEW E \in Nat, E + Len(e) <= Len(d), \A k \in 1 .. Len(e) : d[E + k] = e[k]
  PROVE  Entries(d, E, n)
<1> DEFINE l == Len(n)
<1>1. l \in Nat /\ Len(e) = 7 + l /\ E + 7 + l <= Len(d)
  <2>1. l \in Nat /\ Len(e) = 7 + l /\ Len(d) \in Nat
    BY ElementsIn
  <2> HIDE DEF l
  <2> QED
    BY <2>1
<1>2. /\ e[1] = 4 /\ e[2] = OtherEntry /\ e[5] = 3 + l /\ e[6] = NameEntry
      /\ \A k \in 1 .. l : e[0 + 7 + k] = n[k]
  BY DEF Entries
<1> HIDE DEF l
<1>3. 1 \in 1 .. 7 + l /\ 2 \in 1 .. 7 + l /\ 5 \in 1 .. 7 + l /\ 6 \in 1 .. 7 + l
  BY <1>1
<1>4. d[E + 1] = 4 /\ d[E + 2] = OtherEntry /\ d[E + 5] = 3 + l /\ d[E + 6] = NameEntry
  BY <1>1, <1>2, <1>3
<1>5. ASSUME NEW k \in 1 .. l PROVE d[E + 7 + k] = n[k]
  <2> DEFINE m == 7 + k
  <2>1. m \in 1 .. Len(e) /\ E + 7 + k = E + m /\ 0 + 7 + k = m
    BY <1>1
  <2>2. e[m] = n[k]
    BY <1>2, <2>1
  <2> HIDE DEF m
  <2>3. d[E + m] = e[m]
    BY <2>1
  <2> QED
    BY <2>1, <2>2, <2>3
<1> QED
  BY <1>1, <1>4, <1>5 DEF Entries, l

LEMMA SuperRead ==
  ASSUME NEW fields \in Seq(Descriptions)
  PROVE  /\ SuperFormat(fields) \in Seq(Nat) /\ SuperFormat(fields) # << >>
         /\ FieldsOf(SuperFormat(fields), FALSE) = [ok |-> TRUE, fields |-> fields]
<1> DEFINE N == Len(fields)
           X == Seq(Nat)
           first(i) == [j \in 1 .. i - 1 |-> EntriesOf(fields[j])]
           before(i) == FlattenSeq(first(i))
           offset(i) == (N - (i - 1)) * SuperCells + Len(before(i))
           ens == first(N + 1)
           tail == before(N + 1)
           es == [i \in 1 .. N |-> <<fields[i].type, fields[i].length, offset(i), Len(EntriesOf(fields[i]))>>]
           head == <<1, N, 0>>
           laid == head \o FlattenSeq(es)
           d == laid \o tail
<1>1. N \in Nat /\ DOMAIN fields = 1 .. N /\ \A i \in 1 .. N : fields[i] \in Descriptions
  OBVIOUS
<1>2. SuperFormat(fields) = d
  BY <1>1 DEF SuperFormat
<1>3. \A i \in 1 .. N : /\ EntriesOf(fields[i]) \in X /\ Len(EntriesOf(fields[i])) = 7 + Len(fields[i].name)
                        /\ Entries(EntriesOf(fields[i]), 0, fields[i].name)
  BY <1>1, EntriesPiece
<1>4. ASSUME NEW i \in 1 .. N + 1
      PROVE  /\ first(i) \in Seq(X) /\ Len(first(i)) = i - 1
             /\ \A j \in 1 .. i - 1 : j \in 1 .. N /\ first(i)[j] = EntriesOf(fields[j])
  <2> DEFINE m == i - 1
  <2>1. m \in Nat /\ \A j \in 1 .. m : j \in 1 .. N
    BY <1>1
  <2> HIDE DEF m, N, X
  <2>2. [j \in 1 .. m |-> EntriesOf(fields[j])] \in Seq(X) /\ Len([j \in 1 .. m |-> EntriesOf(fields[j])]) = m
    BY <1>3, <2>1
  <2> QED
    BY <2>1, <2>2 DEF m
<1> HIDE DEF first
<1>5. ASSUME NEW i \in 1 .. N + 1 PROVE before(i) \in Seq(Nat) /\ \E at : Lie(before(i), first(i), at)
  <2>1. first(i) \in Seq(Seq(Nat))
    BY <1>4
  <2> QED
    BY <2>1, Flattened
<1>6. N + 1 \in 1 .. N + 1 /\ N + 1 - 1 = N
  BY <1>1
<1>7. PICK at : Lie(tail, ens, at)
  BY <1>5, <1>6
<1>8. ens \in Seq(X) /\ Len(ens) = N /\ tail \in Seq(Nat) /\ \A j \in 1 .. N : ens[j] = EntriesOf(fields[j])
  BY <1>4, <1>5, <1>6, SMTT(30)
<1> HIDE DEF ens, before
<1>9. \A i \in 1 .. N : Len(before(i)) \in Nat /\ Len(before(i)) = at[i - 1]
  <2> SUFFICES ASSUME NEW i \in 1 .. N PROVE Len(before(i)) \in Nat /\ Len(before(i)) = at[i - 1]
    OBVIOUS
  <2>1. i \in 1 .. N + 1 /\ i - 1 \in 0 .. N /\ \A j \in 1 .. i - 1 : j \in 1 .. N
    BY <1>1
  <2>2. before(i) \in Seq(Nat)
    BY <1>5, <2>1
  <2>3. PICK b : Lie(before(i), first(i), b)
    BY <1>5, <2>1
  <2> DEFINE fs == first(i)
  <2>4. Len(fs) = i - 1 /\ Len(fs) \in 0 .. Len(ens) /\ Len(ens) \in Nat /\ \A m \in 1 .. Len(fs) : fs[m] = ens[m]
    BY <1>1, <1>4, <1>8, <2>1
  <2> HIDE DEF fs
  <2>5. Len(before(i)) = at[Len(fs)]
    BY <1>7, <2>3, <2>4, SamePlaces DEF fs
  <2> QED
    BY <2>2, <2>4, <2>5, ElementsIn
<1>10. ASSUME NEW i \in 1 .. N
       PROVE  /\ es[i] \in X /\ Len(es[i]) = 4 /\ es[i][1] = fields[i].type /\ es[i][2] = fields[i].length
              /\ es[i][3] = (N - (i - 1)) * 4 + at[i - 1] /\ es[i][4] = 7 + Len(fields[i].name)
  <2> DEFINE o == offset(i)
             l == Len(EntriesOf(fields[i]))
             ty == fields[i].type
             le == fields[i].length
             p == N - (i - 1)
  <2>1. p \in Nat
    BY <1>1
  <2>2. o = p * 4 + at[i - 1] /\ at[i - 1] \in Nat
    BY <1>9 DEF SuperCells
  <2>3. o \in Nat
    <3> HIDE DEF p, o
    <3> QED
      BY <2>1, <2>2
  <2>4. ty \in Nat /\ le \in Nat /\ l \in Nat /\ l = 7 + Len(fields[i].name)
    <3>1. fields[i] \in Descriptions /\ EntriesOf(fields[i]) \in Seq(Nat)
      BY <1>1, <1>3
    <3> QED
      BY <1>3, <3>1, ElementsIn DEF Descriptions
  <2>5. es[i] = <<ty, le, o, l>>
    OBVIOUS
  <2> HIDE DEF o, l, ty, le, es
  <2>6. es[i] \in X /\ Len(es[i]) = 4 /\ es[i][1] = ty /\ es[i][2] = le /\ es[i][3] = o /\ es[i][4] = l
    BY <2>3, <2>4, <2>5
  <2> QED
    BY <2>2, <2>4, <2>6 DEF ty, le
<1>11. es \in Seq(X) /\ Len(es) = N
  <2>1. es = [n \in 1 .. N |-> es[n]]
    OBVIOUS
  <2>2. \A n \in 1 .. N : es[n] \in X
    BY <1>10
  <2> HIDE DEF X, es, N
  <2> QED
    BY <1>1, <2>1, <2>2
<1> HIDE DEF es, offset, tail
<1>12. head \in Seq(Nat) /\ Len(head) = 3 /\ head[2] = N
  BY <1>1
<1> HIDE DEF head
<1>13. laid \in Seq(Nat) /\ Len(laid) = 3 + N * 4 /\ d \in Seq(Nat) /\ Describes(d, es, 4)
  <2>1. \A i \in 1 .. Len(es) : Len(es[i]) = 4
    BY <1>10, <1>11
  <2>2. 4 \in Nat /\ tail \in Seq(Nat) /\ es \in Seq(Seq(Nat)) /\ head \in Seq(Nat) /\ Len(head) = 3 /\ head[2] = Len(es)
    BY <1>8, <1>11, <1>12
  <2>3. /\ head \o FlattenSeq(es) \in Seq(Nat) /\ Len(head \o FlattenSeq(es)) = 3 + Len(es) * 4
        /\ (head \o FlattenSeq(es)) \o tail \in Seq(Nat)
        /\ Describes((head \o FlattenSeq(es)) \o tail, es, 4)
    BY ONLY <2>1, <2>2, FormatLaid
  <2> QED
    BY <1>11, <2>3
<1> HIDE DEF laid
<1> DEFINE h == 3 + N * 4
<1>14. h \in Nat /\ BehindHead(d, laid, tail, h)
  <2>1. BehindHead(d, laid, tail, h)
    BY <1>8, <1>13, HeadJoined
  <2> QED
    BY <1>1, <2>1
<1> HIDE DEF d
<1>15. Len(d) = h + Len(tail) /\ Len(tail) \in Nat /\ \A k \in 1 .. Len(tail) : d[h + k] = tail[k]
  BY <1>14 DEF BehindHead
<1> HIDE DEF h
<1>16. ASSUME NEW i \in 1 .. N PROVE SuperName(d, Base(i, 4)) = fields[i].name
  <2> DEFINE n == fields[i].name
             e == EntriesOf(fields[i])
             a == at[i - 1]
             E == h + a
             base == Base(i, 4)
  <2>1. n \in Seq(Nat) /\ e \in Seq(Nat) /\ Len(e) = 7 + Len(n) /\ Entries(e, 0, n) /\ Len(n) \in Nat
    <3>1. n \in Seq(Nat)
      BY <1>1 DEF Descriptions
    <3> QED
      BY <1>3, <3>1, ElementsIn
  <2>2. /\ a \in 0 .. Len(tail) /\ at[i] \in 0 .. Len(tail) /\ at[i] = a + Len(e)
        /\ \A k \in 1 .. Len(e) : tail[a + k] = e[k]
    <3>1. ens[i] = e /\ i \in 1 .. Len(ens) /\ i \in 0 .. Len(ens) /\ i - 1 \in 0 .. Len(ens)
      BY <1>1, <1>8
    <3> QED
      BY <1>7, <3>1 DEF Lie, LieUpTo
  <2>3. /\ base \in Nat /\ base + 4 <= Len(d) /\ base = 3 + (i - 1) * 4
        /\ d[base + 3] = (N - (i - 1)) * 4 + a /\ d[base + 4] = 7 + Len(n)
    <3>1. base = 3 + (i - 1) * 4 /\ base \in Nat /\ base + 4 <= 3 + N * 4
      BY <1>1 DEF Base, FormatHead
    <3>2. base = FormatHead + (i - 1) * 4
      BY DEF Base
    <3> HIDE DEF base
    <3>3. \A k \in 1 .. 4 : d[base + k] = es[i][k]
      BY <1>11, <1>13, <3>2 DEF Describes
    <3>4. d[base + 3] = es[i][3] /\ d[base + 4] = es[i][4]
      <4>1. 3 \in 1 .. 4 /\ 4 \in 1 .. 4
        OBVIOUS
      <4> QED
        BY <3>3, <4>1
    <3>5. base + 4 <= Len(d)
      <4> DEFINE r == 3 + N * 4
      <4>1. r = h /\ base + 4 <= r
        BY <3>1 DEF h
      <4> HIDE DEF r
      <4> QED
        BY <1>14, <1>15, <3>1, <4>1
    <3> QED
      BY <1>10, <3>1, <3>4, <3>5
  <2> HIDE DEF n, e, a, base
  <2>4. E \in Nat /\ E + Len(e) <= Len(d) /\ \A k \in 1 .. Len(e) : d[E + k] = e[k]
    <3>1. E \in Nat /\ E + Len(e) <= Len(d)
      BY <1>14, <1>15, <2>1, <2>2
    <3>2. ASSUME NEW k \in 1 .. Len(e) PROVE d[E + k] = e[k]
      <4>1. a + k \in 1 .. Len(tail) /\ E + k = h + (a + k)
        BY <1>14, <1>15, <2>1, <2>2
      <4> QED
        BY <1>15, <2>2, <4>1
    <3> QED
      BY <3>1, <3>2
  <2>5. base + d[base + 3] = E
    <3> DEFINE p == i - 1
    <3>1. p \in Nat /\ N - p \in Nat /\ a \in Nat
      BY <1>1, <1>15, <2>2
    <3>2. 3 + p * 4 + ((N - p) * 4 + a) = 3 + N * 4 + a
      <4> HIDE DEF p
      <4> QED
        BY <1>1, <3>1
    <3> HIDE DEF p
    <3> QED
      BY <2>3, <3>2 DEF p, h
  <2> HIDE DEF E
  <2>6. Entries(d, E, n)
    BY <1>13, <2>1, <2>4, EntriesCopied
  <2>7. SuperName(d, base) = n
    BY <1>13, <2>1, <2>3, <2>4, <2>5, <2>6, SuperNameRead
  <2> QED
    BY <2>7 DEF n, base
<1>17. Describing(es, fields, 4)
  BY <1>10, <1>11 DEF Describing
<1>18. FieldsOf(d, FALSE) = [ok |-> TRUE, fields |-> fields]
  <2>1. FALSE \in BOOLEAN /\ 4 = (IF FALSE THEN PlainCells ELSE SuperCells)
    BY DEF SuperCells
  <2>2. \A i \in 1 .. Len(fields) :
           (IF FALSE THEN PlainName(d, Base(i, 4)) ELSE SuperName(d, Base(i, 4))) = fields[i].name
    BY <1>16
  <2> QED
    BY <1>13, <1>17, <2>1, <2>2, FieldsRead
<1>19. d # << >>
  <2>1. h >= 3
    BY <1>1 DEF h
  <2>2. Len(d) # 0
    BY <1>14, <1>15, <2>1
  <2> QED
    BY <2>2
<1> QED
  BY <1>2, <1>13, <1>18, <1>19

LEMMA FormatParamsRead ==
  ASSUME NEW fields \in Seq(Descriptions), NEW plain \in {ExtendedFormat, ExtendedParmFormat},
         NEW super \in {SuperExtFormat, SuperExtParmFormat}, NEW p \in FormatParams(fields, plain, super)
  PROVE  p \in ParamsOf(Nat) /\ p.cp \in {plain, super} /\ p.data # << >> /\ ParseFormat(p).fields = fields
<1>1. /\ plain \in Nat /\ super \in Nat
      /\ plain \in {ExtendedFormat, ExtendedParmFormat} /\ ~(super \in {ExtendedFormat, ExtendedParmFormat})
  BY DEF ExtendedFormat, ExtendedParmFormat, SuperExtFormat, SuperExtParmFormat
<1>2. CASE p = Param(super, SuperFormat(fields))
  <2>1. p.cp = super /\ p.data = SuperFormat(fields) /\ p = [cp |-> super, data |-> SuperFormat(fields)]
    BY <1>2 DEF Param
  <2>2. (p.cp \in {ExtendedFormat, ExtendedParmFormat}) = FALSE
    BY <1>1, <2>1
  <2>3. ParseFormat(p) = FieldsOf(SuperFormat(fields), FALSE)
    BY <2>1, <2>2, Zenon DEF ParseFormat
  <2> DEFINE d == SuperFormat(fields)
  <2>4. d \in Seq(Nat) /\ d # << >> /\ ParseFormat(p).fields = fields
    <3>1. fields \in Seq(Descriptions)
      OBVIOUS
    <3>2. d \in Seq(Nat) /\ d # << >> /\ FieldsOf(d, FALSE) = [ok |-> TRUE, fields |-> fields]
      BY ONLY <3>1, SuperRead
    <3>3. ParseFormat(p) = [ok |-> TRUE, fields |-> fields]
      BY <2>3, <3>2
    <3> QED
      BY ONLY <3>2, <3>3
  <2> HIDE DEF d
  <2>5. p = [cp |-> super, data |-> d]
    BY <2>1 DEF d
  <2>6. p \in ParamsOf(Nat) /\ p.cp = super /\ p.data # << >>
    BY <1>1, <2>4, <2>5 DEF ParamsOf
  <2> QED
    BY <2>4, <2>6
<1>3. CASE p = Param(plain, PlainFormat(fields)) /\ \A i \in DOMAIN fields : Len(fields[i].name) <= NameRoom
  <2>1. p.cp = plain /\ p.data = PlainFormat(fields) /\ p = [cp |-> plain, data |-> PlainFormat(fields)]
    BY <1>3 DEF Param
  <2>2. (p.cp \in {ExtendedFormat, ExtendedParmFormat}) = TRUE
    BY <1>1, <2>1
  <2>3. ParseFormat(p) = FieldsOf(PlainFormat(fields), TRUE)
    BY <2>1, <2>2, Zenon DEF ParseFormat
  <2>4. \A i \in 1 .. Len(fields) : Len(fields[i].name) <= NameRoom
    BY <1>3
  <2> DEFINE d == PlainFormat(fields)
  <2>5. d \in Seq(Nat) /\ d # << >> /\ ParseFormat(p).fields = fields
    <3>1. fields \in Seq(Descriptions)
      OBVIOUS
    <3>2. d \in Seq(Nat) /\ d # << >> /\ FieldsOf(d, TRUE) = [ok |-> TRUE, fields |-> fields]
      BY ONLY <2>4, <3>1, PlainRead
    <3>3. ParseFormat(p) = [ok |-> TRUE, fields |-> fields]
      BY <2>3, <3>2
    <3> QED
      BY ONLY <3>2, <3>3
  <2> HIDE DEF d
  <2>6. p = [cp |-> plain, data |-> d]
    BY <2>1 DEF d
  <2>7. p \in ParamsOf(Nat) /\ p.cp = plain /\ p.data # << >>
    BY <1>1, <2>5, <2>6 DEF ParamsOf
  <2> QED
    BY <2>5, <2>7
<1> QED
  BY <1>2, <1>3, Zenon DEF FormatParams

\* What parseReply has after each parameter.
SoFar(F, B) == [ok : BOOLEAN, columns : F, markers : F, data : B]
Readings(f, ps, F, B) ==
  /\ \A n \in 0 .. Len(ps) : f[n] \in SoFar(F, B)
  /\ f[0] = NothingRead /\ \A n \in 1 .. Len(ps) : f[n] = ReadParam(f[n - 1], ps[n])

ColumnPoints == {ExtendedFormat, SuperExtFormat}
MarkerPoints == {ExtendedParmFormat, SuperExtParmFormat}

\* One parameter, that is not empty.
ReadsOne(acc, p, r) ==
  r.ok => /\ acc.ok /\ p.cp # OriginalFormat
          /\ r.columns = (IF p.cp \in ColumnPoints THEN ParseFormat(p).fields ELSE acc.columns)
          /\ r.markers = (IF p.cp \in MarkerPoints THEN ParseFormat(p).fields ELSE acc.markers)
          /\ r.data = (IF p.cp = ExtendedData THEN <<ParseData(p.data)>> ELSE acc.data)
          /\ p.cp = ExtendedData => ParseData(p.data).ok

LEMMA OneRead ==
  ASSUME NEW F, NEW B, NEW acc \in SoFar(F, B), NEW p,
         ParseFormat(p).fields \in F, <<ParseData(p.data)>> \in B
  PROVE  ReadParam(acc, p) \in SoFar(F, B) /\ (p.data # << >> => ReadsOne(acc, p, ReadParam(acc, p)))
<1> DEFINE r == ReadParam(acc, p)
           format == ParseFormat(p)
           parsed == ParseData(p.data)
<1>1. format.ok \in BOOLEAN
  <2>1. \A d : \A plain : FieldsOf(d, plain).ok \in BOOLEAN
    <3> SUFFICES ASSUME NEW d, NEW plain PROVE FieldsOf(d, plain).ok \in BOOLEAN
      OBVIOUS
    <3> DEFINE cells == IF plain THEN PlainCells ELSE SuperCells
               Name(base) == IF plain THEN PlainName(d, base) ELSE SuperName(d, base)
               fields == [i \in 1 .. d[2] |-> LET base == FormatHead + (i - 1) * cells IN
                                              Column(d[base + 1], d[base + 2], Name(base))]
    <3>1. \/ FieldsOf(d, plain) = [ok |-> FALSE, fields |-> << >>]
          \/ FieldsOf(d, plain) = [ok |-> TRUE, fields |-> fields]
      BY Zenon DEF FieldsOf
    <3> DEFINE found == FieldsOf(d, plain)
    <3>2. found = [ok |-> FALSE, fields |-> << >>] \/ found = [ok |-> TRUE, fields |-> fields]
      BY <3>1
    <3> HIDE DEF fields, found
    <3>3. found.ok = FALSE \/ found.ok = TRUE
      BY <3>2
    <3>4. found.ok \in BOOLEAN
      BY <3>3, Zenon
    <3> QED
      BY <3>4 DEF found
  <2> QED
    BY <2>1, Zenon DEF ParseFormat
<1>2. parsed.ok \in BOOLEAN
  <2> DEFINE d == p.data
  <2>1. \/ parsed = [ok |-> FALSE]
        \/ parsed = [ok |-> TRUE, raw |-> d, rows |-> d[2], columns |-> d[3], indicator |-> d[4], size |-> d[5]]
    BY Zenon DEF ParseData
  <2> HIDE DEF parsed, d
  <2>2. parsed.ok = FALSE \/ parsed.ok = TRUE
    BY <2>1
  <2> QED
    BY <2>2, Zenon
<1>3. /\ acc = [ok |-> acc.ok, columns |-> acc.columns, markers |-> acc.markers, data |-> acc.data]
      /\ acc.ok \in BOOLEAN /\ acc.columns \in F /\ acc.markers \in F /\ acc.data \in B
  BY DEF SoFar
<1>4. /\ ExtendedFormat = 14348 /\ ExtendedParmFormat = 14349 /\ ExtendedData = 14350
      /\ SuperExtFormat = 14354 /\ SuperExtParmFormat = 14355 /\ OriginalFormat = 14341
  BY DEF ExtendedFormat, ExtendedParmFormat, ExtendedData, SuperExtFormat, SuperExtParmFormat, OriginalFormat
<1>5. r = IF ~acc.ok \/ p.data = << >> THEN acc
          ELSE CASE p.cp \in ColumnPoints -> [acc EXCEPT !.ok = format.ok, !.columns = format.fields]
                 [] p.cp \in MarkerPoints -> [acc EXCEPT !.ok = format.ok, !.markers = format.fields]
                 [] p.cp = ExtendedData -> [acc EXCEPT !.ok = parsed.ok, !.data = <<parsed>>]
                 [] p.cp = OriginalFormat -> [acc EXCEPT !.ok = FALSE]
                 [] OTHER -> acc
  BY Zenon DEF ReadParam, ColumnPoints, MarkerPoints
<1>6. format.fields \in F /\ <<parsed>> \in B
  OBVIOUS
<1> HIDE DEF r, format, parsed
<1>7. CASE ~acc.ok \/ p.data = << >>
  <2>1. r = acc
    BY <1>5, <1>7
  <2> QED
    BY <1>7, <2>1 DEF ReadsOne, r
<1>8. CASE acc.ok /\ p.data # << >>
  <2>1. CASE p.cp \in ColumnPoints
    <3>2. p.cp \notin MarkerPoints /\ p.cp # ExtendedData /\ p.cp # OriginalFormat
      BY <1>4, <2>1 DEF ColumnPoints, MarkerPoints
    <3>1. r = [ok |-> format.ok, columns |-> format.fields, markers |-> acc.markers, data |-> acc.data]
      BY <1>3, <1>5, <1>8, <2>1, <3>2
    <3>3. r \in SoFar(F, B)
      BY <1>1, <1>3, <1>6, <3>1 DEF SoFar
    <3> QED
      BY <1>8, <2>1, <3>1, <3>2, <3>3 DEF ReadsOne, r, format
  <2>2. CASE p.cp \in MarkerPoints
    <3>1. p.cp \notin ColumnPoints /\ p.cp # ExtendedData /\ p.cp # OriginalFormat
      BY <1>4, <2>2 DEF ColumnPoints, MarkerPoints
    <3>2. r = [ok |-> format.ok, columns |-> acc.columns, markers |-> format.fields, data |-> acc.data]
      BY <1>3, <1>5, <1>8, <2>2, <3>1
    <3>3. r \in SoFar(F, B)
      BY <1>1, <1>3, <1>6, <3>2 DEF SoFar
    <3> QED
      BY <1>8, <2>2, <3>1, <3>2, <3>3 DEF ReadsOne, r, format
  <2>3. CASE p.cp = ExtendedData
    <3>1. p.cp \notin ColumnPoints /\ p.cp \notin MarkerPoints /\ p.cp # OriginalFormat
      BY <1>4, <2>3 DEF ColumnPoints, MarkerPoints
    <3>2. r = [ok |-> parsed.ok, columns |-> acc.columns, markers |-> acc.markers, data |-> <<parsed>>]
      BY <1>3, <1>5, <1>8, <2>3, <3>1
    <3>3. r \in SoFar(F, B)
      BY <1>2, <1>3, <1>6, <3>2 DEF SoFar
    <3> QED
      BY <1>8, <2>3, <3>1, <3>2, <3>3 DEF ReadsOne, r, parsed
  <2>4. CASE p.cp = OriginalFormat
    <3>1. p.cp \notin ColumnPoints /\ p.cp \notin MarkerPoints /\ p.cp # ExtendedData
      BY <1>4, <2>4 DEF ColumnPoints, MarkerPoints
    <3>2. r = [ok |-> FALSE, columns |-> acc.columns, markers |-> acc.markers, data |-> acc.data]
      BY <1>3, <1>5, <1>8, <2>4, <3>1
    <3>3. r \in SoFar(F, B) /\ r.ok = FALSE
      BY <1>3, <3>2 DEF SoFar
    <3> QED
      BY <3>3 DEF ReadsOne, r
  <2>5. CASE p.cp \notin ColumnPoints \union MarkerPoints \union {ExtendedData, OriginalFormat}
    <3>1. r = acc
      BY <1>5, <1>8, <2>5
    <3> QED
      BY <1>8, <2>5, <3>1 DEF ReadsOne, r
  <2> QED
    BY <2>1, <2>2, <2>3, <2>4, <2>5
<1> QED
  BY <1>7, <1>8

LEMMA ReplyReadings ==
  ASSUME NEW V, NEW ps \in Seq(ParamsOf(V)), NEW body, DecodeParams(body).ok, DecodeParams(body).params = ps
  PROVE  \E f, F, B : Readings(f, ps, F, B) /\ ParseReply(body) = f[Len(ps)]
<1> DEFINE N == Len(ps)
           F == {<< >>} \union {ParseFormat(ps[n]).fields : n \in 1 .. N}
           B == {NoData} \union {<<ParseData(ps[n].data)>> : n \in 1 .. N}
           X == SoFar(F, B)
           Body(f) == [n \in 0 .. N |-> IF n = 0 THEN NothingRead ELSE ReadParam(f[n - 1], ps[n])]
           g == CHOOSE f : f = Body(f)
           step == [n \in 1 .. N |-> [x \in X |-> ReadParam(x, ps[n])]]
<1>1. N \in Nat
  OBVIOUS
<1>2. ParseReply(body) = g[N]
  BY DEF ParseReply
<1>3. NothingRead \in X
  BY DEF NothingRead, SoFar
<1>4. \A n \in 1 .. N : ParseFormat(ps[n]).fields \in F /\ <<ParseData(ps[n].data)>> \in B
  OBVIOUS
<1> HIDE DEF F, B, g, Body, N
<1>5. \A n \in 1 .. N : \A x \in X : ReadParam(x, ps[n]) \in X
  BY <1>4, OneRead
<1> HIDE DEF X
<1>6. step \in [1 .. N -> [X -> X]] /\ \A n \in 1 .. N : \A x \in X : step[n][x] = ReadParam(x, ps[n])
  BY <1>5
<1> HIDE DEF step
<1>7. PICK h : Iterates(h, N, X, NothingRead, step)
  BY <1>1, <1>3, <1>6, RecursionDefines
<1>8. /\ \A n \in 0 .. N : h[n] \in X
      /\ h[0] = NothingRead /\ \A n \in 1 .. N : h[n] = ReadParam(h[n - 1], ps[n])
  <2>1. \A n \in 1 .. N : n - 1 \in 0 .. N
    BY <1>1
  <2> QED
    BY <1>6, <1>7, <2>1 DEF Iterates
<1>9. \E f : f = Body(f)
  <2> DEFINE f == [n \in 0 .. N |-> h[n]]
  <2>1. \A n \in 0 .. N : f[n] = IF n = 0 THEN NothingRead ELSE ReadParam(f[n - 1], ps[n])
    <3>1. \A n \in 0 .. N : n # 0 => n \in 1 .. N /\ n - 1 \in 0 .. N
      BY <1>1
    <3>2. \A n \in 0 .. N : f[n] = h[n]
      OBVIOUS
    <3> HIDE DEF f
    <3> QED
      BY <1>8, <3>1, <3>2
  <2>2. f = [n \in 0 .. N |-> f[n]]
    OBVIOUS
  <2> HIDE DEF f
  <2>3. f = Body(f)
    BY <2>1, <2>2 DEF Body
  <2> QED
    BY <2>3
<1>10. g = Body(g)
  BY <1>9 DEF g
<1>11. \A n \in 0 .. N : g[n] = IF n = 0 THEN NothingRead ELSE ReadParam(g[n - 1], ps[n])
  <2>1. PICK f : f = g /\ g = Body(f)
    BY <1>10
  <2> QED
    BY <2>1 DEF Body
<1> DEFINE S == {n \in 0 .. N : g[n] = h[n]}
<1>12. 0 \in S /\ \A n \in 1 .. N : n - 1 \in S => n \in S
  <2>1. 0 \in 0 .. N /\ \A n \in 1 .. N : n \in 0 .. N /\ n # 0
    BY <1>1
  <2> QED
    BY <1>8, <1>11, <2>1
<1> HIDE DEF S
<1>13. \A n \in 0 .. N : n \in S
  BY <1>1, <1>12, CountingUp
<1>14. ParseReply(body) = h[N]
  BY <1>1, <1>2, <1>13 DEF S
<1>15. Readings(h, ps, F, B)
  BY <1>8 DEF Readings, N, X
<1> QED
  BY <1>14, <1>15 DEF N

\* What a reply says of columns, markers and rows.
Saying(p, C, M, B) ==
  /\ p.data # << >>
  /\ p.cp \in ColumnPoints => ParseFormat(p).fields = C
  /\ p.cp \in MarkerPoints => ParseFormat(p).fields = M
  /\ p.cp = ExtendedData => <<ParseData(p.data)>> = B

Heard(r, ps, n, C, M, B) ==
  r.ok => /\ \A i \in 1 .. n : ps[i].cp # OriginalFormat
          /\ \A i \in 1 .. n : ps[i].cp = ExtendedData => ParseData(ps[i].data).ok
          /\ (\E i \in 1 .. n : ps[i].cp \in ColumnPoints) => r.columns = C
          /\ (\E i \in 1 .. n : ps[i].cp \in MarkerPoints) => r.markers = M
          /\ (\E i \in 1 .. n : ps[i].cp = ExtendedData) => r.data = B
          /\ (\A i \in 1 .. n : ps[i].cp # ExtendedData) => r.data = NoData

LEMMA ReplyHeard ==
  ASSUME NEW V, NEW ps \in Seq(ParamsOf(V)), NEW body, DecodeParams(body).ok, DecodeParams(body).params = ps,
         NEW C, NEW M, NEW D, \A i \in 1 .. Len(ps) : Saying(ps[i], C, M, D)
  PROVE  Heard(ParseReply(body), ps, Len(ps), C, M, D)
<1> DEFINE N == Len(ps)
<1>1. N \in Nat
  OBVIOUS
<1>2. PICK f, F, B : Readings(f, ps, F, B) /\ ParseReply(body) = f[N]
  BY ReplyReadings
<1>3. /\ \A n \in 0 .. N : f[n] \in SoFar(F, B)
      /\ f[0] = NothingRead /\ \A n \in 1 .. N : f[n] = ReadParam(f[n - 1], ps[n])
  BY <1>2 DEF Readings
<1> DEFINE S == {n \in 0 .. N : Heard(f[n], ps, n, C, M, D)}
<1>4. 0 \in S
  <2>1. 0 \in 0 .. N /\ 1 .. 0 = {}
    BY <1>1
  <2>2. f[0].data = NoData
    BY <1>3 DEF NothingRead
  <2> QED
    BY <2>1, <2>2 DEF Heard
<1>5. ASSUME NEW n \in 1 .. N, n - 1 \in S PROVE n \in S
  <2> DEFINE acc == f[n - 1]
             r == f[n]
             p == ps[n]
             m == n - 1
  <2>1. n \in 0 .. N /\ m \in 0 .. N /\ \A i \in 1 .. n : i = n \/ i \in 1 .. m
    BY <1>1
  <2>2. \A i \in 1 .. m : i \in 1 .. n
    BY <1>1
  <2>3. Heard(acc, ps, m, C, M, D)
    BY <1>5
  <2>4. ReadsOne(acc, p, r) /\ Saying(p, C, M, D)
    <3>1. acc \in SoFar(F, B) /\ r = ReadParam(acc, p) /\ Saying(p, C, M, D)
      BY <1>3, <2>1
    <3> HIDE DEF acc, r, p
    <3>2. p.data # << >>
      BY <3>1 DEF Saying
    <3> DEFINE F1 == {ParseFormat(p).fields} \union F
               B1 == {<<ParseData(p.data)>>} \union B
    <3>3. acc \in SoFar(F1, B1) /\ ParseFormat(p).fields \in F1 /\ <<ParseData(p.data)>> \in B1
      BY <3>1 DEF SoFar
    <3> HIDE DEF F1, B1
    <3> QED
      BY <3>1, <3>2, <3>3, OneRead
  <2>5. n \in 1 .. n
    BY <1>1
  <2> HIDE DEF acc, r, m
  <2>6. Heard(r, ps, n, C, M, D)
    <3> SUFFICES ASSUME r.ok
                 PROVE  /\ \A i \in 1 .. n : ps[i].cp # OriginalFormat
                        /\ \A i \in 1 .. n : ps[i].cp = ExtendedData => ParseData(ps[i].data).ok
                        /\ (\E i \in 1 .. n : ps[i].cp \in ColumnPoints) => r.columns = C
                        /\ (\E i \in 1 .. n : ps[i].cp \in MarkerPoints) => r.markers = M
                        /\ (\E i \in 1 .. n : ps[i].cp = ExtendedData) => r.data = D
                        /\ (\A i \in 1 .. n : ps[i].cp # ExtendedData) => r.data = NoData
      BY DEF Heard
    <3>1. /\ acc.ok /\ p.cp # OriginalFormat
          /\ r.columns = (IF p.cp \in ColumnPoints THEN C ELSE acc.columns)
          /\ r.markers = (IF p.cp \in MarkerPoints THEN M ELSE acc.markers)
          /\ r.data = (IF p.cp = ExtendedData THEN D ELSE acc.data)
          /\ p.cp = ExtendedData => ParseData(p.data).ok
      BY <2>4 DEF ReadsOne, Saying
    <3>2. /\ \A i \in 1 .. m : ps[i].cp # OriginalFormat
          /\ \A i \in 1 .. m : ps[i].cp = ExtendedData => ParseData(ps[i].data).ok
          /\ (\E i \in 1 .. m : ps[i].cp \in ColumnPoints) => acc.columns = C
          /\ (\E i \in 1 .. m : ps[i].cp \in MarkerPoints) => acc.markers = M
          /\ (\E i \in 1 .. m : ps[i].cp = ExtendedData) => acc.data = D
          /\ (\A i \in 1 .. m : ps[i].cp # ExtendedData) => acc.data = NoData
      BY <2>3, <3>1 DEF Heard
    <3>3. \A i \in 1 .. n : ps[i].cp # OriginalFormat
      BY <2>1, <3>1, <3>2
    <3>4. (\E i \in 1 .. n : ps[i].cp \in ColumnPoints) => r.columns = C
      BY <2>1, <3>1, <3>2
    <3>5. (\E i \in 1 .. n : ps[i].cp \in MarkerPoints) => r.markers = M
      BY <2>1, <3>1, <3>2
    <3>6. (\E i \in 1 .. n : ps[i].cp = ExtendedData) => r.data = D
      BY <2>1, <3>1, <3>2
    <3>7. (\A i \in 1 .. n : ps[i].cp # ExtendedData) => r.data = NoData
      BY <2>2, <2>5, <3>1, <3>2
    <3>8. \A i \in 1 .. n : ps[i].cp = ExtendedData => ParseData(ps[i].data).ok
      BY <2>1, <3>1, <3>2
    <3> QED
      BY <3>3, <3>4, <3>5, <3>6, <3>7, <3>8
  <2> QED
    BY <2>1, <2>6 DEF r
<1> HIDE DEF S
<1>6. \A n \in 0 .. N : n \in S
  BY <1>1, <1>4, <1>5, CountingUp
<1>7. Heard(f[N], ps, N, C, M, D)
  BY <1>1, <1>6 DEF S
<1> QED
  BY <1>2, <1>7

\* Parameters without their last cell are refused.
LEMMA CutRefused ==
  ASSUME NEW V, Nat \subseteq V, NEW ps \in Seq(ParamsOf(V)), Len(ps) > 0
  PROVE  ~DecodeParams(Front(EncodeParams(ps))).ok
<1> DEFINE whole == EncodeParams(ps)
           N == Len(ps)
           L == Len(whole)
           n == L - 1
<1>1. whole \in Seq(V) /\ \E at : LaidOut(whole, ps, at)
  BY ParamsLaid
<1>2. Front(whole) = SubSeq(whole, 1, n)
  BY DEF Front
<1>3. N \in Nat /\ N > 0 /\ \A k \in 1 .. N : Len(ps[k].data) \in Nat
  <2>1. \A k \in 1 .. N : ps[k] \in ParamsOf(V)
    OBVIOUS
  <2> QED
    BY <2>1 DEF ParamsOf
<1> HIDE DEF whole
<1>4. PICK at : LaidOut(whole, ps, at)
  BY <1>1
<1>5. L \in Nat
  BY <1>1
<1> HIDE DEF L, N
<1>6. /\ at[0] = 0 /\ at[N] = L /\ \A k \in 0 .. N : at[k] \in 0 .. L
      /\ \A k \in 1 .. N : at[k] = at[k - 1] + 2 + Len(ps[k].data)
  BY <1>4 DEF LaidOut, L, N
<1>7. ASSUME NEW k \in 1 .. N PROVE at[k] >= at[k - 1] + 2
  <2> DEFINE l == Len(ps[k].data)
  <2>1. l \in Nat /\ at[k] = at[k - 1] + 2 + l /\ at[k - 1] \in Nat
    <3>1. k - 1 \in 0 .. N
      BY <1>3
    <3> QED
      BY <1>3, <1>5, <1>6, <3>1
  <2> HIDE DEF l
  <2> QED
    BY <2>1
<1>8. n \in Nat /\ n \in 0 .. L
  <2>1. N \in 1 .. N /\ N - 1 \in 0 .. N
    BY <1>3
  <2>2. L >= 2
    BY <1>5, <1>6, <1>7, <2>1
  <2> QED
    BY <1>5, <2>2
<1>9. \A k \in 0 .. N : at[k] # n
  <2> SUFFICES ASSUME NEW k \in 0 .. N, at[k] = n PROVE FALSE
    OBVIOUS
  <2>1. CASE k = N
    BY <1>5, <1>6, <2>1
  <2>2. CASE k # N
    <3> DEFINE j == k + 1
    <3>1. j \in 1 .. N /\ j \in 0 .. N /\ j - 1 = k
      BY <1>3, <2>2
    <3> HIDE DEF j
    <3>2. at[j] >= n + 2 /\ at[j] \in 0 .. L
      BY <1>6, <1>7, <3>1
    <3> QED
      BY <1>5, <3>2
  <2> QED
    BY <2>1, <2>2
<1> DEFINE r == DecodeParams(SubSeq(whole, 1, n))
<1>10. EndsAtOne(r, ps, at, n)
  BY <1>1, <1>4, <1>8, BeginningDecoded DEF L
<1> HIDE DEF r
<1>11. ~r.ok
  BY <1>9, <1>10 DEF EndsAtOne, N
<1> QED
  BY <1>2, <1>11 DEF r, whole

\* What the reply with these parameters is read as, if it is whole.
SaidBy(r, A, C, M, D) ==
  r.ok => /\ \A p \in A : p.cp # OriginalFormat
          /\ \A p \in A : p.cp = ExtendedData => ParseData(p.data).ok
          /\ (\E p \in A : p.cp \in ColumnPoints) => r.columns = C
          /\ (\E p \in A : p.cp \in MarkerPoints) => r.markers = M
          /\ (\E p \in A : p.cp = ExtendedData) => r.data = D
          /\ (\A p \in A : p.cp # ExtendedData) => r.data = NoData

LEMMA SentRead ==
  ASSUME NEW V, Nat \subseteq V, NEW A \in SUBSET ParamsOf(V), IsFiniteSet(A), OneEach(A),
         \A p \in A : p.cp # MessageText, NEW C, NEW M, NEW D, \A p \in A : Saying(p, C, M, D), Sends(A)
  PROVE  \E body : answer' = <<body>> /\ SaidBy(ParseReply(body), A, C, M, D)
<1> DEFINE msg == Param(MessageText, <<37>>)
           B == A \union {msg}
           Ps == ParamsOf(V)
<1>1. PICK order \in SetToSeqs(B) : answer' \in {<<EncodeParams(order)>>, <<Front(EncodeParams(order))>>}
  BY DEF Sends
<1>2. msg = [cp |-> MessageText, data |-> <<37>>] /\ MessageText \in V /\ 37 \in V
  BY DEF Param, MessageText
<1>3. msg \in Ps /\ msg.cp = MessageText /\ msg.data # << >>
  <2> DEFINE d == <<37>>
  <2>1. d \in Seq(V) /\ d # << >>
    BY <1>2
  <2>2. msg = [cp |-> MessageText, data |-> d]
    BY <1>2
  <2> HIDE DEF d, msg
  <2> QED
    BY <1>2, <2>1, <2>2 DEF ParamsOf
<1>4. Saying(msg, C, M, D) /\ msg.cp # ExtendedData /\ msg.cp # OriginalFormat
  BY <1>3 DEF Saying, MessageText, ColumnPoints, MarkerPoints, ExtendedData, OriginalFormat,
              ExtendedFormat, SuperExtFormat, ExtendedParmFormat, SuperExtParmFormat
<1> HIDE DEF msg, Ps
<1>5. order \in Seq(Ps) /\ Arranged(order, B, {})
  <2>1. order \in InAnyOrder(B, {})
    <3>1. {} \in SUBSET {} /\ B \union {} = B
      OBVIOUS
    <3> QED
      BY <1>1, <3>1 DEF InAnyOrder
  <2>2. IsFiniteSet(B) /\ IsFiniteSet({}) /\ B \union {} \subseteq Ps
    <3>1. IsFiniteSet({msg}) /\ IsFiniteSet({})
      BY FS_Singleton, FS_EmptySet
    <3>2. IsFiniteSet(B)
      BY <3>1, FS_Union
    <3> QED
      BY <1>3, <3>1, <3>2 DEF Ps
  <2>3. OneEach(B \union {})
    BY <1>3 DEF OneEach
  <2> HIDE DEF B
  <2> QED
    BY <2>1, <2>2, <2>3, AnyOrder
<1>6. /\ \A i \in 1 .. Len(order) : order[i] \in B
      /\ \A p \in B : \E i \in 1 .. Len(order) : order[i] = p
  BY <1>5 DEF Arranged
<1>7. CASE answer' = <<EncodeParams(order)>>
  <2> DEFINE body == EncodeParams(order)
             r == ParseReply(body)
  <2>1. DecodeParams(body).ok /\ DecodeParams(body).params = order
    BY <1>5, WholeDecoded DEF Ps
  <2>2. \A i \in 1 .. Len(order) : Saying(order[i], C, M, D)
    BY <1>4, <1>6
  <2> HIDE DEF body
  <2>3. Heard(r, order, Len(order), C, M, D)
    BY <1>5, <2>1, <2>2, ReplyHeard DEF Ps
  <2> HIDE DEF r
  <2>4. SaidBy(r, A, C, M, D)
    <3>1. \A p \in A : \E i \in 1 .. Len(order) : order[i] = p
      BY <1>6
    <3>2. \A i \in 1 .. Len(order) : order[i] \in A \/ order[i] = msg
      BY <1>6
    <3> SUFFICES ASSUME r.ok
                 PROVE  /\ \A p \in A : p.cp # OriginalFormat
                        /\ \A p \in A : p.cp = ExtendedData => ParseData(p.data).ok
                        /\ (\E p \in A : p.cp \in ColumnPoints) => r.columns = C
                        /\ (\E p \in A : p.cp \in MarkerPoints) => r.markers = M
                        /\ (\E p \in A : p.cp = ExtendedData) => r.data = D
                        /\ (\A p \in A : p.cp # ExtendedData) => r.data = NoData
      BY DEF SaidBy
    <3> DEFINE n == Len(order)
    <3>3. /\ \A i \in 1 .. n : order[i].cp # OriginalFormat
          /\ \A i \in 1 .. n : order[i].cp = ExtendedData => ParseData(order[i].data).ok
          /\ (\E i \in 1 .. n : order[i].cp \in ColumnPoints) => r.columns = C
          /\ (\E i \in 1 .. n : order[i].cp \in MarkerPoints) => r.markers = M
          /\ (\E i \in 1 .. n : order[i].cp = ExtendedData) => r.data = D
          /\ (\A i \in 1 .. n : order[i].cp # ExtendedData) => r.data = NoData
      BY <2>3 DEF Heard
    <3>4. (\A p \in A : p.cp # ExtendedData) => \A i \in 1 .. n : order[i].cp # ExtendedData
      BY <1>4, <3>2
    <3> HIDE DEF n
    <3> QED
      BY <3>1, <3>3, <3>4 DEF n
  <2> QED
    BY <1>7, <2>4 DEF r, body
<1>8. CASE answer' = <<Front(EncodeParams(order))>>
  <2> DEFINE body == Front(EncodeParams(order))
  <2>1. Len(order) > 0
    <3>1. \E i \in 1 .. Len(order) : order[i] = msg
      BY <1>6
    <3>2. Len(order) \in Nat
      BY <1>5
    <3> QED
      BY <3>1, <3>2
  <2>2. ~DecodeParams(body).ok
    BY <1>5, <2>1, CutRefused DEF Ps
  <2> HIDE DEF body
  <2>3. ParseReply(body) = [NothingRead EXCEPT !.ok = FALSE]
    BY <2>2 DEF ParseReply
  <2> DEFINE r == ParseReply(body)
  <2>4. r = [ok |-> FALSE, columns |-> << >>, markers |-> << >>, data |-> NoData]
    BY <2>3 DEF NothingRead
  <2> HIDE DEF r
  <2>5. ~r.ok
    BY <2>4
  <2>6. SaidBy(r, A, C, M, D)
    BY <2>5 DEF SaidBy
  <2> QED
    BY <1>8, <2>6 DEF r, body
<1> QED
  BY <1>1, <1>7, <1>8

\* The cells of the fields of a row, each at its place.
RowLaid(w, es, place) ==
  /\ Len(w) = place[Len(es)] /\ Len(w) \in Nat
  /\ \A i \in 1 .. Len(es) :
        /\ place[i - 1] \in Nat /\ place[i - 1] + Len(es[i]) <= Len(w)
        /\ \A k \in 1 .. Len(es[i]) : w[place[i - 1] + k] = es[i][k]

LEMMA CellsLaid ==
  ASSUME NEW S, NEW es \in Seq(Seq(S)), NEW fields \in Seq(Descriptions), NEW place, Places(place, fields),
         Len(es) = Len(fields), \A i \in 1 .. Len(es) : Len(es[i]) = fields[i].length
  PROVE  FlattenSeq(es) \in Seq(S) /\ RowLaid(FlattenSeq(es), es, place)
<1> DEFINE N == Len(es)
           w == FlattenSeq(es)
           c == [m \in 1 .. N |-> Len(es[m])]
           X == Seq(S)
<1>1. w \in Seq(S) /\ \E at : Lie(w, es, at)
  BY Flattened
<1>2. N \in Nat /\ \A m \in 1 .. N : es[m] \in X /\ Len(es[m]) \in Nat
  <2>1. es \in Seq(X)
    OBVIOUS
  <2> HIDE DEF X
  <2>2. N \in Nat /\ \A m \in 1 .. N : es[m] \in X
    BY <2>1, ElementsIn
  <2>3. \A s \in X : Len(s) \in Nat
    BY DEF X
  <2> QED
    BY <2>2, <2>3
<1> HIDE DEF w, X
<1>3. PICK at : Lie(w, es, at)
  BY <1>1
<1>4. /\ at[0] = 0 /\ at[N] = Len(w) /\ \A m \in 0 .. N : at[m] \in 0 .. Len(w)
      /\ \A m \in 1 .. N : at[m] = at[m - 1] + Len(es[m]) /\ \A k \in 1 .. Len(es[m]) : w[at[m - 1] + k] = es[m][k]
  BY <1>3 DEF Lie, LieUpTo
<1>5. Len(w) \in Nat
  BY <1>1
<1>6. \A m \in 1 .. N : c[m] = Len(es[m])
  OBVIOUS
<1>7. Sums(at, N, c) /\ Sums(place, N, c) /\ at[0] = place[0]
  BY <1>4, <1>6 DEF Sums, Places
<1> HIDE DEF c, N
<1>8. SameUpTo(at, place, N)
  BY <1>2, <1>7, SameSums
<1>9. \A m \in 0 .. N : at[m] = place[m]
  BY <1>8 DEF SameUpTo
<1>10. N \in 0 .. N /\ \A i \in 1 .. N : i \in 0 .. N /\ i - 1 \in 0 .. N
  BY <1>2
<1>11. ASSUME NEW i \in 1 .. N
       PROVE  /\ place[i - 1] \in Nat /\ place[i - 1] + Len(es[i]) <= Len(w)
              /\ \A k \in 1 .. Len(es[i]) : w[place[i - 1] + k] = es[i][k]
  <2>1. at[i - 1] \in 0 .. Len(w) /\ at[i] \in 0 .. Len(w) /\ at[i] = at[i - 1] + Len(es[i]) /\ at[i - 1] = place[i - 1]
    BY <1>4, <1>9, <1>10
  <2>2. at[i - 1] \in Nat /\ at[i - 1] + Len(es[i]) <= Len(w)
    BY <1>5, <2>1
  <2>3. \A k \in 1 .. Len(es[i]) : w[at[i - 1] + k] = es[i][k]
    BY <1>4
  <2> QED
    BY <2>1, <2>2, <2>3
<1>12. RowLaid(w, es, place)
  BY <1>4, <1>5, <1>9, <1>10, <1>11 DEF RowLaid, N
<1> QED
  BY <1>1, <1>12 DEF w

AnyCell == Nat \union CellValues

\* What an argument leaves in the row.
LEMMA ValueCells ==
  ASSUME NEW f \in Descriptions, NEW value \in ValuesOf(f)
  PROVE  /\ CellsOf(f, value) \in Seq(AnyCell) /\ Len(CellsOf(f, value)) = f.length
         /\ value # Null => value = [k \in 1 .. f.length |-> CellsOf(f, value)[k]]
<1> DEFINE l == f.length
<1>1. l \in Nat
  BY DEF Descriptions
<1>2. CASE value = Null
  <2>1. CellsOf(f, value) = [k \in 1 .. l |-> 0]
    BY <1>2 DEF CellsOf
  <2> HIDE DEF l
  <2>2. [k \in 1 .. l |-> 0] \in Seq(AnyCell) /\ Len([k \in 1 .. l |-> 0]) = l
    <3>1. 0 \in AnyCell
      BY DEF AnyCell
    <3> QED
      BY <1>1, <3>1
  <2> QED
    BY <1>2, <2>1, <2>2 DEF l
<1>3. CASE value # Null
  <2>1. CellsOf(f, value) = value /\ value \in [1 .. l -> CellValues]
    BY <1>3 DEF CellsOf, ValuesOf
  <2> HIDE DEF l
  <2>2. value \in Seq(AnyCell) /\ Len(value) = l
    <3>1. CellValues \subseteq AnyCell
      BY DEF AnyCell
    <3>2. value \in [1 .. l -> AnyCell]
      BY <2>1, <3>1
    <3> QED
      BY <1>1, <3>2
  <2>3. value = [k \in 1 .. l |-> value[k]]
    BY <2>1
  <2> QED
    BY <2>1, <2>2, <2>3 DEF l
<1> QED
  BY <1>2, <1>3

\* The format the client sends for its arguments.
LEMMA ParameterFormatSays ==
  ASSUME NEW fields \in Seq(Descriptions)
  PROVE  /\ ParameterFormat(fields) # << >> /\ RecordSize(fields) \in Nat
         /\ \A i \in 1 .. Len(fields) :
               /\ ParameterFormat(fields)[FormatHead + (i - 1) * PlainCells + 1] = Nullable(fields[i].type)
               /\ ParameterFormat(fields)[FormatHead + (i - 1) * PlainCells + 2] = fields[i].length
<1> DEFINE N == Len(fields)
           X == Seq(Nat)
           size == RecordSize(fields)
           head == <<1, N, size>>
           es == [i \in 1 .. N |-> <<Nullable(fields[i].type), fields[i].length, 0, 0, 0>>]
           d == head \o FlattenSeq(es)
<1>1. N \in Nat /\ DOMAIN fields = 1 .. N /\ \A i \in 1 .. N : fields[i] \in Descriptions
  OBVIOUS
<1>2. ParameterFormat(fields) = d
  BY <1>1 DEF ParameterFormat
<1>3. size \in Nat
  <2>1. PICK place : Places(place, fields)
    BY PlacesAre
  <2>2. N \in 0 .. N
    BY <1>1
  <2> QED
    BY <2>1, <2>2 DEF Places, RecordSize
<1>4. ASSUME NEW i \in 1 .. N
      PROVE  es[i] \in X /\ Len(es[i]) = 5 /\ es[i][1] = Nullable(fields[i].type) /\ es[i][2] = fields[i].length
  <2> DEFINE ty == fields[i].type
             le == fields[i].length
             nu == Nullable(ty)
  <2>1. ty \in Nat /\ le \in Nat
    BY <1>1 DEF Descriptions
  <2> HIDE DEF ty, le
  <2>2. nu \in Nat
    BY <2>1 DEF Nullable
  <2>3. es[i] = <<nu, le, 0, 0, 0>>
    BY DEF ty, le
  <2> HIDE DEF nu, es
  <2>4. es[i] \in X /\ Len(es[i]) = 5 /\ es[i][1] = nu /\ es[i][2] = le
    BY <2>1, <2>2, <2>3
  <2> QED
    BY <2>4 DEF nu, ty, le
<1>5. es \in Seq(X) /\ Len(es) = N
  <2>1. es = [n \in 1 .. N |-> es[n]]
    OBVIOUS
  <2>2. \A n \in 1 .. N : es[n] \in X
    BY <1>4
  <2> HIDE DEF X, es, N
  <2> QED
    BY <1>1, <2>1, <2>2
<1> HIDE DEF es, size
<1>6. head \in Seq(Nat) /\ Len(head) = 3 /\ head[2] = N
  BY <1>1, <1>3
<1> HIDE DEF head
<1>7. Describes(d, es, 5) /\ Len(d) = 3 + N * 5
  <2>1. /\ \A i \in 1 .. Len(es) : Len(es[i]) = 5
        /\ 5 \in Nat /\ es \in Seq(Seq(Nat)) /\ head \in Seq(Nat) /\ Len(head) = 3 /\ head[2] = Len(es)
        /\ << >> \in Seq(Nat)
    BY <1>4, <1>5, <1>6
  <2>2. Describes(head \o FlattenSeq(es), es, 5) /\ Len(head \o FlattenSeq(es)) = 3 + Len(es) * 5
    BY ONLY <2>1, FormatLaid
  <2> QED
    BY <1>5, <2>2
<1> HIDE DEF d
<1>8. d # << >>
  <2>1. Len(d) # 0
    BY <1>1, <1>7
  <2> QED
    BY <2>1
<1>9. ASSUME NEW i \in 1 .. N
      PROVE  d[FormatHead + (i - 1) * 5 + 1] = es[i][1] /\ d[FormatHead + (i - 1) * 5 + 2] = es[i][2]
  <2>1. \A k \in 1 .. 5 : d[FormatHead + (i - 1) * 5 + k] = es[i][k]
    BY <1>5, <1>7 DEF Describes
  <2>2. 1 \in 1 .. 5 /\ 2 \in 1 .. 5
    OBVIOUS
  <2> QED
    BY <2>1, <2>2
<1>10. PlainCells = 5
  BY DEF PlainCells, NameRoom
<1> QED
  BY <1>2, <1>3, <1>4, <1>8, <1>9, <1>10 DEF size

\* The row of arguments: indicators, then cells.
DataSays(d, fields, values, place) ==
  /\ d # << >> /\ d[3] = Len(fields) /\ Len(d) \in Nat
  /\ \A i \in 1 .. Len(fields) :
        /\ d[DataHead + i] = (IF values[i] = Null THEN IsNull ELSE 0)
        /\ place[i - 1] \in Nat
        /\ \A k \in 1 .. fields[i].length :
              /\ DataHead + Len(fields) + place[i - 1] + k <= Len(d)
              /\ d[DataHead + Len(fields) + place[i - 1] + k] = CellsOf(fields[i], values[i])[k]

LEMMA ParameterDataSays ==
  ASSUME NEW fields \in Seq(Descriptions), NEW values, \A i \in 1 .. Len(fields) : values[i] \in ValuesOf(fields[i]),
         NEW place, Places(place, fields)
  PROVE  DataSays(ParameterData(fields, values), fields, values, place)
<1> DEFINE N == Len(fields)
           X == Seq(AnyCell)
           size == RecordSize(fields)
           head == <<1, 1, N, 1, size>>
           inds == [i \in 1 .. N |-> IF values[i] = Null THEN IsNull ELSE 0]
           es == [i \in 1 .. N |-> CellsOf(fields[i], values[i])]
           w == FlattenSeq(es)
           front == head \o inds
           d == front \o w
           h == 5 + N
<1>1. N \in Nat /\ DOMAIN fields = 1 .. N /\ \A i \in 1 .. N : fields[i] \in Descriptions
  OBVIOUS
<1>2. ParameterData(fields, values) = d
  BY <1>1 DEF ParameterData
<1>3. size \in Nat
  BY ParameterFormatSays
<1>4. \A i \in 1 .. N : es[i] \in X /\ Len(es[i]) = fields[i].length
  BY <1>1, ValueCells
<1>5. es \in Seq(X) /\ Len(es) = N /\ \A i \in 1 .. N : es[i] = CellsOf(fields[i], values[i])
  <2>1. es = [n \in 1 .. N |-> es[n]] /\ \A i \in 1 .. N : es[i] = CellsOf(fields[i], values[i])
    OBVIOUS
  <2>2. \A n \in 1 .. N : es[n] \in X
    BY <1>4
  <2> HIDE DEF X, es, N
  <2> QED
    BY <1>1, <2>1, <2>2
<1> HIDE DEF es, size
<1>6. head \in X /\ Len(head) = 5 /\ head[3] = N
  <2>1. Nat \subseteq AnyCell
    BY DEF AnyCell
  <2>2. head \in Seq(Nat) /\ Len(head) = 5 /\ head[3] = N
    BY <1>1, <1>3
  <2> HIDE DEF head
  <2>3. head \in Seq(AnyCell)
    BY <2>1, <2>2
  <2> QED
    BY <2>2, <2>3
<1>7. inds \in X /\ Len(inds) = N /\ \A i \in 1 .. N : inds[i] = IF values[i] = Null THEN IsNull ELSE 0
  <2>1. IsNull \in AnyCell /\ 0 \in AnyCell
    BY DEF AnyCell, IsNull
  <2> HIDE DEF N
  <2> QED
    BY <1>1, <2>1
<1> HIDE DEF head, inds
<1>8. w \in X /\ RowLaid(w, es, place)
  <2>1. es \in Seq(Seq(AnyCell)) /\ Len(es) = Len(fields) /\ \A i \in 1 .. Len(es) : Len(es[i]) = fields[i].length
    BY <1>4, <1>5
  <2> QED
    BY <2>1, CellsLaid
<1> HIDE DEF w, X
<1>9. front \in X /\ BehindHead(front, head, inds, 5)
  BY <1>6, <1>7, HeadJoined DEF X
<1> HIDE DEF front
<1>10. Len(front) = h /\ front[3] = N /\ \A i \in 1 .. N : front[5 + i] = inds[i]
  <2>1. 3 \in 1 .. 5
    OBVIOUS
  <2> QED
    BY <1>6, <1>7, <1>9, <2>1 DEF BehindHead
<1>11. d \in X /\ BehindHead(d, front, w, h)
  BY <1>8, <1>9, <1>10, HeadJoined DEF X
<1> HIDE DEF d, h
<1>12. /\ Len(d) = h + Len(w) /\ Len(w) \in Nat /\ \A i \in 1 .. h : d[i] = front[i]
       /\ \A i \in 1 .. Len(w) : d[h + i] = w[i]
  BY <1>11 DEF BehindHead
<1>13. h \in Nat /\ h = 5 + N /\ 3 \in 1 .. h /\ \A i \in 1 .. N : 5 + i \in 1 .. h
  BY <1>1 DEF h
<1>14. d[3] = N /\ Len(d) \in Nat /\ d # << >>
  <2>1. d[3] = N /\ Len(d) \in Nat /\ Len(d) # 0
    BY <1>1, <1>10, <1>12, <1>13
  <2> QED
    BY <2>1
<1>15. ASSUME NEW i \in 1 .. N
       PROVE  /\ d[5 + i] = (IF values[i] = Null THEN IsNull ELSE 0)
              /\ place[i - 1] \in Nat
              /\ \A k \in 1 .. fields[i].length :
                    /\ 5 + N + place[i - 1] + k <= Len(d)
                    /\ d[5 + N + place[i - 1] + k] = es[i][k]
  <2>1. d[5 + i] = (IF values[i] = Null THEN IsNull ELSE 0)
    BY <1>7, <1>10, <1>12, <1>13
  <2> DEFINE a == place[i - 1]
             l == fields[i].length
  <2>2. a \in Nat /\ a + l <= Len(w) /\ l \in Nat /\ \A k \in 1 .. l : w[a + k] = es[i][k]
    <3>1. l \in Nat
      BY <1>1 DEF Descriptions
    <3> QED
      BY <1>4, <1>5, <1>8, <3>1 DEF RowLaid
  <2> HIDE DEF a, l
  <2>3. ASSUME NEW k \in 1 .. l PROVE 5 + N + a + k <= Len(d) /\ d[5 + N + a + k] = es[i][k]
    <3>1. a + k \in 1 .. Len(w) /\ 5 + N + a + k = h + (a + k)
      BY <1>1, <1>12, <1>13, <2>2
    <3>2. d[h + (a + k)] = es[i][k]
      BY <1>12, <2>2, <3>1
    <3>3. h + (a + k) <= Len(d)
      BY <1>12, <1>13, <3>1
    <3> QED
      BY <3>1, <3>2, <3>3
  <2> QED
    BY <2>1, <2>2, <2>3 DEF a, l
<1>16. DataHead = 5
  BY DEF DataHead
<1>17. DataSays(d, fields, values, place)
  BY <1>5, <1>14, <1>15, <1>16 DEF DataSays, N
<1> QED
  BY <1>2, <1>17

\* What the server takes the arguments for.
TakenAs(taken, fields, values) ==
  /\ Len(taken) = Len(fields) /\ DOMAIN taken = 1 .. Len(fields)
  /\ \A i \in 1 .. Len(fields) : taken[i].cells = values[i] /\ taken[i].type = Nullable(fields[i].type)

LEMMA ArgsTaken ==
  ASSUME NEW fields \in Seq(Descriptions), NEW values, \A i \in 1 .. Len(fields) : values[i] \in ValuesOf(fields[i])
  PROVE  TakenAs(Taken(ParameterFormat(fields), ParameterData(fields, values)), fields, values)
<1> DEFINE N == Len(fields)
           format == ParameterFormat(fields)
           d == ParameterData(fields, values)
           length(i) == format[FormatHead + (i - 1) * PlainCells + 2]
           type(i) == format[FormatHead + (i - 1) * PlainCells + 1]
           Body(f) == [i \in 1 .. d[3] + 1 |-> IF i = 1 THEN DataHead + d[3] ELSE f[i - 1] + length(i - 1)]
           g == CHOOSE f : f = Body(f)
           cells(i) == IF d[DataHead + i] = IsNull THEN Null
                       ELSE [k \in 1 .. length(i) |-> IF g[i] + k <= Len(d) THEN d[g[i] + k] ELSE 0]
           taken == [i \in 1 .. d[3] |-> [type |-> type(i), cells |-> cells(i)]]
<1>1. N \in Nat /\ \A i \in 1 .. N : fields[i] \in Descriptions
  OBVIOUS
<1>2. Taken(format, d) = taken
  BY DEF Taken
<1>3. PICK place : Places(place, fields)
  BY PlacesAre
<1>4. \A i \in 1 .. N : type(i) = Nullable(fields[i].type) /\ length(i) = fields[i].length
  BY ParameterFormatSays
<1>5. DataSays(d, fields, values, place)
  BY <1>3, ParameterDataSays
<1>6. /\ d[3] = N
      /\ \A i \in 1 .. N :
            /\ d[DataHead + i] = (IF values[i] = Null THEN IsNull ELSE 0)
            /\ \A k \in 1 .. fields[i].length :
                  /\ DataHead + N + place[i - 1] + k <= Len(d)
                  /\ d[DataHead + N + place[i - 1] + k] = CellsOf(fields[i], values[i])[k]
  BY <1>5 DEF DataSays
<1>7. /\ \A m \in 0 .. N : place[m] \in Nat
      /\ place[0] = 0 /\ \A m \in 1 .. N : place[m] = place[m - 1] + fields[m].length
  BY <1>3 DEF Places
<1>8. \A i \in 1 .. N : fields[i].length \in Nat
  BY <1>1 DEF Descriptions
<1> HIDE DEF d, length, type, N, format
<1> DEFINE D == 1 .. N + 1
<1>9. \E f : f = Body(f)
  <2> DEFINE f == [k \in D |-> DataHead + N + place[k - 1]]
  <2>1. \A k \in D : f[k] = IF k = 1 THEN DataHead + N ELSE f[k - 1] + length(k - 1)
    <3> SUFFICES ASSUME NEW k \in D PROVE f[k] = IF k = 1 THEN DataHead + N ELSE f[k - 1] + length(k - 1)
      OBVIOUS
    <3>1. f[k] = DataHead + N + place[k - 1]
      OBVIOUS
    <3>2. CASE k = 1
      <4>1. place[k - 1] = 0 /\ DataHead + N \in Nat
        BY <1>1, <1>7, <3>2 DEF DataHead
      <4> QED
        BY <3>1, <3>2, <4>1
    <3>3. CASE k # 1
      <4> DEFINE j == k - 1
      <4>1. j \in 1 .. N /\ j \in D /\ j - 1 \in 0 .. N /\ j \in 0 .. N
        BY <1>1, <3>3
      <4> HIDE DEF j
      <4>2. f[j] = DataHead + N + place[j - 1]
        BY <4>1
      <4>3. place[j] = place[j - 1] + fields[j].length /\ place[j - 1] \in Nat /\ fields[j].length \in Nat
            /\ length(j) = fields[j].length
        BY <1>4, <1>7, <1>8, <4>1
      <4>4. DataHead \in Nat
        BY DEF DataHead
      <4> HIDE DEF f
      <4>5. f[k] = f[j] + length(j)
        BY <1>1, <3>1, <4>2, <4>3, <4>4 DEF j
      <4> QED
        BY <3>3, <4>5 DEF j
    <3> QED
      BY <3>2, <3>3
  <2>2. f = [k \in D |-> f[k]]
    OBVIOUS
  <2> HIDE DEF f
  <2>3. f = Body(f)
    BY <1>6, <2>1, <2>2
  <2> QED
    BY <2>3
<1> HIDE DEF cells
<1>10. g = Body(g)
  <2> HIDE DEF Body
  <2> QED
    BY <1>9
<1> HIDE DEF g
<1>11. \A k \in D : g[k] = IF k = 1 THEN DataHead + N ELSE g[k - 1] + length(k - 1)
  <2>1. PICK f : f = g /\ g = Body(f)
    BY <1>10
  <2>2. g = [k \in D |-> IF k = 1 THEN DataHead + N ELSE f[k - 1] + length(k - 1)]
    BY <1>6, <2>1
  <2>3. \A k \in D : g[k] = IF k = 1 THEN DataHead + N ELSE f[k - 1] + length(k - 1)
    BY ONLY <2>2
  <2> QED
    BY <2>1, <2>3
<1> DEFINE a == [m \in 0 .. N |-> g[m + 1]]
           b == [m \in 0 .. N |-> DataHead + N + place[m]]
           c == [m \in 1 .. N |-> fields[m].length]
<1>12. a[0] = b[0]
  <2>1. 0 \in 0 .. N /\ 0 + 1 = 1 /\ 1 \in D /\ DataHead + N \in Nat
    BY <1>1 DEF DataHead
  <2> QED
    BY <1>7, <1>11, <2>1
<1>13. ASSUME NEW m \in 1 .. N PROVE a[m] = a[m - 1] + c[m] /\ b[m] = b[m - 1] + c[m]
  <2>1. m \in 0 .. N /\ m - 1 \in 0 .. N /\ m + 1 \in D /\ m + 1 # 1 /\ m + 1 - 1 = m /\ m - 1 + 1 = m
    BY <1>1
  <2>2. c[m] = fields[m].length /\ c[m] \in Nat /\ place[m - 1] \in Nat /\ DataHead \in Nat
    BY <1>7, <1>8, <2>1 DEF DataHead
  <2>3. a[m] = g[m + 1] /\ a[m - 1] = g[m] /\ g[m + 1] = g[m] + length(m) /\ length(m) = c[m]
    BY <1>4, <1>11, <2>1, <2>2
  <2>4. b[m] = DataHead + N + place[m] /\ b[m - 1] = DataHead + N + place[m - 1] /\ place[m] = place[m - 1] + c[m]
    BY <1>7, <2>1, <2>2
  <2> HIDE DEF a, b, c
  <2> QED
    BY <1>1, <2>2, <2>3, <2>4
<1>14. \A m \in 0 .. N : a[m] = g[m + 1] /\ b[m] = DataHead + N + place[m]
  OBVIOUS
<1> HIDE DEF a, b, c
<1>15. SameUpTo(a, b, N)
  <2>1. Sums(a, N, c) /\ Sums(b, N, c)
    BY <1>13 DEF Sums
  <2> QED
    BY <1>1, <1>12, <2>1, SameSums
<1>16. \A i \in 1 .. N : g[i] = DataHead + N + place[i - 1]
  <2> SUFFICES ASSUME NEW i \in 1 .. N PROVE g[i] = DataHead + N + place[i - 1]
    OBVIOUS
  <2>1. i - 1 \in 0 .. N /\ i - 1 + 1 = i
    BY <1>1
  <2>2. a[i - 1] = b[i - 1]
    BY <1>15, <2>1 DEF SameUpTo
  <2> QED
    BY <1>14, <2>1, <2>2
<1>17. ASSUME NEW i \in 1 .. N PROVE cells(i) = values[i]
  <2>1. CASE values[i] = Null
    BY <1>6, <2>1 DEF cells
  <2>2. CASE values[i] # Null
    <3> DEFINE v == CellsOf(fields[i], values[i])
               l == fields[i].length
    <3>1. fields[i] \in Descriptions /\ values[i] \in ValuesOf(fields[i])
      BY <1>1 DEF N
    <3>2. values[i] = [k \in 1 .. l |-> v[k]]
      BY <2>2, <3>1, ValueCells
    <3>3. cells(i) = [k \in 1 .. l |-> IF g[i] + k <= Len(d) THEN d[g[i] + k] ELSE 0]
      <4>1. d[DataHead + i] # IsNull /\ length(i) = l
        BY <1>4, <1>6, <2>2 DEF IsNull
      <4> QED
        BY <4>1 DEF cells
    <3>4. \A k \in 1 .. l : (IF g[i] + k <= Len(d) THEN d[g[i] + k] ELSE 0) = v[k]
      BY <1>6, <1>16
    <3> HIDE DEF v, l
    <3> QED
      BY <3>2, <3>3, <3>4
  <2> QED
    BY <2>1, <2>2
<1>18. /\ taken = [i \in 1 .. N |-> [type |-> type(i), cells |-> cells(i)]]
       /\ \A i \in 1 .. N : type(i) = Nullable(fields[i].type)
  BY <1>4, <1>6
<1> HIDE DEF taken
<1>19. TakenAs(taken, fields, values)
  <2>1. DOMAIN taken = 1 .. N
    BY <1>18
  <2>2. Len(taken) = N
    <3>1. taken \in Seq({taken[i] : i \in 1 .. N})
      BY <1>1, <1>18
    <3> QED
      BY <1>1, <1>18
  <2>3. \A i \in 1 .. N : taken[i].cells = cells(i) /\ taken[i].type = type(i)
    BY <1>18
  <2> QED
    BY <1>17, <1>18, <2>1, <2>2, <2>3 DEF TakenAs, N
<1> QED
  BY <1>2, <1>19 DEF d, format

LEMMA SentCells ==
  ASSUME NEW f \in Descriptions, NEW c \in Cells(f)
  PROVE  c.ind \in {0, IsNull, Unmapped} /\ c.cells \in Seq(AnyCell) /\ Len(c.cells) = f.length
<1> DEFINE l == f.length
           zeros == [i \in 1 .. l |-> 0]
<1>1. l \in Nat
  BY DEF Descriptions
<1>2. c.ind \in {0, IsNull, Unmapped} /\ (c.cells \in [1 .. l -> CellValues] \/ c.cells = zeros)
  BY DEF Cells
<1> DEFINE s == c.cells
<1>3. s \in [1 .. l -> AnyCell]
  <2>1. CellValues \subseteq AnyCell /\ 0 \in AnyCell
    BY DEF AnyCell
  <2> HIDE DEF l
  <2> QED
    BY <1>2, <2>1
<1> HIDE DEF s, l
<1>4. s \in Seq(AnyCell) /\ Len(s) = l
  BY <1>1, <1>3
<1> QED
  BY <1>2, <1>4 DEF s, l

\* The cells of a row as DataOf lays them out, and its indicators.
CellsInRow(fields, r, pad) == FlattenSeq([i \in DOMAIN fields |-> r[i].cells]) \o [i \in 1 .. pad |-> 9]
IndicatorsOfRow(fields, r) == [i \in DOMAIN fields |-> r[i].ind]

RowHolds(w, fields, r, place) ==
  \A i \in 1 .. Len(fields) :
     /\ place[i - 1] \in Nat /\ place[i - 1] + fields[i].length <= Len(w)
     /\ r[i].cells \in Seq(AnyCell) /\ Len(r[i].cells) = fields[i].length
     /\ \A k \in 1 .. fields[i].length : w[place[i - 1] + k] = r[i].cells[k]

LEMMA RowIsLaid ==
  ASSUME NEW fields \in Seq(Descriptions), NEW r \in RowsFor(fields), NEW pad \in {0, 1}, NEW place, Places(place, fields)
  PROVE  /\ CellsInRow(fields, r, pad) \in Seq(AnyCell) /\ Len(CellsInRow(fields, r, pad)) = place[Len(fields)] + pad
         /\ RowHolds(CellsInRow(fields, r, pad), fields, r, place)
         /\ IndicatorsOfRow(fields, r) \in Seq(AnyCell) /\ Len(IndicatorsOfRow(fields, r)) = Len(fields)
         /\ \A i \in 1 .. Len(fields) : IndicatorsOfRow(fields, r)[i] = r[i].ind
<1> DEFINE N == Len(fields)
           X == Seq(AnyCell)
           es == [i \in 1 .. N |-> r[i].cells]
           inds == [i \in 1 .. N |-> r[i].ind]
           w == FlattenSeq(es)
           more == [i \in 1 .. pad |-> 9]
           d == w \o more
<1>1. N \in Nat /\ DOMAIN fields = 1 .. N /\ \A i \in 1 .. N : fields[i] \in Descriptions
  OBVIOUS
<1>2. \A i \in 1 .. N : r[i] \in Cells(fields[i])
  BY <1>1 DEF RowsFor
<1>3. \A i \in 1 .. N : r[i].ind \in {0, IsNull, Unmapped} /\ r[i].cells \in X /\ Len(r[i].cells) = fields[i].length
  BY <1>1, <1>2, SentCells
<1>4. CellsInRow(fields, r, pad) = d /\ IndicatorsOfRow(fields, r) = inds
  BY <1>1 DEF CellsInRow, IndicatorsOfRow
<1> HIDE DEF N, X
<1>5. es \in Seq(X) /\ Len(es) = N /\ \A i \in 1 .. N : es[i] = r[i].cells
  BY <1>1, <1>3
<1>6. inds \in Seq(AnyCell) /\ Len(inds) = N /\ \A i \in 1 .. N : inds[i] = r[i].ind
  <2>1. \A i \in 1 .. N : r[i].ind \in AnyCell
    BY <1>3 DEF AnyCell, IsNull, Unmapped
  <2> QED
    BY <1>1, <2>1
<1>7. more \in Seq(AnyCell) /\ Len(more) = pad
  <2>1. 9 \in AnyCell /\ pad \in Nat
    BY DEF AnyCell
  <2> QED
    BY <2>1
<1> HIDE DEF es, inds, more
<1>8. w \in Seq(AnyCell) /\ RowLaid(w, es, place)
  <2>1. es \in Seq(Seq(AnyCell)) /\ Len(es) = Len(fields) /\ \A i \in 1 .. Len(es) : Len(es[i]) = fields[i].length
    BY <1>3, <1>5 DEF X, N
  <2> QED
    BY <2>1, CellsLaid
<1>9. /\ Len(w) = place[N] /\ Len(w) \in Nat
      /\ \A i \in 1 .. N :
            /\ place[i - 1] \in Nat /\ place[i - 1] + Len(es[i]) <= Len(w)
            /\ \A k \in 1 .. Len(es[i]) : w[place[i - 1] + k] = es[i][k]
  BY <1>5, <1>8 DEF RowLaid
<1> HIDE DEF w
<1>10. d \in Seq(AnyCell) /\ Len(d) = Len(w) + pad /\ \A j \in 1 .. Len(w) : d[j] = w[j]
  <2>1. w \in Seq(AnyCell) /\ more \in Seq(AnyCell)
    BY <1>7, <1>8
  <2> HIDE DEF d
  <2>2. /\ w \o more \in Seq(AnyCell) /\ Len(w \o more) = Len(w) + Len(more)
        /\ \A j \in 1 .. Len(w) : (w \o more)[j] = w[j]
    BY ONLY <2>1, Joined
  <2> QED
    BY <1>7, <2>2 DEF d
<1> HIDE DEF d
<1>11. RowHolds(d, fields, r, place)
  <2>1. ASSUME NEW i \in 1 .. N
        PROVE  /\ place[i - 1] \in Nat /\ place[i - 1] + fields[i].length <= Len(d)
               /\ \A k \in 1 .. fields[i].length : d[place[i - 1] + k] = r[i].cells[k]
    <3> DEFINE a == place[i - 1]
               l == fields[i].length
    <3>1. a \in Nat /\ l \in Nat /\ a + l <= Len(w) /\ \A k \in 1 .. l : w[a + k] = r[i].cells[k]
      <4>1. l \in Nat
        BY <1>1 DEF Descriptions
      <4>2. Len(es[i]) = l /\ es[i] = r[i].cells
        BY <1>3, <1>5
      <4> QED
        BY <1>9, <4>1, <4>2
    <3> HIDE DEF a, l
    <3>2. a + l <= Len(d)
      BY <1>9, <1>10, <3>1
    <3>3. \A k \in 1 .. l : a + k \in 1 .. Len(w)
      BY <1>9, <3>1
    <3>4. \A k \in 1 .. l : d[a + k] = r[i].cells[k]
      BY <1>10, <3>1, <3>3
    <3> QED
      BY <3>1, <3>2, <3>4 DEF a, l
  <2> QED
    BY <1>3, <2>1 DEF RowHolds, N, X
<1> QED
  BY <1>4, <1>6, <1>9, <1>10, <1>11 DEF N

\* The place of a piece among n of size s.
LEMMA PieceInside ==
  ASSUME NEW n \in Nat, NEW s \in Nat, NEW m \in 1 .. n
  PROVE  (m - 1) * s \in Nat /\ (m - 1) * s + s <= n * s /\ n * s \in Nat
<1> DEFINE p == m - 1
           q == n - m
<1>1. p \in Nat /\ p + 1 = m /\ q \in Nat /\ n = m + q /\ m \in Nat
  OBVIOUS
<1> HIDE DEF p, q
<1>2. p * s \in Nat /\ m * s = p * s + s
  BY <1>1, OneMore
<1>3. n * s = m * s + q * s /\ q * s \in Nat
  BY <1>1, SMT
<1>4. p * s + s <= n * s /\ n * s \in Nat
  <2> DEFINE a == p * s
             b == q * s
             c == m * s
             e == n * s
  <2>1. a \in Nat /\ b \in Nat /\ c = a + s /\ e = c + b
    BY <1>2, <1>3
  <2> HIDE DEF a, b, c, e
  <2>2. a + s <= e /\ e \in Nat
    BY <2>1
  <2> QED
    BY <2>2 DEF a, e
<1> QED
  BY <1>2, <1>4 DEF p

\* A block of n rows of size cells each.
IndicatorCells(indicators, n, N) == IF indicators THEN n * N ELSE 0
BlockLaid(d, fields, rows, indicators, pad, size) ==
  LET n == Len(rows)
      N == Len(fields)
      I == IndicatorCells(indicators, n, N)
  IN  /\ d[2] = n /\ d[3] = N /\ d[4] = (IF indicators THEN 1 ELSE 0) /\ d[5] = size
      /\ Len(d) = 5 + (I + n * size)
      /\ indicators => \A m \in 1 .. n : \A i \in 1 .. N : d[5 + ((m - 1) * N + i)] = rows[m][i].ind
      /\ \A m \in 1 .. n : \A k \in 1 .. size :
            d[5 + (I + ((m - 1) * size + k))] = CellsInRow(fields, rows[m], pad)[k]

LEMMA DataLaid ==
  ASSUME NEW fields \in Seq(Descriptions), NEW n \in Nat, n > 0, NEW rows \in [1 .. n -> RowsFor(fields)],
         NEW indicators \in BOOLEAN, NEW pad \in {0, 1}, NEW place, Places(place, fields)
  PROVE  /\ DataOf(fields, rows, indicators, pad) \in Seq(AnyCell)
         /\ BlockLaid(DataOf(fields, rows, indicators, pad), fields, rows, indicators, pad, place[Len(fields)] + pad)
<1> DEFINE N == Len(fields)
           X == Seq(AnyCell)
           size == place[N] + pad
           ir == [m \in 1 .. n |-> IndicatorsOfRow(fields, rows[m])]
           cr == [m \in 1 .. n |-> CellsInRow(fields, rows[m], pad)]
           v == IF indicators THEN FlattenSeq(ir) ELSE << >>
           w == FlattenSeq(cr)
           flag == IF indicators THEN 1 ELSE 0
           head == <<1, n, N, flag, size>>
           front == head \o v
           d == front \o w
           I == IndicatorCells(indicators, n, N)
<1>1. N \in Nat /\ size \in Nat
  <2>1. N \in Nat
    OBVIOUS
  <2>2. N \in 0 .. N
    BY <2>1
  <2>3. place[N] \in Nat
    BY <2>2 DEF Places
  <2> HIDE DEF N
  <2> QED
    BY <2>1, <2>3
<1>2. \A m \in 1 .. n :
         /\ cr[m] \in X /\ Len(cr[m]) = size /\ ir[m] \in X /\ Len(ir[m]) = N
         /\ \A i \in 1 .. N : ir[m][i] = rows[m][i].ind
  <2> SUFFICES ASSUME NEW m \in 1 .. n
               PROVE  /\ cr[m] \in X /\ Len(cr[m]) = size /\ ir[m] \in X /\ Len(ir[m]) = N
                      /\ \A i \in 1 .. N : ir[m][i] = rows[m][i].ind
    OBVIOUS
  <2> DEFINE r == rows[m]
  <2>1. r \in RowsFor(fields) /\ cr[m] = CellsInRow(fields, r, pad) /\ ir[m] = IndicatorsOfRow(fields, r)
    OBVIOUS
  <2> HIDE DEF r, cr, ir
  <2>2. /\ CellsInRow(fields, r, pad) \in Seq(AnyCell) /\ Len(CellsInRow(fields, r, pad)) = place[Len(fields)] + pad
        /\ IndicatorsOfRow(fields, r) \in Seq(AnyCell) /\ Len(IndicatorsOfRow(fields, r)) = Len(fields)
        /\ \A i \in 1 .. Len(fields) : IndicatorsOfRow(fields, r)[i] = r[i].ind
    BY <2>1, RowIsLaid
  <2> QED
    BY <2>1, <2>2 DEF r
<1>3. DataOf(fields, rows, indicators, pad) = d
  <2>1. DOMAIN rows = 1 .. n /\ Len(rows) = n /\ 1 \in 1 .. n
    OBVIOUS
  <2>2. Len(CellsInRow(fields, rows[1], pad)) = size
    <3>1. cr[1] = CellsInRow(fields, rows[1], pad)
      BY <2>1
    <3> QED
      BY <1>2, <2>1, <3>1
  <2>3. DataOf(fields, rows, indicators, pad) =
          <<1, Len(rows), Len(fields), IF indicators THEN 1 ELSE 0, Len(CellsInRow(fields, rows[1], pad))>>
          \o (IF indicators THEN FlattenSeq([m \in DOMAIN rows |-> IndicatorsOfRow(fields, rows[m])]) ELSE << >>)
          \o FlattenSeq([m \in DOMAIN rows |-> CellsInRow(fields, rows[m], pad)])
    BY DEF DataOf, CellsInRow, IndicatorsOfRow
  <2> HIDE DEF size
  <2> QED
    BY <2>1, <2>2, <2>3
<1>4. \A m \in 1 .. n : cr[m] = CellsInRow(fields, rows[m], pad)
  OBVIOUS
<1> HIDE DEF X, N, size
<1>5. cr \in Seq(X) /\ Len(cr) = n /\ ir \in Seq(X) /\ Len(ir) = n
  BY <1>2
<1> HIDE DEF cr, ir
<1>6. /\ w \in Seq(AnyCell) /\ Len(w) = n * size
      /\ \A m \in 1 .. n : \A k \in 1 .. size : w[(m - 1) * size + k] = cr[m][k]
  <2>1. cr \in Seq(Seq(AnyCell)) /\ size \in Nat /\ \A i \in 1 .. Len(cr) : Len(cr[i]) = size
    BY <1>1, <1>2, <1>5 DEF X
  <2>2. w \in Seq(AnyCell) /\ Pieces(w, cr, size)
    BY ONLY <2>1, EqualPieces
  <2> QED
    BY <1>5, <2>2 DEF Pieces
<1>7. /\ v \in Seq(AnyCell) /\ Len(v) = I
      /\ indicators => \A m \in 1 .. n : \A i \in 1 .. N : v[(m - 1) * N + i] = rows[m][i].ind
  <2>1. CASE indicators
    <3>1. ir \in Seq(Seq(AnyCell)) /\ N \in Nat /\ \A i \in 1 .. Len(ir) : Len(ir[i]) = N
      BY <1>1, <1>2, <1>5 DEF X
    <3> DEFINE t == FlattenSeq(ir)
    <3>2. t \in Seq(AnyCell) /\ Pieces(t, ir, N)
      BY ONLY <3>1, EqualPieces
    <3>3. v = t /\ I = n * N
      BY <2>1 DEF IndicatorCells
    <3> HIDE DEF t, v, I
    <3>4. Len(t) = n * N /\ \A m \in 1 .. n : \A i \in 1 .. N : t[(m - 1) * N + i] = rows[m][i].ind
      BY <1>2, <1>5, <3>2 DEF Pieces
    <3> QED
      BY <3>2, <3>3, <3>4
  <2>2. CASE ~indicators
    BY <2>2 DEF IndicatorCells
  <2> QED
    BY <2>1, <2>2
<1>8. I \in Nat /\ n * size \in Nat
  <2>1. n * N \in Nat
    BY <1>1
  <2> QED
    BY <1>1, <2>1 DEF IndicatorCells
<1> HIDE DEF w, v, I
<1>9. head \in X /\ Len(head) = 5 /\ head[2] = n /\ head[3] = N /\ head[4] = flag /\ head[5] = size
  <2>1. flag \in Nat /\ Nat \subseteq AnyCell
    BY DEF AnyCell
  <2> HIDE DEF flag
  <2>2. head \in Seq(Nat) /\ Len(head) = 5 /\ head[2] = n /\ head[3] = N /\ head[4] = flag /\ head[5] = size
    BY <1>1, <2>1
  <2> HIDE DEF head
  <2>3. head \in Seq(AnyCell)
    BY <2>1, <2>2
  <2> QED
    BY <2>2, <2>3 DEF X
<1> HIDE DEF head
<1>10. front \in X /\ BehindHead(front, head, v, 5)
  BY <1>7, <1>9, HeadJoined DEF X
<1> HIDE DEF front
<1> DEFINE h == 5 + I
<1>11. h \in Nat /\ Len(front) = h /\ (\A i \in 1 .. 5 : front[i] = head[i]) /\ \A i \in 1 .. I : front[5 + i] = v[i]
  BY <1>7, <1>8, <1>10 DEF BehindHead
<1>12. d \in X /\ BehindHead(d, front, w, h)
  BY <1>6, <1>10, <1>11, HeadJoined DEF X
<1> HIDE DEF d
<1>13. /\ Len(d) = h + n * size
       /\ \A i \in 1 .. h : d[i] = front[i]
       /\ \A i \in 1 .. n * size : d[h + i] = w[i]
  BY <1>6, <1>12 DEF BehindHead
<1> HIDE DEF flag
<1>14. d[2] = n /\ d[3] = N /\ d[4] = flag /\ d[5] = size
  <2>1. 2 \in 1 .. 5 /\ 3 \in 1 .. 5 /\ 4 \in 1 .. 5 /\ 5 \in 1 .. 5 /\ \A i \in 1 .. 5 : i \in 1 .. h
    BY <1>8
  <2> QED
    BY <1>9, <1>11, <1>13, <2>1
<1>15. Len(d) = 5 + (I + n * size)
  <2> DEFINE e == n * size
  <2>1. e \in Nat /\ Len(d) = 5 + I + e
    BY <1>8, <1>13
  <2> HIDE DEF e
  <2>2. Len(d) = 5 + (I + e)
    BY <1>8, <2>1
  <2> QED
    BY <2>2 DEF e
<1>16. ASSUME indicators, NEW m \in 1 .. n, NEW i \in 1 .. N PROVE d[5 + ((m - 1) * N + i)] = rows[m][i].ind
  <2> DEFINE j == (m - 1) * N + i
  <2>1. j \in 1 .. I
    <3> DEFINE a == (m - 1) * N
               e == n * N
    <3>1. a \in Nat /\ a + N <= e /\ e \in Nat /\ I = e
      BY <1>1, <1>16, PieceInside DEF I, IndicatorCells
    <3> HIDE DEF a, e
    <3>2. a + i \in 1 .. I
      BY <1>1, <3>1
    <3> QED
      BY <3>2 DEF a
  <2>2. v[j] = rows[m][i].ind
    BY <1>7, <1>16
  <2> HIDE DEF j
  <2>3. 5 + j \in 1 .. h
    BY <1>8, <2>1
  <2>4. d[5 + j] = rows[m][i].ind
    BY <1>11, <1>13, <2>1, <2>2, <2>3
  <2> QED
    BY <2>4 DEF j
<1>17. ASSUME NEW m \in 1 .. n, NEW k \in 1 .. size
       PROVE  d[5 + (I + ((m - 1) * size + k))] = CellsInRow(fields, rows[m], pad)[k]
  <2> DEFINE j == (m - 1) * size + k
  <2>1. j \in 1 .. n * size
    <3> DEFINE a == (m - 1) * size
               e == n * size
    <3>1. a \in Nat /\ a + size <= e /\ e \in Nat
      BY <1>1, PieceInside
    <3> HIDE DEF a, e
    <3>2. a + k \in 1 .. e
      BY <1>1, <3>1
    <3> QED
      BY <3>2 DEF a, e
  <2>2. w[j] = cr[m][k]
    BY <1>6
  <2> HIDE DEF j
  <2>3. j \in Nat
    BY <1>8, <2>1
  <2>4. 5 + (I + j) = h + j
    BY <1>8, <2>3
  <2>5. d[h + j] = w[j]
    BY <1>13, <2>1
  <2>6. d[5 + (I + j)] = CellsInRow(fields, rows[m], pad)[k]
    BY <1>4, <2>2, <2>4, <2>5
  <2> QED
    BY <2>6 DEF j
<1>18. Len(rows) = n
  OBVIOUS
<1>19. BlockLaid(d, fields, rows, indicators, pad, size)
  BY <1>14, <1>15, <1>16, <1>17, <1>18 DEF BlockLaid, N, I, flag
<1> QED
  BY <1>3, <1>12, <1>19 DEF X, size, N

\* What Next makes of the nth row of a block.
RowSaid(b, n, rows, N) ==
  LET r == RowOf(b, n - 1) IN
  r.ok => \A i \in 1 .. N : /\ rows[n][i].ind # Unmapped
                            /\ r.row[i] = (IF rows[n][i].ind = IsNull THEN Null ELSE rows[n][i].cells)

LEMMA RowRead ==
  ASSUME NEW fields \in Seq(Descriptions), columns = fields, NEW n \in Nat, NEW rows \in [1 .. n -> RowsFor(fields)],
         NEW indicators \in BOOLEAN, NEW pad \in {0, 1},
         indicators \/ \A m \in DOMAIN rows : \A i \in DOMAIN rows[m] : rows[m][i].ind = 0,
         ParseData(DataOf(fields, rows, indicators, pad)).ok, NEW m \in 1 .. n
  PROVE  /\ ParseData(DataOf(fields, rows, indicators, pad)).rows = n
         /\ RowSaid(ParseData(DataOf(fields, rows, indicators, pad)), m, rows, Len(fields))
<1> DEFINE N == Len(fields)
           d == DataOf(fields, rows, indicators, pad)
           b == ParseData(d)
<1>1. PICK place : Places(place, fields)
  BY PlacesAre
<1> DEFINE size == place[N] + pad
           I == IndicatorCells(indicators, n, N)
<1>2. n > 0 /\ Len(rows) = n /\ DOMAIN rows = 1 .. n /\ N \in Nat
  OBVIOUS
<1>3. d \in Seq(AnyCell) /\ BlockLaid(d, fields, rows, indicators, pad, size)
  BY <1>1, <1>2, DataLaid
<1>4. /\ N \in 0 .. N /\ \A k \in 0 .. N : place[k] \in Nat /\ PlaceOf(fields, k + 1) = place[k]
  BY <1>1, <1>2 DEF Places
<1> DEFINE w == CellsInRow(fields, rows[m], pad)
<1>5. Len(w) = size /\ RowHolds(w, fields, rows[m], place)
  <2>1. rows[m] \in RowsFor(fields)
    OBVIOUS
  <2> QED
    BY <1>1, <2>1, RowIsLaid
<1>6. size \in Nat /\ I \in Nat
  <2>1. place[N] \in Nat /\ n * N \in Nat
    BY <1>2, <1>4
  <2> HIDE DEF N
  <2> QED
    BY <2>1 DEF IndicatorCells
<1>7. /\ d[2] = n /\ d[3] = N /\ d[4] = (IF indicators THEN 1 ELSE 0) /\ d[5] = size
      /\ Len(d) = 5 + (I + n * size)
      /\ indicators => \A i \in 1 .. N : d[5 + ((m - 1) * N + i)] = rows[m][i].ind
      /\ \A k \in 1 .. size : d[5 + (I + ((m - 1) * size + k))] = w[k]
  BY <1>2, <1>3 DEF BlockLaid
<1>8. b = [ok |-> TRUE, raw |-> d, rows |-> d[2], columns |-> d[3], indicator |-> d[4], size |-> d[5]]
  <2>1. \/ b = [ok |-> FALSE]
        \/ b = [ok |-> TRUE, raw |-> d, rows |-> d[2], columns |-> d[3], indicator |-> d[4], size |-> d[5]]
    BY Zenon DEF ParseData
  <2>2. b.ok
    OBVIOUS
  <2> HIDE DEF b, d
  <2> QED
    BY <2>1, <2>2
<1> HIDE DEF b, d, size, I, w
<1>9. /\ b.raw = d /\ b.rows = n /\ b.columns = N /\ b.indicator = (IF indicators THEN 1 ELSE 0) /\ b.size = size
  BY <1>7, <1>8
<1> DEFINE p == m - 1
           r == RowOf(b, p)
<1>10. /\ p \in Nat /\ p * size \in Nat /\ p * size + size <= n * size /\ n * size \in Nat
       /\ p * N \in Nat
  BY <1>2, <1>6, PieceInside
<1>11. ASSUME NEW i \in 1 .. N PROVE Indicator(b, p, i) = rows[m][i].ind
  <2>1. CASE indicators
    <3> DEFINE a == p * N
    <3>1. DataHead + p * b.columns + i = DataHead + a + i
      BY <1>9
    <3>2. DataHead + a + i = 5 + (a + i)
      <4>1. a \in Nat
        BY <1>10
      <4> HIDE DEF a
      <4> QED
        BY <4>1 DEF DataHead
    <3>3. Indicator(b, p, i) = d[5 + (a + i)]
      BY <1>9, <2>1, <3>1, <3>2 DEF Indicator
    <3> QED
      BY <1>7, <2>1, <3>3
  <2>2. CASE ~indicators
    <3>1. rows[m] \in RowsFor(fields)
      OBVIOUS
    <3>2. i \in DOMAIN rows[m]
      BY <3>1 DEF RowsFor, N
    <3>3. rows[m][i].ind = 0
      BY <1>2, <2>2, <3>2
    <3> QED
      BY <1>9, <2>2, <3>3 DEF Indicator
  <2> QED
    BY <2>1, <2>2
<1>12. RowStart(b, p) = 5 + (I + p * size)
  <2>1. b.rows * b.columns * b.indicator = I
    <3> DEFINE e == n * N
    <3>1. e \in Nat
      BY <1>2
    <3>2. b.rows * b.columns * b.indicator = e * (IF indicators THEN 1 ELSE 0)
      BY <1>9
    <3>3. I = IF indicators THEN e ELSE 0
      BY DEF I, IndicatorCells
    <3> HIDE DEF e
    <3> QED
      BY <3>1, <3>2, <3>3
  <2> DEFINE q == p * size
  <2>2. p * b.size = q /\ q \in Nat
    BY <1>9, <1>10
  <2> HIDE DEF q
  <2>3. RowStart(b, p) = DataHead + I + q
    BY <2>1, <2>2 DEF RowStart
  <2>4. DataHead + I + q = 5 + (I + q)
    BY <1>6, <2>2 DEF DataHead
  <2> QED
    BY <2>3, <2>4 DEF q
<1> DEFINE start(i) == PlaceOf(columns, i)
           end(i) == start(i) + columns[i].length
           row == [i \in DOMAIN columns |->
                     IF Indicator(b, p, i) = IsNull THEN Null
                     ELSE SubSeq(b.raw, RowStart(b, p) + start(i) + 1, RowStart(b, p) + end(i))]
<1>13. r.ok => r.row = row /\ \A i \in DOMAIN columns : Indicator(b, p, i) # Unmapped
  <2>1. CASE \/ b.columns # Len(columns)
             \/ \E i \in DOMAIN columns : end(i) > b.size \/ Indicator(b, p, i) = Unmapped
    <3>1. r = [ok |-> FALSE]
      BY <2>1, Zenon DEF RowOf
    <3> HIDE DEF r
    <3>2. r.ok = FALSE
      BY <3>1
    <3> QED
      BY <3>2
  <2>2. CASE ~(\/ b.columns # Len(columns)
               \/ \E i \in DOMAIN columns : end(i) > b.size \/ Indicator(b, p, i) = Unmapped)
    <3>1. r = [ok |-> TRUE, row |-> row]
      BY <2>2, Zenon DEF RowOf
    <3>2. \A i \in DOMAIN columns : Indicator(b, p, i) # Unmapped
      BY <2>2, Zenon
    <3> HIDE DEF r, row
    <3>3. r.row = row
      BY <3>1
    <3> QED
      BY <3>2, <3>3
  <2> QED
    BY <2>1, <2>2, Zenon
<1> HIDE DEF r
<1>14. ASSUME NEW i \in 1 .. N
       PROVE  row[i] = IF Indicator(b, p, i) = IsNull THEN Null ELSE rows[m][i].cells
  <2> DEFINE a == place[i - 1]
             l == fields[i].length
             c == rows[m][i].cells
             s == RowStart(b, p)
             t == SubSeq(d, s + start(i) + 1, s + end(i))
             q == p * size
             from == 5 + (I + q) + a
  <2>1. i \in DOMAIN columns /\ columns[i].length = l /\ start(i) = a /\ a \in Nat /\ l \in Nat
    <3>1. i - 1 \in 0 .. N /\ i - 1 + 1 = i /\ fields[i] \in Descriptions
      BY <1>2 DEF N
    <3> QED
      BY <1>4, <3>1, SMTT(30) DEF Descriptions, N
  <2>2. /\ a + l <= size /\ c \in Seq(AnyCell) /\ Len(c) = l
        /\ \A k \in 1 .. l : w[a + k] = c[k]
    BY <1>5 DEF RowHolds, N
  <2>3. row[i] = IF Indicator(b, p, i) = IsNull THEN Null ELSE t
    BY <1>9, <2>1
  <2>4. s = 5 + (I + q) /\ q \in Nat /\ q + size <= n * size /\ n * size \in Nat
    BY <1>10, <1>12
  <2>5. start(i) = a /\ end(i) = a + l
    BY <2>1
  <2> HIDE DEF row, s, start, end, q, a, l, c
  <2>6. s + start(i) + 1 = from + 1 /\ s + end(i) = from + l /\ from \in Nat
    BY <1>6, <2>1, <2>4, <2>5
  <2>7. from + l <= Len(d)
    <3> DEFINE e == n * size
    <3>1. e \in Nat /\ q + size <= e /\ Len(d) = 5 + (I + e)
      BY <1>7, <2>4
    <3> HIDE DEF e
    <3> QED
      BY <1>6, <2>1, <2>2, <2>4, <3>1
  <2>8. t = SubSeq(d, from + 1, from + l)
    BY <2>6
  <2> HIDE DEF t
  <2>9. t \in Seq(AnyCell) /\ PartOf(t, d, from, l)
    <3> HIDE DEF from
    <3> QED
      BY <1>3, <2>1, <2>6, <2>7, <2>8, CutIs
  <2>10. ASSUME NEW k \in 1 .. l PROVE t[k] = c[k]
    <3>1. t[k] = d[from + k]
      BY <2>9 DEF PartOf
    <3>2. a + k \in 1 .. size /\ from + k = 5 + (I + (q + (a + k)))
      BY <1>6, <2>1, <2>2, <2>4
    <3>3. d[5 + (I + (q + (a + k)))] = w[a + k]
      BY <1>7, <3>2 DEF q
    <3> QED
      BY <2>2, <3>1, <3>2, <3>3
  <2>11. t = c
    <3>1. t \in Seq(AnyCell) /\ c \in Seq(AnyCell) /\ Len(t) = Len(c) /\ \A k \in 1 .. Len(t) : t[k] = c[k]
      BY <2>2, <2>9, <2>10 DEF PartOf
    <3> QED
      BY <3>1, SameElements
  <2> QED
    BY <2>3, <2>11 DEF c
<1>15. \A i \in 1 .. N : i \in DOMAIN columns
  BY DEF N
<1> HIDE DEF row
<1>16. r.ok => \A i \in 1 .. N : /\ rows[m][i].ind # Unmapped
                                 /\ r.row[i] = (IF rows[m][i].ind = IsNull THEN Null ELSE rows[m][i].cells)
  BY <1>11, <1>13, <1>14, <1>15
<1>17. RowSaid(b, m, rows, N)
  BY <1>16 DEF RowSaid, r
<1> QED
  BY <1>9, <1>17 DEF b, d, N

-----------------------------------------------------------------------------
(***************************************************************************)
(* A statement, its arguments and its rows: the invariant.                 *)
(***************************************************************************)
RowPhases ==
  /\ phase \in {"preparing", "prepared", "running", "rows", "failed"}
  /\ statement \in Statements /\ runs \in Nat
  /\ phase \in {"preparing", "prepared"} => runs = 0
  /\ query # << >> => phase = "running"
  /\ answer # << >> => phase \in {"preparing", "running"} /\ query = << >>

\* Stmt has the fields of the statement it was prepared for.
FieldsKnown ==
  phase \in {"prepared", "running", "rows"} => columns = statement.columns /\ markers = statement.markers

\* A reply to prepare that can be read has the fields of the statement.
DescriptionTrue ==
  phase = "preparing" /\ answer # << >> =>
     LET r == ParseReply(Head(answer)) IN r.ok => r.columns = statement.columns /\ r.markers = statement.markers

\* A request on its way carries the arguments, and the format unless the server has it.
QueryTrue ==
  query # << >> =>
     LET q == Head(query) IN
     IF markers = << >> THEN q.format = << >> /\ q.data = << >>
     ELSE /\ \A i \in DOMAIN markers : args[i] \in ValuesOf(markers[i])
          /\ q.data = ParameterData(markers, args)
          /\ q.format = ParameterFormat(markers) \/ (q.format = << >> /\ descriptor = ParameterFormat(markers))

DescriptorKept ==
  phase \in {"running", "rows"} /\ query = << >> /\ markers # << >> => descriptor = ParameterFormat(markers)

\* A parsed block, if there is one, has the rows the server sent.
BlockRead(x) ==
  x # NoData => /\ Len(block) \in Nat /\ Head(x).rows = Len(block)
                /\ \A n \in 1 .. Len(block) : RowSaid(Head(x), n, block, Len(statement.columns))

RunAnswered ==
  phase = "running" /\ answer # << >> => LET r == ParseReply(Head(answer)) IN r.ok => BlockRead(r.data)

RowsOpen == phase = "rows" => BlockRead(data)

\* What Next has returned is what the server sent.
RowsGot ==
  /\ phase = "running" => got = << >>
  /\ \A n \in DOMAIN got : \A i \in DOMAIN statement.columns :
        LET cell == block[n][i] IN
        got[n][i] = (IF cell.ind = IsNull THEN Null ELSE cell.cells) /\ cell.ind # Unmapped

IsList(s) == \E S : s \in Seq(S)

RowInv ==
  /\ RowPhases /\ FieldsKnown /\ DescriptionTrue /\ QueryTrue /\ DescriptorKept /\ BoundTrue
  /\ RunAnswered /\ RowsOpen /\ RowsGot /\ IsList(got)

LEMMA RowStarts ==
  ASSUME Init
  PROVE  RowInv
<1>1. RowInit
  BY DEF Init
<1>2. /\ phase = "preparing" /\ statement \in Statements /\ query = << >> /\ answer = << >>
      /\ arrived = << >> /\ got = << >> /\ runs = 0
  BY <1>1 DEF RowInit
<1>3. RowPhases /\ FieldsKnown /\ DescriptionTrue /\ QueryTrue /\ DescriptorKept /\ BoundTrue /\ RunAnswered /\ RowsOpen
  BY <1>2 DEF RowPhases, FieldsKnown, DescriptionTrue, QueryTrue, DescriptorKept, BoundTrue, RunAnswered, RowsOpen
<1>4. DOMAIN got = {} /\ got \in Seq({})
  BY <1>2
<1>5. RowsGot /\ IsList(got)
  BY <1>2, <1>4 DEF RowsGot, IsList
<1> QED
  BY <1>3, <1>5 DEF RowInv

\* What does not change as long as what it speaks of does not.
LEMMA RowSame ==
  ASSUME UNCHANGED columns, NEW b, NEW n, NEW rows, NEW N
  PROVE  RowSaid(b, n, rows, N)' <=> RowSaid(b, n, rows, N)
<1>1. RowOf(b, n - 1)' = RowOf(b, n - 1)
  BY ZenonT(30) DEF RowOf
<1> QED
  BY <1>1, SMTT(30) DEF RowSaid

LEMMA BlockSame ==
  ASSUME UNCHANGED <<block, statement, columns>>, NEW x, BlockRead(x)
  PROVE  BlockRead(x)'
<1>1. \A b, n, rows, N : RowSaid(b, n, rows, N)' <=> RowSaid(b, n, rows, N)
  BY RowSame
<1> QED
  BY <1>1 DEF BlockRead

LEMMA BoundSame ==
  ASSUME UNCHANGED <<arrived, query, args, statement>>, BoundTrue
  PROVE  BoundTrue'
BY DEF BoundTrue

LEMMA GotSame ==
  ASSUME UNCHANGED <<got, block, statement>>, RowsGot, IsList(got), phase' = "running" => phase = "running"
  PROVE  RowsGot' /\ IsList(got)'
BY DEF RowsGot, IsList

LEMMA RowStutters ==
  ASSUME RowInv, UNCHANGED rowVars
  PROVE  RowInv'
<1>1. UNCHANGED <<phase, statement, columns, markers, descriptor, args, arrived, query, answer, block, data, got, runs>>
  BY DEF rowVars
<1>2. RowPhases' /\ FieldsKnown' /\ DescriptionTrue' /\ DescriptorKept'
  BY <1>1 DEF RowInv, RowPhases, FieldsKnown, DescriptionTrue, DescriptorKept
<1>3. QueryTrue'
  BY <1>1 DEF RowInv, QueryTrue
<1>4. BoundTrue' /\ RowsGot' /\ IsList(got)'
  BY <1>1, BoundSame, GotSame DEF RowInv
<1>5. RunAnswered' /\ RowsOpen'
  BY <1>1, BlockSame DEF RowInv, RunAnswered, RowsOpen
<1> QED
  BY <1>2, <1>3, <1>4, <1>5 DEF RowInv

LEMMA PreparedKeeps ==
  ASSUME RowInv, Prepared
  PROVE  RowInv'
<1> DEFINE r == ParseReply(Head(answer))
<1>1. /\ phase = "preparing" /\ answer # << >> /\ answer' = << >>
      /\ IF r.ok THEN phase' = "prepared" /\ columns' = r.columns /\ markers' = r.markers
         ELSE phase' = "failed" /\ UNCHANGED <<columns, markers>>
      /\ UNCHANGED <<statement, descriptor, args, arrived, query, block, data, got, runs>>
  BY DEF Prepared
<1>2. r.ok => r.columns = statement.columns /\ r.markers = statement.markers
  BY <1>1 DEF RowInv, DescriptionTrue
<1> HIDE DEF r
<1>3. query = << >> /\ runs = 0 /\ statement \in Statements
  BY <1>1 DEF RowInv, RowPhases
<1>4. phase' \in {"prepared", "failed"}
  BY <1>1
<1>5. RowPhases' /\ DescriptionTrue' /\ QueryTrue' /\ DescriptorKept' /\ RunAnswered' /\ RowsOpen'
  BY <1>1, <1>3, <1>4 DEF RowPhases, DescriptionTrue, QueryTrue, DescriptorKept, RunAnswered, RowsOpen
<1>6. FieldsKnown'
  BY <1>1, <1>2 DEF FieldsKnown
<1>7. BoundTrue' /\ RowsGot' /\ IsList(got)'
  BY <1>1, <1>4, BoundSame, GotSame DEF RowInv
<1> QED
  BY <1>5, <1>6, <1>7 DEF RowInv

LEMMA RunKeeps ==
  ASSUME RowInv, Run
  PROVE  RowInv'
<1>1. /\ phase \in {"prepared", "rows"} /\ runs' = runs + 1 /\ phase' = "running"
      /\ \A i \in DOMAIN markers : args'[i] \in ValuesOf(markers[i])
      /\ query' = IF markers = << >> THEN <<[format |-> << >>, data |-> << >>]>>
                  ELSE <<[format |-> IF runs = 0 THEN ParameterFormat(markers) ELSE << >>,
                          data |-> ParameterData(markers, args')]>>
      /\ got' = << >> /\ data' = NoData /\ arrived' = << >> /\ block' = << >>
      /\ UNCHANGED <<statement, columns, markers, descriptor, answer>>
  BY DEF Run
<1>2. query = << >> /\ answer = << >> /\ statement \in Statements /\ runs \in Nat
  BY <1>1 DEF RowInv, RowPhases
<1>3. query' # << >>
  BY <1>1
<1>4. RowPhases'
  BY <1>1, <1>2 DEF RowPhases
<1>5. FieldsKnown'
  BY <1>1 DEF RowInv, FieldsKnown
<1>6. DescriptionTrue' /\ DescriptorKept' /\ BoundTrue' /\ RunAnswered' /\ RowsOpen'
  BY <1>1, <1>2, <1>3 DEF DescriptionTrue, DescriptorKept, BoundTrue, RunAnswered, RowsOpen
<1>7. QueryTrue'
  <2> DEFINE q == Head(query')
  <2>1. CASE markers = << >>
    <3>1. q = [format |-> << >>, data |-> << >>]
      BY <1>1, <2>1
    <3> HIDE DEF q
    <3>2. q.format = << >> /\ q.data = << >>
      BY <3>1
    <3> QED
      BY <1>1, <2>1, <3>2 DEF QueryTrue, q
  <2>2. CASE markers # << >>
    <3>1. q = [format |-> IF runs = 0 THEN ParameterFormat(markers) ELSE << >>, data |-> ParameterData(markers, args')]
      BY <1>1, <2>2
    <3> HIDE DEF q
    <3>2. q.data = ParameterData(markers, args') /\ q.format = IF runs = 0 THEN ParameterFormat(markers) ELSE << >>
      BY <3>1
    <3>3. runs # 0 => descriptor = ParameterFormat(markers)
      BY <1>1, <1>2, <2>2 DEF RowInv, RowPhases, DescriptorKept
    <3> QED
      BY <1>1, <2>2, <3>2, <3>3 DEF QueryTrue, q
  <2> QED
    BY <2>1, <2>2
<1>8. RowsGot' /\ IsList(got)'
  <2>1. got' = << >> /\ DOMAIN got' = {} /\ got' \in Seq({})
    BY <1>1
  <2> QED
    BY <2>1 DEF RowsGot, IsList
<1> QED
  BY <1>4, <1>5, <1>6, <1>7, <1>8 DEF RowInv

LEMMA OpenedKeeps ==
  ASSUME RowInv, Opened
  PROVE  RowInv'
<1> DEFINE r == ParseReply(Head(answer))
<1>1. /\ phase = "running" /\ answer # << >> /\ answer' = << >>
      /\ IF r.ok THEN phase' = "rows" /\ data' = r.data ELSE phase' = "failed" /\ UNCHANGED data
      /\ UNCHANGED <<statement, columns, markers, descriptor, args, arrived, query, block, got, runs>>
  BY DEF Opened
<1>2. r.ok => BlockRead(r.data)
  BY <1>1 DEF RowInv, RunAnswered
<1> HIDE DEF r
<1>3. query = << >> /\ runs \in Nat /\ statement \in Statements
  BY <1>1 DEF RowInv, RowPhases
<1>4. phase' \in {"rows", "failed"}
  BY <1>1
<1>5. RowPhases' /\ DescriptionTrue' /\ QueryTrue' /\ RunAnswered'
  BY <1>1, <1>3, <1>4 DEF RowPhases, DescriptionTrue, QueryTrue, RunAnswered
<1>6. FieldsKnown' /\ DescriptorKept'
  BY <1>1, <1>4 DEF RowInv, FieldsKnown, DescriptorKept
<1>7. RowsOpen'
  <2> SUFFICES ASSUME phase' = "rows" PROVE BlockRead(data)'
    BY DEF RowsOpen
  <2>1. r.ok /\ data' = r.data
    BY <1>1
  <2>2. PICK x : x = r.data
    OBVIOUS
  <2>3. BlockRead(x)'
    <3>1. BlockRead(x) /\ UNCHANGED <<block, statement, columns>>
      BY <1>1, <1>2, <2>1, <2>2
    <3> QED
      BY <3>1, BlockSame
  <2>4. x = data'
    BY <2>1, <2>2
  <2> QED
    BY <2>3, <2>4 DEF BlockRead
<1>8. BoundTrue' /\ RowsGot' /\ IsList(got)'
  BY <1>1, <1>4, BoundSame, GotSame DEF RowInv
<1> QED
  BY <1>5, <1>6, <1>7, <1>8 DEF RowInv

LEMMA NextRowKeeps ==
  ASSUME RowInv, NextRow
  PROVE  RowInv'
<1> DEFINE b == Head(data)
           n == Len(got) + 1
           r == RowOf(b, Len(got))
           N == Len(statement.columns)
<1>1. /\ phase = "rows" /\ data # NoData /\ Len(got) < b.rows
      /\ IF r.ok THEN got' = Append(got, r.row) /\ UNCHANGED phase
         ELSE phase' = "failed" /\ UNCHANGED got
      /\ UNCHANGED <<statement, columns, markers, descriptor, args, arrived, query, answer, block, data, runs>>
  BY DEF NextRow
<1>2. query = << >> /\ answer = << >> /\ runs \in Nat /\ statement \in Statements
  BY <1>1 DEF RowInv, RowPhases
<1>3. phase' \in {"rows", "failed"}
  BY <1>1
<1>4. /\ Len(block) \in Nat /\ b.rows = Len(block)
      /\ \A m \in 1 .. Len(block) : RowSaid(b, m, block, N)
  BY <1>1 DEF RowInv, RowsOpen, BlockRead
<1> HIDE DEF r
<1>5. RowPhases' /\ DescriptionTrue' /\ QueryTrue' /\ RunAnswered'
  BY <1>1, <1>2, <1>3 DEF RowPhases, DescriptionTrue, QueryTrue, RunAnswered
<1>6. FieldsKnown' /\ DescriptorKept'
  BY <1>1, <1>3 DEF RowInv, FieldsKnown, DescriptorKept
<1>7. RowsOpen'
  BY <1>1, BlockSame DEF RowInv, RowsOpen
<1>8. BoundTrue'
  BY <1>1, BoundSame DEF RowInv
<1>9. RowsGot' /\ IsList(got)'
  <2>1. CASE ~r.ok
    BY <1>1, <1>3, <2>1, GotSame DEF RowInv
  <2>2. CASE r.ok
    <3>1. PICK S : got \in Seq(S)
      BY DEF RowInv, IsList
    <3> DEFINE T == S \union {r.row}
               new == Append(got, r.row)
    <3>2. got \in Seq(T) /\ r.row \in T
      BY <3>1
    <3> HIDE DEF T
    <3>3. /\ new \in Seq(T) /\ Len(got) \in Nat /\ DOMAIN got = 1 .. Len(got) /\ DOMAIN new = 1 .. n
          /\ \A m \in 1 .. Len(got) : new[m] = got[m]
          /\ new[n] = r.row
      BY <3>2
    <3>4. got' = new
      BY <1>1, <2>2
    <3> HIDE DEF new
    <3>5. IsList(got)'
      BY <3>3, <3>4 DEF IsList
    <3>6. RowSaid(b, n, block, N) /\ n - 1 = Len(got)
      <4>1. n \in 1 .. Len(block) /\ n - 1 = Len(got)
        BY <1>1, <1>4, <3>3
      <4> QED
        BY <1>4, <4>1
    <3>7. DOMAIN statement.columns = 1 .. N
      <4>1. statement.columns \in Seq(Descriptions)
        BY <1>2, RowWireAssumption
      <4> QED
        BY <4>1
    <3>8. \A i \in 1 .. N : /\ block[n][i].ind # Unmapped
                            /\ r.row[i] = (IF block[n][i].ind = IsNull THEN Null ELSE block[n][i].cells)
      BY <2>2, <3>6 DEF RowSaid, r
    <3>9. \A m \in 1 .. n : m = n \/ m \in 1 .. Len(got)
      BY <3>3
    <3> HIDE DEF n, N
    <3>10. \A m \in 1 .. n : \A i \in 1 .. N :
              /\ new[m][i] = (IF block[m][i].ind = IsNull THEN Null ELSE block[m][i].cells)
              /\ block[m][i].ind # Unmapped
      BY <3>3, <3>7, <3>8, <3>9 DEF RowInv, RowsGot
    <3>11. RowsGot'
      BY <1>1, <1>3, <3>3, <3>4, <3>7, <3>10 DEF RowsGot
    <3> QED
      BY <3>5, <3>11
  <2> QED
    BY <2>1, <2>2
<1> QED
  BY <1>5, <1>6, <1>7, <1>8, <1>9 DEF RowInv

\* What Prepare hears is about the statement.
LEMMA DescribeTold ==
  ASSUME statement \in Statements, Describe
  PROVE  \E body : /\ answer' = <<body>>
                   /\ LET r == ParseReply(body) IN
                      r.ok => r.columns = statement.columns /\ r.markers = statement.markers
<1> DEFINE C == statement.columns
           M == statement.markers
<1>1. C \in Seq(Descriptions) /\ M \in Seq(Descriptions)
  BY RowWireAssumption
<1> HIDE DEF C, M
<1>2. CASE \E c \in FormatParams(C, ExtendedFormat, SuperExtFormat) :
             \E m \in FormatParams(M, ExtendedParmFormat, SuperExtParmFormat) : Sends({c, m})
  <2>1. PICK c \in FormatParams(C, ExtendedFormat, SuperExtFormat),
             m \in FormatParams(M, ExtendedParmFormat, SuperExtParmFormat) : Sends({c, m})
    BY <1>2
  <2> DEFINE A == {c, m}
  <2>2. /\ c \in ParamsOf(Nat) /\ c.cp \in ColumnPoints /\ c.data # << >> /\ ParseFormat(c).fields = C
        /\ m \in ParamsOf(Nat) /\ m.cp \in MarkerPoints /\ m.data # << >> /\ ParseFormat(m).fields = M
    BY <1>1, <2>1, FormatParamsRead DEF ColumnPoints, MarkerPoints
  <2>3. /\ c.cp # MessageText /\ c.cp # ExtendedData /\ c.cp # m.cp /\ ~(c.cp \in MarkerPoints)
        /\ m.cp # MessageText /\ m.cp # ExtendedData /\ ~(m.cp \in ColumnPoints)
    BY <2>2 DEF ColumnPoints, MarkerPoints, MessageText, ExtendedData,
                ExtendedFormat, SuperExtFormat, ExtendedParmFormat, SuperExtParmFormat
  <2>4. Saying(c, C, M, NoData) /\ Saying(m, C, M, NoData)
    BY <2>2, <2>3 DEF Saying
  <2>5. IsFiniteSet(A)
    <3>1. IsFiniteSet({c}) /\ IsFiniteSet({m})
      BY FS_Singleton
    <3>2. A = {c} \union {m}
      OBVIOUS
    <3> QED
      BY <3>1, <3>2, FS_Union
  <2>6. A \in SUBSET ParamsOf(Nat) /\ OneEach(A)
    BY <2>2, <2>3 DEF OneEach
  <2>7. \A p \in A : p.cp # MessageText /\ Saying(p, C, M, NoData)
    BY <2>3, <2>4
  <2>8. Sends(A)
    BY <2>1
  <2>9. (\E p \in A : p.cp \in ColumnPoints) /\ (\E p \in A : p.cp \in MarkerPoints)
    BY <2>2
  <2> HIDE DEF A
  <2>10. PICK body : answer' = <<body>> /\ SaidBy(ParseReply(body), A, C, M, NoData)
    <3>1. Nat \subseteq Nat
      OBVIOUS
    <3> QED
      BY <2>5, <2>6, <2>7, <2>8, <3>1, SentRead
  <2>11. ParseReply(body).ok => ParseReply(body).columns = C /\ ParseReply(body).markers = M
    BY <2>9, <2>10 DEF SaidBy
  <2> QED
    BY <2>10, <2>11 DEF C, M
<1>3. CASE Sends({Param(OriginalFormat, <<1>>)})
  <2> DEFINE o == Param(OriginalFormat, <<1>>)
             A == {o}
  <2>1. o \in ParamsOf(Nat) /\ o.cp = OriginalFormat /\ o.data # << >>
    <3> DEFINE d == <<1>>
    <3>1. d \in Seq(Nat) /\ d # << >> /\ OriginalFormat \in Nat
      BY DEF OriginalFormat
    <3>2. o = [cp |-> OriginalFormat, data |-> d]
      BY DEF Param
    <3> HIDE DEF d, o
    <3> QED
      BY <3>1, <3>2 DEF ParamsOf
  <2>2. Sends(A)
    BY <1>3
  <2> HIDE DEF o
  <2>3. Saying(o, C, M, NoData) /\ o.cp # MessageText
    BY <2>1 DEF Saying, MessageText, ColumnPoints, MarkerPoints, ExtendedData, OriginalFormat,
                ExtendedFormat, SuperExtFormat, ExtendedParmFormat, SuperExtParmFormat
  <2>4. IsFiniteSet(A) /\ OneEach(A) /\ A \in SUBSET ParamsOf(Nat)
    BY <2>1, FS_Singleton DEF OneEach
  <2>5. \A p \in A : p.cp # MessageText /\ Saying(p, C, M, NoData)
    BY <2>3
  <2>6. \E p \in A : p.cp = OriginalFormat
    BY <2>1
  <2> HIDE DEF A
  <2>7. PICK body : answer' = <<body>> /\ SaidBy(ParseReply(body), A, C, M, NoData)
    <3>1. Nat \subseteq Nat
      OBVIOUS
    <3> QED
      BY <2>2, <2>4, <2>5, <3>1, SentRead
  <2>8. ~ParseReply(body).ok
    BY <2>6, <2>7 DEF SaidBy
  <2> QED
    BY <2>7, <2>8
<1> QED
  BY <1>2, <1>3 DEF Describe, C, M

LEMMA DescribeKeeps ==
  ASSUME RowInv, Describe
  PROVE  RowInv'
<1>1. /\ phase = "preparing" /\ answer = << >>
      /\ UNCHANGED <<phase, statement, columns, markers, descriptor, args, arrived, query, block, data, got, runs>>
  BY DEF Describe
<1>2. query = << >> /\ runs = 0 /\ statement \in Statements
  BY <1>1 DEF RowInv, RowPhases
<1>3. PICK body : /\ answer' = <<body>>
                  /\ LET r == ParseReply(body) IN
                     r.ok => r.columns = statement.columns /\ r.markers = statement.markers
  BY <1>2, DescribeTold
<1>4. DescriptionTrue'
  <2>1. Head(answer') = body
    BY <1>3
  <2> QED
    BY <1>1, <1>3, <2>1 DEF DescriptionTrue
<1>5. RowPhases' /\ FieldsKnown' /\ QueryTrue' /\ DescriptorKept' /\ RunAnswered' /\ RowsOpen'
  BY <1>1, <1>2 DEF RowPhases, FieldsKnown, QueryTrue, DescriptorKept, RunAnswered, RowsOpen
<1>6. BoundTrue' /\ RowsGot' /\ IsList(got)'
  BY <1>1, BoundSame, GotSame DEF RowInv
<1> QED
  BY <1>4, <1>5, <1>6 DEF RowInv

\* What the server makes of a request, and what it has the format of.
LEMMA RequestTaken ==
  ASSUME statement \in Statements, markers = statement.markers, QueryTrue, query # << >>,
         LET q == Head(query) IN
         /\ descriptor' = IF q.format = << >> THEN descriptor ELSE q.format
         /\ arrived' = IF q.data = << >> THEN << >> ELSE Taken(descriptor', q.data)
  PROVE  /\ markers # << >> => descriptor' = ParameterFormat(markers)
         /\ arrived' # << >> => TakenAs(arrived', markers, args)
<1> DEFINE q == Head(query)
           M == markers
<1>1. M \in Seq(Descriptions)
  BY RowWireAssumption
<1>2. CASE M = << >>
  <2>1. q.format = << >> /\ q.data = << >>
    BY <1>2 DEF QueryTrue
  <2> QED
    BY <1>2, <2>1
<1>3. CASE M # << >>
  <2>1. /\ \A i \in DOMAIN M : args[i] \in ValuesOf(M[i])
        /\ q.data = ParameterData(M, args)
        /\ q.format = ParameterFormat(M) \/ (q.format = << >> /\ descriptor = ParameterFormat(M))
    BY <1>3 DEF QueryTrue
  <2>2. \A i \in 1 .. Len(M) : args[i] \in ValuesOf(M[i])
    BY <1>1, <2>1
  <2>3. ParameterFormat(M) # << >> /\ ParameterData(M, args) # << >>
    <3>1. PICK place : Places(place, M)
      BY <1>1, PlacesAre
    <3>2. DataSays(ParameterData(M, args), M, args, place)
      BY <1>1, <2>2, <3>1, ParameterDataSays
    <3>3. ParameterFormat(M) # << >>
      BY <1>1, ParameterFormatSays
    <3> QED
      BY <3>2, <3>3 DEF DataSays
  <2> HIDE DEF q
  <2>4. descriptor' = ParameterFormat(M)
    BY <2>1, <2>3 DEF q
  <2>5. arrived' = Taken(ParameterFormat(M), ParameterData(M, args))
    BY <2>1, <2>3, <2>4 DEF q
  <2>6. TakenAs(arrived', M, args)
    BY <1>1, <2>2, <2>5, ArgsTaken
  <2> QED
    BY <2>4, <2>6
<1> QED
  BY <1>2, <1>3

\* What is in a reply to a run.
LEMMA BlockTold ==
  ASSUME statement \in Statements, columns = statement.columns, NEW rows \in Blocks(statement.columns),
         NEW indicators \in BOOLEAN, NEW pad \in {0, 1},
         indicators \/ \A n \in DOMAIN rows : \A i \in DOMAIN rows[n] : rows[n][i].ind = 0,
         IF rows = << >> THEN Sends({})
         ELSE Sends({Param(ExtendedData, DataOf(statement.columns, rows, indicators, pad))})
  PROVE  \E body :
           /\ answer' = <<body>>
           /\ ParseReply(body).ok /\ ParseReply(body).data # NoData =>
                LET b == Head(ParseReply(body).data) IN
                /\ Len(rows) \in Nat /\ b.rows = Len(rows)
                /\ \A n \in 1 .. Len(rows) : RowSaid(b, n, rows, Len(statement.columns))
<1> DEFINE C == statement.columns
<1>1. C \in Seq(Descriptions)
  BY RowWireAssumption
<1>2. Nat \subseteq AnyCell
  BY DEF AnyCell
<1>3. CASE rows = << >>
  <2>1. Sends({})
    BY <1>3
  <2>2. IsFiniteSet({}) /\ OneEach({}) /\ {} \in SUBSET ParamsOf(Nat) /\ Nat \subseteq Nat
    BY FS_EmptySet DEF OneEach
  <2>3. \A p \in {} : p.cp # MessageText /\ Saying(p, NoData, NoData, NoData)
    OBVIOUS
  <2> DEFINE A == {}
  <2> HIDE DEF A
  <2>4. PICK body : answer' = <<body>> /\ SaidBy(ParseReply(body), A, NoData, NoData, NoData)
    BY <2>1, <2>2, <2>3, SentRead DEF A
  <2>5. ParseReply(body).ok => ParseReply(body).data = NoData
    BY <2>4 DEF SaidBy, A
  <2> QED
    BY <2>4, <2>5
<1>4. CASE rows # << >>
  <2> DEFINE d == DataOf(C, rows, indicators, pad)
             o == Param(ExtendedData, d)
             A == {o}
             D == <<ParseData(d)>>
  <2>1. PICK n \in Nat : rows \in [1 .. n -> RowsFor(C)]
    BY RowWireAssumption DEF Blocks
  <2>2. n > 0 /\ Len(rows) = n
    <3>1. n = 0 => rows = << >>
      BY <2>1
    <3> QED
      BY <1>4, <2>1, <3>1
  <2>3. Sends(A)
    BY <1>4
  <2>4. d \in Seq(AnyCell) /\ d # << >>
    <3>1. PICK place : Places(place, C)
      BY <1>1, PlacesAre
    <3>2. /\ d \in Seq(AnyCell)
          /\ BlockLaid(d, C, rows, indicators, pad, place[Len(C)] + pad)
      BY <1>1, <2>1, <2>2, <3>1, DataLaid
    <3> DEFINE size == place[Len(C)] + pad
               I == IndicatorCells(indicators, n, Len(C))
    <3>3. Len(C) \in Nat /\ size \in Nat
      <4>1. Len(C) \in 0 .. Len(C) /\ Len(C) \in Nat
        BY <1>1
      <4>2. place[Len(C)] \in Nat
        BY <3>1, <4>1 DEF Places
      <4> QED
        BY <4>1, <4>2
    <3>4. n * size \in Nat /\ n * Len(C) \in Nat
      BY <3>3, OneMore, n \in Nat
    <3>5. I \in Nat
      BY <3>4 DEF IndicatorCells
    <3>6. Len(d) = 5 + (I + n * size)
      BY <2>2, <3>2 DEF BlockLaid
    <3> DEFINE k == n * size
    <3>7. k \in Nat
      BY <3>4
    <3>8. Len(d) = 5 + (I + k)
      BY <3>6
    <3> HIDE DEF d, C, I, k, size
    <3>9. Len(d) # 0
      BY <3>5, <3>7, <3>8
    <3> QED
      BY <3>2, <3>9
  <2> HIDE DEF d, C
  <2>5. o.cp = ExtendedData /\ o.data = d /\ o \in ParamsOf(AnyCell)
    <3>1. ExtendedData \in AnyCell /\ o = [cp |-> ExtendedData, data |-> d]
      BY DEF AnyCell, ExtendedData, Param
    <3> QED
      BY <2>4, <3>1 DEF ParamsOf
  <2> HIDE DEF o
  <2>6. IsFiniteSet(A) /\ OneEach(A) /\ A \in SUBSET ParamsOf(AnyCell)
    BY <2>5, FS_Singleton DEF OneEach
  <2>7. \A p \in A : p.cp # MessageText /\ Saying(p, NoData, NoData, D)
    BY <2>4, <2>5 DEF Saying, MessageText, ColumnPoints, MarkerPoints, ExtendedData,
                     ExtendedFormat, SuperExtFormat, ExtendedParmFormat, SuperExtParmFormat
  <2>8. o \in A /\ \E p \in A : p.cp = ExtendedData
    BY <2>5
  <2> HIDE DEF A
  <2>9. PICK body : answer' = <<body>> /\ SaidBy(ParseReply(body), A, NoData, NoData, D)
    BY <1>2, <2>3, <2>6, <2>7, SentRead
  <2> DEFINE r == ParseReply(body)
  <2>10. ASSUME r.ok
         PROVE  LET b == Head(r.data) IN
                b.rows = n /\ \A m \in 1 .. n : RowSaid(b, m, rows, Len(C))
    <3>1. r.data = D /\ ParseData(d).ok
      BY <2>5, <2>8, <2>9, <2>10 DEF SaidBy
    <3>2. Head(r.data) = ParseData(d)
      BY <3>1
    <3>3. columns = C
      BY DEF C
    <3>4. indicators \/ \A m \in DOMAIN rows : \A i \in DOMAIN rows[m] : rows[m][i].ind = 0
      OBVIOUS
    <3>5. ASSUME NEW m \in 1 .. n PROVE ParseData(d).rows = n /\ RowSaid(ParseData(d), m, rows, Len(C))
      BY ONLY <1>1, <2>1, <3>1, <3>3, <3>4, <3>5, RowRead, indicators \in BOOLEAN, pad \in {0, 1}, SMTT(30) DEF d
    <3>6. 1 \in 1 .. n
      BY <2>1, <2>2
    <3> QED
      BY <3>2, <3>5, <3>6
  <2> QED
    BY <2>1, <2>2, <2>9, <2>10 DEF C
<1> QED
  BY <1>3, <1>4

LEMMA AnswersKeep ==
  ASSUME RowInv, Answers
  PROVE  RowInv'
<1>1. /\ phase = "running" /\ query # << >> /\ query' = << >>
      /\ UNCHANGED <<phase, statement, columns, markers, args, data, got, runs>>
  BY DEF Answers
<1>2. /\ statement \in Statements /\ runs \in Nat /\ columns = statement.columns /\ markers = statement.markers
      /\ got = << >> /\ answer = << >>
  BY <1>1 DEF RowInv, RowPhases, FieldsKnown, RowsGot
<1>3. /\ markers # << >> => descriptor' = ParameterFormat(markers)
      /\ arrived' # << >> => TakenAs(arrived', markers, args)
  <2>1. LET q == Head(query) IN
        /\ descriptor' = IF q.format = << >> THEN descriptor ELSE q.format
        /\ arrived' = IF q.data = << >> THEN << >> ELSE Taken(descriptor', q.data)
    BY DEF Answers
  <2>2. QueryTrue
    BY DEF RowInv
  <2> QED
    BY <1>1, <1>2, <2>1, <2>2, RequestTaken
<1>4. PICK body :
        /\ answer' = <<body>>
        /\ ParseReply(body).ok /\ ParseReply(body).data # NoData =>
             LET b == Head(ParseReply(body).data) IN
             /\ Len(block') \in Nat /\ b.rows = Len(block')
             /\ \A n \in 1 .. Len(block') : RowSaid(b, n, block', Len(statement.columns))
  <2>1. PICK rows \in Blocks(statement.columns), indicators \in BOOLEAN, pad \in {0, 1} :
          /\ indicators \/ \A n \in DOMAIN rows : \A i \in DOMAIN rows[n] : rows[n][i].ind = 0
          /\ block' = rows
          /\ IF rows = << >> THEN Sends({})
             ELSE Sends({Param(ExtendedData, DataOf(statement.columns, rows, indicators, pad))})
    BY Zenon DEF Answers
  <2> QED
    BY <1>2, <2>1, BlockTold
<1>5. RunAnswered'
  <2>1. Head(answer') = body
    BY <1>4
  <2>2. \A b, n, rows, N : RowSaid(b, n, rows, N)' <=> RowSaid(b, n, rows, N)
    BY <1>1, RowSame
  <2>3. ParseReply(body).ok => BlockRead(ParseReply(body).data)'
    BY <1>1, <1>4, <2>2 DEF BlockRead
  <2> QED
    BY <2>1, <2>3 DEF RunAnswered
<1>6. BoundTrue'
  <2>1. arrived' # << >> => TakenAs(arrived', statement.markers, args)
    BY <1>2, <1>3
  <2> QED
    BY <1>1, <2>1 DEF BoundTrue, TakenAs
<1>7. RowPhases' /\ FieldsKnown' /\ DescriptionTrue' /\ QueryTrue' /\ DescriptorKept' /\ RowsOpen'
  BY <1>1, <1>2, <1>3 DEF RowPhases, FieldsKnown, DescriptionTrue, QueryTrue, DescriptorKept, RowsOpen
<1>8. RowsGot' /\ IsList(got)'
  <2>1. got' = << >> /\ DOMAIN got' = {} /\ got' \in Seq({})
    BY <1>1, <1>2
  <2> QED
    BY <2>1 DEF RowsGot, IsList
<1> QED
  BY <1>5, <1>6, <1>7, <1>8 DEF RowInv

\* Each step of the program keeps the invariant of a statement.
LEMMA RowKept ==
  ASSUME RowInv, [Next]_vars
  PROVE  RowInv'
<1>1. CASE client = "database" /\ RowNext
  <2>1. CASE Prepared
    BY <2>1, PreparedKeeps
  <2>2. CASE Run
    BY <2>2, RunKeeps
  <2>3. CASE Opened
    BY <2>3, OpenedKeeps
  <2>4. CASE NextRow
    BY <2>4, NextRowKeeps
  <2>5. CASE Describe
    BY <2>5, DescribeKeeps
  <2>6. CASE Answers
    BY <2>6, AnswersKeep
  <2> QED
    BY <1>1, <2>1, <2>2, <2>3, <2>4, <2>5, <2>6 DEF RowNext
<1>2. CASE UNCHANGED rowVars
  BY <1>2, RowStutters
<1> QED
  BY <1>1, <1>2, Zenon DEF Next, vars

\* Theorem: RowInv holds in every state.  A Stmt has the fields of the
\* statement the server prepared, a request on its way carries the arguments
\* of this run and a format unless the server has it, and a block that could
\* be parsed has every row of the server's (Conn.Prepare, Stmt.bind,
\* parseReply).
THEOREM RowInvCorrect == Spec => []RowInv
<1>1. Init => RowInv
  BY RowStarts
<1>2. RowInv /\ [Next]_vars => RowInv'
  BY RowKept
<1> QED
  BY <1>1, <1>2, PTL DEF Spec

\* Theorem: for all statements, values and numbers of runs, in every state,
\* the server has taken the arguments of a run for what the caller gave, null
\* for null and each in its own field, by the descriptor of the first run
\* (Stmt.bind, encodeParameterFormat, encodeParameterData).
THEOREM BoundCorrect == Spec => []BoundTrue
<1>1. RowInv => BoundTrue
  BY DEF RowInv
<1> QED
  BY <1>1, RowInvCorrect, PTL

\* Theorem: for all statements, values and blocks, in every state, a Stmt's
\* columns and parameters are the statement's, and each row that Next has
\* returned is the server's, with no column in it that could not be mapped,
\* whichever formats, indicators and padding the server chose
\* (parseDataFormat, parseSuperExtendedFormat, parseResultData, Rows.Next).
THEOREM RowsCorrect == Spec => []RowsTrue
<1>1. RowInv => RowsTrue
  BY DEF RowInv, FieldsKnown, RowsGot, RowsTrue
<1> QED
  BY <1>1, RowInvCorrect, PTL
=============================================================================
