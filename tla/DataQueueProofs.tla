-------------------------- MODULE DataQueueProofs --------------------------
(***************************************************************************)
(* Theorems about DataQueue, for any number of clients, queues, entries,   *)
(* keys and calls.                                                         *)
(***************************************************************************)
EXTENDS DataQueue, SequenceFacts, SequenceTheorems, FiniteSetTheorems, TLAPS

Ops == {"create", "delete", "attributes", "clear", "clearKey", "write", "read"}

\* What a queue holds.
Items == [key : Keys \union {NoKey}, entry : Entries]

\* An entry is among others, and not twice.
Has(es, e) == PlacesIn(es, e) # {}
Once(es, e) == \A i, j \in PlacesIn(es, e) : i = j

-----------------------------------------------------------------------------
(***************************************************************************)
(* The entries of a queue, when some are cleared, one is added or taken.   *)
(***************************************************************************)
\* What a request for these keys leaves, entry after entry.
Keeps(f, es, keys) ==
  /\ f \in [0 .. Len(es) -> Seq(Items)] /\ f[0] = << >> /\ f[Len(es)] = Kept(es, keys)
  /\ \A n \in 1 .. Len(es) : f[n] = IF es[n].key \in keys THEN f[n - 1] ELSE Append(f[n - 1], es[n])

LEMMA KeptSteps ==
  ASSUME NEW es \in Seq(Items), NEW keys
  PROVE  \E f : Keeps(f, es, keys)
<1> DEFINE X == Seq(Items)
           N == Len(es)
           Body(f) == [n \in 0 .. N |-> IF n = 0 THEN << >>
                                        ELSE IF es[n].key \in keys THEN f[n - 1] ELSE Append(f[n - 1], es[n])]
           step == [n \in 1 .. N |-> [x \in X |-> IF es[n].key \in keys THEN x ELSE Append(x, es[n])]]
<1>1. N \in Nat /\ \A n \in 1 .. N : es[n] \in Items
  OBVIOUS
<1>2. step \in [1 .. N -> [X -> X]]
  BY <1>1
<1>3. << >> \in X
  OBVIOUS
<1>4. \A n \in 1 .. N : \A x \in X : step[n][x] = IF es[n].key \in keys THEN x ELSE Append(x, es[n])
  OBVIOUS
<1> HIDE DEF X, N, step
<1>a. PICK f : Iterates(f, N, X, << >>, step)
  BY <1>1, <1>2, <1>3, RecursionDefines
<1>5. f \in [0 .. N -> X] /\ f[0] = << >> /\ \A n \in 1 .. N : f[n] = step[n][f[n - 1]]
  BY <1>a DEF Iterates
<1>6. ASSUME NEW n \in 1 .. N PROVE f[n] = IF es[n].key \in keys THEN f[n - 1] ELSE Append(f[n - 1], es[n])
  <2>1. n - 1 \in 0 .. N
    BY <1>1
  <2>2. f[n - 1] \in X /\ f[n] = step[n][f[n - 1]]
    BY <1>5, <2>1
  <2> QED
    BY <1>4, <2>2
<1>7. f = Body(f)
  <2>1. ASSUME NEW n \in 0 .. N
        PROVE  f[n] = IF n = 0 THEN << >> ELSE IF es[n].key \in keys THEN f[n - 1] ELSE Append(f[n - 1], es[n])
    <3>1. n = 0 \/ n \in 1 .. N
      BY <1>1
    <3>2. n \in 1 .. N => n # 0
      BY <1>1
    <3> QED
      BY <1>5, <1>6, <3>1, <3>2
  <2>2. ASSUME NEW n \in 0 .. N PROVE f[n] = Body(f)[n]
    <3>1. Body(f)[n] = IF n = 0 THEN << >> ELSE IF es[n].key \in keys THEN f[n - 1] ELSE Append(f[n - 1], es[n])
      OBVIOUS
    <3> QED
      BY <2>1, <3>1
  <2> HIDE DEF Body
  <2>3. Body(f) = [n \in 0 .. N |-> Body(f)[n]]
    BY DEF Body
  <2> QED
    BY <1>5, <2>2, <2>3
<1>8. (CHOOSE g : g = Body(g)) = Body(CHOOSE g : g = Body(g))
  <2> HIDE DEF Body
  <2> QED
    BY <1>7
<1> DEFINE g == CHOOSE g : g = Body(g)
<1>9. Kept(es, keys) = g[N]
  BY DEF Kept, N
<1> HIDE DEF g
<1>10. g = Body(g)
  BY <1>8 DEF g
<1>11. /\ g[0] = << >>
       /\ \A n \in 1 .. N : g[n] = IF es[n].key \in keys THEN g[n - 1] ELSE Append(g[n - 1], es[n])
  <2>1. PICK h : h = g /\ g = Body(h)
    BY <1>10
  <2>2. g[0] = << >>
    BY <1>1, <2>1
  <2>3. ASSUME NEW n \in 1 .. N
        PROVE  g[n] = IF es[n].key \in keys THEN h[n - 1] ELSE Append(h[n - 1], es[n])
    <3>1. n \in 0 .. N /\ n # 0
      BY <1>1
    <3> QED
      BY <2>1, <3>1
  <2> QED
    BY <2>1, <2>2, <2>3
<1> DEFINE S == {n \in Nat : n <= N => g[n] \in X}
<1>12. \A n \in Nat : n \in S
  <2>1. 0 \in S
    BY <1>3, <1>11
  <2>2. ASSUME NEW n \in Nat, n \in S PROVE n + 1 \in S
    <3> SUFFICES ASSUME n + 1 <= N PROVE g[n + 1] \in X
      OBVIOUS
    <3>1. n + 1 \in 1 .. N /\ n + 1 - 1 = n /\ g[n] \in X
      BY <1>1, <2>2
    <3>2. es[n + 1] \in Items /\ g[n + 1] = IF es[n + 1].key \in keys THEN g[n] ELSE Append(g[n], es[n + 1])
      BY <1>1, <1>11, <3>1
    <3>3. Append(g[n], es[n + 1]) \in X
      BY <3>1, <3>2 DEF X
    <3> QED
      BY <3>1, <3>2, <3>3
  <2> HIDE DEF S
  <2> QED
    BY <2>1, <2>2, SetInduction
<1>13. g \in [0 .. N -> X]
  <2>1. \A n \in 0 .. N : g[n] \in X
    BY <1>12
  <2>2. g = [n \in 0 .. N |-> g[n]]
    BY <1>10
  <2> QED
    BY <2>1, <2>2
<1> QED
  BY <1>9, <1>11, <1>13 DEF X, N, Keeps

\* An entry that was in a queue once stays so, unless its key is asked for.
LEMMA KeptEntries ==
  ASSUME NEW es \in Seq(Items), NEW keys, NEW e, Once(es, e)
  PROVE  /\ Kept(es, keys) \in Seq(Items) /\ Once(Kept(es, keys), e)
         /\ Has(Kept(es, keys), e) => Has(es, e)
         /\ Has(es, e) => \/ Has(Kept(es, keys), e)
                          \/ \E i \in DOMAIN es : es[i].entry = e /\ es[i].key \in keys
<1> DEFINE N == Len(es)
<1>1. N \in Nat /\ DOMAIN es = 1 .. N /\ \A i \in 1 .. N : es[i] \in Items
  OBVIOUS
<1>2. \A i, j \in 1 .. N : es[i].entry = e /\ es[j].entry = e => i = j
  BY <1>1 DEF Once, PlacesIn
<1>3. PICK f \in [0 .. N -> Seq(Items)] :
            /\ f[0] = << >> /\ f[N] = Kept(es, keys)
            /\ \A n \in 1 .. N : f[n] = IF es[n].key \in keys THEN f[n - 1] ELSE Append(f[n - 1], es[n])
  <2>1. PICK f : Keeps(f, es, keys)
    BY KeptSteps
  <2> QED
    BY <2>1 DEF Keeps
<1> HIDE DEF N
<1> DEFINE From(n) == \A j \in 1 .. Len(f[n]) : \E i \in 1 .. n : f[n][j] = es[i]
           To(n) == \A i \in 1 .. n : es[i].key \notin keys => \E j \in 1 .. Len(f[n]) : f[n][j] = es[i]
           Sole(n) == \A i, j \in 1 .. Len(f[n]) : f[n][i].entry = e /\ f[n][j].entry = e => i = j
           S == {n \in Nat : n <= N => From(n) /\ To(n) /\ Sole(n)}
<1>4. 0 \in S
  BY <1>3
<1>5. ASSUME NEW n \in Nat, n \in S PROVE n + 1 \in S
  <2> SUFFICES ASSUME n + 1 <= N PROVE From(n + 1) /\ To(n + 1) /\ Sole(n + 1)
    OBVIOUS
  <2> HIDE DEF From, To, Sole
  <2>1. From(n) /\ To(n) /\ Sole(n) /\ n + 1 \in 1 .. N /\ n + 1 - 1 = n /\ n \in 0 .. N
    BY <1>1, <1>5
  <2>2. f[n] \in Seq(Items) /\ es[n + 1] \in Items
    BY <1>1, <1>3, <2>1
  <2>3. CASE es[n + 1].key \in keys
    <3>1. f[n + 1] = f[n]
      BY <1>3, <2>1, <2>3
    <3> QED
      BY <2>1, <2>3, <3>1 DEF From, To, Sole
  <2>4. CASE es[n + 1].key \notin keys
    <3>0. f[n + 1] = Append(f[n], es[n + 1])
      <4>1. f[n + 1] = IF es[n + 1].key \in keys THEN f[n + 1 - 1] ELSE Append(f[n + 1 - 1], es[n + 1])
        BY <1>3, <2>1
      <4> QED
        BY <2>1, <2>4, <4>1
    <3> DEFINE s == f[n]
               x == es[n + 1]
               t == Append(s, x)
    <3>1. f[n + 1] = t
      BY <3>0
    <3>2. /\ Len(t) = Len(s) + 1 /\ Len(s) \in Nat /\ t[Len(s) + 1] = x
          /\ \A j \in 1 .. Len(s) : t[j] = s[j]
      BY <2>2, AppendProperties
    <3>3. /\ \A j \in 1 .. Len(s) : \E i \in 1 .. n : s[j] = es[i]
          /\ \A i \in 1 .. n : es[i].key \notin keys => \E j \in 1 .. Len(s) : s[j] = es[i]
          /\ \A i, j \in 1 .. Len(s) : s[i].entry = e /\ s[j].entry = e => i = j
      BY <2>1 DEF From, To, Sole
    <3> HIDE DEF s, t
    <3>4. From(n + 1)
      <4> SUFFICES ASSUME NEW j \in 1 .. Len(t) PROVE \E i \in 1 .. n + 1 : t[j] = es[i]
        BY <3>1 DEF From
      <4>1. CASE j \in 1 .. Len(s)
        <5>1. PICK i \in 1 .. n : s[j] = es[i]
          BY <3>3, <4>1
        <5>2. t[j] = es[i] /\ i \in 1 .. n + 1
          BY <3>2, <4>1, <5>1
        <5> QED
          BY <5>2
      <4>2. CASE j = Len(s) + 1
        <5>1. t[j] = es[n + 1] /\ n + 1 \in 1 .. n + 1
          BY <3>2, <4>2
        <5> QED
          BY <5>1
      <4> QED
        BY <3>2, <4>1, <4>2
    <3>5. To(n + 1)
      <4> SUFFICES ASSUME NEW i \in 1 .. n + 1, es[i].key \notin keys
                   PROVE  \E j \in 1 .. Len(t) : t[j] = es[i]
        BY <3>1 DEF To
      <4>1. 1 .. Len(s) \subseteq 1 .. Len(t) /\ Len(s) + 1 \in 1 .. Len(t)
        BY <3>2
      <4>2. CASE i \in 1 .. n
        <5>1. PICK j \in 1 .. Len(s) : s[j] = es[i]
          BY <3>3, <4>2
        <5>2. t[j] = es[i] /\ j \in 1 .. Len(t)
          BY <3>2, <4>1, <5>1
        <5> QED
          BY <5>2
      <4>3. CASE i = n + 1
        BY <3>2, <4>1, <4>3
      <4> QED
        BY <4>2, <4>3
    <3>6. Sole(n + 1)
      <4> SUFFICES ASSUME NEW i \in 1 .. Len(t), NEW j \in 1 .. Len(t), t[i].entry = e, t[j].entry = e
                   PROVE  i = j
        BY <3>1 DEF Sole
      <4>1. i \in 1 .. Len(s) \/ i = Len(s) + 1
        BY <3>2
      <4>2. j \in 1 .. Len(s) \/ j = Len(s) + 1
        BY <3>2
      <4>3. ASSUME NEW k \in 1 .. Len(s), s[k].entry = e, x.entry = e PROVE FALSE
        <5>1. PICK m \in 1 .. n : s[k] = es[m]
          BY <3>3, <4>3
        <5>2. m \in 1 .. N /\ m # n + 1
          BY <1>1, <2>1
        <5> QED
          BY <1>2, <2>1, <4>3, <5>1, <5>2
      <4> HIDE DEF x
      <4> QED
        BY <3>2, <3>3, <4>1, <4>2, <4>3
    <3> QED
      BY <3>4, <3>5, <3>6
  <2> QED
    BY <2>3, <2>4
<1> HIDE DEF S
<1>6. N \in S
  BY <1>1, <1>4, <1>5, SetInduction
<1> DEFINE t == Kept(es, keys)
<1>7. t \in Seq(Items)
  BY <1>1, <1>3
<1>8. DOMAIN t = 1 .. Len(t)
  BY <1>7
<1>9. /\ \A j \in DOMAIN t : \E i \in 1 .. N : t[j] = es[i]
      /\ \A i \in 1 .. N : es[i].key \notin keys => \E j \in DOMAIN t : t[j] = es[i]
      /\ \A i, j \in DOMAIN t : t[i].entry = e /\ t[j].entry = e => i = j
  <2>1. From(N) /\ To(N) /\ Sole(N)
    BY <1>1, <1>6 DEF S
  <2> QED
    BY <1>3, <1>8, <2>1
<1> HIDE DEF t
<1>10. Once(t, e)
  BY <1>9 DEF Once, PlacesIn
<1>11. ASSUME Has(t, e) PROVE Has(es, e)
  <2>1. PICK j \in DOMAIN t : t[j].entry = e
    BY <1>11 DEF Has, PlacesIn
  <2>2. PICK i \in 1 .. N : t[j] = es[i]
    BY <1>9
  <2> QED
    BY <1>1, <2>1, <2>2 DEF Has, PlacesIn
<1>12. Has(es, e) => Has(t, e) \/ \E i \in DOMAIN es : es[i].entry = e /\ es[i].key \in keys
  BY <1>1, <1>9 DEF Has, PlacesIn
<1> QED
  BY <1>7, <1>10, <1>11, <1>12 DEF t

LEMMA AppendEntries ==
  ASSUME NEW es \in Seq(Items), NEW x \in Items, NEW e
  PROVE  LET t == Append(es, x) IN
         /\ t \in Seq(Items)
         /\ x.entry # e => (Has(t, e) <=> Has(es, e)) /\ (Once(es, e) => Once(t, e))
         /\ x.entry = e => Has(t, e) /\ (~Has(es, e) => Once(t, e))
<1> DEFINE t == Append(es, x)
           n == Len(es) + 1
<1>1. /\ t \in Seq(Items) /\ DOMAIN t = 1 .. n /\ DOMAIN es = 1 .. Len(es) /\ Len(es) \in Nat
      /\ t[n] = x /\ \A i \in DOMAIN es : t[i] = es[i]
  BY AppendProperties
<1>2. \A i \in DOMAIN t : i \in DOMAIN es \/ i = n
  BY <1>1
<1>3. n \in DOMAIN t /\ DOMAIN es \subseteq DOMAIN t
  BY <1>1
<1> HIDE DEF t, n
<1>4. ASSUME x.entry # e PROVE PlacesIn(t, e) = PlacesIn(es, e)
  BY <1>1, <1>2, <1>3, <1>4 DEF PlacesIn
<1>5. ASSUME x.entry = e PROVE n \in PlacesIn(t, e) /\ PlacesIn(t, e) \subseteq PlacesIn(es, e) \union {n}
  BY <1>1, <1>2, <1>3, <1>5 DEF PlacesIn
<1>6. x.entry # e => (Has(t, e) <=> Has(es, e)) /\ (Once(es, e) => Once(t, e))
  BY <1>4 DEF Has, Once
<1>7. ASSUME x.entry = e PROVE Has(t, e) /\ (~Has(es, e) => Once(t, e))
  <2>1. Has(t, e)
    BY <1>5, <1>7 DEF Has
  <2>2. ASSUME ~Has(es, e) PROVE Once(t, e)
    <3>1. PlacesIn(t, e) \subseteq {n}
      BY <1>5, <1>7, <2>2 DEF Has
    <3> QED
      BY <3>1 DEF Once
  <2> QED
    BY <2>1, <2>2
<1> QED
  BY <1>1, <1>6, <1>7 DEF t

LEMMA Removed ==
  ASSUME NEW es \in Seq(Items), NEW i \in DOMAIN es
  PROVE  LET t == RemoveAt(es, i) IN
         /\ t \in Seq(Items)
         /\ \A e : Once(es, e) => Once(t, e) /\ (Has(t, e) <=> Has(es, e) /\ es[i].entry # e)
<1> DEFINE t == RemoveAt(es, i)
           a == SubSeq(es, 1, i - 1)
           b == SubSeq(es, i + 1, Len(es))
           n == Len(es)
           From(j) == IF j < i THEN j ELSE j + 1
<1>1. DOMAIN es = 1 .. n /\ n \in Nat /\ \A j \in 1 .. n : es[j] \in Items
  OBVIOUS
<1>2. a \in Seq(Items) /\ Len(a) = i - 1 /\ \A j \in 1 .. i - 1 : a[j] = es[j]
  OBVIOUS
<1>3. b \in Seq(Items) /\ Len(b) = n - i /\ \A j \in 1 .. n - i : b[j] = es[j + i]
  OBVIOUS
<1>4. t = a \o b
  BY DEF RemoveAt
<1> HIDE DEF a, b, t, n
<1>5. /\ t \in Seq(Items) /\ Len(t) = n - 1
      /\ \A j \in 1 .. n - 1 : t[j] = IF j <= i - 1 THEN a[j] ELSE b[j - (i - 1)]
  <2>1. Len(a) + Len(b) = n - 1
    BY <1>1, <1>2, <1>3
  <2>2. /\ t \in Seq(Items) /\ Len(t) = Len(a) + Len(b)
        /\ \A j \in 1 .. Len(a) + Len(b) : t[j] = IF j <= Len(a) THEN a[j] ELSE b[j - Len(a)]
    BY <1>2, <1>3, <1>4, ConcatProperties
  <2> QED
    BY <1>2, <2>1, <2>2
<1>6. DOMAIN t = 1 .. n - 1 /\ \A j \in 1 .. n - 1 : From(j) \in 1 .. n /\ From(j) # i /\ t[j] = es[From(j)]
  <2>1. DOMAIN t = 1 .. n - 1
    BY <1>5
  <2>2. ASSUME NEW j \in 1 .. n - 1 PROVE From(j) \in 1 .. n /\ From(j) # i /\ t[j] = es[From(j)]
    <3>1. CASE j <= i - 1
      <4>1. j \in 1 .. i - 1 /\ j < i /\ j \in 1 .. n /\ j # i /\ From(j) = j
        BY <1>1, <3>1
      <4> QED
        BY <1>2, <1>5, <3>1, <4>1
    <3>2. CASE ~(j <= i - 1)
      <4>1. j - (i - 1) \in 1 .. n - i /\ j - (i - 1) + i = j + 1 /\ ~(j < i) /\ j + 1 \in 1 .. n /\ j + 1 # i
        BY <1>1, <3>2
      <4>2. From(j) = j + 1
        BY <4>1
      <4>3. t[j] = b[j - (i - 1)]
        BY <1>5, <3>2
      <4>4. b[j - (i - 1)] = es[j + 1]
        BY <1>3, <4>1
      <4> HIDE DEF From
      <4> QED
        BY <4>1, <4>2, <4>3, <4>4
    <3> QED
      BY <3>1, <3>2
  <2> QED
    BY <2>1, <2>2
<1>7. \A j, k \in 1 .. n - 1 : From(j) = From(k) => j = k
  BY <1>1
<1>8. ASSUME NEW j \in 1 .. n, j # i PROVE \E k \in 1 .. n - 1 : From(k) = j
  <2>1. CASE j < i
    BY <1>1, <2>1
  <2>2. CASE j > i
    <3>1. j - 1 \in 1 .. n - 1 /\ From(j - 1) = j
      BY <1>1, <2>2
    <3> QED
      BY <3>1
  <2> QED
    BY <1>1, <1>8, <2>1, <2>2
<1> HIDE DEF From
<1>9. ASSUME NEW e, Once(es, e) PROVE Once(t, e) /\ (Has(t, e) <=> Has(es, e) /\ es[i].entry # e)
  <2>1. Once(t, e)
    BY <1>1, <1>6, <1>7, <1>9 DEF Once, PlacesIn
  <2>2. ASSUME Has(t, e) PROVE Has(es, e) /\ es[i].entry # e
    <3>1. PICK j \in 1 .. n - 1 : t[j].entry = e
      BY <1>6, <2>2 DEF Has, PlacesIn
    <3>2. From(j) \in PlacesIn(es, e) /\ From(j) # i
      BY <1>1, <1>6, <3>1 DEF PlacesIn
    <3>3. i \notin PlacesIn(es, e)
      BY <1>9, <3>2 DEF Once
    <3> QED
      BY <3>2, <3>3 DEF Has, PlacesIn
  <2>3. ASSUME Has(es, e), es[i].entry # e PROVE Has(t, e)
    <3>1. PICK j \in 1 .. n : es[j].entry = e
      BY <1>1, <2>3 DEF Has, PlacesIn
    <3>2. PICK k \in 1 .. n - 1 : From(k) = j
      BY <1>8, <2>3, <3>1
    <3>3. t[k].entry = e /\ k \in DOMAIN t
      BY <1>6, <3>1, <3>2
    <3> QED
      BY <3>3 DEF Has, PlacesIn
  <2> QED
    BY <2>1, <2>2, <2>3
<1> QED
  BY <1>5, <1>9 DEF t


-----------------------------------------------------------------------------
(***************************************************************************)
(* The handshake, requests and replies.                                    *)
(***************************************************************************)
\* A socket carries at most one request, or one reply.
Single(s) == s # << >> /\ s = <<Head(s)>>

LEMMA Singles ==
  ASSUME NEW x
  PROVE  /\ <<x>> # << >> /\ Head(<<x>>) = x /\ Tail(<<x>>) = << >>
         /\ Append(<< >>, x) = <<x>> /\ Single(<<x>>) /\ Range(<<x>>) = {x}
<1>1. <<x>> # << >> /\ Head(<<x>>) = x /\ Tail(<<x>>) = << >> /\ Append(<< >>, x) = <<x>>
  OBVIOUS
<1>2. Range(<<x>>) = {x}
  BY DEF Range
<1> QED
  BY <1>1, <1>2 DEF Single

LEMMA HandshakeOps ==
  /\ Range(Handshakes) = {"seeds", "start", "exchange"} /\ Len(Handshakes) = 3
  /\ DOMAIN Handshakes = 1 .. 3
  /\ Handshakes[1] = "seeds" /\ Handshakes[2] = "start" /\ Handshakes[3] = "exchange"
<1>1. Len(Handshakes) = 3 /\ DOMAIN Handshakes = 1 .. 3
      /\ Handshakes[1] = "seeds" /\ Handshakes[2] = "start" /\ Handshakes[3] = "exchange"
  BY DEF Handshakes
<1>2. Range(Handshakes) = {"seeds", "start", "exchange"}
  BY <1>1 DEF Range
<1> QED
  BY <1>1, <1>2

\* The step that a client connecting is at.
LEMMA StepOf ==
  ASSUME NEW c, NEW i \in 1 .. 3, stage[c] = Handshakes[i]
  PROVE  Step(c) = i
<1>1. \A j \in DOMAIN Handshakes : Handshakes[j] = stage[c] <=> j = i
  BY HandshakeOps
<1>2. i \in DOMAIN Handshakes
  BY HandshakeOps
<1> QED
  BY <1>1, <1>2 DEF Step

LEMMA CallFields ==
  ASSUME NEW k \in Calls
  PROVE  /\ k.op \in Ops /\ k.queue \in Queues /\ k # NoCall
         /\ k.op = "read" => k.peek \in BOOLEAN
         /\ k.op = "create" => k.options \in Options
         /\ k.op = "write" => k.key \in Keys \union {NoKey} /\ k.entry \in Entries
<1>1. /\ k.op \in Ops /\ k.queue \in Queues
      /\ k.op = "read" => k.peek \in BOOLEAN
      /\ k.op = "create" => k.options \in Options
      /\ k.op = "write" => k.key \in Keys \union {NoKey} /\ k.entry \in Entries
  BY DEF Calls, Ops
<1>2. k # NoCall
  BY <1>1 DEF NoCall, Ops
<1> QED
  BY <1>1, <1>2

\* A request tells the server which call it is, and on which queue.
LEMMA Encoded ==
  ASSUME NEW k \in Calls, NEW n
  PROVE  LET r == Encode(k, n) IN
         /\ r.op \in Ops \ {"clearKey"} /\ r.n = n /\ r.queue = k.queue
         /\ r.op = "read" <=> k.op = "read"
         /\ r.op = "attributes" <=> k.op = "attributes"
         /\ r.op = "write" <=> k.op = "write"
         /\ r.op = "write" => r.key = k.key /\ r.entry = k.entry
         /\ r.op = "read" => r.peek = FlagByte(k.peek)
         /\ r.op = "create" => k.op = "create" /\ r.type = TypeByte(k.options) /\ r.options = k.options
<1>1. k.op \in Ops
  BY CallFields
<1>2. CASE k.op = "create"
  <2>1. Encode(k, n) = [op |-> "create", queue |-> k.queue, type |-> TypeByte(k.options),
                        options |-> k.options, n |-> n]
    BY <1>2 DEF Encode
  <2> QED
    BY <1>2, <2>1 DEF Ops
<1>3. CASE k.op \in {"delete", "attributes"}
  <2>1. Encode(k, n) = [op |-> k.op, queue |-> k.queue, n |-> n]
    BY <1>3 DEF Encode
  <2> QED
    BY <1>3, <2>1 DEF Ops
<1>4. CASE k.op = "clear"
  <2>1. Encode(k, n) = [op |-> "clear", queue |-> k.queue, keyed |-> FlagByte(FALSE),
                        keys |-> Keys \union {NoKey}, n |-> n]
    BY <1>4 DEF Encode
  <2> QED
    BY <1>4, <2>1 DEF Ops
<1>5. CASE k.op = "clearKey"
  <2>1. Encode(k, n) = [op |-> "clear", queue |-> k.queue, keyed |-> FlagByte(TRUE), keys |-> {k.key}, n |-> n]
    BY <1>5 DEF Encode
  <2> QED
    BY <1>5, <2>1 DEF Ops
<1>6. CASE k.op = "write"
  <2>1. Encode(k, n) = [op |-> "write", queue |-> k.queue, keyed |-> FlagByte(k.key # NoKey), key |-> k.key,
                        entry |-> k.entry, n |-> n]
    BY <1>6 DEF Encode
  <2> QED
    BY <1>6, <2>1 DEF Ops
<1>7. CASE k.op = "read"
  <2>1. Encode(k, n) = [op |-> "read", queue |-> k.queue, keyed |-> FlagByte(k.keyed), keys |-> k.keys,
                        wait |-> k.wait, peek |-> FlagByte(k.peek), n |-> n]
    BY <1>7 DEF Encode
  <2> QED
    BY <1>7, <2>1 DEF Ops
<1> QED
  BY <1>1, <1>2, <1>3, <1>4, <1>5, <1>6, <1>7 DEF Ops

\* A value that a caller has from reply r to its call k is true of what r says
\* was done.
Told(k, r, v) ==
  /\ v.is = "ok" => r.did = "done" /\ k.op \notin {"read", "attributes"}
  /\ v.is = "noEntry" => r.did = "noEntry" /\ k.op = "read"
  /\ v.is = "error" => r.did = "refused"
  /\ v.is = "entry" => /\ r.did = IF k.peek THEN "peeked" ELSE "taken"
                       /\ r.queue = k.queue
  /\ v.is = "attributes" => /\ v.options.keyed = r.options.keyed
                            /\ ~r.options.keyed => v.options.fifo = r.options.fifo

\* A refusal is an error to the caller, an entry taken from a queue is received.
Received(k, r, v) ==
  /\ v \in Values
  /\ r.did = "refused" => v.is = "error"
  /\ TakenBy(r) = IF v.is = "entry" /\ ~k.peek THEN {v.entry} ELSE {}

Answers(r, k, n) == r.n = n /\ Told(k, r, Parse(k.op, r)) /\ Received(k, r, Parse(k.op, r))

\* The replies of the server, each to the calls it is a reply to.
LEMMA RefusalAnswers ==
  ASSUME NEW k \in Calls, NEW n
  PROVE  Answers(Common(Encode(k, n), "F001", "refused"), k, n)
<1> DEFINE r == Common(Encode(k, n), "F001", "refused")
<1>1. r = [opcode |-> "common", rc |-> "F001", did |-> "refused", n |-> n]
  BY Encoded DEF Common
<1>2. Parse(k.op, r) = [is |-> "error", rc |-> "F001"]
  BY <1>1 DEF Parse, ParseReadReply, ParseAttributesReply, CheckCommonReply, NoData
<1> HIDE DEF r
<1>3. Parse(k.op, r).is = "error" /\ Parse(k.op, r) \in Values
  BY <1>2 DEF Values
<1>4. Told(k, r, Parse(k.op, r)) /\ Received(k, r, Parse(k.op, r))
  BY <1>1, <1>3 DEF Told, Received, TakenBy
<1> QED
  BY <1>1, <1>4 DEF Answers, r

LEMMA DoneAnswers ==
  ASSUME NEW k \in Calls, NEW n, k.op \notin {"read", "attributes"}
  PROVE  Answers(Common(Encode(k, n), "F000", "done"), k, n)
<1> DEFINE r == Common(Encode(k, n), "F000", "done")
<1>1. r = [opcode |-> "common", rc |-> "F000", did |-> "done", n |-> n]
  BY Encoded DEF Common
<1>2. Parse(k.op, r) = [is |-> "ok"]
  BY <1>1 DEF Parse, CheckCommonReply
<1> HIDE DEF r
<1>3. Parse(k.op, r).is = "ok" /\ Parse(k.op, r) \in Values
  BY <1>2 DEF Values
<1>4. Told(k, r, Parse(k.op, r)) /\ Received(k, r, Parse(k.op, r))
  BY <1>1, <1>3 DEF Told, Received, TakenBy
<1> QED
  BY <1>1, <1>4 DEF Answers, r

LEMMA NothingAnswers ==
  ASSUME NEW k \in Calls, NEW n, k.op = "read"
  PROVE  Answers(Common(Encode(k, n), "F006", "noEntry"), k, n)
<1> DEFINE r == Common(Encode(k, n), "F006", "noEntry")
<1>1. r = [opcode |-> "common", rc |-> "F006", did |-> "noEntry", n |-> n]
  BY Encoded DEF Common
<1>2. Parse(k.op, r) = [is |-> "noEntry"]
  BY <1>1 DEF Parse, ParseReadReply, NoData
<1> HIDE DEF r
<1>3. Parse(k.op, r).is = "noEntry" /\ Parse(k.op, r) \in Values
  BY <1>2 DEF Values
<1>4. Told(k, r, Parse(k.op, r)) /\ Received(k, r, Parse(k.op, r))
  BY <1>1, <1>3 DEF Told, Received, TakenBy
<1> QED
  BY <1>1, <1>4 DEF Answers, r

LEMMA EntryAnswers ==
  ASSUME NEW k \in Calls, NEW n, k.op = "read", NEW e \in Entries, NEW r,
         r = [opcode |-> "entry", entry |-> e, queue |-> Encode(k, n).queue, n |-> Encode(k, n).n,
              did |-> IF Encode(k, n).peek = "F1" THEN "peeked" ELSE "taken"]
  PROVE  Answers(r, k, n)
<1>1. k.peek \in BOOLEAN /\ Encode(k, n).op = "read" /\ Encode(k, n).peek = FlagByte(k.peek)
      /\ Encode(k, n).queue = k.queue /\ Encode(k, n).n = n
  BY CallFields, Encoded
<1>2. (Encode(k, n).peek = "F1") = k.peek
  BY <1>1 DEF FlagByte
<1>3. r.opcode = "entry" /\ r.queue = k.queue /\ r.n = n /\ r.entry = e
      /\ r.did = IF k.peek THEN "peeked" ELSE "taken"
  BY <1>1, <1>2
<1>4. Parse(k.op, r) = [is |-> "entry", entry |-> e]
  BY <1>3 DEF Parse, ParseReadReply
<1>5. Parse(k.op, r).is = "entry" /\ Parse(k.op, r).entry = e /\ Parse(k.op, r) \in Values
  BY <1>4 DEF Values
<1>6. Told(k, r, Parse(k.op, r))
  BY <1>3, <1>5 DEF Told
<1>7. Received(k, r, Parse(k.op, r))
  BY <1>1, <1>3, <1>5 DEF Received, TakenBy
<1> QED
  BY <1>3, <1>6, <1>7 DEF Answers

LEMMA AttributesAnswers ==
  ASSUME NEW k \in Calls, NEW n, k.op = "attributes", NEW o \in Options, NEW r,
         r = [opcode |-> "attributes", type |-> TypeByte(o), options |-> o, did |-> "told", n |-> Encode(k, n).n]
  PROVE  Answers(r, k, n)
<1>1. r.opcode = "attributes" /\ r.type = TypeByte(o) /\ r.options = o /\ r.n = n /\ r.did = "told"
  BY Encoded
<1>2. Parse(k.op, r) = [is |-> "attributes", options |-> ParseType(TypeByte(o))]
  BY <1>1 DEF Parse, ParseAttributesReply
<1>3. Parse(k.op, r).is = "attributes" /\ Parse(k.op, r).options = ParseType(TypeByte(o))
  BY <1>2
<1>4. ParseType(TypeByte(o)).keyed = o.keyed /\ (~o.keyed => ParseType(TypeByte(o)).fifo = o.fifo)
  BY DEF ParseType, TypeByte, Options
<1>5. Told(k, r, Parse(k.op, r))
  BY <1>1, <1>3, <1>4 DEF Told
<1>6. Parse(k.op, r) \in Values
  <2>1. ParseType(TypeByte(o)) \in Options
    BY DEF ParseType, Options
  <2> QED
    BY <1>2, <2>1 DEF Values
<1>7. Received(k, r, Parse(k.op, r))
  BY <1>1, <1>3, <1>6 DEF Received, TakenBy
<1> QED
  BY <1>1, <1>5, <1>7 DEF Answers

-----------------------------------------------------------------------------
(***************************************************************************)
(* The inductive invariant: where each client is, what its socket carries  *)
(* and how far its job has come agree.                                     *)
(***************************************************************************)
Shape ==
    /\ DOMAIN job = Clients /\ DOMAIN request = Clients /\ DOMAIN reply = Clients
    /\ DOMAIN stage = Clients /\ DOMAIN open = Clients /\ DOMAIN call = Clients
    /\ DOMAIN result = Clients /\ DOMAIN queue = Queues
    /\ \A c \in Clients :
          /\ stage[c] \in {"new", "ready", "failed"} \union Range(Handshakes)
          /\ result[c] = [n |-> result[c].n, call |-> result[c].call,
                          reply |-> result[c].reply, value |-> result[c].value]

\* A queue keeps the attributes that it was created with.
HasAttributes(q) ==
    /\ {"exists", "type", "options", "entries"} \subseteq DOMAIN q
    /\ q.options \in Options /\ q.type = TypeByte(q.options)
    /\ q.entries \in Seq(Items)

Formed(q) == q = Absent \/ HasAttributes(q)

QueuesFormed == \A q \in Queues : Formed(queue[q])

New(c) ==
    /\ ~open[c] /\ call[c] = NoCall /\ job[c] = 0
    /\ request[c] = << >> /\ reply[c] = << >>

\* At step i of the handshake its request is on its way, or the reply, which the
\* client accepts only if the job has come past that step.
Connecting(c, i) ==
    /\ open[c] /\ call[c] = NoCall
    /\ \/ request[c] = <<[op |-> Handshakes[i]]>> /\ reply[c] = << >> /\ job[c] = i - 1
       \/ /\ request[c] = << >> /\ Single(reply[c])
          /\ job[c] \in {i - 1, i} /\ (Accepts(Head(reply[c])) => job[c] = i)
          /\ Head(reply[c]).opcode \in {"handshake", "exchanged", "common"}

\* A call has its own request on the way or its own reply; a client between
\* calls has neither; a closed one may have left a request to its job.
Ready(c) ==
    LET k == result[c].call
        n == result[c].n
    IN
    /\ job[c] = 3
    /\ open[c] /\ call[c] = NoCall => request[c] = << >> /\ reply[c] = << >>
    /\ call[c] # NoCall =>
          /\ open[c] /\ call[c] \in Calls /\ k = call[c]
          /\ \/ request[c] = <<Encode(k, n)>> /\ reply[c] = << >>
             \/ request[c] = << >> /\ Single(reply[c]) /\ Answers(Head(reply[c]), k, n)
    /\ ~open[c] => /\ reply[c] = << >>
                   /\ \/ request[c] = << >>
                      \/ k \in Calls /\ request[c] = <<Encode(k, n)>>

Failed(c) ==
    /\ ~open[c] /\ call[c] = NoCall /\ reply[c] = << >> /\ job[c] \in 0 .. 3
    /\ request[c] = << >> \/ \E i \in 1 .. 3 : request[c] = <<[op |-> Handshakes[i]]>> /\ job[c] = i - 1

Placed(c) ==
    /\ stage[c] = "new" => New(c)
    /\ \A i \in 1 .. 3 : stage[c] = Handshakes[i] => Connecting(c, i)
    /\ stage[c] = "ready" => Ready(c)
    /\ stage[c] = "failed" => Failed(c)

ResultTrue(c) ==
    result[c].reply # NoReply =>
        /\ result[c].reply.n = result[c].n
        /\ Told(result[c].call, result[c].reply, result[c].value)

Inv == Shape /\ QueuesFormed /\ \A c \in Clients : Placed(c) /\ ResultTrue(c)

LEMMA InvImplies == Inv => ConnectsWhole /\ ResultsTrue
<1> SUFFICES ASSUME Inv PROVE ConnectsWhole /\ ResultsTrue
  OBVIOUS
<1>1. ConnectsWhole
  BY HandshakeOps DEF Inv, Placed, Ready, Failed, ConnectsWhole
<1>2. ResultsTrue
  BY DEF Inv, ResultTrue, Told, ResultsTrue
<1> QED
  BY <1>1, <1>2

LEMMA CreatedFormed ==
  ASSUME NEW o \in Options
  PROVE  Formed(Created(TypeByte(o), o))
BY DEF Created, Formed, HasAttributes

LEMMA EntriesFormed ==
  ASSUME NEW q, NEW es \in Seq(Items), HasAttributes(q)
  PROVE  Formed([q EXCEPT !.entries = es])
BY DEF Formed, HasAttributes

LEMMA InvInit == Init => Inv
<1> SUFFICES ASSUME Init PROVE Inv
  OBVIOUS
<1>1. Shape
  BY DEF Init, Shape
<1>2. QueuesFormed
  <2> SUFFICES ASSUME NEW q \in Queues PROVE Formed(queue[q])
    BY DEF QueuesFormed
  <2>1. queue[q] = Absent \/ \E o \in Options : queue[q] = Created(TypeByte(o), o)
    BY DEF Init
  <2>2. Formed(Absent)
    BY DEF Formed
  <2> QED
    BY <2>1, <2>2, CreatedFormed
<1>3. ASSUME NEW c \in Clients PROVE Placed(c) /\ ResultTrue(c)
  <2>1. stage[c] = "new" /\ New(c)
    BY <1>3 DEF Init, New
  <2>2. Placed(c)
    BY <2>1, HandshakeOps DEF Placed
  <2>3. result[c].reply = NoReply
    BY <1>3 DEF Init
  <2> QED
    BY <2>2, <2>3 DEF ResultTrue
<1> QED
  BY <1>1, <1>2, <1>3 DEF Inv

\* What a step of client d leaves alone of another client c.
Same(c) ==
    /\ job'[c] = job[c] /\ request'[c] = request[c] /\ reply'[c] = reply[c] /\ stage'[c] = stage[c]
    /\ open'[c] = open[c] /\ call'[c] = call[c] /\ result'[c] = result[c]

LEMMA SameKeeps ==
  ASSUME NEW c, Same(c), Placed(c), ResultTrue(c)
  PROVE  Placed(c)' /\ ResultTrue(c)'
<1>1. New(c)' <=> New(c)
  BY DEF Same, New
<1>2. \A i \in 1 .. 3 : Connecting(c, i)' <=> Connecting(c, i)
  BY DEF Same, Connecting
<1>3. Ready(c)' <=> Ready(c)
  BY DEF Same, Ready
<1>4. Failed(c)' <=> Failed(c)
  BY DEF Same, Failed
<1>5. Placed(c)'
  BY <1>1, <1>2, <1>3, <1>4 DEF Same, Placed
<1> QED
  BY <1>5 DEF Same, ResultTrue

\* A step of client d is right if it is right for d.
LEMMA StepSuffices ==
  ASSUME Inv, NEW d \in Clients, Shape', QueuesFormed', Placed(d)', ResultTrue(d)',
         \A c \in Clients \ {d} : Same(c)
  PROVE  Inv'
<1>1. ASSUME NEW c \in Clients PROVE Placed(c)' /\ ResultTrue(c)'
  <2>1. CASE c = d
    BY <2>1
  <2>2. CASE c # d
    BY <1>1, <2>2, SameKeeps DEF Inv
  <2> QED
    BY <2>1, <2>2
<1> QED
  BY <1>1 DEF Inv

-----------------------------------------------------------------------------
(***************************************************************************)
(* The steps of a client.                                                  *)
(***************************************************************************)
LEMMA StageNames ==
  /\ "new" \notin Range(Handshakes) /\ "ready" \notin Range(Handshakes) /\ "failed" \notin Range(Handshakes)
  /\ \A i, j \in 1 .. 3 : Handshakes[i] = Handshakes[j] => i = j
  /\ \A i \in 1 .. 3 : Handshakes[i] \in Range(Handshakes)
  /\ \A s \in Range(Handshakes) : \E i \in 1 .. 3 : s = Handshakes[i]
<1>1. \A i \in 1 .. 3 : i = 1 \/ i = 2 \/ i = 3
  OBVIOUS
<1> QED
  BY <1>1, HandshakeOps

LEMMA DialKeeps ==
  ASSUME Inv, NEW d \in Clients, Dial(d)
  PROVE  Inv'
<1>1. stage[d] = "new" /\ New(d)
  BY DEF Dial, Inv, Placed
<1>2. Shape' /\ QueuesFormed'
  BY HandshakeOps DEF Dial, Inv, Shape, QueuesFormed, history, Send
<1>3. ASSUME NEW c \in Clients \ {d} PROVE Same(c)
  BY DEF Dial, Inv, Shape, Same, Send
<1>4. Placed(d)'
  <2>1. CASE stage' = [stage EXCEPT ![d] = "failed"]
    <3>1. stage'[d] = "failed"
      BY <2>1 DEF Inv, Shape
    <3>2. ~open'[d] /\ call'[d] = NoCall /\ reply'[d] = << >> /\ request'[d] = << >> /\ job'[d] \in 0 .. 3
      BY <1>1, <2>1, <3>1, HandshakeOps DEF Dial, New, Inv, Shape
    <3> QED
      BY <3>1, <3>2, StageNames DEF Placed, Failed
  <2>2. CASE /\ stage' = [stage EXCEPT ![d] = Handshakes[1]]
             /\ open' = [open EXCEPT ![d] = TRUE]
             /\ Send(d, [op |-> Handshakes[1]])
    <3>1. stage'[d] = Handshakes[1] /\ open'[d] /\ request'[d] = Append(request[d], [op |-> Handshakes[1]])
      BY <2>2 DEF Inv, Shape, Send
    <3>2. request'[d] = <<[op |-> Handshakes[1]]>>
      BY <1>1, <3>1, Singles DEF New
    <3>3. call'[d] = NoCall /\ reply'[d] = << >> /\ job'[d] = 1 - 1
      BY <1>1 DEF New, Dial
    <3>4. Connecting(d, 1)'
      BY <3>1, <3>2, <3>3 DEF Connecting
    <3> QED
      BY <3>1, <3>4, StageNames, HandshakeOps DEF Placed
  <2> QED
    BY <2>1, <2>2 DEF Dial
<1>5. ResultTrue(d)'
  BY DEF Inv, ResultTrue, Dial
<1> QED
  BY <1>2, <1>3, <1>4, <1>5, StepSuffices

\* A Connect that fails closes its socket.
LEMMA GiveUpKeeps ==
  ASSUME Inv, NEW d \in Clients, stage[d] \in Range(Handshakes), GiveUp(d),
         UNCHANGED <<queue, job, call, result, history>>
  PROVE  Inv'
<1>1. PICK i \in 1 .. 3 : stage[d] = Handshakes[i] /\ Connecting(d, i)
  BY StageNames DEF Inv, Placed
<1>2. Shape' /\ QueuesFormed'
  BY HandshakeOps DEF GiveUp, DropReplies, Inv, Shape, QueuesFormed
<1>3. ASSUME NEW c \in Clients \ {d} PROVE Same(c)
  BY DEF GiveUp, DropReplies, Inv, Shape, Same
<1>4. Placed(d)'
  <2>1. /\ stage'[d] = "failed" /\ ~open'[d] /\ reply'[d] = << >>
        /\ call'[d] = call[d] /\ request'[d] = request[d] /\ job'[d] = job[d]
    BY DEF GiveUp, DropReplies, Inv, Shape
  <2>2. /\ call[d] = NoCall /\ job[d] \in 0 .. 3
        /\ request[d] = << >> \/ (request[d] = <<[op |-> Handshakes[i]]>> /\ job[d] = i - 1)
    BY <1>1 DEF Connecting
  <2> QED
    BY <2>1, <2>2, StageNames DEF Placed, Failed
<1>5. ResultTrue(d)'
  BY DEF Inv, ResultTrue
<1> QED
  BY <1>2, <1>3, <1>4, <1>5, StepSuffices

LEMMA HandshakeKeeps ==
  ASSUME Inv, NEW d \in Clients, Handshake(d)
  PROVE  Inv'
<1>1. PICK i \in 1 .. 3 : stage[d] = Handshakes[i] /\ Connecting(d, i)
  BY StageNames DEF Inv, Placed, Handshake
<1>2. Step(d) = i
  BY <1>1, StepOf
<1>3. /\ open[d] /\ call[d] = NoCall /\ request[d] = << >> /\ Single(reply[d])
      /\ Accepts(Head(reply[d])) => job[d] = i
  BY <1>1 DEF Connecting, Handshake
<1>4. CASE GiveUp(d)
  BY <1>4, GiveUpKeeps DEF Handshake
<1>5. CASE ~GiveUp(d)
  <2>1. /\ Accepts(Head(reply[d])) /\ TakeReply(d) /\ UNCHANGED open
        /\ UNCHANGED <<queue, job, call, result, history>>
        /\ \/ /\ i < 3 /\ stage' = [stage EXCEPT ![d] = Handshakes[i + 1]]
              /\ Send(d, [op |-> Handshakes[i + 1]])
           \/ i = 3 /\ stage' = [stage EXCEPT ![d] = "ready"] /\ UNCHANGED request
    BY <1>2, <1>5, HandshakeOps DEF Handshake
  <2>2. job[d] = i
    BY <1>3, <2>1
  <2>3. reply'[d] = << >> /\ open'[d] = open[d] /\ call'[d] = call[d] /\ job'[d] = job[d]
    <3>1. reply'[d] = Tail(reply[d])
      BY <2>1 DEF TakeReply, Inv, Shape
    <3> QED
      BY <1>3, <2>1, <3>1, Singles DEF Single
  <2>4. ResultTrue(d)'
    BY <2>1 DEF Inv, ResultTrue
  <2>5. CASE i < 3 /\ stage' = [stage EXCEPT ![d] = Handshakes[i + 1]] /\ Send(d, [op |-> Handshakes[i + 1]])
    <3>1. i + 1 \in 1 .. 3
      BY <2>5
    <3>2. Shape' /\ QueuesFormed'
      BY <2>1, <2>5, <3>1, StageNames DEF TakeReply, Send, Inv, Shape, QueuesFormed
    <3>3. ASSUME NEW c \in Clients \ {d} PROVE Same(c)
      BY <2>1, <2>5 DEF TakeReply, Send, Inv, Shape, Same
    <3>4. stage'[d] = Handshakes[i + 1] /\ request'[d] = <<[op |-> Handshakes[i + 1]]>>
      <4>1. stage'[d] = Handshakes[i + 1] /\ request'[d] = Append(request[d], [op |-> Handshakes[i + 1]])
        BY <2>5 DEF Send, Inv, Shape
      <4> QED
        BY <1>3, <4>1, Singles
    <3>5. job'[d] = (i + 1) - 1
      BY <2>2, <2>3
    <3>6. Connecting(d, i + 1)'
      BY <1>3, <2>3, <3>4, <3>5 DEF Connecting
    <3>7. Placed(d)'
      BY <3>1, <3>4, <3>6, StageNames DEF Placed
    <3> QED
      BY <2>4, <3>2, <3>3, <3>7, StepSuffices
  <2>6. CASE i = 3 /\ stage' = [stage EXCEPT ![d] = "ready"] /\ UNCHANGED request
    <3>2. Shape' /\ QueuesFormed'
      BY <2>1, <2>6 DEF TakeReply, Inv, Shape, QueuesFormed
    <3>3. ASSUME NEW c \in Clients \ {d} PROVE Same(c)
      BY <2>1, <2>6 DEF TakeReply, Inv, Shape, Same
    <3>4. stage'[d] = "ready" /\ request'[d] = << >>
      BY <1>3, <2>6 DEF Inv, Shape
    <3>5. Ready(d)'
      BY <1>3, <2>2, <2>3, <2>6, <3>4 DEF Ready
    <3>6. Placed(d)'
      BY <3>4, <3>5, StageNames DEF Placed
    <3> QED
      BY <2>4, <3>2, <3>3, <3>6, StepSuffices
  <2> QED
    BY <2>1, <2>5, <2>6
<1> QED
  BY <1>4, <1>5

LEMMA BeginKeeps ==
  ASSUME Inv, NEW d \in Clients, NEW k \in Calls, Begin(d, k)
  PROVE  Inv'
<1> DEFINE n == calls'
           res == [n |-> n, call |-> k, reply |-> NoReply, value |-> [is |-> "none"]]
<1>1. stage[d] = "ready" /\ open[d] /\ job[d] = 3 /\ request[d] = << >> /\ reply[d] = << >>
  BY DEF Begin, Inv, Placed, Ready
<1>2. /\ request' = [request EXCEPT ![d] = Append(@, Encode(k, n))] /\ result' = [result EXCEPT ![d] = res]
      /\ call' = [call EXCEPT ![d] = k] /\ UNCHANGED <<queue, job, reply, stage, open>>
  BY DEF Begin, Send
<1> HIDE DEF n
<1>3. Shape' /\ QueuesFormed'
  BY <1>2 DEF Inv, Shape, QueuesFormed
<1>4. ASSUME NEW c \in Clients \ {d} PROVE Same(c)
  BY <1>2 DEF Inv, Shape, Same
<1>5. /\ request'[d] = <<Encode(k, n)>> /\ call'[d] = k /\ result'[d] = res
      /\ stage'[d] = "ready" /\ open'[d] /\ job'[d] = 3 /\ reply'[d] = << >>
  <2>1. request'[d] = Append(request[d], Encode(k, n)) /\ call'[d] = k /\ result'[d] = res
    BY <1>2 DEF Inv, Shape
  <2> QED
    BY <1>1, <1>2, <2>1, Singles
<1>6. Ready(d)'
  <2>1. result'[d].call = k /\ result'[d].n = n
    BY <1>5
  <2>2. k # NoCall
    BY CallFields
  <2> QED
    BY <1>5, <2>1, <2>2 DEF Ready
<1>7. Placed(d)'
  BY <1>5, <1>6, StageNames DEF Placed
<1>8. ResultTrue(d)'
  BY <1>5 DEF ResultTrue
<1> QED
  BY <1>3, <1>4, <1>7, <1>8, StepSuffices

\* A client with a call in progress is connected.
LEMMA Calling ==
  ASSUME Inv, NEW c \in Clients, call[c] # NoCall
  PROVE  stage[c] = "ready" /\ Ready(c) /\ open[c]
<1>1. stage[c] \in {"new", "ready", "failed"} \union Range(Handshakes)
  BY DEF Inv, Shape
<1>2. stage[c] \notin Range(Handshakes)
  BY StageNames DEF Inv, Placed, Connecting
<1> QED
  BY <1>1, <1>2 DEF Inv, Placed, New, Failed, Ready

LEMMA ReceiveKeeps ==
  ASSUME Inv, NEW d \in Clients, Receive(d)
  PROVE  Inv'
<1> DEFINE r == Head(reply[d])
           v == Parse(call[d].op, r)
<1>1. stage[d] = "ready" /\ Ready(d) /\ open[d]
  BY Calling DEF Receive
<1>2. /\ job[d] = 3 /\ request[d] = << >> /\ Single(reply[d])
      /\ result[d].call = call[d] /\ Answers(r, call[d], result[d].n)
  BY <1>1 DEF Receive, Ready
<1>3. /\ result' = [result EXCEPT ![d].reply = r, ![d].value = v]
      /\ call' = [call EXCEPT ![d] = NoCall] /\ reply' = [reply EXCEPT ![d] = Tail(@)]
      /\ UNCHANGED <<queue, job, request, stage, open>>
  BY DEF Receive, TakeReply
<1> HIDE DEF r, v
<1>4. result'[d] = [n |-> result[d].n, call |-> result[d].call, reply |-> r, value |-> v]
  <2>1. d \in DOMAIN result /\ result[d] = [n |-> result[d].n, call |-> result[d].call,
                                           reply |-> result[d].reply, value |-> result[d].value]
    BY DEF Inv, Shape
  <2>2. result'[d] = [result[d] EXCEPT !.reply = r, !.value = v]
    BY <1>3, <2>1
  <2> QED
    BY <2>1, <2>2
<1>5. Shape' /\ QueuesFormed'
  <2>1. DOMAIN result' = Clients /\ \A c \in Clients \ {d} : result'[c] = result[c]
    BY <1>3 DEF Inv, Shape
  <2> QED
    BY <1>3, <1>4, <2>1 DEF Inv, Shape, QueuesFormed
<1>6. ASSUME NEW c \in Clients \ {d} PROVE Same(c)
  BY <1>3 DEF Inv, Shape, Same
<1>7. Placed(d)'
  <2>1. reply'[d] = << >>
    <3>1. reply'[d] = Tail(reply[d])
      BY <1>3 DEF Inv, Shape
    <3> QED
      BY <1>2, <3>1, Singles DEF Single
  <2>2. call'[d] = NoCall
    BY <1>3 DEF Inv, Shape
  <2>3. Ready(d)'
    BY <1>1, <1>2, <1>3, <2>1, <2>2 DEF Ready
  <2> QED
    BY <1>1, <1>3, <2>3, StageNames DEF Placed
<1>8. ResultTrue(d)'
  <2>1. r.n = result[d].n /\ Told(call[d], r, v)
    BY <1>2 DEF Answers, v
  <2>2. /\ result'[d].n = result[d].n /\ result'[d].call = call[d]
        /\ result'[d].reply = r /\ result'[d].value = v
    BY <1>2, <1>4
  <2> QED
    BY <2>1, <2>2 DEF ResultTrue
<1> QED
  BY <1>5, <1>6, <1>7, <1>8, StepSuffices

LEMMA CallFailsKeeps ==
  ASSUME Inv, NEW d \in Clients, CallFails(d)
  PROVE  Inv'
<1>1. stage[d] = "ready" /\ Ready(d) /\ open[d] /\ call[d] # NoCall
  BY Calling DEF CallFails
<1>2. PICK v : /\ result' = [result EXCEPT ![d].value = v]
               /\ v = [is |-> "ioError"] \/ v = [is |-> "timeout"]
  BY DEF CallFails
<1>3. /\ call' = [call EXCEPT ![d] = NoCall] /\ open' = [open EXCEPT ![d] = FALSE]
      /\ reply' = [reply EXCEPT ![d] = << >>] /\ UNCHANGED <<queue, job, request, stage>>
  BY DEF CallFails, DropReplies
<1>4. result'[d] = [n |-> result[d].n, call |-> result[d].call, reply |-> result[d].reply, value |-> v]
  <2>1. d \in DOMAIN result /\ result[d] = [n |-> result[d].n, call |-> result[d].call,
                                           reply |-> result[d].reply, value |-> result[d].value]
    BY DEF Inv, Shape
  <2>2. result'[d] = [result[d] EXCEPT !.value = v]
    BY <1>2, <2>1
  <2> QED
    BY <2>1, <2>2
<1>5. Shape' /\ QueuesFormed'
  <2>1. DOMAIN result' = Clients /\ \A c \in Clients \ {d} : result'[c] = result[c]
    BY <1>2 DEF Inv, Shape
  <2> QED
    BY <1>3, <1>4, <2>1 DEF Inv, Shape, QueuesFormed
<1>6. ASSUME NEW c \in Clients \ {d} PROVE Same(c)
  BY <1>2, <1>3 DEF Inv, Shape, Same
<1>7. /\ result'[d].n = result[d].n /\ result'[d].call = result[d].call
      /\ result'[d].reply = result[d].reply /\ result'[d].value = v
  BY <1>4
<1>8. Placed(d)'
  <2>1. call'[d] = NoCall /\ ~open'[d] /\ reply'[d] = << >> /\ request'[d] = request[d] /\ job'[d] = job[d]
    BY <1>3 DEF Inv, Shape
  <2>2. Ready(d)'
    BY <1>1, <1>7, <2>1 DEF Ready
  <2> QED
    BY <1>1, <1>3, <2>2, StageNames DEF Placed
<1>9. ResultTrue(d)'
  <2>1. v.is = "ioError" \/ v.is = "timeout"
    BY <1>2
  <2>2. Told(result[d].call, result[d].reply, v)
    BY <2>1 DEF Told
  <2>3. ResultTrue(d)
    BY DEF Inv
  <2> QED
    BY <1>7, <2>2, <2>3 DEF ResultTrue
<1> QED
  BY <1>5, <1>6, <1>8, <1>9, StepSuffices

LEMMA CloseKeeps ==
  ASSUME Inv, NEW d \in Clients, Close(d)
  PROVE  Inv'
<1>1. stage[d] = "ready" /\ Ready(d) /\ request[d] = << >> /\ reply[d] = << >> /\ call[d] = NoCall
  BY DEF Close, Inv, Placed, Ready
<1>2. Shape' /\ QueuesFormed'
  BY DEF Close, Inv, Shape, QueuesFormed
<1>3. ASSUME NEW c \in Clients \ {d} PROVE Same(c)
  BY DEF Close, Inv, Shape, Same
<1>4. ~open'[d] /\ UNCHANGED <<job, request, reply, stage, call, result>>
  BY DEF Close, Inv, Shape
<1>5. Ready(d)'
  BY <1>1, <1>4 DEF Ready
<1>6. Placed(d)' /\ ResultTrue(d)'
  BY <1>1, <1>4, <1>5, StageNames DEF Placed, ResultTrue, Inv
<1> QED
  BY <1>2, <1>3, <1>6, StepSuffices

-----------------------------------------------------------------------------
(***************************************************************************)
(* The steps of the server.                                                *)
(***************************************************************************)
LEMMA EndJobKeeps ==
  ASSUME Inv, NEW d \in Clients, EndJob(d)
  PROVE  Inv'
<1>1. Shape' /\ QueuesFormed'
  BY DEF EndJob, client, Inv, Shape, QueuesFormed
<1>2. ASSUME NEW c \in Clients \ {d} PROVE Same(c)
  BY DEF EndJob, client, Inv, Shape, Same
<1>3. ~open[d] /\ request'[d] = << >> /\ UNCHANGED <<job, reply, stage, open, call, result>>
  BY DEF EndJob, client, Inv, Shape
<1>4. New(d) => New(d)'
  BY <1>3 DEF New
<1>5. \A i \in 1 .. 3 : ~Connecting(d, i)
  BY <1>3 DEF Connecting
<1>6. Ready(d) => Ready(d)'
  BY <1>3 DEF Ready
<1>7. Failed(d) => Failed(d)'
  BY <1>3 DEF Failed
<1>8. Placed(d)' /\ ResultTrue(d)'
  BY <1>3, <1>4, <1>5, <1>6, <1>7 DEF Inv, Placed, ResultTrue
<1> QED
  BY <1>1, <1>2, <1>8, StepSuffices

\* A request is of the handshake or of a call, by the stage of its client.
LEMMA Asked ==
  ASSUME Inv, NEW d \in Clients, request[d] # << >>
  PROVE  /\ stage[d] # "new" /\ Tail(request[d]) = << >>
         /\ \A i \in 1 .. 3 : stage[d] = Handshakes[i] =>
               open[d] /\ call[d] = NoCall /\ reply[d] = << >> /\ job[d] = i - 1
               /\ Head(request[d]) = [op |-> Handshakes[i]]
         /\ stage[d] = "ready" => /\ result[d].call \in Calls
                                  /\ Head(request[d]) = Encode(result[d].call, result[d].n)
                                  /\ reply[d] = << >> /\ (open[d] => call[d] = result[d].call)
         /\ stage[d] = "failed" => \E i \in 1 .. 3 : Head(request[d]) = [op |-> Handshakes[i]]
<1>1. stage[d] # "new"
  BY DEF Inv, Placed, New
<1>2. ASSUME NEW i \in 1 .. 3, stage[d] = Handshakes[i]
      PROVE  /\ Tail(request[d]) = << >> /\ open[d] /\ call[d] = NoCall /\ reply[d] = << >> /\ job[d] = i - 1
             /\ Head(request[d]) = [op |-> Handshakes[i]]
  <2>1. Connecting(d, i)
    BY <1>2 DEF Inv, Placed
  <2>2. /\ request[d] = <<[op |-> Handshakes[i]]>>
        /\ open[d] /\ call[d] = NoCall /\ reply[d] = << >> /\ job[d] = i - 1
    BY <2>1 DEF Connecting
  <2> QED
    BY <2>2, Singles
<1>3. ASSUME stage[d] = "ready"
      PROVE  /\ Tail(request[d]) = << >> /\ result[d].call \in Calls
             /\ Head(request[d]) = Encode(result[d].call, result[d].n)
             /\ reply[d] = << >> /\ (open[d] => call[d] = result[d].call)
  <2>1. /\ result[d].call \in Calls /\ request[d] = <<Encode(result[d].call, result[d].n)>>
        /\ reply[d] = << >> /\ (open[d] => call[d] = result[d].call)
    BY <1>3 DEF Inv, Placed, Ready
  <2> QED
    BY <2>1, Singles
<1>4. ASSUME stage[d] = "failed"
      PROVE  Tail(request[d]) = << >> /\ \E i \in 1 .. 3 : Head(request[d]) = [op |-> Handshakes[i]]
  <2>1. PICK i \in 1 .. 3 : request[d] = <<[op |-> Handshakes[i]]>>
    BY <1>4 DEF Inv, Placed, Failed
  <2> QED
    BY <2>1, Singles
<1>5. stage[d] \in {"new", "ready", "failed"} \/ \E i \in 1 .. 3 : stage[d] = Handshakes[i]
  BY StageNames DEF Inv, Shape
<1> QED
  BY <1>1, <1>2, <1>3, <1>4, <1>5

\* A request of the handshake is not of a client that is connected.
LEMMA ShakesNotReady ==
  ASSUME Inv, NEW d \in Clients, request[d] # << >>, Head(request[d]).op \in Range(Handshakes)
  PROVE  stage[d] # "ready"
<1> SUFFICES ASSUME stage[d] = "ready" PROVE FALSE
  OBVIOUS
<1>1. result[d].call \in Calls /\ Head(request[d]) = Encode(result[d].call, result[d].n)
  BY Asked
<1>2. Head(request[d]).op \in Ops
  BY <1>1, Encoded
<1> QED
  BY <1>2, HandshakeOps DEF Ops

LEMMA ServeHandshakeKeeps ==
  ASSUME Inv, NEW d \in Clients, ServeHandshake(d)
  PROVE  Inv'
<1>1. PICK r : /\ Reply(d, r) /\ r.opcode \in {"handshake", "exchanged", "common"}
               /\ \/ job' = [job EXCEPT ![d] = @ + 1]
                  \/ UNCHANGED job /\ ~Accepts(r)
  <2> DEFINE last == Head(request[d]).op = "exchange"
             ok == IF last THEN [opcode |-> "exchanged"] ELSE [opcode |-> "handshake", rc |-> "F000"]
             bad == [opcode |-> IF last THEN "common" ELSE "handshake", rc |-> "F001"]
  <2>1. /\ ~Accepts(bad) /\ ok.opcode \in {"handshake", "exchanged", "common"}
        /\ bad.opcode \in {"handshake", "exchanged", "common"}
    BY DEF Accepts
  <2>2. \/ Reply(d, ok) /\ job' = [job EXCEPT ![d] = @ + 1]
        \/ Reply(d, bad) /\ UNCHANGED job
    BY DEF ServeHandshake
  <2> QED
    BY <2>1, <2>2
<1>2. /\ request[d] # << >> /\ Head(request[d]).op \in Range(Handshakes)
      /\ UNCHANGED <<queue, stage, open, call, result>>
  BY DEF ServeHandshake, client
<1>3. /\ request' = [request EXCEPT ![d] = Tail(@)]
      /\ reply' = [reply EXCEPT ![d] = IF open[d] THEN Append(@, r) ELSE @]
  BY <1>1 DEF Reply
<1>4. Shape' /\ QueuesFormed'
  BY <1>1, <1>2, <1>3 DEF Inv, Shape, QueuesFormed
<1>5. ASSUME NEW c \in Clients \ {d} PROVE Same(c)
  BY <1>1, <1>2, <1>3 DEF Inv, Shape, Same
<1>6. request'[d] = << >> /\ reply'[d] = IF open[d] THEN Append(reply[d], r) ELSE reply[d]
  BY <1>2, <1>3, Asked DEF Inv, Shape
<1>7. stage[d] # "ready"
  BY <1>2, ShakesNotReady
<1>8. stage[d] # "new"
  BY <1>2, Asked
<1>9. ASSUME NEW i \in 1 .. 3, stage[d] = Handshakes[i] PROVE Connecting(d, i)'
  <2>1. open[d] /\ call[d] = NoCall /\ reply[d] = << >> /\ job[d] = i - 1
    BY <1>2, <1>9, Asked
  <2>2. reply'[d] = <<r>>
    BY <1>6, <2>1, Singles
  <2>3. Single(reply'[d]) /\ Head(reply'[d]) = r
    BY <2>2, Singles
  <2>4. job'[d] = i \/ (job'[d] = i - 1 /\ ~Accepts(r))
    BY <1>1, <2>1 DEF Inv, Shape
  <2> QED
    BY <1>1, <1>2, <1>6, <2>1, <2>3, <2>4 DEF Connecting
<1>10. ASSUME stage[d] = "failed" PROVE Failed(d)'
  <2>1. Failed(d)
    BY <1>10 DEF Inv, Placed
  <2>2. PICK i \in 1 .. 3 : job[d] = i - 1
    BY <1>2, <2>1 DEF Failed
  <2>3. job'[d] = job[d] \/ job'[d] = job[d] + 1
    BY <1>1 DEF Inv, Shape
  <2>4. job'[d] \in 0 .. 3
    BY <2>2, <2>3
  <2> QED
    BY <1>2, <1>6, <2>1, <2>4 DEF Failed
<1>11. Placed(d)' /\ ResultTrue(d)'
  BY <1>2, <1>7, <1>8, <1>9, <1>10 DEF Placed, ResultTrue, Inv
<1> QED
  BY <1>4, <1>5, <1>11, StepSuffices

\* The server answers the call that a request is of, and leaves the queues as
\* formed as they were.
LEMMA Served ==
  ASSUME Inv, NEW d \in Clients, NEW k \in Calls, NEW n, request[d] # << >>,
         Head(request[d]) = Encode(k, n), Serve(d)
  PROVE  /\ \E r : Answers(r, k, n) /\ Reply(d, r)
         /\ QueuesFormed' /\ DOMAIN queue' = Queues
<1> DEFINE r == Head(request[d])
           q == queue[r.queue]
           Becomes(new) == queue' = [queue EXCEPT ![r.queue] = new]
<1>1. r = Encode(k, n)
  OBVIOUS
<1>2. r.queue \in Queues /\ Formed(q)
  BY <1>1, Encoded, CallFields DEF Inv, QueuesFormed
<1>3. r.op \in Ops \ {"clearKey"}
  BY <1>1, Encoded
<1>4. ASSUME NEW new, Formed(new), Becomes(new) PROVE QueuesFormed' /\ DOMAIN queue' = Queues
  BY <1>2, <1>4 DEF Inv, QueuesFormed, Shape
<1>5. ASSUME UNCHANGED queue PROVE QueuesFormed' /\ DOMAIN queue' = Queues
  BY <1>5 DEF Inv, QueuesFormed, Shape
<1>6. ASSUME ~Refuses(r), r.op # "create" PROVE HasAttributes(q)
  <2>1. q.exists
    BY <1>3, <1>6 DEF Refuses, Ops
  <2>2. q # Absent
    BY <2>1 DEF Absent
  <2> QED
    BY <1>2, <2>2 DEF Formed
<1>7. ASSUME ~Refuses(r), r.op # "create", NEW es \in Seq(Items) PROVE Formed([q EXCEPT !.entries = es])
  BY <1>6, <1>7, EntriesFormed
<1> HIDE DEF r, q, Becomes
<1>8. CASE Reply(d, Common(r, "F001", "refused")) /\ UNCHANGED queue
  BY <1>1, <1>5, <1>8, RefusalAnswers
<1>9. CASE /\ ~Refuses(r) /\ r.op \in {"create", "delete", "clear", "write"}
           /\ CASE r.op = "create" -> Becomes(Created(r.type, r.options))
                [] r.op = "delete" -> Becomes(Absent)
                [] r.op = "clear" -> Becomes([q EXCEPT !.entries = Kept(@, r.keys)])
                [] r.op = "write" -> Becomes([q EXCEPT !.entries = Append(@, [key |-> r.key, entry |-> r.entry])])
           /\ Reply(d, Common(r, "F000", "done"))
  <2>1. k.op \notin {"read", "attributes"}
    BY <1>1, <1>9, Encoded
  <2>2. Answers(Common(r, "F000", "done"), k, n)
    BY <1>1, <2>1, DoneAnswers
  <2>3. CASE r.op = "create"
    <3>1. r.options \in Options /\ r.type = TypeByte(r.options)
      BY <1>1, <2>3, Encoded, CallFields
    <3>2. Formed(Created(r.type, r.options))
      BY <3>1, CreatedFormed
    <3> QED
      BY <1>4, <1>9, <2>2, <2>3, <3>2
  <2>4. CASE r.op = "delete"
    BY <1>4, <1>9, <2>2, <2>4 DEF Formed
  <2>5. CASE r.op = "clear"
    <3>1. Becomes([q EXCEPT !.entries = Kept(q.entries, r.keys)])
      BY <1>9, <2>5
    <3>2. q.entries \in Seq(Items)
      BY <1>6, <1>9, <2>5 DEF HasAttributes
    <3>3. Kept(q.entries, r.keys) \in Seq(Items)
      <4>1. PICK f : Keeps(f, q.entries, r.keys)
        BY <3>2, KeptSteps
      <4> QED
        BY <3>2, <4>1 DEF Keeps
    <3> QED
      BY <1>4, <1>7, <1>9, <2>2, <2>5, <3>1, <3>3
  <2>6. CASE r.op = "write"
    <3>1. Becomes([q EXCEPT !.entries = Append(q.entries, [key |-> r.key, entry |-> r.entry])])
      BY <1>9, <2>6
    <3>2. q.entries \in Seq(Items)
      BY <1>6, <1>9, <2>6 DEF HasAttributes
    <3>3. [key |-> r.key, entry |-> r.entry] \in Items
      BY <1>1, <2>6, Encoded, CallFields DEF Items
    <3>4. Append(q.entries, [key |-> r.key, entry |-> r.entry]) \in Seq(Items)
      BY <3>2, <3>3, AppendProperties
    <3> QED
      BY <1>4, <1>7, <1>9, <2>2, <2>6, <3>1, <3>4
  <2> QED
    BY <1>9, <2>3, <2>4, <2>5, <2>6
<1>10. CASE /\ ~Refuses(r) /\ r.op = "attributes" /\ UNCHANGED queue
            /\ Reply(d, [opcode |-> "attributes", type |-> q.type, options |-> q.options, did |-> "told", n |-> r.n])
  <2> DEFINE o == q.options
  <2>1. q.type = TypeByte(o) /\ o \in Options
    BY <1>6, <1>10 DEF HasAttributes
  <2>2. k.op = "attributes" /\ r.n = Encode(k, n).n
    BY <1>1, <1>10, Encoded
  <2> HIDE DEF o
  <2>3. Answers([opcode |-> "attributes", type |-> TypeByte(o), options |-> o, did |-> "told", n |-> Encode(k, n).n], k, n)
    BY <2>1, <2>2, AttributesAnswers
  <2> QED
    BY <1>5, <1>10, <2>1, <2>2, <2>3 DEF o
<1>11. CASE /\ ~Refuses(r) /\ r.op = "read"
            /\ \E i \in Matching(r) :
                  /\ Reply(d, [opcode |-> "entry", entry |-> q.entries[i].entry, queue |-> r.queue, n |-> r.n,
                               did |-> IF r.peek = "F1" THEN "peeked" ELSE "taken"])
                  /\ Becomes(IF r.peek = "F1" THEN q ELSE [q EXCEPT !.entries = RemoveAt(@, i)])
  <2>1. PICK i \in Matching(r) :
                  /\ Reply(d, [opcode |-> "entry", entry |-> q.entries[i].entry, queue |-> r.queue, n |-> r.n,
                               did |-> IF r.peek = "F1" THEN "peeked" ELSE "taken"])
                  /\ Becomes(IF r.peek = "F1" THEN q ELSE [q EXCEPT !.entries = RemoveAt(@, i)])
    BY <1>11
  <2> DEFINE e == q.entries[i].entry
             new == IF r.peek = "F1" THEN q ELSE [q EXCEPT !.entries = RemoveAt(@, i)]
             a == [opcode |-> "entry", entry |-> e, queue |-> r.queue, n |-> r.n,
                   did |-> IF r.peek = "F1" THEN "peeked" ELSE "taken"]
  <2>2. q.entries \in Seq(Items) /\ i \in DOMAIN q.entries
    BY <1>6, <1>11, <2>1 DEF HasAttributes, Matching, q
  <2>3. Formed(new)
    <3>1. RemoveAt(q.entries, i) \in Seq(Items)
      BY <2>2, Removed
    <3>2. Formed([q EXCEPT !.entries = RemoveAt(q.entries, i)])
      BY <1>7, <1>11, <3>1
    <3>3. CASE r.peek = "F1"
      BY <1>2, <3>3
    <3>4. CASE r.peek # "F1"
      BY <3>2, <3>4
    <3> QED
      BY <3>3, <3>4
  <2>4. QueuesFormed' /\ DOMAIN queue' = Queues
    BY <1>4, <2>1, <2>3
  <2>5. k.op = "read"
    BY <1>1, <1>11, Encoded
  <2>6. e \in Entries
    <3>1. q.entries[i] \in Items
      BY <2>2
    <3> QED
      BY <3>1 DEF Items
  <2>7. Answers(a, k, n)
    BY <1>1, <2>5, <2>6, EntryAnswers
  <2> QED
    BY <2>1, <2>4, <2>7
<1>12. CASE r.op = "read" /\ Reply(d, Common(r, "F006", "noEntry")) /\ UNCHANGED queue
  <2>1. k.op = "read"
    BY <1>1, <1>12, Encoded
  <2> QED
    BY <1>1, <1>5, <1>12, <2>1, NothingAnswers
<1> QED
  BY <1>8, <1>9, <1>10, <1>11, <1>12 DEF Serve, r, q, Becomes

\* Any other request is of a client that is connected.
LEMMA ServesCalls ==
  ASSUME Inv, NEW d \in Clients, request[d] # << >>, Head(request[d]).op \notin Range(Handshakes)
  PROVE  stage[d] = "ready"
<1>1. ASSUME NEW i \in 1 .. 3, Head(request[d]) = [op |-> Handshakes[i]] PROVE FALSE
  BY <1>1, StageNames
<1>2. stage[d] \in {"ready", "failed"} \/ \E i \in 1 .. 3 : stage[d] = Handshakes[i]
  BY Asked, StageNames DEF Inv, Shape
<1> QED
  BY <1>1, <1>2, Asked

LEMMA ServeKeeps ==
  ASSUME Inv, NEW d \in Clients, Serve(d)
  PROVE  Inv'
<1> DEFINE k == result[d].call
           n == result[d].n
<1>1. /\ request[d] # << >> /\ Head(request[d]).op \notin Range(Handshakes)
      /\ UNCHANGED <<job, stage, open, call, result>>
  BY DEF Serve, client
<1>3. stage[d] = "ready"
  BY <1>1, ServesCalls
<1>4. k \in Calls /\ Head(request[d]) = Encode(k, n) /\ reply[d] = << >> /\ (open[d] => call[d] = k)
  BY <1>1, <1>3, Asked
<1>5. PICK r : Answers(r, k, n) /\ Reply(d, r)
  BY <1>1, <1>4, Served
<1>6. /\ request' = [request EXCEPT ![d] = Tail(@)]
      /\ reply' = [reply EXCEPT ![d] = IF open[d] THEN Append(@, r) ELSE @]
  BY <1>5 DEF Reply
<1>7. QueuesFormed' /\ DOMAIN queue' = Queues
  BY <1>1, <1>4, Served
<1>8. Shape'
  BY <1>1, <1>6, <1>7 DEF Inv, Shape
<1>9. ASSUME NEW c \in Clients \ {d} PROVE Same(c)
  BY <1>1, <1>6 DEF Inv, Shape, Same
<1>10. request'[d] = << >> /\ reply'[d] = IF open[d] THEN <<r>> ELSE << >>
  <2>1. request'[d] = Tail(request[d]) /\ reply'[d] = IF open[d] THEN Append(reply[d], r) ELSE reply[d]
    BY <1>6 DEF Inv, Shape
  <2> QED
    BY <1>1, <1>4, <2>1, Asked, Singles
<1>11. Ready(d)'
  <2>1. Ready(d)
    BY <1>3 DEF Inv, Placed
  <2>2. CASE open[d]
    <3>1. Single(reply'[d]) /\ Head(reply'[d]) = r
      BY <1>10, <2>2, Singles
    <3>2. call[d] # NoCall
      BY <1>1, <2>1, <2>2 DEF Ready
    <3> QED
      BY <1>1, <1>4, <1>5, <1>10, <2>1, <2>2, <3>1, <3>2 DEF Ready
  <2>3. CASE ~open[d]
    BY <1>1, <1>10, <2>1, <2>3 DEF Ready
  <2> QED
    BY <2>2, <2>3
<1>12. Placed(d)' /\ ResultTrue(d)'
  BY <1>1, <1>3, <1>11, StageNames DEF Placed, ResultTrue, Inv
<1> QED
  BY <1>7, <1>8, <1>9, <1>12, StepSuffices

-----------------------------------------------------------------------------
(***************************************************************************)
(* Where an entry is: the inductive invariant of EntriesAccounted.         *)
(***************************************************************************)
Asking(e) == {c \in Clients : request[c] # << >> /\ e \in WrittenBy(Head(request[c]))}

Refused(e) == {c \in Clients : e \in WrittenBy(call[c]) /\ \E r \in Range(reply[c]) : r.did = "refused"}

Holding(e) == {q \in Queues : queue[q].exists /\ Has(queue[q].entries, e)}

Answered(e) == {c \in Clients : \E r \in Range(reply[c]) : e \in TakenBy(r)}

Places == {"nowhere", "asking", "refused", "holding", "answered", "received"}
Owners == Clients \union Queues \union {"nobody"}

\* The entry is in this place alone, with that client or in that queue.
At(e, place, who) ==
    /\ Asking(e) = IF place = "asking" THEN {who} ELSE {}
    /\ Refused(e) = IF place = "refused" THEN {who} ELSE {}
    /\ Holding(e) = IF place = "holding" THEN {who} ELSE {}
    /\ Answered(e) = IF place = "answered" THEN {who} ELSE {}
    /\ taken[e] = IF place = "received" THEN 1 ELSE 0

Somewhere(e) ==
    \E place \in Places, who \in Owners :
        /\ At(e, place, who)
        /\ e \notin written => place = "nowhere"
        /\ e \in written \ given => place # "nowhere"

\* No queue has an entry twice.
Unique(e) == \A q \in Queues : queue[q].exists => Once(queue[q].entries, e)

\* A Write that a closed client left to its job has given its entry up.
Left(e) == \A c \in Asking(e) : open[c] \/ e \in given

Accounted(e) == Somewhere(e) /\ Unique(e) /\ Left(e)

Typed ==
    /\ job \in [Clients -> Nat] /\ open \in [Clients -> BOOLEAN]
    /\ stage \in [Clients -> {"new", "ready", "failed"} \union Range(Handshakes)]
    /\ calls \in 0 .. MaxCalls
    /\ written \subseteq Entries /\ given \subseteq Entries /\ taken \in [Entries -> Nat]
    /\ \A c \in Clients : result[c].value \in Values

EntriesInv == Typed /\ \A e \in Entries : Accounted(e)

LEMMA Owning ==
  ASSUME EntriesInv, Inv
  PROVE  EntriesAccounted /\ TypeOK
<1>1. TypeOK
  <2>1. ASSUME NEW c \in Clients PROVE job[c] \in 0 .. 3 /\ call[c] \in Calls \union {NoCall}
    <3>1. Placed(c) /\ (stage[c] \in {"new", "ready", "failed"} \/ \E i \in 1 .. 3 : stage[c] = Handshakes[i])
      BY StageNames DEF Inv, Shape
    <3> QED
      BY <3>1 DEF Placed, New, Connecting, Ready, Failed
  <2>2. job \in [Clients -> 0 .. 3]
    BY <2>1 DEF EntriesInv, Typed
  <2> QED
    BY <2>1, <2>2, HandshakeOps DEF EntriesInv, Typed, TypeOK
<1>2. ASSUME NEW e \in written
      PROVE  LET queued == UNION {{<<q, i>> : i \in PlacesIn(queue[q].entries, e)} : q \in {q \in Queues : queue[q].exists}}
                 places == Cardinality(Asking(e)) + Cardinality(Refused(e)) + Cardinality(queued)
                             + Cardinality(Answered(e)) + taken[e]
             IN  places <= 1 /\ (e \notin given => places = 1)
  <2> DEFINE queued == UNION {{<<q, i>> : i \in PlacesIn(queue[q].entries, e)} : q \in {q \in Queues : queue[q].exists}}
  <2>1. Accounted(e)
    BY <1>2 DEF EntriesInv, Typed
  <2>2. PICK place \in Places, who \in Owners : At(e, place, who) /\ (e \notin given => place # "nowhere")
    BY <1>2, <2>1 DEF Accounted, Somewhere
  <2>3. Holding(e) = {} => queued = {}
    BY DEF Holding, Has
  <2>4. Holding(e) = {who} => \E i : queued = {<<who, i>>}
    <3> SUFFICES ASSUME Holding(e) = {who} PROVE \E i : queued = {<<who, i>>}
      OBVIOUS
    <3>1. who \in Queues /\ queue[who].exists /\ Has(queue[who].entries, e)
      BY DEF Holding
    <3>2. PICK i : PlacesIn(queue[who].entries, e) = {i}
      <4>1. PICK i : i \in PlacesIn(queue[who].entries, e)
        BY <3>1 DEF Has
      <4>2. \A j \in PlacesIn(queue[who].entries, e) : j = i
        BY <2>1, <3>1, <4>1 DEF Accounted, Unique, Once
      <4>3. PlacesIn(queue[who].entries, e) = {i}
        BY <4>1, <4>2
      <4> QED
        BY <4>3
    <3>3. \A q \in Queues : queue[q].exists /\ PlacesIn(queue[q].entries, e) # {} => q = who
      BY DEF Holding, Has
    <3>4. ASSUME NEW x \in queued PROVE x = <<who, i>>
      <4>1. PICK q \in {q \in Queues : queue[q].exists} : x \in {<<q, j>> : j \in PlacesIn(queue[q].entries, e)}
        BY <3>4
      <4>2. PICK j \in PlacesIn(queue[q].entries, e) : x = <<q, j>>
        BY <4>1
      <4>3. q = who
        BY <3>3, <4>1, <4>2
      <4> QED
        BY <3>2, <4>2, <4>3
    <3>5. <<who, i>> \in queued
      <4>1. <<who, i>> \in {<<who, j>> : j \in PlacesIn(queue[who].entries, e)}
        BY <3>2
      <4>2. {<<who, j>> : j \in PlacesIn(queue[who].entries, e)}
              \in {{<<q, j>> : j \in PlacesIn(queue[q].entries, e)} : q \in {q \in Queues : queue[q].exists}}
        BY <3>1
      <4> QED
        BY <4>1, <4>2
    <3> HIDE DEF queued
    <3>6. queued = {<<who, i>>}
      BY <3>4, <3>5
    <3> QED
      BY <3>6
  <2>5. Cardinality({}) = 0 /\ \A x : Cardinality({x}) = 1
    BY FS_EmptySet, FS_Singleton
  <2> HIDE DEF queued
  <2>6. /\ Cardinality(Asking(e)) = IF place = "asking" THEN 1 ELSE 0
        /\ Cardinality(Refused(e)) = IF place = "refused" THEN 1 ELSE 0
        /\ Cardinality(Answered(e)) = IF place = "answered" THEN 1 ELSE 0
        /\ Cardinality(queued) = IF place = "holding" THEN 1 ELSE 0
        /\ taken[e] = IF place = "received" THEN 1 ELSE 0
    BY <2>2, <2>3, <2>4, <2>5 DEF At
  <2> QED
    BY <2>2, <2>6 DEF Places, queued
<1> QED
  BY <1>1, <1>2 DEF EntriesAccounted, Asking, Refused, Answered

\* What a step of client d leaves alone of an entry.
LEMMA Others ==
  ASSUME NEW d \in Clients, \A c \in Clients \ {d} : Same(c), NEW e
  PROVE  /\ Asking(e)' \ {d} = Asking(e) \ {d} /\ Refused(e)' \ {d} = Refused(e) \ {d}
         /\ Answered(e)' \ {d} = Answered(e) \ {d}
<1>1. ASSUME NEW c \in Clients \ {d}
      PROVE  /\ c \in Asking(e)' <=> c \in Asking(e)
             /\ c \in Refused(e)' <=> c \in Refused(e)
             /\ c \in Answered(e)' <=> c \in Answered(e)
  BY <1>1 DEF Same, Asking, Refused, Answered
<1>2. Asking(e)' \subseteq Clients /\ Refused(e)' \subseteq Clients /\ Answered(e)' \subseteq Clients
  BY DEF Asking, Refused, Answered
<1>3. Asking(e) \subseteq Clients /\ Refused(e) \subseteq Clients /\ Answered(e) \subseteq Clients
  BY DEF Asking, Refused, Answered
<1> QED
  BY <1>1, <1>2, <1>3

\* An entry stays where it is, or is lost to one who has given it up.
LEMMA Stays ==
  ASSUME NEW e, Somewhere(e), taken'[e] = taken[e], e \in written' <=> e \in written, given \subseteq given',
         Asking(e)' \subseteq Asking(e), Refused(e)' \subseteq Refused(e), Holding(e)' \subseteq Holding(e),
         Answered(e)' \subseteq Answered(e),
         \/ e \in given'
         \/ /\ Asking(e)' = Asking(e) /\ Refused(e)' = Refused(e) /\ Holding(e)' = Holding(e)
            /\ Answered(e)' = Answered(e)
  PROVE  Somewhere(e)'
<1>1. PICK place \in Places, who \in Owners :
        /\ At(e, place, who)
        /\ e \notin written => place = "nowhere"
        /\ e \in written \ given => place # "nowhere"
  BY DEF Somewhere
<1>2. At(e, place, who)' \/ (e \in given' /\ At(e, "nowhere", who)')
  BY <1>1 DEF At, Places
<1>3. "nowhere" \in Places
  BY DEF Places
<1> QED
  BY <1>1, <1>2, <1>3 DEF Somewhere

\* The entry of a step is where the step brings it.
LEMMA Comes ==
  ASSUME NEW e, NEW place \in Places \ {"nowhere"}, NEW who \in Owners, At(e, place, who)', e \in written'
  PROVE  Somewhere(e)'
BY DEF Somewhere

\* The place of an entry that one client or queue has.
LEMMA Alone ==
  ASSUME NEW e, Somewhere(e), NEW c, \/ c \in Asking(e) \/ c \in Refused(e) \/ c \in Holding(e) \/ c \in Answered(e)
  PROVE  \E place \in Places : At(e, place, c) /\ e \in written
BY DEF Somewhere, At

\* A client that connects, or is between calls, has no entry.
Idle(c) == \A e \in Entries : c \notin Asking(e) /\ c \notin Refused(e) /\ c \notin Answered(e)

IdleBetween == \A c \in Clients : stage[c] # "ready" \/ (open[c] /\ call[c] = NoCall) => Idle(c)

LEMMA NothingAsked ==
  /\ WrittenBy(NoCall) = {} /\ \A i \in 1 .. 3 : WrittenBy([op |-> Handshakes[i]]) = {}
  /\ \A k \in Calls : \A n : WrittenBy(Encode(k, n)) = WrittenBy(k)
<1>1. WrittenBy(NoCall) = {} /\ \A i \in 1 .. 3 : WrittenBy([op |-> Handshakes[i]]) = {}
  BY HandshakeOps DEF WrittenBy, NoCall
<1>2. ASSUME NEW k \in Calls, NEW n PROVE WrittenBy(Encode(k, n)) = WrittenBy(k)
  <2>1. /\ Encode(k, n).op = "write" <=> k.op = "write"
        /\ Encode(k, n).op = "write" => Encode(k, n).entry = k.entry
    BY Encoded
  <2> QED
    BY <2>1 DEF WrittenBy
<1> QED
  BY <1>1, <1>2

LEMMA EmptyHanded ==
  ASSUME NEW c, WrittenBy(call[c]) = {},
         request[c] = << >> \/ \E i \in 1 .. 3 : request[c] = <<[op |-> Handshakes[i]]>>,
         reply[c] = << >> \/ (Single(reply[c]) /\ Head(reply[c]).opcode # "entry")
  PROVE  Idle(c)
<1> SUFFICES ASSUME NEW e \in Entries PROVE c \notin Asking(e) /\ c \notin Refused(e) /\ c \notin Answered(e)
  BY DEF Idle
<1>1. request[c] # << >> => WrittenBy(Head(request[c])) = {}
  BY NothingAsked, Singles
<1>2. \A r \in Range(reply[c]) : r.opcode # "entry"
  <2>1. reply[c] = << >> => Range(reply[c]) = {}
    BY DEF Range
  <2>2. Single(reply[c]) => Range(reply[c]) = {Head(reply[c])}
    BY Singles DEF Single
  <2> QED
    BY <2>1, <2>2
<1> QED
  BY <1>1, <1>2 DEF Asking, Refused, Answered, TakenBy

LEMMA IdleThen == Inv => IdleBetween
<1> SUFFICES ASSUME Inv, NEW c \in Clients, stage[c] # "ready" \/ (open[c] /\ call[c] = NoCall) PROVE Idle(c)
  BY DEF IdleBetween
<1>1. Placed(c) /\ (stage[c] \in {"new", "ready", "failed"} \/ \E i \in 1 .. 3 : stage[c] = Handshakes[i])
  BY StageNames DEF Inv, Shape
<1>2. CASE stage[c] = "new"
  BY <1>1, <1>2, EmptyHanded, NothingAsked DEF Placed, New
<1>3. ASSUME NEW i \in 1 .. 3, stage[c] = Handshakes[i] PROVE Idle(c)
  <2>1. Connecting(c, i)
    BY <1>1, <1>3 DEF Placed
  <2>2. /\ WrittenBy(call[c]) = {} /\ (request[c] = << >> \/ request[c] = <<[op |-> Handshakes[i]]>>)
        /\ reply[c] = << >> \/ (Single(reply[c]) /\ Head(reply[c]).opcode # "entry")
    BY <2>1, NothingAsked DEF Connecting
  <2> QED
    BY <2>2, EmptyHanded
<1>4. CASE stage[c] = "ready"
  BY <1>1, <1>4, EmptyHanded, NothingAsked DEF Placed, Ready
<1>5. CASE stage[c] = "failed"
  BY <1>1, <1>5, EmptyHanded, NothingAsked DEF Placed, Failed
<1> QED
  BY <1>1, <1>2, <1>3, <1>4, <1>5

LEMMA IdleSteps ==
  ASSUME EntriesInv, Typed', NEW d \in Clients, \A c \in Clients \ {d} : Same(c), Idle(d), Idle(d)',
         UNCHANGED <<queue, written, taken, given>>
  PROVE  EntriesInv'
<1> SUFFICES ASSUME NEW e \in Entries PROVE Accounted(e)'
  BY DEF EntriesInv
<1>1. Accounted(e)
  BY DEF EntriesInv
<1>2. Holding(e)' = Holding(e) /\ (Unique(e)' <=> Unique(e))
  BY DEF Holding, Unique
<1>3. Asking(e)' = Asking(e) /\ Refused(e)' = Refused(e) /\ Answered(e)' = Answered(e)
  BY Others DEF Idle
<1>4. Left(e)'
  <2> SUFFICES ASSUME NEW c \in Asking(e)' PROVE open'[c] \/ e \in given'
    BY DEF Left
  <2>1. c # d /\ c \in Asking(e) /\ c \in Clients
    BY <1>3 DEF Idle, Asking
  <2> QED
    BY <1>1, <2>1 DEF Accounted, Left, Same
<1>5. Somewhere(e)'
  BY <1>1, <1>2, <1>3, Stays DEF Accounted
<1> QED
  BY <1>1, <1>2, <1>4, <1>5 DEF Accounted

\* What becomes of an entry when a queue does.
LEMMA QueueBecomes ==
  ASSUME NEW e, NEW new, NEW Q \in Queues, DOMAIN queue = Queues, queue' = [queue EXCEPT ![Q] = new], Unique(e),
         new.exists => Once(new.entries, e)
  PROVE  /\ Unique(e)' /\ Holding(e)' \ {Q} = Holding(e) \ {Q}
         /\ Q \in Holding(e)' <=> new.exists /\ Has(new.entries, e)
<1>1. queue'[Q] = new /\ \A q \in Queues \ {Q} : queue'[q] = queue[q]
  OBVIOUS
<1>2. Unique(e)'
  BY <1>1 DEF Unique
<1>3. \A q \in Queues \ {Q} : q \in Holding(e)' <=> q \in Holding(e)
  BY <1>1 DEF Holding
<1>4. Holding(e) \subseteq Queues /\ Holding(e)' \subseteq Queues
  BY DEF Holding
<1>5. Q \in Holding(e)' <=> new.exists /\ Has(new.entries, e)
  BY <1>1 DEF Holding
<1> QED
  BY <1>2, <1>3, <1>4, <1>5

LEMMA QuietSteps ==
  ASSUME Inv, Inv', EntriesInv, NEW d \in Clients,
         \/ Dial(d) \/ Handshake(d) \/ HandshakeFails(d) \/ Close(d) \/ ServeHandshake(d)
  PROVE  EntriesInv'
<1> USE DEF Send, GiveUp, TakeReply, DropReplies, Reply, history, client
<1>1. UNCHANGED <<queue, calls, result, written, taken, given>>
  BY DEF Dial, Handshake, HandshakeFails, Close, ServeHandshake
<1>2. ASSUME NEW c \in Clients \ {d} PROVE Same(c)
  BY DEF Dial, Handshake, HandshakeFails, Close, ServeHandshake, Same, Inv, Shape
<1>3. Typed'
  <2>1. stage' \in [Clients -> {"new", "ready", "failed"} \union Range(Handshakes)]
    <3>1. CASE Handshake(d) /\ ~GiveUp(d)
      <4>1. PICK i \in 1 .. 3 : stage[d] = Handshakes[i]
        BY <3>1, StageNames DEF Handshake
      <4>2. Step(d) = i
        BY <4>1, StepOf
      <4>3. stage' = [stage EXCEPT ![d] = "ready"] \/ (i + 1 \in 1 .. 3 /\ stage' = [stage EXCEPT ![d] = Handshakes[i + 1]])
        BY <3>1, <4>1, <4>2, HandshakeOps DEF Handshake
      <4> QED
        BY <4>3, StageNames DEF EntriesInv, Typed
    <3>2. CASE Dial(d)
      <4>1. Handshakes[1] \in Range(Handshakes)
        BY StageNames
      <4>2. stage' = [stage EXCEPT ![d] = Handshakes[1]] \/ stage' = [stage EXCEPT ![d] = "failed"]
        BY <3>2 DEF Dial
      <4> QED
        BY <4>1, <4>2 DEF EntriesInv, Typed
    <3>3. CASE GiveUp(d) \/ UNCHANGED stage
      BY <3>3 DEF EntriesInv, Typed
    <3> QED
      BY <3>1, <3>2, <3>3 DEF HandshakeFails, Close, ServeHandshake
  <2>2. open' \in [Clients -> BOOLEAN]
    BY DEF Dial, Handshake, HandshakeFails, Close, ServeHandshake, EntriesInv, Typed
  <2>3. job' \in [Clients -> Nat]
    BY DEF Dial, Handshake, HandshakeFails, Close, ServeHandshake, EntriesInv, Typed
  <2> QED
    BY <1>1, <2>1, <2>2, <2>3 DEF EntriesInv, Typed
<1>4. IdleBetween
  BY IdleThen
<1>5. Inv' => IdleBetween'
  BY IdleThen, PTL
<1>6. Idle(d) /\ Idle(d)'
  <2>1. CASE Dial(d)
    <3>1. stage[d] = "new" /\ stage'[d] # "ready"
      BY <2>1, StageNames, HandshakeOps DEF Dial, Inv, Shape
    <3> QED
      BY <1>4, <1>5, <3>1 DEF IdleBetween
  <2>2. CASE Handshake(d)
    <3>1. stage[d] # "ready" /\ (stage'[d] # "ready" \/ (open'[d] /\ call'[d] = NoCall))
      <4>1. PICK i \in 1 .. 3 : stage[d] = Handshakes[i] /\ Connecting(d, i)
        BY <2>2, StageNames DEF Handshake, Inv, Placed
      <4>2. stage[d] # "ready" /\ open[d] /\ call[d] = NoCall
        BY <4>1, StageNames DEF Connecting
      <4>3. call'[d] = NoCall /\ (stage'[d] = "failed" \/ open' = open)
        BY <2>2, <4>2 DEF Handshake, Inv, Shape
      <4> QED
        BY <4>2, <4>3
    <3> QED
      BY <1>4, <1>5, <3>1 DEF IdleBetween
  <2>3. CASE HandshakeFails(d)
    <3>1. stage[d] # "ready" /\ stage'[d] # "ready"
      BY <2>3, StageNames DEF HandshakeFails, Inv, Shape
    <3> QED
      BY <1>4, <1>5, <3>1 DEF IdleBetween
  <2>4. CASE Close(d)
    <3>1. Idle(d) /\ UNCHANGED <<request, reply, call>>
      BY <1>4, <2>4 DEF IdleBetween, Close
    <3>2. \A e : UNCHANGED <<Asking(e), Refused(e), Answered(e)>>
      BY <3>1 DEF Asking, Refused, Answered
    <3> QED
      BY <3>1, <3>2 DEF Idle
  <2>5. CASE ServeHandshake(d)
    <3>1. stage[d] # "ready" /\ UNCHANGED stage
      BY <2>5, ShakesNotReady DEF ServeHandshake
    <3> QED
      BY <1>4, <1>5, <3>1 DEF IdleBetween
  <2> QED
    BY <2>1, <2>2, <2>3, <2>4, <2>5
<1> QED
  BY <1>1, <1>2, <1>3, <1>6, IdleSteps

LEMMA BeginEntries ==
  ASSUME Inv, EntriesInv, NEW d \in Clients, NEW k \in Calls, Begin(d, k)
  PROVE  EntriesInv'
<1>1. stage[d] = "ready" /\ open[d] /\ call[d] = NoCall /\ request[d] = << >> /\ reply[d] = << >>
  BY DEF Begin, Inv, Placed, Ready
<1>2. /\ request' = [request EXCEPT ![d] = Append(@, Encode(k, calls'))]
      /\ result' = [result EXCEPT ![d] = [n |-> calls', call |-> k, reply |-> NoReply, value |-> [is |-> "none"]]]
      /\ call' = [call EXCEPT ![d] = k] /\ UNCHANGED <<queue, job, reply, stage, open, taken, given>>
  BY DEF Begin, Send
<1>3. ASSUME NEW c \in Clients \ {d} PROVE Same(c)
  BY <1>2 DEF Inv, Shape, Same
<1>4. IF k.op = "write" THEN k.entry \notin written /\ k.entry \in Entries /\ written' = written \union {k.entry}
      ELSE UNCHANGED written
  BY CallFields DEF Begin
<1>5. Typed'
  <2>1. calls' \in 0 .. MaxCalls
    BY DataQueueAssumption DEF Begin, EntriesInv, Typed
  <2>2. written' \subseteq Entries
    BY <1>4 DEF EntriesInv, Typed
  <2>3. \A c \in Clients : result'[c].value \in Values
    <3>1. [is |-> "none"] \in Values
      BY DEF Values
    <3>2. result'[d].value = [is |-> "none"]
      BY <1>2 DEF Inv, Shape
    <3> QED
      BY <1>3, <3>1, <3>2 DEF Same, EntriesInv, Typed
  <2> QED
    BY <1>2, <2>1, <2>2, <2>3 DEF EntriesInv, Typed
<1>6. request'[d] = <<Encode(k, calls')>> /\ call'[d] = k /\ reply'[d] = << >>
  <2>1. request'[d] = Append(request[d], Encode(k, calls')) /\ call'[d] = k
    BY <1>2 DEF Inv, Shape
  <2> QED
    BY <1>1, <1>2, <2>1, Singles
<1>7. ASSUME NEW e \in Entries PROVE Accounted(e)'
  <2>1. Accounted(e) /\ Holding(e)' = Holding(e) /\ Unique(e)'
    BY <1>2 DEF EntriesInv, Accounted, Holding, Unique
  <2>2. d \notin Asking(e) /\ d \notin Refused(e) /\ d \notin Answered(e)
    BY <1>1, IdleThen DEF IdleBetween, Idle
  <2>3. d \notin Refused(e)' /\ d \notin Answered(e)'
    BY <1>6 DEF Refused, Answered, Range
  <2>4. d \in Asking(e)' <=> e \in WrittenBy(k)
    <3>1. request'[d] # << >> /\ Head(request'[d]) = Encode(k, calls')
      BY <1>6, Singles
    <3>2. WrittenBy(Encode(k, calls')) = WrittenBy(k)
      BY NothingAsked
    <3> QED
      BY <3>1, <3>2 DEF Asking
  <2>5. Refused(e)' = Refused(e) /\ Answered(e)' = Answered(e) /\ Asking(e)' \ {d} = Asking(e)
    BY <1>3, <2>2, <2>3, Others
  <2>6. Left(e)'
    <3> SUFFICES ASSUME NEW c \in Asking(e)' PROVE open'[c] \/ e \in given'
      BY DEF Left
    <3>1. c = d \/ c \in Asking(e)
      BY <2>5
    <3> QED
      BY <1>1, <1>2, <2>1, <3>1 DEF Accounted, Left
  <2>7. Somewhere(e)'
    <3>1. CASE e \in WrittenBy(k)
      <4>1. k.op = "write" /\ e = k.entry /\ e \notin written /\ e \in written'
        BY <1>4, <3>1 DEF WrittenBy
      <4>2. PICK who \in Owners : At(e, "nowhere", who)
        BY <2>1, <4>1 DEF Accounted, Somewhere
      <4>3. Asking(e)' = {d}
        BY <2>4, <2>5, <3>1, <4>2 DEF At
      <4>4. At(e, "asking", d)'
        BY <1>2, <2>1, <2>5, <4>2, <4>3 DEF At
      <4> QED
        BY <4>1, <4>4, Comes DEF Places, Owners
    <3>2. CASE e \notin WrittenBy(k)
      <4>1. e \in written' <=> e \in written
        BY <1>4, <3>2 DEF WrittenBy
      <4>2. Asking(e)' = Asking(e)
        BY <2>4, <2>5, <3>2
      <4> QED
        BY <1>2, <2>1, <2>5, <4>1, <4>2, Stays DEF Accounted
    <3> QED
      BY <3>1, <3>2
  <2> QED
    BY <2>1, <2>6, <2>7 DEF Accounted
<1> QED
  BY <1>5, <1>7 DEF EntriesInv

LEMMA ReceiveEntries ==
  ASSUME Inv, EntriesInv, NEW d \in Clients, Receive(d)
  PROVE  EntriesInv'
<1> DEFINE r == Head(reply[d])
           k == call[d]
           v == Parse(k.op, r)
<1>1. stage[d] = "ready" /\ Ready(d) /\ open[d]
  BY Calling DEF Receive
<1>2. request[d] = << >> /\ reply[d] = <<r>> /\ Answers(r, k, result[d].n)
  BY <1>1 DEF Receive, Ready, Single
<1>3. /\ result' = [result EXCEPT ![d].reply = r, ![d].value = v]
      /\ taken' = IF v.is = "entry" /\ ~k.peek THEN [taken EXCEPT ![v.entry] = @ + 1] ELSE taken
      /\ given' = IF v.is = "error" THEN given \union WrittenBy(k) ELSE given
      /\ call' = [call EXCEPT ![d] = NoCall] /\ reply' = [reply EXCEPT ![d] = Tail(@)]
      /\ UNCHANGED <<queue, job, request, stage, open, calls, written>>
  BY DEF Receive, TakeReply
<1>4. /\ Told(k, r, v) /\ v \in Values /\ (r.did = "refused" => v.is = "error")
      /\ TakenBy(r) = IF v.is = "entry" /\ ~k.peek THEN {v.entry} ELSE {}
  BY <1>2 DEF Answers, Received
<1>5. Range(reply[d]) = {r} /\ reply'[d] = << >> /\ call'[d] = NoCall
  BY <1>2, <1>3, Singles DEF Inv, Shape
<1> HIDE DEF r, k, v
<1>6. ASSUME NEW c \in Clients \ {d} PROVE Same(c)
  BY <1>3 DEF Inv, Shape, Same
<1>7. d \in Clients /\ result'[d].value = v
  <2>1. d \in DOMAIN result /\ result[d] = [n |-> result[d].n, call |-> result[d].call,
                                           reply |-> result[d].reply, value |-> result[d].value]
    BY DEF Inv, Shape
  <2>2. result'[d] = [result[d] EXCEPT !.reply = r, !.value = v]
    BY <1>3, <2>1
  <2> QED
    BY <2>1, <2>2
<1>8. ASSUME NEW e \in Entries
      PROVE  /\ d \notin Asking(e)
             /\ d \in Refused(e) <=> e \in WrittenBy(k) /\ r.did = "refused"
             /\ d \in Answered(e) <=> e \in TakenBy(r)
             /\ d \notin Asking(e)' /\ d \notin Refused(e)' /\ d \notin Answered(e)'
  <2>1. d \notin Asking(e) /\ d \notin Asking(e)'
    BY <1>2, <1>3 DEF Asking
  <2>2. d \in Refused(e) <=> e \in WrittenBy(k) /\ r.did = "refused"
    BY <1>5 DEF Refused, k
  <2>3. d \in Answered(e) <=> e \in TakenBy(r)
    BY <1>5 DEF Answered
  <2>4. d \notin Refused(e)' /\ d \notin Answered(e)'
    BY <1>5 DEF Refused, Answered, Range
  <2> QED
    BY <2>1, <2>2, <2>3, <2>4
<1>9. WrittenBy(k) \subseteq Entries /\ k \in Calls
  <2>1. k \in Calls
    BY <1>1 DEF Receive, Ready, k
  <2> QED
    BY <2>1, CallFields DEF WrittenBy
<1>10. ASSUME NEW e \in Entries PROVE taken'[e] = IF e \in TakenBy(r) THEN taken[e] + 1 ELSE taken[e]
  BY <1>3, <1>4 DEF EntriesInv, Typed
<1>11. Typed'
  <2>1. given' \subseteq Entries
    <3>1. given' = given \/ given' = given \union WrittenBy(k)
      BY <1>3
    <3> QED
      BY <1>9, <3>1 DEF EntriesInv, Typed
  <2>2. taken' \in [Entries -> Nat]
    <3>1. taken' = taken \/ taken' = [taken EXCEPT ![v.entry] = @ + 1]
      BY <1>3
    <3> QED
      BY <3>1 DEF EntriesInv, Typed
  <2>3. \A c \in Clients : result'[c].value \in Values
    BY <1>4, <1>6, <1>7 DEF Same, EntriesInv, Typed
  <2> QED
    BY <1>3, <2>1, <2>2, <2>3 DEF EntriesInv, Typed
<1>12. ASSUME NEW e \in Entries PROVE Accounted(e)'
  <2>1. Accounted(e) /\ Holding(e)' = Holding(e) /\ Unique(e)' /\ given \subseteq given'
    BY <1>3 DEF EntriesInv, Accounted, Holding, Unique
  <2>2. Asking(e)' = Asking(e) /\ Refused(e)' = Refused(e) \ {d} /\ Answered(e)' = Answered(e) \ {d}
    <3>1. /\ Asking(e)' \ {d} = Asking(e) \ {d} /\ Refused(e)' \ {d} = Refused(e) \ {d}
          /\ Answered(e)' \ {d} = Answered(e) \ {d}
      BY <1>6, Others
    <3>2. d \notin Asking(e) /\ d \notin Asking(e)' /\ d \notin Refused(e)' /\ d \notin Answered(e)'
      BY <1>8
    <3> QED
      BY <3>1, <3>2
  <2>3. Left(e)'
    BY <1>3, <2>1, <2>2 DEF Accounted, Left
  <2>4. Somewhere(e)'
    <3>1. CASE e \in TakenBy(r)
      <4>1. PICK place \in Places : At(e, place, d) /\ e \in written
        BY <1>8, <2>1, <3>1, Alone DEF Accounted
      <4>2. place = "answered"
        BY <1>8, <3>1, <4>1 DEF At
      <4>3. taken'[e] = 1
        BY <1>10, <3>1, <4>1, <4>2 DEF At
      <4>4. At(e, "received", d)'
        BY <2>1, <2>2, <4>1, <4>2, <4>3 DEF At
      <4> QED
        BY <1>3, <4>1, <4>4, Comes DEF Places, Owners
    <3>2. CASE e \notin TakenBy(r)
      <4>1. taken'[e] = taken[e] /\ d \notin Answered(e)
        BY <1>8, <1>10, <3>2
      <4>2. d \in Refused(e) => e \in given'
        <5> SUFFICES ASSUME d \in Refused(e) PROVE e \in given'
          OBVIOUS
        <5>1. e \in WrittenBy(k) /\ v.is = "error"
          BY <1>4, <1>8
        <5> QED
          BY <1>3, <5>1
      <4> QED
        BY <1>3, <2>1, <2>2, <4>1, <4>2, Stays DEF Accounted
    <3> QED
      BY <3>1, <3>2
  <2> QED
    BY <2>1, <2>3, <2>4 DEF Accounted
<1> QED
  BY <1>11, <1>12 DEF EntriesInv

LEMMA CallFailsEntries ==
  ASSUME Inv, EntriesInv, NEW d \in Clients, CallFails(d)
  PROVE  EntriesInv'
<1> DEFINE k == call[d]
           lost == WrittenBy(k) \union UNION {TakenBy(r) : r \in Range(reply[d])}
<1>1. stage[d] = "ready" /\ Ready(d) /\ open[d] /\ k # NoCall
  BY Calling DEF CallFails
<1>2. PICK v : /\ result' = [result EXCEPT ![d].value = v]
               /\ v = [is |-> "ioError"] \/ v = [is |-> "timeout"]
  BY DEF CallFails
<1>3. /\ call' = [call EXCEPT ![d] = NoCall] /\ open' = [open EXCEPT ![d] = FALSE]
      /\ reply' = [reply EXCEPT ![d] = << >>] /\ given' = given \union lost
      /\ UNCHANGED <<queue, job, request, stage, calls, written, taken>>
  BY DEF CallFails, DropReplies
<1>4. call'[d] = NoCall /\ reply'[d] = << >> /\ request' = request
  BY <1>3 DEF Inv, Shape
<1>5. ASSUME NEW c \in Clients \ {d} PROVE Same(c)
  BY <1>2, <1>3 DEF Inv, Shape, Same
<1>6. k \in Calls /\ \A e : d \in Asking(e) => e \in WrittenBy(k)
  <2>1. k \in Calls /\ (request[d] = << >> \/ request[d] = <<Encode(k, result[d].n)>>)
    BY <1>1 DEF Ready
  <2> QED
    BY <2>1, NothingAsked, Singles DEF Asking
<1>7. \A e : (d \in Refused(e) => e \in WrittenBy(k)) /\ (d \in Answered(e) => e \in lost)
  BY DEF Refused, Answered
<1>8. lost \subseteq Entries
  <2>1. WrittenBy(k) \subseteq Entries
    BY <1>6, CallFields DEF WrittenBy
  <2>2. ASSUME NEW r \in Range(reply[d]) PROVE TakenBy(r) \subseteq Entries
    <3>1. reply[d] # << >>
      BY <2>2 DEF Range
    <3>2. Single(reply[d]) /\ Answers(Head(reply[d]), k, result[d].n)
      BY <1>1, <3>1 DEF Ready
    <3>3. r = Head(reply[d])
      BY <2>2, <3>2, Singles DEF Single
    <3>4. LET w == Parse(k.op, r) IN w \in Values /\ TakenBy(r) = IF w.is = "entry" /\ ~k.peek THEN {w.entry} ELSE {}
      BY <3>2, <3>3 DEF Answers, Received
    <3>5. \A w \in Values : w.is = "entry" => w.entry \in Entries
      BY DEF Values
    <3> QED
      BY <3>4, <3>5
  <2> QED
    BY <2>1, <2>2
<1> HIDE DEF lost, k
<1>9. Typed'
  <2>1. result'[d].value = v
    <3>1. d \in DOMAIN result /\ result[d] = [n |-> result[d].n, call |-> result[d].call,
                                             reply |-> result[d].reply, value |-> result[d].value]
      BY DEF Inv, Shape
    <3>2. result'[d] = [result[d] EXCEPT !.value = v]
      BY <1>2, <3>1
    <3> QED
      BY <3>1, <3>2
  <2>2. v \in Values
    BY <1>2 DEF Values
  <2>3. \A c \in Clients : result'[c].value \in Values
    BY <1>5, <2>1, <2>2 DEF Same, EntriesInv, Typed
  <2> QED
    BY <1>3, <1>8, <2>3 DEF EntriesInv, Typed
<1>10. ASSUME NEW e \in Entries PROVE Accounted(e)'
  <2>1. Accounted(e) /\ Holding(e)' = Holding(e) /\ Unique(e)' /\ given \subseteq given'
    BY <1>3 DEF EntriesInv, Accounted, Holding, Unique
  <2>2. d \notin Refused(e)' /\ d \notin Answered(e)' /\ Asking(e)' = Asking(e)
    BY <1>4 DEF Refused, Answered, Asking, Range, WrittenBy, NoCall
  <2>3. Refused(e)' = Refused(e) \ {d} /\ Answered(e)' = Answered(e) \ {d}
    BY <1>5, <2>2, Others
  <2>4. Left(e)'
    <3> SUFFICES ASSUME NEW c \in Asking(e) PROVE open'[c] \/ e \in given'
      BY <2>2 DEF Left
    <3>1. CASE c = d
      BY <1>3, <1>6, <3>1 DEF lost
    <3>2. CASE c # d
      BY <1>3, <2>1, <3>2 DEF Accounted, Left, EntriesInv, Typed
    <3> QED
      BY <3>1, <3>2
  <2>5. e \in given' \/ (d \notin Refused(e) /\ d \notin Answered(e))
    BY <1>3, <1>7 DEF lost
  <2>6. Somewhere(e)'
    BY <1>3, <2>1, <2>2, <2>3, <2>5, Stays DEF Accounted
  <2> QED
    BY <2>1, <2>4, <2>6 DEF Accounted
<1> QED
  BY <1>9, <1>10 DEF EntriesInv

LEMMA EndJobEntries ==
  ASSUME Inv, EntriesInv, NEW d \in Clients, EndJob(d)
  PROVE  EntriesInv'
<1>1. /\ ~open[d] /\ request' = [request EXCEPT ![d] = << >>]
      /\ UNCHANGED <<queue, job, reply, stage, open, call, result, calls, written, taken, given>>
  BY DEF EndJob, client, history
<1>2. ASSUME NEW c \in Clients \ {d} PROVE Same(c)
  BY <1>1 DEF Inv, Shape, Same
<1>3. request'[d] = << >>
  BY <1>1 DEF Inv, Shape
<1>4. ASSUME NEW e \in Entries PROVE Accounted(e)'
  <2>1. /\ Accounted(e) /\ Holding(e)' = Holding(e) /\ Unique(e)'
        /\ Refused(e)' = Refused(e) /\ Answered(e)' = Answered(e)
    BY <1>1 DEF EntriesInv, Accounted, Holding, Unique, Refused, Answered
  <2>2. d \notin Asking(e)'
    BY <1>3 DEF Asking
  <2>3. Asking(e)' = Asking(e) \ {d}
    BY <1>2, <2>2, Others
  <2>4. d \in Asking(e) => e \in given'
    BY <1>1, <2>1 DEF Accounted, Left
  <2>5. Left(e)'
    BY <1>1, <2>1, <2>3 DEF Accounted, Left
  <2>6. Somewhere(e)'
    BY <1>1, <2>1, <2>3, <2>4, Stays DEF Accounted
  <2> QED
    BY <2>1, <2>5, <2>6 DEF Accounted
<1> QED
  BY <1>1, <1>4 DEF EntriesInv, Typed

LEMMA SameBut ==
  ASSUME NEW A, NEW B, NEW x, A \ {x} = B \ {x}
  PROVE  /\ (x \in A <=> x \in B) => A = B
         /\ x \in A => A = B \union {x}
         /\ x \notin A => A = B \ {x}
<1>1. \A y : y # x => (y \in A <=> y \in B)
  OBVIOUS
<1> QED
  BY <1>1

LEMMA Given ==
  ASSUME Inv, EntriesInv, NEW d \in Clients, NEW k \in Calls, NEW n, request[d] # << >>,
         Head(request[d]) = Encode(k, n), Serve(d)
  PROVE  given \subseteq given' /\ given' \subseteq Entries
<1> DEFINE r == Head(request[d])
           q == queue[r.queue]
           es == q.entries
<1>1. r = Encode(k, n) /\ r.op \in Ops \ {"clearKey"} /\ r.queue \in Queues
  BY Encoded, CallFields
<1>2. given \subseteq Entries
  BY DEF EntriesInv, Typed
<1>3. ASSUME ~Refuses(r), r.op # "create" PROVE Range(es) \subseteq Items /\ \A i \in DOMAIN es : es[i] \in Items
  <2>1. q.exists
    BY <1>1, <1>3 DEF Refuses, Ops
  <2>2. q # Absent
    BY <2>1 DEF Absent
  <2>3. es \in Seq(Items)
    BY <1>1, <2>2 DEF Inv, QueuesFormed, Formed, HasAttributes
  <2> HIDE DEF es
  <2>4. \A i \in DOMAIN es : es[i] \in Items
    BY <2>3
  <2> QED
    BY <2>4 DEF Range
<1>4. \A x \in Items : x.entry \in Entries
  BY DEF Items
<1> HIDE DEF r, q, es
<1>5. CASE UNCHANGED given
  BY <1>2, <1>5
<1>6. CASE ~Refuses(r) /\ r.op # "create" /\ given' = given \union {x.entry : x \in Range(es)}
  BY <1>2, <1>3, <1>4, <1>6
<1>7. CASE ~Refuses(r) /\ r.op # "create" /\ given' = given \union {x.entry : x \in {x \in Range(es) : x.key \in r.keys}}
  BY <1>2, <1>3, <1>4, <1>7
<1>8. CASE /\ ~Refuses(r) /\ r.op = "read"
           /\ \E i \in Matching(r) : given' = given \union (IF r.peek = "F1" \/ open[d] THEN {} ELSE {es[i].entry})
  <2>1. PICK i \in Matching(r) : given' = given \/ given' = given \union {es[i].entry}
    BY <1>8
  <2>2. i \in DOMAIN es
    BY DEF Matching, es, q
  <2>3. es[i].entry \in Entries
    BY <1>3, <1>4, <1>8, <2>2
  <2> QED
    BY <1>2, <2>1, <2>3
<1>9. CASE /\ ~Refuses(r) /\ r.op \in {"create", "delete", "clear", "write"}
           /\ given' = given \union CASE r.op = "delete" -> {x.entry : x \in Range(es)}
                                      [] r.op = "clear" -> {x.entry : x \in {x \in Range(es) : x.key \in r.keys}}
                                      [] OTHER -> {}
  <2>1. CASE r.op = "delete"
    BY <1>6, <1>9, <2>1
  <2>2. CASE r.op = "clear"
    BY <1>7, <1>9, <2>2
  <2>3. CASE r.op \notin {"delete", "clear"}
    <3>1. given' = given \union {}
      BY <1>9, <2>3
    <3> QED
      BY <1>5, <3>1
  <2> QED
    BY <2>1, <2>2, <2>3
<1> QED
  BY <1>5, <1>8, <1>9 DEF Serve, r, q, es

\* What the server does with entry e when it answers call k of client d with a:
\* it refuses the call, leaves e where it is or clears it, adds it, or takes it.
Deals(d, k, a, e) ==
    /\ Unique(e)'
    /\ \/ /\ a.did = "refused" /\ TakenBy(a) = {}
          /\ Holding(e)' = Holding(e)
       \/ /\ a.did # "refused" /\ e \notin TakenBy(a) /\ e \notin WrittenBy(k)
          /\ Holding(e)' \subseteq Holding(e) /\ (Holding(e)' = Holding(e) \/ e \in given')
       \/ /\ a.did # "refused" /\ TakenBy(a) = {} /\ e \in WrittenBy(k)
          /\ \E Q \in Queues : Holding(e)' = Holding(e) \union {Q}
       \/ /\ a.did # "refused" /\ TakenBy(a) = {e} /\ WrittenBy(k) = {}
          /\ \E Q \in Holding(e) : Holding(e)' = Holding(e) \ {Q}
          /\ open[d] \/ e \in given'

LEMMA Dealt ==
  ASSUME Inv, EntriesInv, NEW d \in Clients, NEW k \in Calls, NEW n, request[d] # << >>,
         Head(request[d]) = Encode(k, n), Serve(d), NEW e \in Entries
  PROVE  \E a : Reply(d, a) /\ Deals(d, k, a, e)
<1> DEFINE r == Head(request[d])
           q == queue[r.queue]
           Becomes(new) == queue' = [queue EXCEPT ![r.queue] = new]
           es == q.entries
<1>1. r = Encode(k, n) /\ r.op \in Ops \ {"clearKey"} /\ r.queue \in Queues
  BY Encoded, CallFields
<1>2. Unique(e) /\ DOMAIN queue = Queues
  BY DEF EntriesInv, Accounted, Inv, Shape
<1>3. WrittenBy(k) = IF r.op = "write" THEN {r.entry} ELSE {}
  <2>1. /\ r.op = "write" <=> k.op = "write"
        /\ r.op = "write" => r.entry = k.entry
    BY <1>1, Encoded
  <2> QED
    BY <2>1 DEF WrittenBy
<1>4. ASSUME ~Refuses(r), r.op # "create" PROVE q.exists /\ HasAttributes(q)
  <2>1. q.exists
    BY <1>1, <1>4 DEF Refuses, Ops
  <2>2. q # Absent
    BY <2>1 DEF Absent
  <2> QED
    BY <1>1, <2>1, <2>2 DEF Inv, QueuesFormed, Formed
<1>5. ASSUME ~Refuses(r), r.op # "create" PROVE es \in Seq(Items) /\ Once(es, e) /\ (r.queue \in Holding(e) <=> Has(es, e))
  BY <1>1, <1>2, <1>4, <1>5 DEF HasAttributes, Unique, Holding
<1>6. ASSUME UNCHANGED <<queue, given>> PROVE Unique(e)' /\ Holding(e)' = Holding(e)
  BY <1>2, <1>6 DEF Unique, Holding
<1>7. \A rc, did : /\ Common(r, rc, did).did = did /\ TakenBy(Common(r, rc, did)) = {}
  BY DEF Common, TakenBy
<1>8. ASSUME NEW new, Becomes(new), new.exists => Once(new.entries, e)
      PROVE  /\ Unique(e)' /\ Holding(e)' \ {r.queue} = Holding(e) \ {r.queue}
             /\ r.queue \in Holding(e)' <=> new.exists /\ Has(new.entries, e)
  BY <1>1, <1>2, <1>8, QueueBecomes
<1>9. ASSUME ~Refuses(r), r.op # "create", NEW t
      PROVE  [q EXCEPT !.entries = t].exists /\ [q EXCEPT !.entries = t].entries = t
  BY <1>4, <1>9 DEF HasAttributes
<1> HIDE DEF r, q, Becomes, es
<1>10. CASE Reply(d, Common(r, "F001", "refused")) /\ UNCHANGED <<queue, given>>
  BY <1>6, <1>7, <1>10 DEF Deals
<1>11. CASE /\ ~Refuses(r) /\ r.op = "create" /\ Becomes(Created(r.type, r.options))
            /\ Reply(d, Common(r, "F000", "done")) /\ UNCHANGED given
  <2> DEFINE new == Created(r.type, r.options)
  <2>1. new.exists /\ ~Has(new.entries, e) /\ Once(new.entries, e)
    BY DEF Created, Has, Once, PlacesIn
  <2>2. r.queue \notin Holding(e)
    BY <1>11 DEF Refuses, Holding
  <2> HIDE DEF new
  <2>3. Unique(e)' /\ Holding(e)' = Holding(e)
    <3>1. /\ Unique(e)' /\ Holding(e)' \ {r.queue} = Holding(e) \ {r.queue}
          /\ r.queue \in Holding(e)' <=> new.exists /\ Has(new.entries, e)
      BY <1>8, <1>11, <2>1 DEF new
    <3> QED
      BY <2>1, <2>2, <3>1, SameBut
  <2> QED
    BY <1>2, <1>3, <1>7, <1>11, <2>3 DEF Deals
<1>12. CASE /\ ~Refuses(r) /\ r.op = "delete" /\ Becomes(Absent)
            /\ Reply(d, Common(r, "F000", "done")) /\ given' = given \union {x.entry : x \in Range(es)}
  <2>1. ~Absent.exists
    BY DEF Absent
  <2>2. Unique(e)' /\ Holding(e)' = Holding(e) \ {r.queue}
    BY <1>8, <1>12, <2>1, SameBut
  <2>3. r.queue \in Holding(e) => e \in given'
    BY <1>5, <1>12 DEF Has, PlacesIn, Range
  <2>4. Holding(e)' = Holding(e) \/ e \in given'
    BY <2>2, <2>3
  <2> QED
    BY <1>3, <1>7, <1>12, <2>2, <2>4 DEF Deals
<1>13. CASE /\ ~Refuses(r) /\ r.op = "clear" /\ Becomes([q EXCEPT !.entries = Kept(es, r.keys)])
            /\ Reply(d, Common(r, "F000", "done"))
            /\ given' = given \union {x.entry : x \in {x \in Range(es) : x.key \in r.keys}}
  <2> DEFINE t == Kept(es, r.keys)
             new == [q EXCEPT !.entries = t]
  <2>1. /\ t \in Seq(Items) /\ Once(t, e) /\ (Has(t, e) => Has(es, e))
        /\ Has(es, e) => Has(t, e) \/ \E i \in DOMAIN es : es[i].entry = e /\ es[i].key \in r.keys
    BY <1>5, <1>13, KeptEntries
  <2>2. new.exists /\ new.entries = t
    BY <1>9, <1>13
  <2> HIDE DEF t, new
  <2>3. /\ Unique(e)' /\ Holding(e)' \ {r.queue} = Holding(e) \ {r.queue}
        /\ r.queue \in Holding(e)' <=> Has(t, e)
    BY <1>8, <1>13, <2>1, <2>2 DEF new, t
  <2>4. Has(es, e) => Has(t, e) \/ e \in given'
    <3> SUFFICES ASSUME NEW i \in DOMAIN es, es[i].entry = e, es[i].key \in r.keys PROVE e \in given'
      BY <2>1
    <3>1. es[i] \in {x \in Range(es) : x.key \in r.keys}
      BY DEF Range
    <3> QED
      BY <1>13, <3>1
  <2>5. Holding(e)' \subseteq Holding(e) /\ (Holding(e)' = Holding(e) \/ e \in given')
    <3>1. r.queue \in Holding(e) <=> Has(es, e)
      BY <1>5, <1>13
    <3> QED
      BY <2>1, <2>3, <2>4, <3>1, SameBut
  <2> QED
    BY <1>3, <1>7, <1>13, <2>3, <2>5 DEF Deals
<1>14. CASE /\ ~Refuses(r) /\ r.op = "write"
            /\ Becomes([q EXCEPT !.entries = Append(es, [key |-> r.key, entry |-> r.entry])])
            /\ Reply(d, Common(r, "F000", "done")) /\ UNCHANGED given
  <2> DEFINE x == [key |-> r.key, entry |-> r.entry]
             t == Append(es, x)
             new == [q EXCEPT !.entries = t]
  <2>1. x \in Items /\ x.entry = r.entry
    BY <1>1, <1>14, Encoded, CallFields DEF Items
  <2> HIDE DEF x
  <2>2. /\ r.entry # e => (Has(t, e) <=> Has(es, e)) /\ Once(t, e)
        /\ r.entry = e => Has(t, e) /\ (~Has(es, e) => Once(t, e))
    BY <1>5, <1>14, <2>1, AppendEntries
  <2>3. new.exists /\ new.entries = t /\ Becomes(new)
    BY <1>9, <1>14 DEF x
  <2>4. r.entry = e => ~Has(es, e)
    <3> SUFFICES ASSUME r.entry = e PROVE Holding(e) = {}
      BY <1>5, <1>14
    <3>1. e \in WrittenBy(r)
      BY <1>14 DEF WrittenBy
    <3>2. d \in Asking(e)
      BY <3>1 DEF Asking, r
    <3>3. PICK place \in Places : At(e, place, d)
      BY <3>2, Alone DEF EntriesInv, Accounted
    <3> QED
      BY <3>2, <3>3 DEF At
  <2> HIDE DEF t, new
  <2>5. /\ Unique(e)' /\ Holding(e)' \ {r.queue} = Holding(e) \ {r.queue}
        /\ r.queue \in Holding(e)' <=> Has(t, e)
    BY <1>8, <2>2, <2>3, <2>4
  <2>6. CASE r.entry = e
    <3>1. Holding(e)' = Holding(e) \union {r.queue}
      BY <2>2, <2>5, <2>6
    <3>2. e \in WrittenBy(k)
      BY <1>3, <1>14, <2>6
    <3> QED
      BY <1>1, <1>2, <1>7, <1>14, <2>5, <3>1, <3>2 DEF Deals
  <2>7. CASE r.entry # e
    <3>1. Holding(e)' = Holding(e)
      <4>1. r.queue \in Holding(e) <=> Has(es, e)
        BY <1>5, <1>14
      <4> QED
        BY <2>2, <2>5, <2>7, <4>1, SameBut
    <3>2. e \notin WrittenBy(k)
      BY <1>3, <1>14, <2>7
    <3> QED
      BY <1>2, <1>7, <1>14, <2>5, <3>1, <3>2 DEF Deals
  <2> QED
    BY <2>6, <2>7
<1>15. CASE /\ ~Refuses(r) /\ r.op = "attributes" /\ UNCHANGED <<queue, given>>
            /\ Reply(d, [opcode |-> "attributes", type |-> q.type, options |-> q.options, did |-> "told", n |-> r.n])
  <2> DEFINE a == [opcode |-> "attributes", type |-> q.type, options |-> q.options, did |-> "told", n |-> r.n]
  <2>1. a.did # "refused" /\ TakenBy(a) = {}
    BY DEF TakenBy
  <2> HIDE DEF a
  <2>2. Deals(d, k, a, e)
    BY <1>3, <1>6, <1>15, <2>1 DEF Deals
  <2> QED
    BY <1>15, <2>2 DEF a
<1>16. CASE /\ ~Refuses(r) /\ r.op = "read"
            /\ \E i \in Matching(r) :
                  /\ Reply(d, [opcode |-> "entry", entry |-> es[i].entry, queue |-> r.queue, n |-> r.n,
                               did |-> IF r.peek = "F1" THEN "peeked" ELSE "taken"])
                  /\ Becomes(IF r.peek = "F1" THEN q ELSE [q EXCEPT !.entries = RemoveAt(es, i)])
                  /\ given' = given \union (IF r.peek = "F1" \/ open[d] THEN {} ELSE {es[i].entry})
  <2>1. PICK i \in Matching(r) :
                  /\ Reply(d, [opcode |-> "entry", entry |-> es[i].entry, queue |-> r.queue, n |-> r.n,
                               did |-> IF r.peek = "F1" THEN "peeked" ELSE "taken"])
                  /\ Becomes(IF r.peek = "F1" THEN q ELSE [q EXCEPT !.entries = RemoveAt(es, i)])
                  /\ given' = given \union (IF r.peek = "F1" \/ open[d] THEN {} ELSE {es[i].entry})
    BY <1>16
  <2> DEFINE x == es[i].entry
             a == [opcode |-> "entry", entry |-> x, queue |-> r.queue, n |-> r.n,
                   did |-> IF r.peek = "F1" THEN "peeked" ELSE "taken"]
             t == RemoveAt(es, i)
             new == [q EXCEPT !.entries = t]
  <2>2. /\ i \in DOMAIN es /\ x \in Entries
        /\ Once(t, e) /\ (Has(t, e) <=> Has(es, e) /\ x # e)
    <3>1. i \in DOMAIN es
      BY DEF Matching, es, q
    <3>2. es[i] \in Items
      BY <1>5, <1>16, <3>1
    <3> QED
      BY <1>5, <1>16, <3>1, <3>2, Removed DEF Items
  <2>3. a.did # "refused" /\ TakenBy(a) = IF r.peek = "F1" THEN {} ELSE {x}
    BY DEF TakenBy
  <2>4. new.exists /\ new.entries = t
    BY <1>9, <1>16
  <2>5. x = e => Has(es, e)
    BY <2>2 DEF Has, PlacesIn
  <2>6. WrittenBy(k) = {} /\ Reply(d, a)
    BY <1>3, <1>16, <2>1
  <2>7. given' = given \union (IF r.peek = "F1" \/ open[d] THEN {} ELSE {x})
    BY <2>1
  <2>8. Becomes(IF r.peek = "F1" THEN q ELSE new)
    BY <2>1
  <2> HIDE DEF x, a, t, new
  <2>9. CASE r.peek = "F1"
    <3>1. q.exists /\ es = q.entries
      BY <1>4, <1>16 DEF es
    <3>2. Becomes(q) /\ Once(q.entries, e)
      BY <1>5, <1>16, <2>8, <2>9, <3>1
    <3>3. Unique(e)' /\ Holding(e)' = Holding(e)
      <4>1. /\ Unique(e)' /\ Holding(e)' \ {r.queue} = Holding(e) \ {r.queue}
            /\ r.queue \in Holding(e)' <=> Has(q.entries, e)
        BY <1>8, <3>1, <3>2
      <4>2. r.queue \in Holding(e) <=> Has(q.entries, e)
        BY <1>5, <1>16, <3>1
      <4> QED
        BY <4>1, <4>2, SameBut
    <3> QED
      BY <2>3, <2>6, <2>9, <3>3 DEF Deals
  <2>10. CASE r.peek # "F1"
    <3>1. Becomes(new)
      BY <2>8, <2>10
    <3>2. /\ Unique(e)' /\ Holding(e)' \ {r.queue} = Holding(e) \ {r.queue}
          /\ r.queue \in Holding(e)' <=> Has(t, e)
      BY <1>8, <2>2, <2>4, <3>1
    <3>3. CASE x = e
      <4>1. r.queue \in Holding(e) /\ Holding(e)' = Holding(e) \ {r.queue}
        BY <1>5, <1>16, <2>2, <2>5, <3>2, <3>3
      <4>2. TakenBy(a) = {e} /\ (open[d] \/ e \in given')
        BY <2>3, <2>7, <2>10, <3>3
      <4> QED
        BY <2>3, <2>6, <3>2, <4>1, <4>2 DEF Deals
    <3>4. CASE x # e
      <4>1. Holding(e)' = Holding(e)
        <5>1. r.queue \in Holding(e) <=> Has(es, e)
          BY <1>5, <1>16
        <5> QED
          BY <2>2, <3>2, <3>4, <5>1, SameBut
      <4>2. e \notin TakenBy(a)
        BY <2>3, <2>10, <3>4
      <4> QED
        BY <2>3, <2>6, <3>2, <4>1, <4>2 DEF Deals
    <3> QED
      BY <3>3, <3>4
  <2> QED
    BY <2>9, <2>10
<1>17. CASE r.op = "read" /\ Reply(d, Common(r, "F006", "noEntry")) /\ UNCHANGED <<queue, given>>
  BY <1>3, <1>6, <1>7, <1>17 DEF Deals
<1> QED
  <2>1. /\ r.op = "delete" => /\ r.op # "clear" /\ r.op # "write" /\ r.op # "create"
        /\ r.op = "clear" => /\ r.op # "delete" /\ r.op # "write" /\ r.op # "create"
    OBVIOUS
  <2>2. CASE /\ ~Refuses(r) /\ r.op \in {"create", "delete", "clear", "write"}
             /\ CASE r.op = "create" -> Becomes(Created(r.type, r.options))
                  [] r.op = "delete" -> Becomes(Absent)
                  [] r.op = "clear" -> Becomes([q EXCEPT !.entries = Kept(es, r.keys)])
                  [] r.op = "write" -> Becomes([q EXCEPT !.entries = Append(es, [key |-> r.key, entry |-> r.entry])])
             /\ Reply(d, Common(r, "F000", "done"))
             /\ given' = given \union CASE r.op = "delete" -> {x.entry : x \in Range(es)}
                                        [] r.op = "clear" -> {x.entry : x \in {x \in Range(es) : x.key \in r.keys}}
                                        [] OTHER -> {}
    <3>1. CASE r.op = "create"
      BY <1>11, <2>2, <3>1
    <3>2. CASE r.op = "delete"
      BY <1>12, <2>2, <3>2
    <3>3. CASE r.op = "clear"
      BY <1>13, <2>2, <3>3
    <3>4. CASE r.op = "write"
      BY <1>14, <2>2, <3>4
    <3> QED
      BY <2>2, <3>1, <3>2, <3>3, <3>4
  <2> QED
    BY <1>10, <1>15, <1>16, <1>17, <2>2 DEF Serve, r, q, Becomes, es

LEMMA ServeEntries ==
  ASSUME Inv, EntriesInv, NEW d \in Clients, Serve(d)
  PROVE  EntriesInv'
<1> DEFINE k == result[d].call
           n == result[d].n
<1>1. /\ request[d] # << >> /\ Head(request[d]).op \notin Range(Handshakes)
      /\ UNCHANGED <<job, stage, open, call, result, calls, written, taken>>
  BY DEF Serve, client
<1>2. /\ stage[d] = "ready" /\ k \in Calls /\ Head(request[d]) = Encode(k, n)
      /\ reply[d] = << >> /\ (open[d] => call[d] = k) /\ Tail(request[d]) = << >>
  BY <1>1, ServesCalls, Asked
<1> HIDE DEF k, n
<1>3. given \subseteq given' /\ given' \subseteq Entries
  BY <1>1, <1>2, Given
<1>4. ASSUME NEW e \in Entries PROVE Accounted(e)'
  <2>1. PICK a : Reply(d, a) /\ Deals(d, k, a, e)
    BY <1>1, <1>2, Dealt
  <2>2. /\ request' = [request EXCEPT ![d] = Tail(@)]
        /\ reply' = [reply EXCEPT ![d] = IF open[d] THEN Append(@, a) ELSE @]
    BY <2>1 DEF Reply
  <2>3. request'[d] = << >> /\ reply'[d] = IF open[d] THEN <<a>> ELSE << >>
    <3>1. request'[d] = Tail(request[d]) /\ reply'[d] = IF open[d] THEN Append(reply[d], a) ELSE reply[d]
      BY <2>2 DEF Inv, Shape
    <3> QED
      BY <1>2, <3>1, Singles
  <2>4. \A c \in Clients \ {d} : Same(c)
    BY <1>1, <2>2 DEF Inv, Shape, Same
  <2>5. Range(reply'[d]) = IF open[d] THEN {a} ELSE {}
    BY <2>3, Singles DEF Range
  <2>6. /\ d \in Asking(e) <=> e \in WrittenBy(k)
        /\ d \notin Refused(e) /\ d \notin Answered(e) /\ d \notin Asking(e)'
    <3>1. WrittenBy(Head(request[d])) = WrittenBy(k)
      BY <1>2, NothingAsked
    <3>2. d \in Asking(e) <=> e \in WrittenBy(k)
      BY <1>1, <3>1 DEF Asking
    <3> QED
      BY <1>2, <2>3, <3>2 DEF Refused, Answered, Asking, Range
  <2>7. /\ d \in Refused(e)' <=> open[d] /\ e \in WrittenBy(k) /\ a.did = "refused"
        /\ d \in Answered(e)' <=> open[d] /\ e \in TakenBy(a)
    <3>1. open[d] => call'[d] = k
      BY <1>1, <1>2
    <3> QED
      BY <2>5, <3>1 DEF Refused, Answered
  <2>8. /\ Asking(e)' = Asking(e) \ {d} /\ Refused(e)' \ {d} = Refused(e) /\ Answered(e)' \ {d} = Answered(e)
    BY <2>4, <2>6, Others
  <2>9. Accounted(e) /\ taken'[e] = taken[e] /\ written' = written /\ open' = open
    BY <1>1 DEF EntriesInv
  <2>10. Unique(e)' /\ given \subseteq given'
    BY <1>3, <2>1 DEF Deals
  <2>11. Left(e)'
    BY <2>8, <2>9, <2>10 DEF Accounted, Left
  <2>12. ~open[d] /\ d \in Asking(e) => e \in given'
    BY <2>9, <2>10 DEF Accounted, Left
  <2>13. Somewhere(e) /\ d \in Owners
    BY <2>9 DEF Accounted, Owners
  <2>14. Somewhere(e)'
    <3>1. CASE a.did = "refused" /\ TakenBy(a) = {} /\ Holding(e)' = Holding(e)
      <4>1. Answered(e)' = Answered(e)
        BY <2>6, <2>7, <2>8, <3>1
      <4>2. CASE d \in Asking(e) /\ open[d]
        <5>1. PICK place \in Places : At(e, place, d) /\ e \in written
          BY <2>13, <4>2, Alone
        <5>2. place = "asking"
          BY <4>2, <5>1 DEF At
        <5>3. Refused(e)' = {d}
          BY <2>6, <2>7, <2>8, <3>1, <4>2, <5>1, <5>2 DEF At
        <5>4. At(e, "refused", d)'
          BY <2>8, <2>9, <3>1, <4>1, <5>1, <5>2, <5>3 DEF At
        <5> QED
          BY <2>9, <2>13, <5>1, <5>4, Comes DEF Places
      <4>3. CASE ~(d \in Asking(e) /\ open[d])
        <5>1. Refused(e)' = Refused(e)
          BY <2>6, <2>7, <2>8, <4>3
        <5>2. Asking(e)' = Asking(e) \/ e \in given'
          BY <2>8, <2>12, <4>3
        <5> QED
          BY <2>8, <2>9, <2>10, <2>13, <3>1, <4>1, <5>1, <5>2, Stays
      <4> QED
        BY <4>2, <4>3
    <3>2. CASE /\ a.did # "refused" /\ e \notin TakenBy(a) /\ e \notin WrittenBy(k)
               /\ Holding(e)' \subseteq Holding(e) /\ (Holding(e)' = Holding(e) \/ e \in given')
      <4>1. Asking(e)' = Asking(e) /\ Refused(e)' = Refused(e) /\ Answered(e)' = Answered(e)
        BY <2>6, <2>7, <2>8, <3>2
      <4> QED
        BY <2>9, <2>10, <2>13, <3>2, <4>1, Stays
    <3>3. CASE /\ a.did # "refused" /\ TakenBy(a) = {} /\ e \in WrittenBy(k)
               /\ \E Q \in Queues : Holding(e)' = Holding(e) \union {Q}
      <4>1. PICK Q \in Queues : Holding(e)' = Holding(e) \union {Q}
        BY <3>3
      <4>2. PICK place \in Places : At(e, place, d) /\ e \in written
        BY <2>6, <2>13, <3>3, Alone
      <4>3. place = "asking"
        BY <2>6, <3>3, <4>2 DEF At
      <4>4. Refused(e)' = Refused(e) /\ Answered(e)' = Answered(e)
        BY <2>6, <2>7, <2>8, <3>3
      <4>5. At(e, "holding", Q)'
        BY <2>8, <2>9, <4>1, <4>2, <4>3, <4>4 DEF At
      <4> QED
        BY <2>9, <4>2, <4>5, Comes DEF Places, Owners
    <3>4. CASE /\ a.did # "refused" /\ TakenBy(a) = {e} /\ WrittenBy(k) = {}
               /\ \E Q \in Holding(e) : Holding(e)' = Holding(e) \ {Q}
               /\ open[d] \/ e \in given'
      <4>1. PICK Q \in Holding(e) : Holding(e)' = Holding(e) \ {Q}
        BY <3>4
      <4>2. PICK place \in Places : At(e, place, Q) /\ e \in written
        BY <2>13, Alone
      <4>3. place = "holding"
        BY <4>1, <4>2 DEF At
      <4>4. Asking(e)' = Asking(e) /\ Refused(e)' = Refused(e)
        BY <2>6, <2>7, <2>8, <3>4
      <4>5. CASE open[d]
        <5>1. Answered(e)' = {d}
          BY <2>7, <2>8, <3>4, <4>2, <4>3, <4>5 DEF At
        <5>2. At(e, "answered", d)'
          BY <2>9, <4>1, <4>2, <4>3, <4>4, <5>1 DEF At
        <5> QED
          BY <2>9, <2>13, <4>2, <5>2, Comes DEF Places
      <4>6. CASE ~open[d]
        <5>1. Answered(e)' = Answered(e)
          BY <2>6, <2>7, <2>8, <4>6
        <5> QED
          BY <2>9, <2>10, <2>13, <3>4, <4>1, <4>4, <4>6, <5>1, Stays
      <4> QED
        BY <4>5, <4>6
    <3> QED
      BY <2>1, <3>1, <3>2, <3>3, <3>4 DEF Deals
  <2> QED
    BY <2>9, <2>10, <2>11, <2>14 DEF Accounted
<1>5. Typed'
  BY <1>1, <1>3 DEF EntriesInv, Typed
<1> QED
  BY <1>4, <1>5 DEF EntriesInv

LEMMA EntriesInit == Init => EntriesInv
<1> SUFFICES ASSUME Init PROVE EntriesInv
  OBVIOUS
<1>1. Typed
  BY DataQueueAssumption DEF Init, Typed, Values
<1>2. ASSUME NEW e \in Entries PROVE Accounted(e)
  <2>1. \A q \in Queues : ~queue[q].exists \/ queue[q].entries = << >>
    BY DEF Init, Absent, Created
  <2>2. PlacesIn(<< >>, e) = {}
    BY DEF PlacesIn
  <2>3. Holding(e) = {} /\ Unique(e)
    BY <2>1, <2>2 DEF Holding, Unique, Has, Once
  <2>4. Asking(e) = {} /\ Refused(e) = {} /\ Answered(e) = {} /\ taken[e] = 0
    BY DEF Init, Asking, Refused, Answered, Range
  <2>5. At(e, "nowhere", "nobody") /\ e \notin written
    BY <2>3, <2>4 DEF At, Init
  <2>6. Somewhere(e)
    BY <2>5 DEF Somewhere, Places, Owners
  <2> QED
    BY <2>3, <2>4, <2>6 DEF Accounted, Left
<1> QED
  BY <1>1, <1>2 DEF EntriesInv

LEMMA EntriesNext == Inv /\ Inv' /\ EntriesInv /\ [Next]_vars => EntriesInv'
<1> SUFFICES ASSUME Inv, Inv', EntriesInv, [Next]_vars PROVE EntriesInv'
  OBVIOUS
<1>1. CASE Next
  <2>1. PICK c \in Clients :
          \/ Dial(c) \/ Handshake(c) \/ HandshakeFails(c)
          \/ \E k \in Calls : Begin(c, k)
          \/ Receive(c) \/ CallFails(c) \/ Close(c)
          \/ ServeHandshake(c) \/ Serve(c) \/ EndJob(c)
    BY <1>1 DEF Next
  <2> QED
    BY <2>1, QuietSteps, BeginEntries, ReceiveEntries, CallFailsEntries, ServeEntries, EndJobEntries
<1>2. CASE UNCHANGED vars
  <2>1. Typed'
    BY <1>2 DEF vars, client, history, EntriesInv, Typed
  <2>2. ASSUME NEW e \in Entries PROVE Accounted(e)'
    <3>1. UNCHANGED <<Asking(e), Refused(e), Holding(e), Answered(e)>>
      BY <1>2 DEF vars, client, history, Asking, Refused, Holding, Answered
    <3>2. Unique(e)' <=> Unique(e)
      BY <1>2 DEF vars, Unique
    <3>3. UNCHANGED <<open, written, taken, given>> /\ Accounted(e)
      BY <1>2 DEF vars, client, history, EntriesInv
    <3>4. Somewhere(e)'
      BY <3>1, <3>3, Stays DEF Accounted
    <3> QED
      BY <3>1, <3>2, <3>3, <3>4 DEF Accounted, Left
  <2> QED
    BY <2>1, <2>2 DEF EntriesInv
<1> QED
  BY <1>1, <1>2

-----------------------------------------------------------------------------
(***************************************************************************)
(* The theorems.                                                           *)
(***************************************************************************)
\* Where each client is, what its socket carries and how far its job has come
\* agree, whatever requests, failures and closings are interleaved.
THEOREM InvCorrect == Spec => []Inv
<1>1. ASSUME Inv, Next PROVE Inv'
  <2>1. PICK c \in Clients :
          \/ Dial(c) \/ Handshake(c) \/ HandshakeFails(c)
          \/ \E k \in Calls : Begin(c, k)
          \/ Receive(c) \/ CallFails(c) \/ Close(c)
          \/ ServeHandshake(c) \/ Serve(c) \/ EndJob(c)
    BY <1>1 DEF Next
  <2>2. HandshakeFails(c) => Inv'
    BY <1>1, GiveUpKeeps DEF HandshakeFails
  <2> QED
    BY <1>1, <2>1, <2>2, DialKeeps, HandshakeKeeps, BeginKeeps, ReceiveKeeps, CallFailsKeeps, CloseKeeps,
       ServeHandshakeKeeps, ServeKeeps, EndJobKeeps
<1>2. ASSUME Inv, UNCHANGED vars PROVE Inv'
  <2>1. Shape' /\ QueuesFormed'
    BY <1>2 DEF vars, client, Inv, Shape, QueuesFormed
  <2>2. \A c \in Clients : Same(c)
    BY <1>2 DEF vars, client, Same
  <2> QED
    BY <1>2, <2>1, <2>2, SameKeeps DEF Inv
<1> QED
  BY <1>1, <1>2, InvInit, PTL DEF Spec

\* Connect is all or nothing (as400.Logon, dtaq.Connect): a Client it returns has
\* a job that accepted every step of the handshake, whatever the server refuses
\* and whenever replies stay out, and a Connect that fails leaves no socket open.
THEOREM ConnectWhole == Spec => []ConnectsWhole
<1>1. Inv => ConnectsWhole
  BY InvImplies
<1> QED
  BY <1>1, InvCorrect, PTL

\* What a Queue's methods return (queue.go, client.go) is what the server did for
\* that very call, however clients share queues, fail and close.
THEOREM ResultsCorrect == Spec => []ResultsTrue
<1>1. Inv => ResultsTrue
  BY InvImplies
<1> QED
  BY <1>1, InvCorrect, PTL

\* Each entry written is in one place, whatever requests, failures, closings and
\* ends of jobs are interleaved; with it the model's types hold.
THEOREM EntriesInvCorrect == Spec => []EntriesInv
<1>1. Init => EntriesInv
  BY EntriesInit
<1>2. Inv /\ Inv' /\ EntriesInv /\ [Next]_vars => EntriesInv'
  BY EntriesNext
<1> QED
  BY <1>1, <1>2, InvCorrect, PTL DEF Spec

\* Every call, reply, queue and count of the clients has its type.
THEOREM TypesCorrect == Spec => []TypeOK
<1>1. EntriesInv /\ Inv => TypeOK
  BY Owning
<1> QED
  BY <1>1, EntriesInvCorrect, InvCorrect, PTL

\* No entry is lost or received twice (queue.go's Write, Read, Peek, Clear and
\* Delete): of an entry written there is one at most, and one exactly until a
\* refusal, a Clear, a Delete or a call that failed gives it up, for any number
\* of clients and queues, whatever they read, peek, clear and time out.
THEOREM EntriesCorrect == Spec => []EntriesAccounted
<1>1. EntriesInv /\ Inv => EntriesAccounted
  BY Owning
<1> QED
  BY <1>1, EntriesInvCorrect, InvCorrect, PTL
=============================================================================
