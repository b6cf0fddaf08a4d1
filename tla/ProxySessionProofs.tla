------------------------ MODULE ProxySessionProofs ------------------------
(***************************************************************************)
(* A proxy session keeps its buffers intact and its pumps running, for     *)
(* rings and chunks of any size.                                           *)
(***************************************************************************)
EXTENDS ProxySession, FiniteSetTheorems, SequenceTheorems, TLAPS

USE ZenonT(3), SMTT(30)

-----------------------------------------------------------------------------
(* The ring.  The bytes that are not yet written are the last ones that    *)
(* were inserted, and the writes under way divide them by age.             *)

Places == 0..BuffSize - 1

(* How many places the one at k is behind the last one that was filled,    *)
(* when f is the next to be filled.                                        *)
Age(f, k) == IF k < f THEN f - 1 - k ELSE f - 1 - k + BuffSize

(* The places of the ages from lo to hi - 1.                               *)
Aged(f, lo, hi) == {k \in Places : lo <= Age(f, k) /\ Age(f, k) < hi}

(* The writes w take the places of the ages below cut[1], each those from  *)
(* its own cut to the one before.                                          *)
Cuts(f, w, cut) ==
    /\ cut \in [1..Len(w) + 1 -> 0..BuffSize]
    /\ cut[Len(w) + 1] = 0
    /\ \A i, j \in 1..Len(w) + 1 : i <= j => cut[j] <= cut[i]
    /\ \A i \in 1..Len(w) : w[i] = Aged(f, cut[i + 1], cut[i])
    /\ \A k \in Places : Age(f, k) < cut[1] => \E i \in 1..Len(w) : k \in w[i]

(* The writes w hold b places of the ring that is filled next at f.        *)
Held(f, w, b) ==
    /\ f \in Places
    /\ w \in Seq(SUBSET Places)
    /\ \E cut : Cuts(f, w, cut) /\ cut[1] = b

(* Where the ring is filled next wraps at its end.                         *)
LEMMA WrapLemma ==
  ASSUME NEW a \in 0..BuffSize
  PROVE  /\ a < BuffSize => a % BuffSize = a
         /\ a = BuffSize => a % BuffSize = 0
<1>0. BuffSize \in Nat \ {0}
  BY ProxySessionAssumption
<1>1. CASE a < BuffSize
  BY <1>0, <1>1
<1>2. CASE a = BuffSize
  BY <1>0, <1>2
<1> QED  BY <1>0, <1>1, <1>2

(* There are as many places as ages.                                       *)
LEMMA AgedCardinality ==
  ASSUME NEW f \in Places, NEW lo \in 0..BuffSize, NEW hi \in 0..BuffSize, lo <= hi
  PROVE  IsFiniteSet(Aged(f, lo, hi)) /\ Cardinality(Aged(f, lo, hi)) = hi - lo
<1> DEFINE g == [a \in lo..hi - 1 |-> IF a <= f - 1 THEN f - 1 - a ELSE f - 1 - a + BuffSize]
<1>0. BuffSize \in Nat \ {0}
  BY ProxySessionAssumption
<1>1. \A a \in lo..hi - 1 : g[a] \in Places /\ Age(f, g[a]) = a
  BY <1>0 DEF Places, Age
<1>2. g \in [lo..hi - 1 -> Aged(f, lo, hi)]
  BY <1>0, <1>1 DEF Aged, Places
<1>3. \A k \in Aged(f, lo, hi) : Age(f, k) \in lo..hi - 1 /\ g[Age(f, k)] = k
  BY <1>0 DEF Aged, Places, Age
<1>4. g \in Bijection(lo..hi - 1, Aged(f, lo, hi))
  <2> HIDE DEF g
  <2>1. \A a, b \in lo..hi - 1 : g[a] = g[b] => a = b
    BY <1>1
  <2>2. \A k \in Aged(f, lo, hi) : \E a \in lo..hi - 1 : g[a] = k
    BY <1>3
  <2>3. g \in Injection(lo..hi - 1, Aged(f, lo, hi))
    BY <1>2, <2>1 DEF Injection, IsInjective
  <2>4. g \in Surjection(lo..hi - 1, Aged(f, lo, hi))
    BY <1>2, <2>2 DEF Surjection
  <2> QED  BY <2>3, <2>4 DEF Bijection
<1>5. IsFiniteSet(lo..hi - 1) /\ Cardinality(lo..hi - 1) = hi - lo
  <2>1. lo \in Int /\ hi - 1 \in Int
    BY <1>0
  <2>2. /\ IsFiniteSet(lo..hi - 1)
        /\ Cardinality(lo..hi - 1) = IF lo > hi - 1 THEN 0 ELSE hi - 1 - lo + 1
    BY ONLY <2>1, FS_Interval, Zenon
  <2>3. (IF lo > hi - 1 THEN 0 ELSE hi - 1 - lo + 1) = hi - lo
    BY <1>0
  <2> QED  BY <2>2, <2>3
<1>6. ExistsBijection(lo..hi - 1, Aged(f, lo, hi))
  BY <1>4 DEF ExistsBijection
<1> QED  BY ONLY <1>5, <1>6, FS_Bijection, Zenon

(* No place is taken twice, and the taken ones are those that are counted. *)
LEMMA CutsDisjoint ==
  ASSUME NEW f \in Places, NEW w \in Seq(SUBSET Places), NEW cut, Cuts(f, w, cut)
  PROVE  /\ \A i, j \in 1..Len(w) : i # j => w[i] \cap w[j] = {}
         /\ UNION {w[i] : i \in DOMAIN w} = Aged(f, 0, cut[1])
         /\ cut[1] \in 0..BuffSize
<1>0. BuffSize \in Nat \ {0} /\ Len(w) \in Nat /\ DOMAIN w = 1..Len(w)
  BY ProxySessionAssumption
<1>1. \A k \in Places : Age(f, k) \in 0..BuffSize - 1
  BY <1>0 DEF Places, Age
<1>2. \A i \in 1..Len(w) : i + 1 \in 1..Len(w) + 1 /\ i \in 1..Len(w) + 1
  BY <1>0
<1>3. 1 \in 1..Len(w) + 1
  BY <1>0
<1>4. ASSUME NEW i \in 1..Len(w), NEW j \in 1..Len(w), i < j
      PROVE  w[i] \cap w[j] = {}
  <2>1. cut[j] <= cut[i + 1] /\ cut[j] \in Int /\ cut[i + 1] \in Int
    BY <1>0, <1>2, <1>4 DEF Cuts
  <2> QED  BY <1>1, <2>1 DEF Cuts, Aged
<1>5. ASSUME NEW i \in 1..Len(w), NEW k \in w[i]
      PROVE  k \in Aged(f, 0, cut[1])
  <2>1. cut[i] <= cut[1] /\ cut[1] \in Int /\ cut[i] \in Int /\ 0 <= cut[i + 1] /\ cut[i + 1] \in Int
    BY <1>0, <1>2, <1>3 DEF Cuts
  <2> QED  BY <1>1, <2>1 DEF Cuts, Aged
<1>6. ASSUME NEW k \in Aged(f, 0, cut[1])
      PROVE  \E i \in 1..Len(w) : k \in w[i]
  BY DEF Cuts, Aged
<1>7. UNION {w[i] : i \in DOMAIN w} = Aged(f, 0, cut[1])
  BY <1>0, <1>5, <1>6
<1>8. cut[1] \in 0..BuffSize
  BY <1>3 DEF Cuts
<1>9. \A i, j \in 1..Len(w) : i # j => w[i] \cap w[j] = {}
  <2>1. \A i, j \in 1..Len(w) : i # j => i < j \/ j < i
    BY <1>0
  <2> QED  BY <1>4, <2>1
<1> QED  BY <1>7, <1>8, <1>9

(* The first write is done: the rest of the writes take what is left.      *)
LEMMA CutsTail ==
  ASSUME NEW f \in Places, NEW w \in Seq(SUBSET Places), w # <<>>, NEW cut, Cuts(f, w, cut)
  PROVE  \E c : /\ Cuts(f, Tail(w), c)
                /\ c[1] \in Int /\ cut[1] \in Int /\ c[1] <= cut[1]
                /\ Cardinality(Head(w)) = cut[1] - c[1]
                /\ Head(w) = {} => c[1] = cut[1]
                /\ Head(w) # {} => c[1] < cut[1]
<1> DEFINE n == Len(w)
           t == Tail(w)
           c == [i \in 1..n |-> cut[i + 1]]
<1>0. BuffSize \in Nat \ {0} /\ n \in Nat \ {0} /\ DOMAIN w = 1..n
  BY ProxySessionAssumption
<1>1. t \in Seq(SUBSET Places) /\ Len(t) = n - 1 /\ \A i \in 1..n - 1 : t[i] = w[i + 1]
  BY <1>0
<1>2. Head(w) = w[1]
  BY <1>0
<1> HIDE DEF n, t
<1>3. cut \in [1..n + 1 -> 0..BuffSize] /\ cut[n + 1] = 0
  BY DEF Cuts, n
<1>4. c \in [1..Len(t) + 1 -> 0..BuffSize] /\ c[Len(t) + 1] = 0
  BY <1>0, <1>1, <1>3
<1>5. \A i, j \in 1..Len(t) + 1 : i <= j => c[j] <= c[i]
  <2>1. \A i, j \in 1..n + 1 : i <= j => cut[j] <= cut[i]
    BY DEF Cuts, n
  <2> QED  BY <1>0, <1>1, <2>1
<1>6. \A i \in 1..Len(t) : t[i] = Aged(f, c[i + 1], c[i])
  <2>1. \A i \in 1..n : w[i] = Aged(f, cut[i + 1], cut[i])
    BY DEF Cuts, n
  <2> QED  BY <1>0, <1>1, <2>1
<1>7. ASSUME NEW k \in Places, Age(f, k) < c[1]
      PROVE  \E i \in 1..Len(t) : k \in t[i]
  <2>0. Age(f, k) \in Int
    BY <1>0 DEF Age, Places
  <2>1. cut[1] \in Int /\ cut[2] \in Int /\ cut[2] <= cut[1] /\ c[1] = cut[2]
    <3>1. 1 \in 1..n + 1 /\ 2 \in 1..n + 1 /\ 1 \in 1..n
      BY <1>0
    <3> QED  BY <1>0, <1>3, <3>1 DEF Cuts, n
  <2>2. PICK i \in 1..n : k \in w[i]
    BY <1>7, <2>0, <2>1 DEF Cuts, n
  <2>3. i # 1
    <3>1. 1 \in 1..n /\ w[1] = Aged(f, cut[2], cut[1])
      BY <1>0 DEF Cuts, n
    <3> QED  BY <1>7, <2>0, <2>1, <2>2, <3>1 DEF Aged
  <2>4. i - 1 \in 1..n - 1 /\ (i - 1) + 1 = i
    BY <1>0, <2>2, <2>3
  <2> QED  BY <1>1, <2>2, <2>4
<1>8. c[1] = cut[2] /\ cut[2] \in 0..BuffSize /\ cut[1] \in 0..BuffSize /\ cut[2] <= cut[1]
  <2>1. 1 \in 1..n + 1 /\ 2 \in 1..n + 1 /\ 1 \in 1..n
    BY <1>0
  <2> QED  BY <1>0, <1>3, <2>1 DEF Cuts, n
<1>9. Head(w) = Aged(f, cut[2], cut[1])
  <2>1. 1 \in 1..n
    BY <1>0
  <2> QED  BY <1>2, <2>1 DEF Cuts, n
<1>10. Cardinality(Head(w)) = cut[1] - cut[2]
  BY ZenonT(10), <1>8, <1>9, AgedCardinality
<1>11. Head(w) = {} => cut[1] = cut[2]
  <2>1. Cardinality({}) = 0
    BY FS_EmptySet
  <2>2. ASSUME Head(w) = {} PROVE cut[1] - cut[2] = 0
    BY ONLY <1>10, <2>1, <2>2
  <2> QED  BY <1>8, <2>2
<1>12. Head(w) # {} => cut[2] < cut[1]
  <2>1. ASSUME Head(w) # {} PROVE cut[2] < cut[1]
    <3>1. PICK k \in Places : cut[2] <= Age(f, k) /\ Age(f, k) < cut[1]
      BY <1>9, <2>1 DEF Aged
    <3>2. Age(f, k) \in Int
      BY <1>0 DEF Age, Places
    <3> QED  BY <1>8, <3>1, <3>2
  <2> QED  BY <2>1
<1>13. Cuts(f, t, c)
  BY <1>4, <1>5, <1>6, <1>7 DEF Cuts
<1> HIDE DEF c
<1>14. c[1] \in Int /\ cut[1] \in Int /\ c[1] <= cut[1]
  BY <1>0, <1>8
<1> QED  BY <1>8, <1>10, <1>11, <1>12, <1>13, <1>14 DEF t

(* n bytes are put into the ring, up to its end at most: the bytes before  *)
(* them are n places further behind.                                       *)
LEMMA HeldAppend ==
  ASSUME NEW f, NEW w, NEW b, Held(f, w, b),
         NEW n \in 1..BuffSize, NEW e \in 0..BuffSize, e = b + n,
         NEW g, (f + n < BuffSize /\ g = f + n) \/ (f + n = BuffSize /\ g = 0),
         NEW range, range = f..f + n - 1
  PROVE  Held(g, Append(w, range), e)
<1> DEFINE l == Len(w)
           v == Append(w, range)
<1>1. PICK cut : Cuts(f, w, cut) /\ cut[1] = b
  BY DEF Held
<1> DEFINE c == [i \in 1..l + 2 |-> IF i <= l + 1 THEN cut[i] + n ELSE 0]
<1>0. BuffSize \in Nat \ {0} /\ l \in Nat /\ f \in 0..BuffSize - 1 /\ w \in Seq(SUBSET Places)
  BY ProxySessionAssumption DEF Places, Held
<1>2. g \in Places /\ range \in SUBSET Places
  BY <1>0 DEF Places
<1>3. v \in Seq(SUBSET Places) /\ Len(v) = l + 1 /\ v[l + 1] = range
      /\ \A i \in 1..l : v[i] = w[i]
  BY <1>0, <1>2
<1> HIDE DEF l, v
<1>4. cut \in [1..l + 1 -> 0..BuffSize] /\ cut[l + 1] = 0
      /\ \A i, j \in 1..l + 1 : i <= j => cut[j] <= cut[i]
  BY <1>1 DEF Cuts, l
<1>5. \A i \in 1..l + 1 : cut[i] + n <= BuffSize /\ cut[i] \in Nat
  <2>1. \A i \in 1..l + 1 : cut[i] <= cut[1] /\ cut[i] \in Nat /\ cut[1] \in Nat
    BY <1>0, <1>4
  <2> QED  BY <1>0, <1>1, <2>1
<1>6. c \in [1..Len(v) + 1 -> 0..BuffSize] /\ c[Len(v) + 1] = 0 /\ c[1] = cut[1] + n
  BY <1>0, <1>3, <1>5
<1>7. \A i, j \in 1..Len(v) + 1 : i <= j => c[j] <= c[i]
  BY <1>0, <1>3, <1>4, <1>5
<1>8. \A k \in Places : Age(f, k) < BuffSize - n => Age(g, k) = Age(f, k) + n
  BY <1>0 DEF Places, Age
<1>9. \A k \in Places : Age(f, k) >= BuffSize - n <=> k \in range
  BY <1>0 DEF Places, Age
<1>10. \A k \in Places : k \in range <=> Age(g, k) < n
  BY <1>0 DEF Places, Age
<1>11. \A k \in Places : Age(f, k) \in 0..BuffSize - 1 /\ Age(g, k) \in 0..BuffSize - 1
  BY <1>0 DEF Places, Age
<1>12. ASSUME NEW i \in 1..l
       PROVE  v[i] = Aged(g, c[i + 1], c[i])
  <2>1. i \in 1..l + 1 /\ i + 1 \in 1..l + 1
    BY <1>0
  <2>2. c[i] = cut[i] + n /\ c[i + 1] = cut[i + 1] + n /\ cut[i] + n <= BuffSize
        /\ cut[i] \in Int /\ cut[i + 1] \in Int /\ cut[i + 1] >= 0
    BY <1>0, <1>5, <2>1
  <2>3. v[i] = Aged(f, cut[i + 1], cut[i])
    BY <1>1, <1>3 DEF Cuts, l
  <2>4. ASSUME NEW k \in Places
        PROVE  k \in Aged(f, cut[i + 1], cut[i]) <=> k \in Aged(g, c[i + 1], c[i])
    <3>1. CASE Age(f, k) < BuffSize - n
      <4>1. PICK old, new : old = Age(f, k) /\ new = Age(g, k)
        OBVIOUS
      <4>2. new = old + n /\ old \in Int
        BY <1>8, <1>11, <3>1, <4>1
      <4> HIDE DEF c
      <4>3. (cut[i + 1] <= old /\ old < cut[i]) <=> (c[i + 1] <= new /\ new < c[i])
        BY <1>0, <2>2, <4>2
      <4> QED  BY <4>1, <4>3 DEF Aged
    <3>2. CASE ~(Age(f, k) < BuffSize - n)
      <4>1. Age(g, k) < n /\ Age(f, k) >= BuffSize - n
        BY <1>0, <1>9, <1>10, <1>11, <3>2
      <4> HIDE DEF c
      <4>2. c[i + 1] >= n /\ cut[i] <= BuffSize - n /\ c[i + 1] \in Int
        BY <1>0, <2>2
      <4>3. ~(c[i + 1] <= Age(g, k)) /\ ~(Age(f, k) < cut[i])
        <5>1. PICK old \in Int, new \in Int : old = Age(f, k) /\ new = Age(g, k)
          BY <1>11
        <5>2. BuffSize \in Int /\ n \in Int /\ cut[i] \in Int
          BY <1>0, <2>2
        <5> QED  BY ONLY <4>1, <4>2, <5>1, <5>2, SMT
      <4> QED  BY <4>3 DEF Aged
    <3> QED  BY <3>1, <3>2
  <2> QED  BY <2>3, <2>4 DEF Aged
<1>13. v[l + 1] = Aged(g, c[l + 2], c[l + 1])
  <2>1. c[l + 2] = 0 /\ c[l + 1] = n
    BY <1>0, <1>4
  <2>2. \A k \in Places : k \in v[l + 1] <=> k \in Aged(g, 0, n)
    BY <1>3, <1>10, <1>11 DEF Aged
  <2> HIDE DEF c
  <2>3. v[l + 1] = Aged(g, 0, n)
    BY <1>2, <1>3, <2>2 DEF Aged
  <2> QED  BY <2>1, <2>3
<1>14. \A i \in 1..Len(v) : v[i] = Aged(g, c[i + 1], c[i])
  <2>1. \A i \in 1..Len(v) : i \in 1..l \/ (i = l + 1 /\ i + 1 = l + 2)
    BY <1>0, <1>3
  <2> HIDE DEF c
  <2> QED  BY <1>12, <1>13, <2>1
<1>15. ASSUME NEW k \in Places, Age(g, k) < c[1]
       PROVE  \E i \in 1..Len(v) : k \in v[i]
  <2>1. CASE k \in range
    <3>1. l + 1 \in 1..Len(v)
      BY <1>0, <1>3
    <3> QED  BY <1>3, <2>1, <3>1
  <2>2. CASE k \notin range
    <3>1. Age(f, k) < cut[1]
      <4>1. Age(g, k) = Age(f, k) + n
        BY <1>0, <1>8, <1>9, <1>11, <2>2
      <4>2. c[1] = cut[1] + n /\ cut[1] \in Int
        BY <1>0, <1>5, <1>6
      <4> HIDE DEF c
      <4> QED  BY <1>11, <1>15, <4>1, <4>2
    <3>2. PICK i \in 1..l : k \in w[i]
      BY <1>1, <3>1 DEF Cuts, l
    <3>3. i \in 1..Len(v)
      BY <1>0, <1>3
    <3> QED  BY <1>3, <3>2, <3>3
  <2> QED  BY <2>1, <2>2
<1>16. Cuts(g, v, c)
  BY <1>6, <1>7, <1>14, <1>15 DEF Cuts
<1> HIDE DEF c
<1>17. c[1] = e /\ v \in Seq(SUBSET Places) /\ g \in Places
  BY <1>1, <1>2, <1>3, <1>6
<1> QED  BY <1>16, <1>17 DEF v, Held

(* Past its end the ring goes on at its beginning.                         *)
LEMMA WrapAround ==
  ASSUME NEW n \in Places
  PROVE  (BuffSize + n) % BuffSize = n
<1>0. BuffSize \in Nat \ {0}
  BY ProxySessionAssumption
<1> QED  BY <1>0 DEF Places

(* sendLocal and sendRemote divide the places that are taken, whether the  *)
(* ring wraps or not.                                                      *)
LEMMA HeldSend ==
  ASSUME NEW x \in Sides, NEW w, NEW b, Held(first[x], w, b),
         NEW num \in 1..BuffSize, NEW e \in 0..BuffSize, e = b + num
  PROVE  Held((first[x] + num) % BuffSize, w \o arrays(x, num), e)
<1>1. PICK f : f = first[x]
  OBVIOUS
<1>2. BuffSize \in Nat \ {0} /\ f \in 0..BuffSize - 1 /\ w \in Seq(SUBSET Places) /\ Held(f, w, b)
  BY <1>1, ProxySessionAssumption DEF Places, Held
<1>3. b \in 0..BuffSize
  BY <1>1, CutsDisjoint DEF Held
<1>4. PICK g : g = (f + num) % BuffSize
  OBVIOUS
<1>5. PICK m \in 1..BuffSize : m = BuffSize - f
  BY <1>2
<1>6. CASE num <= m
  <2>1. f + num \in 0..BuffSize /\ (f + num < BuffSize \/ f + num = BuffSize)
    BY <1>2, <1>5, <1>6
  <2>2. (f + num < BuffSize /\ g = f + num) \/ (f + num = BuffSize /\ g = 0)
    BY Zenon, <1>4, <2>1, WrapLemma
  <2>3. PICK range : range = f..f + num - 1
    OBVIOUS
  <2>4. arrays(x, num) = <<range>>
    BY <1>1, <1>5, <1>6, <2>3 DEF arrays
  <2>5. w \o arrays(x, num) = Append(w, range)
    BY <1>2, <2>4
  <2>6. Held(g, Append(w, range), e)
    BY Zenon, <1>2, <2>2, <2>3, HeldAppend
  <2> QED  BY Zenon, <1>1, <1>4, <2>5, <2>6
<1>7. CASE ~(num <= m)
  <2>1. PICK n \in 1..BuffSize : n = num - m
    BY <1>2, <1>5, <1>7
  <2>2. PICK d \in 0..BuffSize : d = b + m
    BY <1>2, <1>3, <1>5, <1>7
  <2>3. n \in Places /\ f + m = BuffSize /\ f + num = BuffSize + n /\ e = d + n /\ 0 + n < BuffSize
        /\ n = 0 + n
    BY <1>2, <1>3, <1>5, <2>1, <2>2 DEF Places
  <2>4. PICK one, two : one = f..BuffSize - 1 /\ two = 0..n - 1
    OBVIOUS
  <2>5. one = f..f + m - 1 /\ two = 0..0 + n - 1
    BY <1>2, <2>3, <2>4
  <2>6. arrays(x, num) = <<one, two>>
    BY <1>1, <1>5, <1>7, <2>1, <2>4 DEF arrays
  <2>7. Held(0, Append(w, one), d)
    BY Zenon, <1>2, <2>2, <2>3, <2>5, HeldAppend
  <2>8. Held(n, Append(Append(w, one), two), e)
    BY Zenon, <2>3, <2>5, <2>7, HeldAppend
  <2>9. w \o arrays(x, num) = Append(Append(w, one), two)
    BY <1>2, <2>6
  <2>10. g = n
    BY Zenon, <1>4, <2>3, WrapAround
  <2> QED  BY Zenon, <1>1, <1>4, <2>8, <2>9, <2>10
<1> QED  BY <1>6, <1>7

(* A write that is done gives back as many places as it took.              *)
LEMMA HeldTail ==
  ASSUME NEW f, NEW w, NEW b, Held(f, w, b), w # <<>>
  PROVE  \E d \in 0..BuffSize : /\ Held(f, Tail(w), d)
                                /\ b \in 0..BuffSize
                                /\ d <= b
                                /\ Cardinality(Head(w)) = b - d
                                /\ Head(w) = {} => d = b
                                /\ Head(w) # {} => d < b
<1>1. f \in Places /\ w \in Seq(SUBSET Places)
  BY DEF Held
<1>2. PICK cut : Cuts(f, w, cut) /\ cut[1] = b
  BY DEF Held
<1>3. PICK c : /\ Cuts(f, Tail(w), c)
               /\ c[1] \in Int /\ cut[1] \in Int /\ c[1] <= cut[1]
               /\ Cardinality(Head(w)) = cut[1] - c[1]
               /\ Head(w) = {} => c[1] = cut[1]
               /\ Head(w) # {} => c[1] < cut[1]
  BY <1>1, <1>2, CutsTail
<1>4. Tail(w) \in Seq(SUBSET Places)
  BY <1>1
<1>5. Held(f, Tail(w), c[1])
  BY <1>1, <1>3, <1>4 DEF Held
<1>6. c[1] \in 0..BuffSize /\ b \in 0..BuffSize
  BY <1>1, <1>2, <1>3, <1>4, CutsDisjoint
<1> QED  BY <1>2, <1>3, <1>5, <1>6

(* The places the writes hold are distinct, and there are b of them.       *)
LEMMA HeldDisjoint ==
  ASSUME NEW f, NEW w, NEW b, Held(f, w, b)
  PROVE  /\ \A i, j \in 1..Len(w) : i # j => w[i] \cap w[j] = {}
         /\ Cardinality(UNION {w[i] : i \in DOMAIN w}) = b
         /\ b \in 0..BuffSize
<1>1. f \in Places /\ w \in Seq(SUBSET Places)
  BY DEF Held
<1>2. PICK cut : Cuts(f, w, cut) /\ cut[1] = b
  BY DEF Held
<1>3. /\ \A i, j \in 1..Len(w) : i # j => w[i] \cap w[j] = {}
      /\ UNION {w[i] : i \in DOMAIN w} = Aged(f, 0, b)
      /\ b \in 0..BuffSize
  BY <1>1, <1>2, CutsDisjoint
<1>4. 0 \in 0..BuffSize /\ 0 <= b /\ b - 0 = b
  BY <1>3, ProxySessionAssumption
<1>5. Cardinality(Aged(f, 0, b)) = b
  BY <1>1, <1>3, <1>4, AgedCardinality
<1> QED  BY Zenon, <1>3, <1>5

(* An empty ring holds nothing, nor does the handshake.                    *)
LEMMA HeldNothing ==
  ASSUME NEW w \in {<<>>, <<Handshake>>}
  PROVE  Held(0, w, 0)
<1>1. BuffSize \in Nat \ {0} /\ 0 \in Places
  BY ProxySessionAssumption DEF Places
<1>2. \A k \in Places : ~(Age(0, k) < 0)
  BY <1>1 DEF Places, Age
<1>3. CASE w = <<>>
  <2> DEFINE c == [i \in 1..1 |-> 0]
  <2>1. Cuts(0, w, c)
    BY <1>1, <1>2, <1>3 DEF Cuts
  <2>2. w \in Seq(SUBSET Places)
    BY <1>3
  <2> QED  BY <1>1, <2>1, <2>2 DEF Held
<1>4. CASE w = <<Handshake>>
  <2> DEFINE c == [i \in 1..2 |-> 0]
  <2>1. PICK z \in SUBSET Places : z = {} /\ w = <<z>>
    BY <1>4 DEF Handshake
  <2>2. Len(w) = 1 /\ w[1] = {} /\ w \in Seq(SUBSET Places)
    BY <2>1
  <2>3. Aged(0, 0, 0) = {}
    BY <1>2 DEF Aged
  <2>4. c \in [1..Len(w) + 1 -> 0..BuffSize] /\ c[Len(w) + 1] = 0 /\ c[1] = 0 /\ c[2] = 0
    BY <1>1, <2>2
  <2> HIDE DEF c
  <2>5. 1..Len(w) + 1 = {1, 2} /\ 1..Len(w) = {1} /\ 1 + 1 = 2
    BY <2>2
  <2>6. \A i, j \in 1..Len(w) + 1 : i <= j => c[j] <= c[i]
    BY <2>4, <2>5
  <2>7. \A i \in 1..Len(w) : w[i] = Aged(0, c[i + 1], c[i])
    BY <2>2, <2>3, <2>4, <2>5
  <2>8. \A k \in Places : Age(0, k) < c[1] => \E i \in 1..Len(w) : k \in w[i]
    BY <1>2, <2>4
  <2>9. Cuts(0, w, c)
    BY <2>4, <2>6, <2>7, <2>8 DEF Cuts
  <2> QED  BY <1>1, <2>2, <2>4, <2>9 DEF Held
<1> QED  BY <1>3, <1>4

-----------------------------------------------------------------------------
(* The inductive invariant.                                                *)

Types ==
    /\ started \in {"no", "yes", "failing", "failed"}
    /\ callback_ \in BOOLEAN /\ connected_ \in BOOLEAN
    /\ done_ \in BOOLEAN /\ localShutdown_ \in BOOLEAN
    /\ connector \in [Sides -> {"none", "connecting", "closed"}]
    /\ conn \subseteq Sides
    /\ sndBuffBytes_ \in [Sides -> 0..BuffSize]
    /\ first \in [Sides -> Places]
    /\ reads \in [Sides -> Seq(1..ChunkSize)]
    /\ writes \in [Sides -> Seq(SUBSET Places)]
    /\ calls = IF done_ THEN 1 ELSE 0

(* The pumps begin with the second connection, once.                       *)
Stages ==
    /\ connected_ <=> conn = Sides
    /\ \A x \in conn : connector[x] # "connecting"
    /\ started = "no" => conn = {} /\ ~done_ /\ connector = [x \in Sides |-> "none"]
    /\ ~connected_ => /\ ~localShutdown_
                      /\ reads = [x \in Sides |-> <<>>] /\ writes = [x \in Sides |-> <<>>]
                      /\ sndBuffBytes_ = [x \in Sides |-> 0] /\ first = [x \in Sides |-> 0]

(* With one reactor nothing is answered before start() has returned.       *)
Called ==
    OneReactor => /\ callback_ <=> started = "yes"
                  /\ started # "yes" => conn = {} /\ ~done_

(* The bytes that are counted are those of the writes that are under way.  *)
Ring ==
    \A x \in Sides : \E b \in 0..BuffSize :
        /\ Held(first[x], writes[x], b)
        /\ ~done_ => b = sndBuffBytes_[x]

IInv == Types /\ Stages /\ Called /\ Ring /\ OneRead /\ PumpsRun

(* recvLocal and recvRemote ask for what there is room for, and for        *)
(* nothing only if the other side's ring is full.                          *)
LEMMA RecvSize ==
  ASSUME NEW bytes \in 0..BuffSize
  PROVE  \/ bytes = BuffSize /\ recv(bytes) = <<>>
         \/ /\ bytes < BuffSize /\ recv(bytes) = <<toRecv(bytes)>>
            /\ toRecv(bytes) \in 1..ChunkSize /\ toRecv(bytes) <= BuffSize - bytes
<1>0. BuffSize \in Nat \ {0} /\ ChunkSize \in Nat \ {0}
  BY ProxySessionAssumption
<1>1. bytes = BuffSize => toRecv(bytes) <= 0
  BY <1>0 DEF toRecv
<1>2. bytes < BuffSize => /\ toRecv(bytes) \in 1..ChunkSize /\ toRecv(bytes) <= BuffSize - bytes
                          /\ ~(toRecv(bytes) <= 0)
  BY <1>0 DEF toRecv
<1>3. bytes = BuffSize \/ bytes < BuffSize
  BY <1>0
<1> QED  BY <1>1, <1>2, <1>3 DEF recv

(* So one read at most is asked for, and its data find room.               *)
LEMMA RecvAsks ==
  ASSUME NEW bytes \in 0..BuffSize
  PROVE  /\ recv(bytes) \in Seq(1..ChunkSize) /\ Len(recv(bytes)) <= 1
         /\ recv(bytes) = <<>> => bytes = BuffSize
         /\ recv(bytes) # <<>> => bytes < BuffSize /\ Head(recv(bytes)) <= BuffSize - bytes
<1>1. CASE bytes = BuffSize /\ recv(bytes) = <<>>
  <2>1. <<>> \in Seq(1..ChunkSize) /\ Len(<<>>) <= 1
    OBVIOUS
  <2> QED  BY Zenon, <1>1, <2>1
<1>2. ASSUME NEW n \in 1..ChunkSize, n <= BuffSize - bytes, bytes < BuffSize, recv(bytes) = <<n>>
      PROVE  /\ recv(bytes) \in Seq(1..ChunkSize) /\ Len(recv(bytes)) <= 1 /\ recv(bytes) # <<>>
             /\ bytes < BuffSize /\ Head(recv(bytes)) <= BuffSize - bytes
  <2>1. \A S : \A v \in S : <<v>> \in Seq(S) /\ Len(<<v>>) = 1 /\ Head(<<v>>) = v /\ <<v>> # <<>>
    OBVIOUS
  <2>2. 1 <= 1
    OBVIOUS
  <2> QED  BY Zenon, <1>2, <2>1, <2>2
<1> QED  BY Zenon, <1>1, <1>2, RecvSize

(* Nothing is left of one read when it has been answered.                  *)
LEMMA SingleTail ==
  ASSUME NEW S, NEW r \in Seq(S), Len(r) <= 1, r # <<>>
  PROVE  Tail(r) = <<>> /\ Head(r) \in S
<1>1. Head(r) \in S /\ Tail(r) \in Seq(S) /\ Len(Tail(r)) = Len(r) - 1 /\ Len(r) \in Nat
  BY Zenon, HeadTailProperties, LenProperties
<1>2. ~(Len(Tail(r)) \in Nat \ {0})
  BY <1>1
<1> QED  BY Zenon, <1>1, <1>2, EmptySeq

(* What the runs check follows.                                            *)
LEMMA InvImplies ==
  ASSUME IInv
  PROVE  /\ OneReactor => CalledBackOnce
         /\ BuffersIntact
         /\ PumpsRun
<1>0. BuffSize \in Nat \ {0} /\ ChunkSize \in Nat \ {0}
  BY ProxySessionAssumption
<1>1. OneReactor => CalledBackOnce
  BY DEF IInv, Types, Called, CalledBackOnce
<1>2. TypeOK
  <2>1. calls \in Nat
    BY DEF IInv, Types
  <2>2. \A x \in Sides : /\ \A i \in 1..Len(reads[x]) : reads[x][i] \in 1..ChunkSize
                         /\ \A i \in 1..Len(writes[x]) : writes[x][i] \subseteq 0..BuffSize - 1
    <3> SUFFICES ASSUME NEW x \in Sides
                 PROVE  /\ \A i \in 1..Len(reads[x]) : reads[x][i] \in 1..ChunkSize
                        /\ \A i \in 1..Len(writes[x]) : writes[x][i] \in SUBSET Places
      BY DEF Places
    <3>1. reads[x] \in Seq(1..ChunkSize) /\ writes[x] \in Seq(SUBSET Places)
      BY DEF IInv, Types
    <3>2. \A S : \A q \in Seq(S) : \A i \in 1..Len(q) : q[i] \in S
      OBVIOUS
    <3> QED  BY Zenon, <3>1, <3>2
  <2>3. {connected_, done_, localShutdown_} \subseteq BOOLEAN
    BY Zenon DEF IInv, Types
  <2> QED  BY Zenon, <2>1, <2>2, <2>3 DEF IInv, Types, TypeOK, Places
<1>3. ASSUME NEW x \in Sides
      PROVE  /\ \A i, j \in 1..Len(writes[x]) : i # j => writes[x][i] \cap writes[x][j] = {}
             /\ ~done_ => sndBuffBytes_[x] = Cardinality(UNION {writes[x][i] : i \in DOMAIN writes[x]})
  <2>1. PICK b \in 0..BuffSize : Held(first[x], writes[x], b) /\ (~done_ => b = sndBuffBytes_[x])
    BY DEF IInv, Ring
  <2> QED  BY <2>1, HeldDisjoint
<1> QED  BY <1>1, <1>2, <1>3 DEF IInv, BuffersIntact, RingIntact

(* It holds for a session that was just made.                              *)
LEMMA InvInit == Init => IInv
<1> SUFFICES ASSUME Init PROVE IInv
  OBVIOUS
<1>0. BuffSize \in Nat \ {0} /\ ChunkSize \in Nat \ {0} /\ 0 \in Places /\ 0 \in 0..BuffSize
  BY ProxySessionAssumption DEF Places
<1>1. <<>> \in Seq(1..ChunkSize) /\ <<>> \in Seq(SUBSET Places)
  OBVIOUS
<1>2. Types
  BY <1>0, <1>1 DEF Init, Types
<1>3. Stages /\ Called
  BY DEF Init, Stages, Called, Sides
<1>4. Held(0, <<>>, 0)
  BY HeldNothing
<1>5. Ring
  BY <1>0, <1>4 DEF Init, Ring
<1>6. OneRead
  <2>1. Len(<<>>) = 0
    OBVIOUS
  <2> QED  BY <2>1 DEF Init, OneRead
<1> QED  BY <1>2, <1>3, <1>5, <1>6 DEF Init, IInv, PumpsRun

(* start() only changes how far the session is.                            *)
LEMMA StartStep ==
  ASSUME IInv, start \/ startFails
  PROVE  IInv'
<1>1. /\ UNCHANGED <<conn, connected_, done_, localShutdown_, sndBuffBytes_, first, reads, writes, calls>>
      /\ started \in {"no", "failing"} /\ started' \in {"yes", "failing", "failed"}
      /\ callback_' \in BOOLEAN /\ connector' \in [Sides -> {"none", "connecting", "closed"}]
  BY Zenon DEF start, startFails, IInv, Types
<1>2. Types'
  BY Zenon, <1>1 DEF IInv, Types
<1>3. \A x \in conn : connector'[x] # "connecting"
  BY DEF start, startFails, IInv, Stages, Types
<1>4. Stages'
  BY Zenon, <1>1, <1>3 DEF IInv, Stages
<1>5. Called'
  <2>1. started = "no" => callback_' = (started' = "yes")
    BY Zenon DEF start, startFails
  <2>2. started = "failing" => callback_' = callback_ /\ started' = "failed"
    BY Zenon DEF start, startFails
  <2> QED  BY Zenon, <1>1, <2>1, <2>2 DEF IInv, Called, Types
<1>6. Ring' /\ OneRead' /\ PumpsRun'
  BY Zenon, <1>1 DEF IInv, Ring, OneRead, PumpsRun
<1> QED  BY <1>2, <1>4, <1>5, <1>6 DEF IInv

(* callback_ is called once: done_ is looked at before it.                 *)
LEMMA FailStep ==
  ASSUME IInv, ~done_, fail
  PROVE  done_' /\ done_' \in BOOLEAN /\ calls' = IF done_' THEN 1 ELSE 0
<1>1. calls = 0 /\ 0 + 1 = 1
  BY DEF IInv, Types
<1> QED  BY Zenon, <1>1 DEF fail

(* The pumps of a side run between the two connections and the end.        *)
LEMMA PumpStep ==
  ASSUME IInv, NEW x \in Sides, reads[x] # <<>> \/ writes[x] # <<>>,
         UNCHANGED <<started, callback_, connector, conn, connected_>>
  PROVE  connected_ /\ Stages' /\ Called'
<1>1. connected_
  BY DEF IInv, Stages
<1>2. conn = Sides /\ conn # {} /\ started # "no"
  BY Zenon, <1>1 DEF IInv, Stages
<1>3. Stages'
  BY Zenon, <1>1, <1>2 DEF IInv, Stages
<1>4. Called'
  BY Zenon, <1>2 DEF IInv, Called
<1> QED  BY <1>1, <1>3, <1>4

(* A side is connected, or not: the pumps begin with the second one.       *)
LEMMA ConnectStep ==
  ASSUME IInv, NEW x \in Sides, onConnect(x)
  PROVE  IInv'
<1>0. BuffSize \in Nat \ {0} /\ ChunkSize \in Nat \ {0} /\ 0 \in 0..BuffSize
  BY ProxySessionAssumption
<1>1. /\ UNCHANGED <<started, callback_, localShutdown_, sndBuffBytes_, first>>
      /\ connector[x] = "connecting" /\ (started = "yes" \/ ~OneReactor)
      /\ connector' = [connector EXCEPT ![x] = "closed"]
  BY Zenon DEF onConnect
<1>2. x \notin conn /\ ~connected_ /\ started # "no"
  <2>1. x \notin conn /\ ~connected_
    BY Zenon, <1>1 DEF IInv, Stages
  <2>2. started = "no" => connector[x] = "none"
    BY DEF IInv, Stages
  <2> QED  BY <1>1, <2>1, <2>2
<1>3. CASE UNCHANGED <<conn, connected_, reads, writes>> /\ ((done_' = done_ /\ calls' = calls) \/ (~done_ /\ fail))
  <2>1. Types'
    <3>1. done_' \in BOOLEAN /\ calls' = IF done_' THEN 1 ELSE 0
      <4>1. CASE done_' = done_ /\ calls' = calls
        BY Zenon, <4>1 DEF IInv, Types
      <4>2. CASE ~done_ /\ fail
        BY Zenon, <4>2, FailStep
      <4> QED  BY Zenon, <1>3, <4>1, <4>2
    <3> QED  BY Zenon, <1>1, <1>3, <3>1 DEF IInv, Types
  <2>2. Stages' /\ Called'
    BY <1>1, <1>2, <1>3 DEF IInv, Stages, Called, Types
  <2>3. done_ => done_'
    BY Zenon, <1>3 DEF fail
  <2>4. Ring' /\ OneRead'
    BY Zenon, <1>1, <1>3, <2>3 DEF IInv, Ring, OneRead
  <2>5. PumpsRun'
    BY Zenon, <1>2, <1>3 DEF PumpsRun
  <2> QED  BY <2>1, <2>2, <2>4, <2>5 DEF IInv
<1>4. CASE ~done_ /\ connectedSide(x)
  <2>1. conn' = conn \cup {x} /\ connected_' = (conn' = Sides) /\ done_' = done_ /\ calls' = calls
    BY Zenon, <1>4 DEF connectedSide
  <2>2. /\ ~localShutdown_ /\ sndBuffBytes_ = [y \in Sides |-> 0] /\ first = [y \in Sides |-> 0]
        /\ reads = [y \in Sides |-> <<>>] /\ writes = [y \in Sides |-> <<>>]
    BY Zenon, <1>2 DEF IInv, Stages
  <2>3. CASE ~connected_'
    <3>1. reads' = reads /\ writes' = writes
      BY Zenon, <1>4, <2>3 DEF connectedSide
    <3>2. Types'
      BY <1>1, <2>1, <3>1 DEF IInv, Types
    <3>3. Stages'
      <4>1. \A y \in conn' : connector'[y] # "connecting"
        BY <1>1, <2>1 DEF IInv, Stages, Types
      <4>2. conn' # Sides
        BY Zenon, <2>1, <2>3
      <4> QED  BY Zenon, <1>1, <1>2, <2>1, <2>2, <2>3, <3>1, <4>1, <4>2 DEF Stages
    <3>5. Called'
      BY Zenon, <1>1, <2>1 DEF IInv, Called
    <3>4. Ring' /\ OneRead' /\ PumpsRun'
      BY Zenon, <1>1, <2>1, <2>3, <3>1 DEF IInv, Ring, OneRead, PumpsRun
    <3> QED  BY <3>2, <3>3, <3>4, <3>5 DEF IInv
  <2>4. CASE connected_'
    <3>1. /\ reads' = [y \in Sides |-> recv(0)]
          /\ writes' = [writes EXCEPT !["remote"] = Append(@, Handshake)]
      BY Zenon, <1>4, <2>4 DEF connectedSide
    <3>2. recv(0) = <<toRecv(0)>> /\ toRecv(0) \in 1..ChunkSize /\ toRecv(0) <= BuffSize - 0
      BY <1>0, RecvSize
    <3>3. PICK r \in 1..ChunkSize : recv(0) = <<r>> /\ r <= BuffSize
      BY <1>0, <3>2
    <3>4. recv(0) \in Seq(1..ChunkSize) /\ Len(recv(0)) = 1 /\ Head(recv(0)) = r /\ recv(0) # <<>>
      <4>1. \A S : \A v \in S : <<v>> \in Seq(S) /\ Len(<<v>>) = 1 /\ Head(<<v>>) = v /\ <<v>> # <<>>
        OBVIOUS
      <4> QED  BY Zenon, <3>3, <4>1
    <3>5. \A y \in Sides : writes'[y] \in {<<>>, <<Handshake>>}
      <4>1. Append(<<>>, Handshake) = <<Handshake>>
        OBVIOUS
      <4> QED  BY <2>2, <3>1, <4>1 DEF Sides
    <3>6. \A y \in Sides : Held(0, writes'[y], 0)
      BY Zenon, <3>5, HeldNothing
    <3>7. \A y \in Sides : writes'[y] \in Seq(SUBSET Places)
      BY Zenon, <3>6 DEF Held
    <3>8. writes' \in [Sides -> Seq(SUBSET Places)] /\ reads' \in [Sides -> Seq(1..ChunkSize)]
      BY <3>1, <3>4, <3>7, <2>2
    <3>9. Types'
      BY <1>1, <2>1, <3>8 DEF IInv, Types
    <3>10. Stages' /\ Called'
      BY <1>1, <1>2, <2>1, <2>4 DEF IInv, Stages, Called, Types
    <3>11. Ring'
      BY <1>0, <1>1, <2>2, <3>6 DEF Ring
    <3>12. OneRead'
      <4>1. \A y \in Sides : Other(y) \in Sides /\ sndBuffBytes_'[Other(y)] = 0
        BY <1>1, <2>2 DEF Other, Sides
      <4>2. r <= BuffSize - 0 /\ 1 <= 1
        BY <1>0, <3>3
      <4>3. \A y \in Sides : reads'[y] = recv(0)
        BY <3>1
      <4> QED  BY Zenon, <3>4, <4>1, <4>2, <4>3 DEF OneRead
    <3>13. PumpsRun'
      BY <3>1, <3>4 DEF PumpsRun
    <3> QED  BY <3>9, <3>10, <3>11, <3>12, <3>13 DEF IInv
  <2> QED  BY <2>3, <2>4
<1> QED  BY Zenon, <1>3, <1>4 DEF onConnect

(* What was read is put into the other side's ring, where there is room    *)
(* for it, and more is read if there is room for more.                     *)
LEMMA RecvStep ==
  ASSUME IInv, NEW x \in Sides, Recv(x)
  PROVE  IInv'
<1>0. BuffSize \in Nat \ {0} /\ ChunkSize \in Nat \ {0}
  BY ProxySessionAssumption
<1>1. /\ ~done_ /\ reads[x] # <<>>
      /\ UNCHANGED <<started, callback_, connector, conn, connected_>>
  BY Zenon DEF Recv
<1>2. connected_ /\ Stages' /\ Called'
  BY Zenon, <1>1, PumpStep
<1>3. PICK y \in Sides : y = Other(x) /\ x = Other(y) /\ x # y /\ Sides = {x, y}
  BY DEF Sides, Other
<1>4. PICK r : r = reads[x] /\ r \in Seq(1..ChunkSize) /\ Len(r) <= 1 /\ r # <<>>
  BY <1>1 DEF IInv, Types, OneRead
<1>5. Tail(r) = <<>> /\ Head(r) \in 1..ChunkSize
  BY Zenon, <1>4, SingleTail
<1>6. PICK b \in 0..BuffSize : b = sndBuffBytes_[y] /\ Head(r) <= BuffSize - b
  BY <1>1, <1>3, <1>4 DEF IInv, Types, OneRead
<1>7. ASSUME NEW num \in 1..Head(r), onRecv(x, num), UNCHANGED <<done_, calls>>
      PROVE  IInv'
  <2>1. PICK e \in 0..BuffSize : e = b + num /\ num \in 1..BuffSize
    BY <1>0, <1>5, <1>6
  <2>2. /\ sndBuffBytes_' = [sndBuffBytes_ EXCEPT ![y] = e]
        /\ writes' = [writes EXCEPT ![y] = @ \o arrays(y, num)]
        /\ first' = [first EXCEPT ![y] = (@ + num) % BuffSize]
        /\ localShutdown_' = localShutdown_
    BY <1>3, <1>6, <1>7, <2>1 DEF onRecv, send, IInv, Types
  <2>3. sndBuffBytes_'[y] = e /\ sndBuffBytes_'[x] = sndBuffBytes_[x]
    BY <1>3, <2>2 DEF IInv, Types
  <2>4. /\ writes'[y] = writes[y] \o arrays(y, num) /\ writes'[x] = writes[x]
        /\ first'[y] = (first[y] + num) % BuffSize /\ first'[x] = first[x]
    BY Zenon, <1>3, <2>2 DEF IInv, Types
  <2>5. PICK q : q = recv(e)
    OBVIOUS
  <2>6. q \in Seq(1..ChunkSize) /\ Len(q) <= 1
        /\ (q = <<>> => e = BuffSize) /\ (q # <<>> => Head(q) <= BuffSize - e)
    BY Zenon, <2>1, <2>5, RecvAsks
  <2>7. reads' = [reads EXCEPT ![x] = q]
    <3>1. <<>> \o q = q
      BY <2>6
    <3>2. reads' = [reads EXCEPT ![x] = Tail(@) \o recv(sndBuffBytes_'[y])]
      BY Zenon, <1>3, <1>7 DEF onRecv
    <3> QED  BY Zenon, <1>4, <1>5, <2>3, <2>5, <3>1, <3>2
  <2>8. reads'[x] = q /\ reads'[y] = reads[y]
    BY Zenon, <1>3, <2>7 DEF IInv, Types
  <2>9. PICK c \in 0..BuffSize : Held(first[y], writes[y], c) /\ c = b
    BY <1>1, <1>6 DEF IInv, Ring
  <2>10. Held(first'[y], writes'[y], e)
    BY Zenon, <2>1, <2>4, <2>9, HeldSend
  <2>11. Ring'
    BY Zenon, <1>3, <1>7, <2>1, <2>3, <2>4, <2>10 DEF IInv, Ring
  <2>12. Types'
    <3>1. first'[y] \in Places /\ writes'[y] \in Seq(SUBSET Places)
      BY Zenon, <2>10 DEF Held
    <3>2. first' \in [Sides -> Places] /\ writes' \in [Sides -> Seq(SUBSET Places)]
      BY <2>2, <2>4, <3>1 DEF IInv, Types
    <3>3. reads' \in [Sides -> Seq(1..ChunkSize)] /\ sndBuffBytes_' \in [Sides -> 0..BuffSize]
      BY <2>2, <2>6, <2>7 DEF IInv, Types
    <3> QED  BY Zenon, <1>1, <1>7, <2>2, <3>2, <3>3 DEF IInv, Types
  <2>13. OneRead'
    BY Zenon, <1>3, <2>3, <2>6, <2>8 DEF IInv, OneRead
  <2>14. PumpsRun'
    BY Zenon, <1>1, <1>2, <1>3, <2>2, <2>3, <2>6, <2>8 DEF IInv, PumpsRun
  <2> QED  BY Zenon, <1>2, <2>11, <2>12, <2>13, <2>14 DEF IInv
<1>8. CASE x = "local" /\ onLocalEOF /\ UNCHANGED <<done_, calls>>
  <2>1. /\ localShutdown_' = TRUE /\ UNCHANGED <<sndBuffBytes_, writes, first, done_, calls>>
        /\ reads' = [reads EXCEPT ![x] = <<>>]
    BY Zenon, <1>4, <1>5, <1>8 DEF onLocalEOF
  <2>2. reads'[x] = <<>> /\ reads'[y] = reads[y]
    BY Zenon, <1>3, <2>1 DEF IInv, Types
  <2>3. reads' \in [Sides -> Seq(1..ChunkSize)] /\ Len(<<>>) <= 1
    BY <2>1 DEF IInv, Types
  <2>4. Types'
    BY Zenon, <1>1, <2>1, <2>3 DEF IInv, Types
  <2>5. Ring'
    BY Zenon, <2>1 DEF IInv, Ring
  <2>6. OneRead'
    BY Zenon, <1>3, <2>1, <2>2, <2>3 DEF IInv, OneRead
  <2>7. PumpsRun'
    BY Zenon, <1>1, <1>2, <1>3, <1>8, <2>1, <2>2 DEF IInv, PumpsRun
  <2> QED  BY Zenon, <1>2, <2>4, <2>5, <2>6, <2>7 DEF IInv
<1>9. CASE fail /\ UNCHANGED <<localShutdown_, sndBuffBytes_, writes, first, reads>>
  <2>1. Types'
    BY Zenon, <1>1, <1>9, FailStep DEF IInv, Types
  <2>2. Ring' /\ OneRead' /\ PumpsRun'
    BY Zenon, <1>1, <1>9, FailStep DEF IInv, Ring, OneRead, PumpsRun
  <2> QED  BY Zenon, <1>2, <2>1, <2>2 DEF IInv
<1> QED  BY Zenon, <1>4, <1>7, <1>8, <1>9 DEF Recv

(* A write that is done gives its places back, and the other side is read  *)
(* again if there was no room for what it might send.                      *)
LEMMA SentStep ==
  ASSUME IInv, NEW x \in Sides, Sent(x)
  PROVE  IInv'
<1>0. BuffSize \in Nat \ {0}
  BY ProxySessionAssumption
<1>1. /\ ~done_ /\ writes[x] # <<>>
      /\ writes' = [writes EXCEPT ![x] = Tail(@)]
      /\ UNCHANGED <<started, callback_, connector, conn, connected_, localShutdown_, first>>
  BY Zenon DEF Sent
<1>2. connected_ /\ Stages' /\ Called'
  BY Zenon, <1>1, PumpStep
<1>3. PICK y \in Sides : y = Other(x) /\ x = Other(y) /\ x # y /\ Sides = {x, y}
  BY DEF Sides, Other
<1>4. PICK b \in 0..BuffSize : Held(first[x], writes[x], b) /\ b = sndBuffBytes_[x]
  BY Zenon, <1>1 DEF IInv, Ring
<1>5. PICK d \in 0..BuffSize : /\ Held(first[x], Tail(writes[x]), d)
                               /\ d <= b
                               /\ Cardinality(Head(writes[x])) = b - d
                               /\ Head(writes[x]) = {} => d = b
                               /\ Head(writes[x]) # {} => d < b
  BY Zenon, <1>1, <1>4, HeldTail
<1>6. writes'[x] = Tail(writes[x]) /\ writes'[y] = writes[y] /\ first' = first
  BY Zenon, <1>1, <1>3 DEF IInv, Types
<1>7. writes' \in [Sides -> Seq(SUBSET Places)]
  <2>1. Tail(writes[x]) \in Seq(SUBSET Places)
    BY Zenon, <1>5 DEF Held
  <2> QED  BY Zenon, <1>1, <2>1 DEF IInv, Types
<1>8. CASE Head(writes[x]) # Handshake /\ onSend(x, Cardinality(Head(writes[x])))
  <2>1. d < b
    BY Zenon, <1>5, <1>8 DEF Handshake
  <2>2. b - (b - d) = d
    BY <1>0
  <2>3. sndBuffBytes_' = [sndBuffBytes_ EXCEPT ![x] = d]
    BY Zenon, <1>4, <1>5, <1>8, <2>2 DEF onSend, sent
  <2>4. sndBuffBytes_'[x] = d /\ sndBuffBytes_'[y] = sndBuffBytes_[y]
    BY Zenon, <1>3, <2>3 DEF IInv, Types
  <2>5. done_' \in BOOLEAN /\ calls' = IF done_' THEN 1 ELSE 0
    <3>1. fail \/ UNCHANGED <<done_, calls>>
      BY Zenon, <1>8 DEF onSend, sent
    <3>2. CASE UNCHANGED <<done_, calls>>
      BY Zenon, <3>2 DEF IInv, Types
    <3> QED  BY Zenon, <1>1, <3>1, <3>2, FailStep
  <2> DEFINE fire == b >= BuffSize /\ ~(x = "remote" /\ localShutdown_)
  <2>6. /\ reads'[x] = reads[x]
        /\ fire => reads'[y] = reads[y] \o recv(d)
        /\ ~fire => reads'[y] = reads[y]
        /\ reads' = [z \in Sides |-> reads'[z]]
    <3>1. reads' = IF fire THEN [reads EXCEPT ![y] = @ \o recv(d)] ELSE reads
      BY Zenon, <1>3, <1>4, <1>5, <1>8, <2>2 DEF onSend, sent
    <3>2. CASE fire
      <4>1. reads' = [reads EXCEPT ![y] = @ \o recv(d)]
        BY Zenon, <3>1, <3>2
      <4> HIDE DEF fire
      <4> QED  BY Zenon, <1>3, <3>2, <4>1 DEF IInv, Types
    <3>3. CASE ~fire
      <4>1. reads' = reads
        BY Zenon, <3>1, <3>3
      <4> HIDE DEF fire
      <4> QED  BY Zenon, <1>3, <3>3, <4>1 DEF IInv, Types
    <3> QED  BY Zenon, <3>2, <3>3
  <2>7. /\ reads'[y] \in Seq(1..ChunkSize) /\ Len(reads'[y]) <= 1
        /\ reads'[y] # <<>> => Head(reads'[y]) <= BuffSize - d
        /\ reads'[y] # <<>> \/ (y = "local" /\ localShutdown_)
    <3>1. PICK r : r = reads[y] /\ r \in Seq(1..ChunkSize) /\ Len(r) <= 1
                  /\ (r # <<>> => Head(r) <= BuffSize - b)
      BY Zenon, <1>3, <1>4 DEF IInv, Types, OneRead
    <3>2. r # <<>> => Head(r) \in 1..ChunkSize
      BY Zenon, <3>1, SingleTail
    <3>3. CASE fire
      <4>1. r = <<>>
        BY <1>0, <3>1, <3>2, <3>3, ProxySessionAssumption
      <4>2. recv(d) \in Seq(1..ChunkSize) /\ Len(recv(d)) <= 1 /\ (recv(d) = <<>> => d = BuffSize)
            /\ (recv(d) # <<>> => Head(recv(d)) <= BuffSize - d)
        BY Zenon, RecvAsks
      <4>3. d # BuffSize
        BY <1>0, <2>1
      <4>4. \A q \in Seq(1..ChunkSize) : <<>> \o q = q
        OBVIOUS
      <4>5. reads'[y] = recv(d)
        BY Zenon, <2>6, <3>1, <3>3, <4>1, <4>2, <4>4
      <4> QED  BY Zenon, <4>2, <4>3, <4>5
    <3>4. CASE ~fire
      <4>1. reads'[y] = r
        BY Zenon, <2>6, <3>1, <3>4
      <4>2. ASSUME NEW h \in 1..ChunkSize, h <= BuffSize - b  PROVE h <= BuffSize - d
        BY <1>0, <1>5, <4>2, ProxySessionAssumption
      <4>3. r # <<>> => Head(r) <= BuffSize - d
        BY Zenon, <3>1, <3>2, <4>2
      <4>4. b = BuffSize => b >= BuffSize
        BY <1>0
      <4>5. x = "remote" => y = "local"
        BY Zenon, <1>3 DEF Other
      <4>6. r # <<>> \/ (y = "local" /\ localShutdown_) \/ b = BuffSize
        BY Zenon, <1>1, <1>2, <1>3, <1>4, <3>1 DEF IInv, PumpsRun
      <4>7. b = BuffSize => y = "local" /\ localShutdown_
        BY Zenon, <3>4, <4>4, <4>5
      <4> QED  BY Zenon, <3>1, <4>1, <4>3, <4>6, <4>7
    <3> QED  BY Zenon, <3>3, <3>4
  <2>8. Types'
    <3>1. sndBuffBytes_' \in [Sides -> 0..BuffSize]
      BY Zenon, <2>3 DEF IInv, Types
    <3>2. \A z \in Sides : reads'[z] \in Seq(1..ChunkSize)
      BY Zenon, <1>3, <2>6, <2>7 DEF IInv, Types
    <3>3. reads' \in [Sides -> Seq(1..ChunkSize)]
      BY Zenon, <2>6, <3>2
    <3> QED  BY Zenon, <1>1, <1>7, <2>5, <3>1, <3>3 DEF IInv, Types
  <2>9. Ring'
    BY Zenon, <1>1, <1>3, <1>5, <1>6, <2>4 DEF IInv, Ring
  <2>10. OneRead'
    BY Zenon, <1>3, <2>4, <2>6, <2>7 DEF IInv, OneRead
  <2>11. PumpsRun'
    BY Zenon, <1>1, <1>2, <1>3, <2>4, <2>6, <2>7 DEF IInv, PumpsRun
  <2> QED  BY Zenon, <1>2, <2>8, <2>9, <2>10, <2>11 DEF IInv
<1>9. CASE Head(writes[x]) = Handshake /\ UNCHANGED <<done_, calls, sndBuffBytes_, reads>>
  <2>1. d = b
    BY Zenon, <1>5, <1>9 DEF Handshake
  <2>2. Types'
    BY Zenon, <1>1, <1>7, <1>9 DEF IInv, Types
  <2>3. Ring'
    BY Zenon, <1>1, <1>3, <1>4, <1>5, <1>6, <1>9, <2>1 DEF IInv, Ring
  <2>4. OneRead' /\ PumpsRun'
    BY Zenon, <1>1, <1>9 DEF IInv, OneRead, PumpsRun
  <2> QED  BY Zenon, <1>2, <2>2, <2>3, <2>4 DEF IInv
<1>10. CASE fail /\ UNCHANGED <<sndBuffBytes_, reads>>
  <2>1. Types'
    BY Zenon, <1>1, <1>7, <1>10, FailStep DEF IInv, Types
  <2>2. Ring'
    BY Zenon, <1>1, <1>3, <1>5, <1>6, <1>10, FailStep DEF IInv, Ring
  <2>3. OneRead' /\ PumpsRun'
    BY Zenon, <1>1, <1>10, FailStep DEF IInv, OneRead, PumpsRun
  <2> QED  BY Zenon, <1>2, <2>1, <2>2, <2>3 DEF IInv
<1> QED  BY Zenon, <1>8, <1>9, <1>10 DEF Sent

(* Every step keeps it.                                                    *)
LEMMA InvNext == IInv /\ [Next]_vars => IInv'
<1> SUFFICES ASSUME IInv, [Next]_vars PROVE IInv'
  OBVIOUS
<1>1. "local" \in Sides /\ "remote" \in Sides
  BY DEF Sides
<1>2. CASE start \/ startFails
  BY Zenon, <1>2, StartStep
<1>3. CASE onLocalConnect \/ onRemoteConnect
  BY Zenon, <1>1, <1>3, ConnectStep DEF onLocalConnect, onRemoteConnect
<1>4. CASE onLocalRecv \/ onRemoteRecv
  BY Zenon, <1>1, <1>4, RecvStep DEF onLocalRecv, onRemoteRecv
<1>5. CASE onLocalSend \/ onRemoteSend
  BY Zenon, <1>1, <1>5, SentStep DEF onLocalSend, onRemoteSend
<1>6. CASE UNCHANGED vars
  BY Zenon, <1>6 DEF vars, IInv, Types, Stages, Called, Ring, OneRead, PumpsRun
<1> QED  BY Zenon, <1>2, <1>3, <1>4, <1>5, <1>6 DEF Next

(* In every run.                                                           *)
LEMMA InvAlways == Spec => []IInv
<1> QED  BY InvInit, InvNext, PTL DEF Spec

-----------------------------------------------------------------------------
(* Whatever the sizes of the rings and of the chunks and the order in      *)
(* which the reads and writes of the two sides are answered, no place of a *)
(* ring is filled before it is written, the counters are exact and one     *)
(* read at most is under way, with room for its data.                      *)
THEOREM ProxyBuffers == Spec => []BuffersIntact
<1> QED  BY InvAlways, InvImplies, PTL

(* Neither pump stops while the other side's ring has room for more.       *)
THEOREM ProxyPumps == Spec => []PumpsRun
<1> QED  BY InvAlways, InvImplies, PTL

(* When start() runs on the reactor's thread, callback_ is called once at  *)
(* most, and only if start() has returned true.                            *)
THEOREM ProxyCallback ==
  ASSUME OneReactor
  PROVE  Spec => []CalledBackOnce
<1>1. IInv => CalledBackOnce
  BY InvImplies
<1> QED  BY <1>1, InvAlways, PTL
=============================================================================
