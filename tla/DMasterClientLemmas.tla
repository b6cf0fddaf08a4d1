------------------------ MODULE DMasterClientLemmas ------------------------
(***************************************************************************)
(* What the proofs about DMasterClient rest on, for any number of nodes,   *)
(* connections and messages: what its operations do to a queue, a table    *)
(* and a wire; the inductive invariant, which holds of each node from the  *)
(* values of its table, its queue and its wires; what a step of one node   *)
(* has to show to keep it; and that the handlers of the server's messages  *)
(* and the calls of the user do.                                           *)
(***************************************************************************)
EXTENDS DMasterClient, SequenceTheorems, TLAPS

USE ZenonT(3), SMTT(30)

-----------------------------------------------------------------------------
(* The queue: what push_back, erase and remove leave in it.                *)

(* push_back.                                                              *)
LEMMA QueueAppend ==
  ASSUME NEW S, NEW q \in Seq(S), NEW c \in S, Distinct(q), c \notin Elements(q)
  PROVE  /\ Append(q, c) \in Seq(S) /\ Distinct(Append(q, c)) /\ Append(q, c) # <<>>
         /\ Elements(Append(q, c)) = Elements(q) \cup {c}
         /\ q # <<>> => Head(Append(q, c)) = Head(q)
         /\ q = <<>> => Head(Append(q, c)) = c
<1> DEFINE w == Append(q, c)
<1>1. w \in Seq(S) /\ Len(w) = Len(q) + 1 /\ w[Len(q) + 1] = c /\ \A i \in 1..Len(q) : w[i] = q[i]
  OBVIOUS
<1>2. Len(q) \in Nat
  OBVIOUS
<1>3. \A i \in 1..Len(q) : q[i] # c
  BY DEF Elements
<1> HIDE DEF w
<1>4. Distinct(w)
  BY <1>1, <1>2, <1>3 DEF Distinct
<1>5. Elements(w) = Elements(q) \cup {c}
  BY <1>1, <1>2 DEF Elements
<1>6. w # <<>>
  BY <1>1, <1>2
<1>7. q # <<>> => Head(w) = Head(q)
  BY <1>1, <1>2
<1>8. q = <<>> => Head(w) = c
  BY <1>1, <1>2
<1> QED  BY <1>1, <1>4, <1>5, <1>6, <1>7, <1>8 DEF w

(* erase, of the head.                                                     *)
LEMMA QueueTail ==
  ASSUME NEW S, NEW q \in Seq(S), Distinct(q), q # <<>>
  PROVE  /\ Tail(q) \in Seq(S) /\ Distinct(Tail(q))
         /\ Elements(Tail(q)) = Elements(q) \ {Head(q)}
         /\ Head(q) \in Elements(q)
<1> DEFINE w == Tail(q)
<1>1. /\ w \in Seq(S) /\ Len(w) = Len(q) - 1 /\ \A i \in 1..Len(w) : w[i] = q[i + 1]
      /\ Len(q) \in Nat \ {0} /\ Head(q) = q[1]
  BY HeadTailProperties, EmptySeq
<1> HIDE DEF w
<1>2. Distinct(w)
  BY <1>1 DEF Distinct
<1>3. Elements(w) = Elements(q) \ {Head(q)}
  <2>1. ASSUME NEW i \in 1..Len(w)
        PROVE  w[i] \in Elements(q) /\ w[i] # Head(q)
    BY <1>1 DEF Elements, Distinct
  <2>2. ASSUME NEW i \in 1..Len(q), q[i] # Head(q)
        PROVE  q[i] \in Elements(w)
    <3>1. i - 1 \in 1..Len(w) /\ w[i - 1] = q[i]
      BY <1>1, <2>2
    <3> QED  BY <3>1 DEF Elements
  <2> QED  BY <2>1, <2>2 DEF Elements
<1>4. Head(q) \in Elements(q)
  BY <1>1 DEF Elements
<1> QED  BY <1>1, <1>2, <1>3, <1>4 DEF w

(* remove.                                                                 *)
LEMMA QueueWithout ==
  ASSUME NEW S, NEW q \in Seq(S), NEW c, Distinct(q)
  PROVE  /\ Without(q, c) \in Seq(S) /\ Distinct(Without(q, c))
         /\ Elements(Without(q, c)) = Elements(q) \ {c}
         /\ q # <<>> /\ Head(q) # c => Without(q, c) # <<>> /\ Head(Without(q, c)) = Head(q)
<1>1. CASE c \notin Elements(q)
  BY <1>1 DEF Without
<1>2. CASE c \in Elements(q)
  <2> DEFINE k == CHOOSE i \in 1..Len(q) : q[i] = c
             w == SubSeq(q, 1, k - 1) \o SubSeq(q, k + 1, Len(q))
  <2>1. k \in 1..Len(q) /\ q[k] = c
    BY <1>2 DEF Elements
  <2>2. Without(q, c) = w
    BY <1>2 DEF Without
  <2> HIDE DEF k
  <2>3. Len(q) \in Nat /\ k \in Nat
    BY <2>1
  <2>4. /\ w \in Seq(S) /\ Len(w) = Len(q) - 1
        /\ \A i \in 1..Len(w) : w[i] = IF i < k THEN q[i] ELSE q[i + 1]
    <3>1. PICK u, v : u = SubSeq(q, 1, k - 1) /\ v = SubSeq(q, k + 1, Len(q))
      OBVIOUS
    <3>2. u \in Seq(S) /\ Len(u) = k - 1 /\ \A i \in 1..Len(u) : u[i] = q[i]
      BY <2>1, <2>3, <3>1
    <3>3. v \in Seq(S) /\ Len(v) = Len(q) - k /\ \A i \in 1..Len(v) : v[i] = q[i + k]
      BY <2>1, <2>3, <3>1
    <3> HIDE DEF w
    <3>4. w = u \o v
      BY <3>1 DEF w
    <3>5. /\ w \in Seq(S) /\ Len(w) = Len(u) + Len(v)
          /\ \A i \in 1..Len(u) + Len(v) : w[i] = IF i <= Len(u) THEN u[i] ELSE v[i - Len(u)]
      BY Zenon, <3>2, <3>3, <3>4, ConcatProperties
    <3>6. Len(w) = Len(q) - 1 /\ Len(u) + Len(v) = Len(w)
      BY <2>1, <2>3, <3>2, <3>3, <3>5
    <3>7. ASSUME NEW i \in 1..Len(w), i < k PROVE w[i] = q[i]
      <4>1. i \in 1..Len(u) + Len(v) /\ i <= Len(u) /\ i \in 1..Len(u)
        BY <2>1, <2>3, <3>2, <3>6, <3>7
      <4> QED  BY Zenon, <3>2, <3>5, <4>1
    <3>8. ASSUME NEW i \in 1..Len(w), ~(i < k) PROVE w[i] = q[i + 1]
      <4>1. PICK j : j = i - Len(u)
        OBVIOUS
      <4>2. i \in 1..Len(u) + Len(v) /\ ~(i <= Len(u)) /\ j \in 1..Len(v) /\ j + k = i + 1
        BY <2>1, <2>3, <3>2, <3>3, <3>6, <3>8, <4>1
      <4> QED  BY Zenon, <3>3, <3>5, <4>1, <4>2
    <3> QED  BY Zenon, <3>5, <3>6, <3>7, <3>8
  <2> HIDE DEF w
  <2>5. \A i \in 1..Len(q) : q[i] = c => i = k
    BY <2>1 DEF Distinct
  <2>6. Distinct(w)
    BY <2>1, <2>3, <2>4 DEF Distinct
  <2>7. Elements(w) = Elements(q) \ {c}
    <3>1. ASSUME NEW i \in 1..Len(w) PROVE w[i] \in Elements(q) /\ w[i] # c
      BY <2>1, <2>3, <2>4, <2>5 DEF Elements
    <3>2. ASSUME NEW i \in 1..Len(q), q[i] # c PROVE q[i] \in Elements(w)
      <4>1. CASE i < k
        BY <2>1, <2>3, <2>4, <4>1 DEF Elements
      <4>2. CASE i > k
        <5>1. i - 1 \in 1..Len(w) /\ w[i - 1] = q[i]
          BY <2>1, <2>3, <2>4, <4>2
        <5> QED  BY <5>1 DEF Elements
      <4> QED  BY <2>1, <2>3, <3>2, <4>1, <4>2
    <3> QED  BY <3>1, <3>2 DEF Elements
  <2>8. q # <<>> /\ Head(q) # c => w # <<>> /\ Head(w) = Head(q)
    <3> SUFFICES ASSUME q # <<>>, Head(q) # c PROVE w # <<>> /\ Head(w) = Head(q)
      OBVIOUS
    <3>1. Head(q) = q[1]
      OBVIOUS
    <3>2. k # 1
      BY <2>1, <3>1
    <3>3. Len(w) >= 1 /\ w[1] = q[1]
      BY <2>1, <2>3, <2>4, <3>2
    <3> QED  BY <2>3, <2>4, <3>1, <3>3
  <2> QED  BY <2>2, <2>4, <2>6, <2>7, <2>8
<1> QED  BY <1>1, <1>2

-----------------------------------------------------------------------------
(* The wires: which messages are on the way.                               *)

(* A message K about c is on the wire s, and no two of them are about the  *)
(* same connection.                                                        *)
Has(s, K, c) == \E i \in 1..Len(s) : s[i].msg = K /\ s[i].connId = c
Unique(s, K) ==
    \A i, j \in 1..Len(s) : s[i].msg = K /\ s[j].msg = K /\ s[i].connId = s[j].connId => i = j

(* Something is sent.                                                      *)
LEMMA WireConcat ==
  ASSUME NEW S, NEW s \in Seq(S), NEW o \in Seq(S), NEW K
  PROVE  /\ s \o o \in Seq(S)
         /\ \A c : Has(s \o o, K, c) <=> Has(s, K, c) \/ Has(o, K, c)
         /\ Unique(s, K) /\ Unique(o, K) /\ (\A c : Has(o, K, c) => ~Has(s, K, c)) => Unique(s \o o, K)
<1>1. PICK w : w = s \o o
  OBVIOUS
<1>2. PICK l \in Nat : l = Len(s)
  BY LenProperties
<1>3. PICK k \in Nat : k = Len(o)
  BY LenProperties
<1>4. /\ w \in Seq(S) /\ Len(w) = l + k
      /\ \A i \in 1..l + k : w[i] = IF i <= l THEN s[i] ELSE o[i - l]
  BY Zenon, <1>1, <1>2, <1>3, ConcatProperties
<1>5. ASSUME NEW i \in 1..l PROVE i \in 1..l + k /\ w[i] = s[i]
  BY <1>4
<1>6. ASSUME NEW i \in 1..k PROVE l + i \in 1..l + k /\ w[l + i] = o[i]
  <2>1. PICK j : j = l + i
    OBVIOUS
  <2>2. j \in 1..l + k /\ ~(j <= l) /\ j - l = i
    BY <2>1
  <2> QED  BY Zenon, <1>4, <2>1, <2>2
<1>7. ASSUME NEW i \in 1..l + k, i \notin 1..l
      PROVE  \E j \in 1..k : i = l + j /\ w[i] = o[j]
  <2>1. PICK j : j = i - l
    OBVIOUS
  <2>2. j \in 1..k /\ i = l + j /\ ~(i <= l)
    BY <1>7, <2>1
  <2> QED  BY Zenon, <1>4, <2>1, <2>2
<1>8. ASSUME NEW c PROVE Has(w, K, c) <=> Has(s, K, c) \/ Has(o, K, c)
  <2>1. ASSUME Has(w, K, c) PROVE Has(s, K, c) \/ Has(o, K, c)
    <3>1. PICK i \in 1..l + k : w[i].msg = K /\ w[i].connId = c
      BY Zenon, <1>4, <2>1 DEF Has
    <3> QED  BY Zenon, <1>2, <1>3, <1>5, <1>7, <3>1 DEF Has
  <2>2. ASSUME Has(s, K, c) PROVE Has(w, K, c)
    BY Zenon, <1>2, <1>4, <1>5, <2>2 DEF Has
  <2>3. ASSUME Has(o, K, c) PROVE Has(w, K, c)
    BY Zenon, <1>3, <1>4, <1>6, <2>3 DEF Has
  <2> QED  BY Zenon, <2>1, <2>2, <2>3
<1>9. ASSUME Unique(s, K), Unique(o, K), \A c : Has(o, K, c) => ~Has(s, K, c)
      PROVE  Unique(w, K)
  <2> SUFFICES ASSUME NEW i \in 1..l + k, NEW j \in 1..l + k,
                      w[i].msg = K, w[j].msg = K, w[i].connId = w[j].connId
               PROVE  i = j
    BY Zenon, <1>4 DEF Unique
  <2>1. CASE i \in 1..l /\ j \in 1..l
    BY Zenon, <1>2, <1>5, <1>9, <2>1 DEF Unique
  <2>2. CASE i \in 1..l /\ j \notin 1..l
    <3>1. PICK b \in 1..k : w[j] = o[b]
      BY Zenon, <1>7, <2>2
    <3>2. Has(s, K, w[j].connId) /\ Has(o, K, w[j].connId)
      BY Zenon, <1>2, <1>3, <1>5, <2>2, <3>1 DEF Has
    <3> QED  BY Zenon, <1>9, <3>2
  <2>3. CASE i \notin 1..l /\ j \in 1..l
    <3>1. PICK b \in 1..k : w[i] = o[b]
      BY Zenon, <1>7, <2>3
    <3>2. Has(s, K, w[i].connId) /\ Has(o, K, w[i].connId)
      BY Zenon, <1>2, <1>3, <1>5, <2>3, <3>1 DEF Has
    <3> QED  BY Zenon, <1>9, <3>2
  <2>4. CASE i \notin 1..l /\ j \notin 1..l
    <3>1. PICK a \in 1..k : i = l + a /\ w[i] = o[a]
      BY Zenon, <1>7, <2>4
    <3>2. PICK b \in 1..k : j = l + b /\ w[j] = o[b]
      BY Zenon, <1>7, <2>4
    <3>3. a = b
      BY Zenon, <1>3, <1>9, <3>1, <3>2 DEF Unique
    <3> QED  BY Zenon, <3>1, <3>2, <3>3
  <2> QED  BY Zenon, <2>1, <2>2, <2>3, <2>4
<1> QED  BY Zenon, <1>1, <1>4, <1>8, <1>9

(* One message, or none, or some that all say the same.                    *)
LEMMA WireOne ==
  ASSUME NEW S, NEW m \in S, NEW K
  PROVE  /\ <<m>> \in Seq(S) /\ Unique(<<m>>, K)
         /\ \A c : Has(<<m>>, K, c) <=> m.msg = K /\ m.connId = c
<1>1. PICK w : w = <<m>>
  OBVIOUS
<1>2. w \in Seq(S) /\ 1..Len(w) = {1} /\ w[1] = m
  BY <1>1
<1> QED  BY Zenon, <1>1, <1>2 DEF Has, Unique

(* Messages that say something else say nothing of K.                      *)
LEMMA WireOthers ==
  ASSUME NEW s, NEW K, \A i \in 1..Len(s) : s[i].msg # K
  PROVE  Unique(s, K) /\ \A c : ~Has(s, K, c)
<1> QED  BY Zenon DEF Has, Unique

(* The first message is read.                                              *)
LEMMA WireTail ==
  ASSUME NEW S, NEW s \in Seq(S), s # <<>>, NEW K
  PROVE  /\ Tail(s) \in Seq(S) /\ Head(s) \in S
         /\ \A c : Has(Tail(s), K, c) => Has(s, K, c)
         /\ Head(s).msg = K => Has(s, K, Head(s).connId)
         /\ Unique(s, K) => Unique(Tail(s), K)
         /\ Unique(s, K) /\ Head(s).msg = K => ~Has(Tail(s), K, Head(s).connId)
<1>1. PICK w : w = Tail(s)
  OBVIOUS
<1>2. PICK h : h = Head(s)
  OBVIOUS
<1>3. PICK l \in Nat : l = Len(w)
  BY <1>1, LenProperties, HeadTailProperties
<1>4. w \in Seq(S) /\ h \in S /\ \A i \in 1..l : w[i] = s[i + 1]
  BY Zenon, <1>1, <1>2, <1>3, HeadTailProperties
<1>5. Len(s) = l + 1 /\ h = s[1]
  BY <1>1, <1>2, <1>3
<1>6. \A i \in 1..l : i + 1 \in 1..Len(s) /\ i + 1 # 1
  BY <1>5
<1>7. \A i, j \in 1..l : i + 1 = j + 1 => i = j
  OBVIOUS
<1>8. 1 \in 1..Len(s)
  BY <1>5
<1>9. \A c : Has(w, K, c) => Has(s, K, c)
  BY Zenon, <1>3, <1>4, <1>6 DEF Has
<1>10. h.msg = K => Has(s, K, h.connId)
  BY Zenon, <1>5, <1>8 DEF Has
<1>11. Unique(s, K) => Unique(w, K)
  <2> SUFFICES ASSUME Unique(s, K), NEW i \in 1..l, NEW j \in 1..l,
                      w[i].msg = K, w[j].msg = K, w[i].connId = w[j].connId
               PROVE  i = j
    BY Zenon, <1>3 DEF Unique
  <2>1. i + 1 = j + 1
    BY Zenon, <1>4, <1>6 DEF Unique
  <2> QED  BY Zenon, <1>7, <2>1
<1>12. Unique(s, K) /\ h.msg = K => ~Has(w, K, h.connId)
  BY Zenon, <1>3, <1>4, <1>5, <1>6, <1>8 DEF Has, Unique
<1> QED  BY Zenon, <1>1, <1>2, <1>4, <1>9, <1>10, <1>11, <1>12

(* The wire s is followed by t, which has nothing that the table hears of  *)
(* but what s has.                                                         *)
Keys == {"CREATE", "PENDING", "CONN", "ESTABLISHED"}
Fewer(t, s, S) ==
    /\ t \in Seq(S)
    /\ \A K \in Keys : (\A c : Has(t, K, c) => Has(s, K, c)) /\ (Unique(s, K) => Unique(t, K))

(* Nothing happens to the wire, a message is read, or one is sent that     *)
(* the table does not hear of.                                             *)
LEMMA FewerSame ==
  ASSUME NEW S, NEW s \in Seq(S)
  PROVE  Fewer(s, s, S)
<1> QED  BY Zenon DEF Fewer

(* A handler reads the first message.                                      *)
LEMMA FewerTail ==
  ASSUME NEW S, NEW s \in Seq(S), s # <<>>
  PROVE  Fewer(Tail(s), s, S)
<1> QED  BY Zenon, WireTail DEF Fewer

(* Messages are sent that the table does not hear of.                      *)
LEMMA FewerConcat ==
  ASSUME NEW S, NEW s \in Seq(S), NEW o \in Seq(S), \A i \in 1..Len(o) : o[i].msg \notin Keys
  PROVE  Fewer(s \o o, s, S)
<1> SUFFICES ASSUME NEW K \in Keys
             PROVE  /\ s \o o \in Seq(S)
                    /\ \A c : Has(s \o o, K, c) => Has(s, K, c)
                    /\ Unique(s, K) => Unique(s \o o, K)
  BY Zenon, ConcatProperties DEF Fewer
<1>1. Unique(o, K) /\ \A c : ~Has(o, K, c)
  BY Zenon, WireOthers
<1> QED  BY Zenon, <1>1, WireConcat

-----------------------------------------------------------------------------
(* The table and the queue.                                                *)

(* The server was asked; the session waits; it was started; it is the one  *)
(* that runs alone.                                                        *)
Asked(e) == e.mode = "Unknown" /\ e.status = "Pending"
Waiting(e) == e.rSess # "started" /\ ~e.keepalive /\ ~e.proxySession
Ran(e) == (e.rSess = "started" \/ e.keepalive) /\ e.mode # "Unknown"
Symm(e) == e.mode = "SYMM_CONN" /\ e.rSess = "started"

(* What holds of a table tab, a queue q and the sessions beg that were     *)
(* started.                                                                *)
Table(tab, q, beg) ==
    /\ DOMAIN tab \subseteq ConnIds /\ tab \in [DOMAIN tab -> ConnState]
    /\ q \in Seq(ConnIds) /\ Distinct(q) /\ Elements(q) \subseteq DOMAIN tab
    /\ beg \subseteq ConnIds
    /\ \A c \in DOMAIN tab :
        /\ c \in Elements(q) => Waiting(tab[c]) /\ c \notin beg
        /\ c \notin Elements(q) => Ran(tab[c]) /\ c \in beg
        /\ Asked(tab[c]) => q # <<>> /\ c = Head(q)
    /\ \A c, d \in DOMAIN tab : Symm(tab[c]) /\ Symm(tab[d]) => c = d

(* The entry of c is e in new and the others are as in old; c is erased.   *)
Puts(new, old, c, e) ==
    /\ new = [x \in DOMAIN old \cup {c} |-> new[x]] /\ DOMAIN new = DOMAIN old \cup {c}
    /\ new[c] = e /\ \A x \in DOMAIN old \ {c} : new[x] = old[x]
Drops(new, old, c) ==
    /\ new = [x \in DOMAIN old \ {c} |-> new[x]] /\ DOMAIN new = DOMAIN old \ {c}
    /\ \A x \in DOMAIN old \ {c} : new[x] = old[x]

(* The type of the table after each.                                       *)
LEMMA PutsType ==
  ASSUME NEW tab, NEW new, NEW c \in ConnIds, NEW e \in ConnState, Puts(new, tab, c, e),
         DOMAIN tab \subseteq ConnIds, tab \in [DOMAIN tab -> ConnState]
  PROVE  DOMAIN new \subseteq ConnIds /\ new \in [DOMAIN new -> ConnState]
<1>1. \A x \in DOMAIN new : new[x] \in ConnState
  BY Zenon DEF Puts
<1> QED  BY Zenon, <1>1 DEF Puts

(* And after c is erased.                                                  *)
LEMMA DropsType ==
  ASSUME NEW tab, NEW new, NEW c, Drops(new, tab, c),
         DOMAIN tab \subseteq ConnIds, tab \in [DOMAIN tab -> ConnState]
  PROVE  DOMAIN new \subseteq ConnIds /\ new \in [DOMAIN new -> ConnState]
<1>1. \A x \in DOMAIN new : new[x] \in ConnState
  BY Zenon DEF Drops
<1> QED  BY Zenon, <1>1 DEF Drops

(* A connection is registered, or is to be accepted.                       *)
LEMMA TableAdd ==
  ASSUME NEW tab, NEW q, NEW beg, Table(tab, q, beg),
         NEW c \in ConnIds, NEW e \in ConnState, NEW new, Puts(new, tab, c, e),
         c \notin DOMAIN tab, c \notin beg, Waiting(e), Asked(e) => q = <<>>
  PROVE  Table(new, Append(q, c), beg)
<1>1. q \in Seq(ConnIds) /\ Distinct(q) /\ c \notin Elements(q)
  BY Zenon DEF Table
<1>2. PICK w : w = Append(q, c)
  OBVIOUS
<1>3. /\ w \in Seq(ConnIds) /\ Distinct(w) /\ w # <<>> /\ Elements(w) = Elements(q) \cup {c}
      /\ (q # <<>> => Head(w) = Head(q)) /\ (q = <<>> => Head(w) = c)
  <2>1. /\ Append(q, c) \in Seq(ConnIds) /\ Distinct(Append(q, c)) /\ Append(q, c) # <<>>
        /\ Elements(Append(q, c)) = Elements(q) \cup {c}
        /\ q # <<>> => Head(Append(q, c)) = Head(q)
        /\ q = <<>> => Head(Append(q, c)) = c
    BY <1>1, QueueAppend
  <2> QED  BY Zenon, <1>2, <2>1
<1>4. DOMAIN new \subseteq ConnIds /\ new \in [DOMAIN new -> ConnState]
  BY Zenon, PutsType DEF Table
<1>5. Elements(w) \subseteq DOMAIN new
  BY Zenon, <1>3 DEF Table, Puts
<1>6. ASSUME NEW x \in DOMAIN new
      PROVE  /\ x \in Elements(w) => Waiting(new[x]) /\ x \notin beg
             /\ x \notin Elements(w) => Ran(new[x]) /\ x \in beg
             /\ Asked(new[x]) => w # <<>> /\ x = Head(w)
  <2>1. CASE x = c
    BY Zenon, <1>3, <2>1 DEF Puts
  <2>2. CASE x # c
    <3>1. x \in DOMAIN tab /\ new[x] = tab[x]
      BY Zenon, <2>2 DEF Puts
    <3>2. x \in Elements(w) <=> x \in Elements(q)
      BY Zenon, <1>3, <2>2
    <3> QED  BY Zenon, <1>3, <3>1, <3>2 DEF Table
  <2> QED  BY Zenon, <2>1, <2>2
<1>7. ASSUME NEW x \in DOMAIN new, NEW y \in DOMAIN new, Symm(new[x]), Symm(new[y])
      PROVE  x = y
  <2>1. ~Symm(new[c])
    BY Zenon DEF Puts, Waiting, Symm
  <2>2. x \in DOMAIN tab /\ y \in DOMAIN tab /\ new[x] = tab[x] /\ new[y] = tab[y]
    BY Zenon, <1>7, <2>1 DEF Puts
  <2> QED  BY Zenon, <1>7, <2>2 DEF Table
<1>8. beg \subseteq ConnIds
  BY Zenon DEF Table
<1> QED  BY Zenon, <1>2, <1>3, <1>4, <1>5, <1>6, <1>7, <1>8 DEF Table

(* A connection is closed, or cancelled.                                   *)
LEMMA TableRemove ==
  ASSUME NEW tab, NEW q, NEW beg, Table(tab, q, beg), NEW c, NEW new, Drops(new, tab, c)
  PROVE  Table(new, Without(q, c), beg)
<1>1. q \in Seq(ConnIds) /\ Distinct(q)
  BY Zenon DEF Table
<1>2. PICK w : w = Without(q, c)
  OBVIOUS
<1>3. /\ w \in Seq(ConnIds) /\ Distinct(w) /\ Elements(w) = Elements(q) \ {c}
      /\ (q # <<>> /\ Head(q) # c => w # <<>> /\ Head(w) = Head(q))
  BY Zenon, <1>1, <1>2, QueueWithout
<1>4. DOMAIN new \subseteq ConnIds /\ new \in [DOMAIN new -> ConnState]
  BY Zenon, DropsType DEF Table
<1>5. Elements(w) \subseteq DOMAIN new /\ beg \subseteq ConnIds
  BY Zenon, <1>3 DEF Table, Drops
<1>6. ASSUME NEW x \in DOMAIN new
      PROVE  /\ x \in DOMAIN tab /\ new[x] = tab[x]
             /\ x \in Elements(w) => Waiting(new[x]) /\ x \notin beg
             /\ x \notin Elements(w) => Ran(new[x]) /\ x \in beg
             /\ Asked(new[x]) => w # <<>> /\ x = Head(w)
  <2>1. x \in DOMAIN tab /\ new[x] = tab[x] /\ (x \in Elements(w) <=> x \in Elements(q)) /\ x # c
    BY Zenon, <1>3 DEF Drops
  <2> QED  BY Zenon, <1>3, <2>1 DEF Table
<1>7. \A x, y \in DOMAIN new : Symm(new[x]) /\ Symm(new[y]) => x = y
  BY Zenon, <1>6 DEF Table
<1> QED  BY Zenon, <1>2, <1>3, <1>4, <1>5, <1>6, <1>7 DEF Table

(* A connection whose session was started is dropped: it is not queued.    *)
LEMMA TableForget ==
  ASSUME NEW tab, NEW q, NEW beg, Table(tab, q, beg), NEW c \in beg, NEW new, Drops(new, tab, c)
  PROVE  Table(new, q, beg)
<1>1. q \in Seq(ConnIds) /\ Distinct(q) /\ beg \subseteq ConnIds
  BY Zenon DEF Table
<1>2. c \notin Elements(q)
  BY Zenon DEF Table
<1>3. DOMAIN new \subseteq ConnIds /\ new \in [DOMAIN new -> ConnState] /\ Elements(q) \subseteq DOMAIN new
  BY Zenon, <1>2, DropsType DEF Table, Drops
<1>4. \A x \in DOMAIN new : x \in DOMAIN tab /\ new[x] = tab[x]
  BY Zenon DEF Drops
<1> QED  BY Zenon, <1>1, <1>3, <1>4 DEF Table

(* The entry of a connection changes.                                      *)
LEMMA TableChange ==
  ASSUME NEW tab, NEW q, NEW beg, Table(tab, q, beg), NEW c \in DOMAIN tab, NEW e \in ConnState,
         NEW new, Puts(new, tab, c, e),
         c \notin beg => Waiting(e), c \in beg => Ran(e),
         Asked(e) => q # <<>> /\ c = Head(q), Symm(e) => Symm(tab[c])
  PROVE  Table(new, q, beg)
<1>1. q \in Seq(ConnIds) /\ Distinct(q) /\ beg \subseteq ConnIds /\ c \in ConnIds
  BY Zenon DEF Table
<1>2. DOMAIN new = DOMAIN tab
  BY Zenon DEF Puts
<1>3. DOMAIN new \subseteq ConnIds /\ new \in [DOMAIN new -> ConnState] /\ Elements(q) \subseteq DOMAIN new
  BY Zenon, <1>1, <1>2, PutsType DEF Table
<1>4. ASSUME NEW x \in DOMAIN new
      PROVE  /\ x \in Elements(q) => Waiting(new[x]) /\ x \notin beg
             /\ x \notin Elements(q) => Ran(new[x]) /\ x \in beg
             /\ Asked(new[x]) => q # <<>> /\ x = Head(q)
             /\ Symm(new[x]) => Symm(tab[x])
  <2>1. CASE x = c
    BY Zenon, <2>1 DEF Puts, Table
  <2>2. CASE x # c
    <3>1. x \in DOMAIN tab /\ new[x] = tab[x]
      BY Zenon, <2>2 DEF Puts
    <3> QED  BY Zenon, <3>1 DEF Table
  <2> QED  BY Zenon, <2>1, <2>2
<1>5. \A x, y \in DOMAIN new : Symm(new[x]) /\ Symm(new[y]) => x = y
  BY Zenon, <1>2, <1>4 DEF Table
<1> QED  BY Zenon, <1>1, <1>3, <1>4, <1>5 DEF Table

(* The session of the head of the queue is started.                        *)
LEMMA TableStart ==
  ASSUME NEW tab, NEW q, NEW beg, Table(tab, q, beg), NEW c, q # <<>>, c = Head(q),
         NEW e \in ConnState, NEW new, Puts(new, tab, c, e), Ran(e),
         ~Asked(tab[c]), Symm(e) => \A x \in DOMAIN tab : ~Symm(tab[x])
  PROVE  Table(new, Tail(q), beg \cup {c})
<1>1. q \in Seq(ConnIds) /\ Distinct(q) /\ beg \subseteq ConnIds
  BY Zenon DEF Table
<1>2. PICK w : w = Tail(q)
  OBVIOUS
<1>3. w \in Seq(ConnIds) /\ Distinct(w) /\ Elements(w) = Elements(q) \ {c} /\ c \in Elements(q)
  BY Zenon, <1>1, <1>2, QueueTail
<1>4. c \in DOMAIN tab /\ c \in ConnIds /\ DOMAIN new = DOMAIN tab
  BY Zenon, <1>3 DEF Table, Puts
<1>5. DOMAIN new \subseteq ConnIds /\ new \in [DOMAIN new -> ConnState] /\ Elements(w) \subseteq DOMAIN new
  BY Zenon, <1>3, <1>4, PutsType DEF Table
<1>6. beg \cup {c} \subseteq ConnIds
  BY Zenon, <1>1, <1>4
<1>7. ~Asked(e)
  BY Zenon DEF Ran, Asked
<1>8. ASSUME NEW x \in DOMAIN new
      PROVE  /\ x \in Elements(w) => Waiting(new[x]) /\ x \notin beg \cup {c}
             /\ x \notin Elements(w) => Ran(new[x]) /\ x \in beg \cup {c}
             /\ ~Asked(new[x])
  <2>1. CASE x = c
    BY Zenon, <1>3, <1>7, <2>1 DEF Puts
  <2>2. CASE x # c
    <3>1. x \in DOMAIN tab /\ new[x] = tab[x] /\ (x \in Elements(w) <=> x \in Elements(q))
      BY Zenon, <1>3, <2>2 DEF Puts
    <3> QED  BY Zenon, <1>3, <2>2, <3>1 DEF Table
  <2> QED  BY Zenon, <2>1, <2>2
<1>9. ASSUME NEW x \in DOMAIN new, NEW y \in DOMAIN new, Symm(new[x]), Symm(new[y])
      PROVE  x = y
  <2>1. CASE x # c /\ y # c
    BY Zenon, <1>4, <1>9, <2>1 DEF Table, Puts
  <2>2. CASE x = c \/ y = c
    BY Zenon, <1>4, <1>9, <2>2 DEF Puts
  <2> QED  BY Zenon, <2>1, <2>2
<1> QED  BY Zenon, <1>2, <1>3, <1>5, <1>6, <1>8, <1>9 DEF Table

(* Or start() fails.                                                       *)
LEMMA TableFail ==
  ASSUME NEW tab, NEW q, NEW beg, Table(tab, q, beg), NEW c, q # <<>>, c = Head(q),
         NEW new, Drops(new, tab, c)
  PROVE  Table(new, Tail(q), beg \cup {c})
<1>1. q \in Seq(ConnIds) /\ Distinct(q) /\ beg \subseteq ConnIds
  BY Zenon DEF Table
<1>2. PICK w : w = Tail(q)
  OBVIOUS
<1>3. w \in Seq(ConnIds) /\ Distinct(w) /\ Elements(w) = Elements(q) \ {c} /\ c \in Elements(q)
  BY Zenon, <1>1, <1>2, QueueTail
<1>4. beg \cup {c} \subseteq ConnIds
  BY Zenon, <1>1, <1>3 DEF Table
<1>5. DOMAIN new \subseteq ConnIds /\ new \in [DOMAIN new -> ConnState] /\ Elements(w) \subseteq DOMAIN new
  BY Zenon, <1>3, DropsType DEF Table, Drops
<1>6. ASSUME NEW x \in DOMAIN new
      PROVE  /\ x \in Elements(w) => Waiting(new[x]) /\ x \notin beg \cup {c}
             /\ x \notin Elements(w) => Ran(new[x]) /\ x \in beg \cup {c}
             /\ ~Asked(new[x])
             /\ x \in DOMAIN tab /\ new[x] = tab[x]
  <2>1. x # c /\ x \in DOMAIN tab /\ new[x] = tab[x] /\ (x \in Elements(w) <=> x \in Elements(q))
    BY Zenon, <1>3 DEF Drops
  <2> QED  BY Zenon, <1>3, <2>1 DEF Table
<1>7. \A x, y \in DOMAIN new : Symm(new[x]) /\ Symm(new[y]) => x = y
  BY Zenon, <1>6 DEF Table
<1> QED  BY Zenon, <1>2, <1>3, <1>4, <1>5, <1>6, <1>7 DEF Table

-----------------------------------------------------------------------------
(* The table and the wires.                                                *)

(* Indices and names are what they should be.                              *)
LEMMA ConnIdType ==
  ASSUME NEW c \in ConnIds
  PROVE  c.nodeId \in Nodes /\ c.connIdx \in Nat \ {0}
<1>1. PICK n \in Nodes : c \in [nodeId: {n}, connIdx: 1..MaxConnIdx[n]]
  BY DEF ConnIds
<1>2. MaxConnIdx[n] \in Nat
  BY ClientAssumption
<1> QED  BY <1>1, <1>2

(* The node made the id c up before, or has heard of it.                   *)
Own(n, c, next) == c.nodeId = n /\ c.connIdx < next
Used(n, c, next, hrd) == (c.nodeId = n => c.connIdx < next) /\ (c.nodeId # n => c \in hrd)

(* What holds of node n's table, of the sessions beg it started, its next  *)
(* index, the connections hrd it was asked to accept and its two wires.    *)
Wire(n, tab, beg, next, hrd, ts, tc) ==
    /\ next \in Nat /\ hrd \subseteq ConnIds /\ ts \in Seq(ToServer) /\ tc \in Seq(ToClient)
    /\ Unique(ts, "CREATE") /\ Unique(tc, "PENDING") /\ Unique(tc, "CONN")
    /\ \A c \in DOMAIN tab \cup beg : Used(n, c, next, hrd) /\ ~Has(tc, "CONN", c)
    /\ \A c \in DOMAIN tab : tab[c].mode = "Unknown" => c.nodeId = n
    /\ \A c \in ConnIds :
        /\ Has(ts, "CREATE", c) \/ Has(tc, "PENDING", c) =>
               Own(n, c, next) /\ (c \in DOMAIN tab => Asked(tab[c]))
        /\ ~(Has(ts, "CREATE", c) /\ Has(tc, "PENDING", c))
        /\ Has(tc, "CONN", c) => c.nodeId # n /\ c \in hrd
        /\ Has(tc, "ESTABLISHED", c) => c \in beg

(* The table shrinks or its entries change, and messages are read.         *)
LEMMA WireKeeps ==
  ASSUME NEW n, NEW tab, NEW beg, NEW next, NEW hrd, NEW ts, NEW tc,
         Wire(n, tab, beg, next, hrd, ts, tc),
         NEW new, NEW ran, NEW all, NEW us, NEW uc,
         Fewer(us, ts, ToServer), Fewer(uc, tc, ToClient),
         hrd \subseteq all, all \subseteq ConnIds,
         DOMAIN new \subseteq DOMAIN tab, beg \subseteq ran, ran \subseteq beg \cup DOMAIN tab,
         \A c \in DOMAIN new : new[c].mode = "Unknown" => tab[c].mode = "Unknown",
         \A c \in DOMAIN new : Asked(tab[c]) /\ ~Asked(new[c]) =>
                ~Has(us, "CREATE", c) /\ ~Has(uc, "PENDING", c)
  PROVE  Wire(n, new, ran, next, all, us, uc)
<1>1. {"CREATE", "PENDING", "CONN", "ESTABLISHED"} = Keys
  BY Zenon DEF Keys
<1>2. us \in Seq(ToServer) /\ uc \in Seq(ToClient)
  BY Zenon DEF Fewer
<1>3. /\ \A c : Has(us, "CREATE", c) => Has(ts, "CREATE", c)
      /\ \A c : Has(uc, "PENDING", c) => Has(tc, "PENDING", c)
      /\ \A c : Has(uc, "CONN", c) => Has(tc, "CONN", c)
      /\ \A c : Has(uc, "ESTABLISHED", c) => Has(tc, "ESTABLISHED", c)
  BY Zenon, <1>1 DEF Fewer
<1>4. Unique(us, "CREATE") /\ Unique(uc, "PENDING") /\ Unique(uc, "CONN")
  BY Zenon, <1>1 DEF Fewer, Wire
<1>5. \A c \in DOMAIN new \cup ran : Used(n, c, next, all) /\ ~Has(uc, "CONN", c)
  BY Zenon, <1>3 DEF Wire, Used
<1>6. \A c \in DOMAIN new : new[c].mode = "Unknown" => c.nodeId = n
  BY Zenon DEF Wire
<1>7. ASSUME NEW c \in ConnIds
      PROVE  /\ Has(us, "CREATE", c) \/ Has(uc, "PENDING", c) =>
                    Own(n, c, next) /\ (c \in DOMAIN new => Asked(new[c]))
             /\ ~(Has(us, "CREATE", c) /\ Has(uc, "PENDING", c))
             /\ Has(uc, "CONN", c) => c.nodeId # n /\ c \in all
             /\ Has(uc, "ESTABLISHED", c) => c \in ran
  <2>1. /\ Has(ts, "CREATE", c) \/ Has(tc, "PENDING", c) =>
                Own(n, c, next) /\ (c \in DOMAIN tab => Asked(tab[c]))
        /\ ~(Has(ts, "CREATE", c) /\ Has(tc, "PENDING", c))
        /\ Has(tc, "CONN", c) => c.nodeId # n /\ c \in hrd
        /\ Has(tc, "ESTABLISHED", c) => c \in beg
    BY Zenon DEF Wire
  <2> QED  BY Zenon, <1>3, <2>1
<1> QED  BY Zenon, <1>2, <1>4, <1>5, <1>6, <1>7 DEF Wire

(* So when an entry is dropped, or when it changes.                        *)
LEMMA WireDrops ==
  ASSUME NEW n, NEW tab, NEW beg, NEW next, NEW hrd, NEW ts, NEW tc,
         Wire(n, tab, beg, next, hrd, ts, tc), NEW us, NEW uc,
         Fewer(us, ts, ToServer), Fewer(uc, tc, ToClient),
         NEW c, NEW new, Drops(new, tab, c), NEW ran, beg \subseteq ran, ran \subseteq beg \cup DOMAIN tab
  PROVE  Wire(n, new, ran, next, hrd, us, uc)
<1>1. hrd \subseteq hrd /\ hrd \subseteq ConnIds
  BY Zenon DEF Wire
<1>2. DOMAIN new \subseteq DOMAIN tab /\ \A x \in DOMAIN new : new[x] = tab[x]
  BY Zenon DEF Drops
<1>3. /\ \A x \in DOMAIN new : new[x].mode = "Unknown" => tab[x].mode = "Unknown"
      /\ \A x \in DOMAIN new : Asked(tab[x]) /\ ~Asked(new[x]) => ~Has(us, "CREATE", x) /\ ~Has(uc, "PENDING", x)
  BY Zenon, <1>2
<1> QED  BY Zenon, <1>1, <1>2, <1>3, WireKeeps

(* So when the entry of c changes, and neither its request nor the answer  *)
(* to it is left on the wires.                                             *)
LEMMA WirePuts ==
  ASSUME NEW n, NEW tab, NEW beg, NEW next, NEW hrd, NEW ts, NEW tc,
         Wire(n, tab, beg, next, hrd, ts, tc), NEW us, NEW uc,
         Fewer(us, ts, ToServer), Fewer(uc, tc, ToClient),
         NEW c \in DOMAIN tab, NEW e, NEW new, Puts(new, tab, c, e),
         NEW ran, beg \subseteq ran, ran \subseteq beg \cup DOMAIN tab,
         e.mode = "Unknown" => tab[c].mode = "Unknown",
         Asked(tab[c]) => ~Has(us, "CREATE", c) /\ ~Has(uc, "PENDING", c)
  PROVE  Wire(n, new, ran, next, hrd, us, uc)
<1>1. hrd \subseteq hrd /\ hrd \subseteq ConnIds
  BY Zenon DEF Wire
<1>2. DOMAIN new \subseteq DOMAIN tab /\ new[c] = e /\ \A x \in DOMAIN new : x # c => new[x] = tab[x]
  BY Zenon DEF Puts
<1>3. /\ \A x \in DOMAIN new : new[x].mode = "Unknown" => tab[x].mode = "Unknown"
      /\ \A x \in DOMAIN new : Asked(tab[x]) /\ ~Asked(new[x]) => ~Has(us, "CREATE", x) /\ ~Has(uc, "PENDING", x)
  BY Zenon, <1>2
<1> QED  BY Zenon, <1>1, <1>2, <1>3, WireKeeps

(* A connection is put into the table: one that the node was asked to      *)
(* accept, when the message is read.                                       *)
LEMMA WireAccept ==
  ASSUME NEW n, NEW tab, NEW beg, NEW next, NEW hrd, NEW ts, NEW tc,
         Wire(n, tab, beg, next, hrd, ts, tc),
         NEW uc, Fewer(uc, tc, ToClient), NEW c \in ConnIds, NEW e, NEW new, Puts(new, tab, c, e),
         Has(tc, "CONN", c), ~Has(uc, "CONN", c), e.mode # "Unknown"
  PROVE  Wire(n, new, beg, next, hrd, ts, uc)
<1>1. c.nodeId # n /\ c \in hrd /\ c \notin DOMAIN tab /\ c \notin beg
  BY Zenon DEF Wire
<1>2. Wire(n, tab, beg, next, hrd, ts, uc)
  <2>1. Fewer(ts, ts, ToServer)
    BY Zenon, FewerSame DEF Wire
  <2>2. hrd \subseteq ConnIds
    BY Zenon DEF Wire
  <2> QED  BY Zenon, <2>1, <2>2, WireKeeps
<1>3. DOMAIN new = DOMAIN tab \cup {c} /\ new[c] = e /\ \A x \in DOMAIN tab : new[x] = tab[x]
  BY Zenon, <1>1 DEF Puts
<1>4. \A x \in DOMAIN new \cup beg : Used(n, x, next, hrd) /\ ~Has(uc, "CONN", x)
  BY Zenon, <1>1, <1>2, <1>3 DEF Wire, Used
<1>5. \A x \in DOMAIN new : new[x].mode = "Unknown" => x.nodeId = n
  BY Zenon, <1>2, <1>3 DEF Wire
<1>6. ~Own(n, c, next)
  BY Zenon, <1>1 DEF Own
<1>7. \A x \in ConnIds : Has(ts, "CREATE", x) \/ Has(uc, "PENDING", x) =>
            Own(n, x, next) /\ (x \in DOMAIN new => Asked(new[x]))
  BY Zenon, <1>2, <1>3, <1>6 DEF Wire
<1> QED  BY Zenon, <1>2, <1>4, <1>5, <1>7 DEF Wire

(* Or one that is registered.                                              *)
LEMMA WireRegister ==
  ASSUME NEW n, NEW tab, NEW beg, NEW next, NEW hrd, NEW ts, NEW tc,
         Wire(n, tab, beg, next, hrd, ts, tc), DOMAIN tab \subseteq ConnIds, beg \subseteq ConnIds,
         NEW c \in ConnIds, c.nodeId = n, next <= c.connIdx,
         NEW e, NEW new, Puts(new, tab, c, e), NEW after, after = c.connIdx + 1
  PROVE  /\ c \notin DOMAIN tab /\ c \notin beg
         /\ ~Has(ts, "CREATE", c) /\ ~Has(tc, "PENDING", c)
         /\ Wire(n, new, beg, after, hrd, ts, tc)
<1>1. next \in Nat /\ c.connIdx \in Nat \ {0}
  BY ConnIdType DEF Wire
<1>2. after \in Nat /\ c.connIdx < after /\ ~(c.connIdx < next)
  BY <1>1
<1>3. ASSUME NEW k \in Nat, k < next PROVE k < after
  BY <1>1, <1>3
<1>4. \A x \in ConnIds : x.connIdx < next => x.connIdx < after
  BY Zenon, <1>3, ConnIdType
<1>5. c \notin DOMAIN tab /\ c \notin beg /\ ~Has(ts, "CREATE", c) /\ ~Has(tc, "PENDING", c)
  BY Zenon, <1>2 DEF Wire, Used, Own
<1>6. ~Has(tc, "CONN", c)
  BY Zenon DEF Wire
<1>7. DOMAIN new = DOMAIN tab \cup {c} /\ \A x \in DOMAIN tab : new[x] = tab[x]
  BY Zenon, <1>5 DEF Puts
<1>8. \A x \in DOMAIN new \cup beg : Used(n, x, after, hrd) /\ ~Has(tc, "CONN", x)
  <2>1. ASSUME NEW x \in DOMAIN tab \cup beg
        PROVE  Used(n, x, after, hrd) /\ ~Has(tc, "CONN", x)
    BY Zenon, <1>4 DEF Wire, Used
  <2>2. Used(n, c, after, hrd)
    BY Zenon, <1>2 DEF Used
  <2> QED  BY Zenon, <1>6, <1>7, <2>1, <2>2
<1>9. \A x \in DOMAIN new : new[x].mode = "Unknown" => x.nodeId = n
  BY Zenon, <1>7 DEF Wire
<1>10. ASSUME NEW x \in ConnIds, Has(ts, "CREATE", x) \/ Has(tc, "PENDING", x)
       PROVE  Own(n, x, after) /\ (x \in DOMAIN new => Asked(new[x]))
  <2>1. Own(n, x, next) /\ (x \in DOMAIN tab => Asked(tab[x])) /\ x # c
    BY Zenon, <1>5, <1>10 DEF Wire
  <2> QED  BY Zenon, <1>4, <1>7, <2>1 DEF Own
<1> QED  BY Zenon, <1>2, <1>5, <1>8, <1>9, <1>10 DEF Wire

(* The server is asked for a connection of the table.                      *)
LEMMA WireAsk ==
  ASSUME NEW n, NEW tab, NEW beg, NEW next, NEW hrd, NEW ts, NEW tc,
         Wire(n, tab, beg, next, hrd, ts, tc),
         NEW c \in ConnIds, c \in DOMAIN tab, Asked(tab[c]), NEW d \in Nodes,
         ~Has(ts, "CREATE", c), ~Has(tc, "PENDING", c)
  PROVE  Wire(n, tab, beg, next, hrd, Append(ts, create(c, d)), tc)
<1>1. PICK m : m = create(c, d)
  OBVIOUS
<1>2. m \in ToServer /\ m.msg = "CREATE" /\ m.connId = c
  BY <1>1 DEF create, ToServer
<1>3. ts \in Seq(ToServer) /\ <<m>> \in Seq(ToServer) /\ Unique(<<m>>, "CREATE")
      /\ \A x : Has(<<m>>, "CREATE", x) <=> x = c
  BY Zenon, <1>2, WireOne DEF Wire
<1>4. PICK us : us = ts \o <<m>>
  OBVIOUS
<1>5. /\ us \in Seq(ToServer)
      /\ \A x : Has(us, "CREATE", x) <=> Has(ts, "CREATE", x) \/ x = c
      /\ Unique(us, "CREATE")
  <2>1. Unique(ts, "CREATE") /\ \A x : Has(<<m>>, "CREATE", x) => ~Has(ts, "CREATE", x)
    BY <1>3 DEF Wire
  <2>2. /\ ts \o <<m>> \in Seq(ToServer)
        /\ \A x : Has(ts \o <<m>>, "CREATE", x) <=> Has(ts, "CREATE", x) \/ Has(<<m>>, "CREATE", x)
        /\ Unique(ts \o <<m>>, "CREATE")
    BY Zenon, <1>3, <2>1, WireConcat
  <2> QED  BY Zenon, <1>3, <1>4, <2>2
<1>6. Append(ts, create(c, d)) = us
  BY Zenon, <1>1, <1>2, <1>3, <1>4, AppendIsConcat
<1>7. Own(n, c, next)
  BY Zenon DEF Wire, Used, Own, Asked
<1>8. \A x \in ConnIds : Has(us, "CREATE", x) \/ Has(tc, "PENDING", x) =>
            Own(n, x, next) /\ (x \in DOMAIN tab => Asked(tab[x]))
  BY Zenon, <1>5, <1>7 DEF Wire
<1>9. \A x \in ConnIds : ~(Has(us, "CREATE", x) /\ Has(tc, "PENDING", x))
  BY Zenon, <1>5 DEF Wire
<1> QED  BY Zenon, <1>5, <1>6, <1>8, <1>9 DEF Wire

(* The server says something to the node.                                  *)
LEMMA WireSay ==
  ASSUME NEW n, NEW tab, NEW beg, NEW next, NEW hrd, NEW ts, NEW tc,
         Wire(n, tab, beg, next, hrd, ts, tc), NEW m \in ToClient, NEW c \in ConnIds, m.connId = c,
         m.msg = "PENDING" => /\ Own(n, c, next) /\ (c \in DOMAIN tab => Asked(tab[c]))
                              /\ ~Has(ts, "CREATE", c) /\ ~Has(tc, "PENDING", c),
         m.msg = "CONN" => /\ c.nodeId # n /\ c \in hrd /\ c \notin DOMAIN tab /\ c \notin beg
                           /\ ~Has(tc, "CONN", c),
         m.msg = "ESTABLISHED" => c \in beg
  PROVE  Wire(n, tab, beg, next, hrd, ts, tc \o <<m>>)
<1>1. PICK uc : uc = tc \o <<m>>
  OBVIOUS
<1>2. tc \in Seq(ToClient)
  BY Zenon DEF Wire
<1>3. ASSUME NEW K
      PROVE  /\ <<m>> \in Seq(ToClient) /\ Unique(<<m>>, K)
             /\ \A x : Has(<<m>>, K, x) <=> m.msg = K /\ x = c
  BY Zenon, WireOne
<1>4. ASSUME NEW K
      PROVE  /\ uc \in Seq(ToClient)
             /\ \A x : Has(uc, K, x) <=> Has(tc, K, x) \/ (m.msg = K /\ x = c)
             /\ Unique(tc, K) /\ (m.msg = K => ~Has(tc, K, c)) => Unique(uc, K)
  <2>1. \A x : Has(<<m>>, K, x) <=> m.msg = K /\ x = c
    BY Zenon, <1>3
  <2>2. <<m>> \in Seq(ToClient) /\ Unique(<<m>>, K)
    BY Zenon, <1>3
  <2>3. /\ uc \in Seq(ToClient)
        /\ \A x : Has(uc, K, x) <=> Has(tc, K, x) \/ Has(<<m>>, K, x)
        /\ Unique(tc, K) /\ (\A x : Has(<<m>>, K, x) => ~Has(tc, K, x)) => Unique(uc, K)
    BY Zenon, <1>1, <1>2, <2>2, WireConcat
  <2> QED  BY <2>1, <2>3
<1>5. /\ \A x : Has(uc, "PENDING", x) <=> Has(tc, "PENDING", x) \/ (m.msg = "PENDING" /\ x = c)
      /\ \A x : Has(uc, "CONN", x) <=> Has(tc, "CONN", x) \/ (m.msg = "CONN" /\ x = c)
      /\ \A x : Has(uc, "ESTABLISHED", x) <=> Has(tc, "ESTABLISHED", x)
                                              \/ (m.msg = "ESTABLISHED" /\ x = c)
      /\ uc \in Seq(ToClient) /\ Unique(uc, "PENDING") /\ Unique(uc, "CONN")
  BY Zenon, <1>4 DEF Wire
<1>6. \A x \in DOMAIN tab \cup beg : Used(n, x, next, hrd) /\ ~Has(uc, "CONN", x)
  BY Zenon, <1>5 DEF Wire
<1>7. ASSUME NEW x \in ConnIds
      PROVE  /\ Has(ts, "CREATE", x) \/ Has(uc, "PENDING", x) =>
                    Own(n, x, next) /\ (x \in DOMAIN tab => Asked(tab[x]))
             /\ ~(Has(ts, "CREATE", x) /\ Has(uc, "PENDING", x))
             /\ Has(uc, "CONN", x) => x.nodeId # n /\ x \in hrd
             /\ Has(uc, "ESTABLISHED", x) => x \in beg
  <2>1. /\ Has(ts, "CREATE", x) \/ Has(tc, "PENDING", x) =>
                Own(n, x, next) /\ (x \in DOMAIN tab => Asked(tab[x]))
        /\ ~(Has(ts, "CREATE", x) /\ Has(tc, "PENDING", x))
        /\ Has(tc, "CONN", x) => x.nodeId # n /\ x \in hrd
        /\ Has(tc, "ESTABLISHED", x) => x \in beg
    BY Zenon DEF Wire
  <2>2. Has(ts, "CREATE", x) \/ Has(uc, "PENDING", x) =>
            Own(n, x, next) /\ (x \in DOMAIN tab => Asked(tab[x]))
    BY <1>5, <2>1
  <2>3. ~(Has(ts, "CREATE", x) /\ Has(uc, "PENDING", x))
    BY <1>5, <2>1
  <2>4. Has(uc, "CONN", x) => x.nodeId # n /\ x \in hrd
    BY Zenon, <1>5, <2>1
  <2>5. Has(uc, "ESTABLISHED", x) => x \in beg
    BY <1>5, <2>1
  <2> QED  BY Zenon, <2>2, <2>3, <2>4, <2>5
<1> QED  BY Zenon, <1>1, <1>5, <1>6, <1>7 DEF Wire

-----------------------------------------------------------------------------
(* The inductive invariant.                                                *)

(* What thread t may have left to do when the sessions beg were started: a *)
(* session reports, and has a proxy session made, after its start.  The    *)
(* thread M never is in a callback of a session.                           *)
CallsOf(t, beg) ==
    {k \in Calls : /\ k.op \in {"onRendezvous", "proxy", "stored"} => k.conn \in beg
                   /\ t = "M" => k.op \in {"release", "process", "callback"}}

Stacks(cs, beg) == \A t \in Threads : cs[t] \in Seq(CallsOf(t, beg))

(* M holds m_ only in the loop of processRendezvous.                       *)
Lock(cs, m) == m = "M" => cs["M"] # <<>> /\ Head(cs["M"]).op = "process"

IsFun(f, S) == f = [x \in S |-> f[x]]

NodeInv(n) ==
    /\ Table(connStates_[n], rendezvousConnIds_[n], begun[n])
    /\ Wire(n, connStates_[n], begun[n], nextConnIdx_[n], heard[n], toServer[n], toClient[n])
    /\ IsFun(calls[n], Threads) /\ Stacks(calls[n], begun[n]) /\ Lock(calls[n], m_[n])
    /\ armed[n] \subseteq begun[n]
    /\ told[n] \subseteq ConnIds

(* Variables that are maps from nodes, and the others.                     *)
Maps ==
    /\ IsFun(connStates_, Nodes) /\ IsFun(rendezvousConnIds_, Nodes) /\ IsFun(nextConnIdx_, Nodes)
    /\ IsFun(calls, Nodes) /\ IsFun(armed, Nodes) /\ IsFun(begun, Nodes)
    /\ IsFun(toServer, Nodes) /\ IsFun(toClient, Nodes) /\ IsFun(told, Nodes) /\ IsFun(heard, Nodes)
Basics ==
    /\ conn_ \in [Nodes -> BOOLEAN]
    /\ m_ \in [Nodes -> Threads \cup {"free"}]
    /\ users \in [Nodes -> SUBSET ConnIds]
    /\ answers \in [ConnIds -> Seq({"ok", "error"})]

IInv == Maps /\ Basics /\ \A n \in Nodes : NodeInv(n)

(* What the runs check follows: the types,                                 *)
LEMMA InvTypes == IInv => TypeOK
<1> SUFFICES ASSUME IInv PROVE TypeOK
  OBVIOUS
<1>1. \A n \in Nodes : Known(n) \subseteq ConnIds /\ connStates_[n] \in [Known(n) -> ConnState]
  BY Zenon DEF IInv, NodeInv, Table, Known
<1>2. rendezvousConnIds_ \in [Nodes -> Seq(ConnIds)]
  <2>1. \A n \in Nodes : rendezvousConnIds_[n] \in Seq(ConnIds)
    BY Zenon DEF IInv, NodeInv, Table
  <2> QED  BY Zenon, <2>1 DEF IInv, Maps, IsFun
<1>3. nextConnIdx_ \in [Nodes -> Nat] /\ toServer \in [Nodes -> Seq(ToServer)]
      /\ toClient \in [Nodes -> Seq(ToClient)] /\ heard \in [Nodes -> SUBSET ConnIds]
  <2>1. \A n \in Nodes : nextConnIdx_[n] \in Nat /\ toServer[n] \in Seq(ToServer)
                         /\ toClient[n] \in Seq(ToClient) /\ heard[n] \in SUBSET ConnIds
    BY Zenon DEF IInv, NodeInv, Wire
  <2>2. IsFun(nextConnIdx_, Nodes) /\ IsFun(toServer, Nodes) /\ IsFun(toClient, Nodes) /\ IsFun(heard, Nodes)
    BY Zenon DEF IInv, Maps
  <2> QED  BY Zenon, <2>1, <2>2 DEF IsFun
<1>4. armed \in [Nodes -> SUBSET ConnIds] /\ begun \in [Nodes -> SUBSET ConnIds]
      /\ told \in [Nodes -> SUBSET ConnIds]
  <2>1. \A n \in Nodes : begun[n] \in SUBSET ConnIds /\ armed[n] \in SUBSET ConnIds
                         /\ told[n] \in SUBSET ConnIds
    BY Zenon DEF IInv, NodeInv, Table
  <2>2. IsFun(armed, Nodes) /\ IsFun(begun, Nodes) /\ IsFun(told, Nodes)
    BY Zenon DEF IInv, Maps
  <2> QED  BY Zenon, <2>1, <2>2 DEF IsFun
<1>5. calls \in [Nodes -> [Threads -> Seq(Calls)]]
  <2>1. ASSUME NEW n \in Nodes PROVE calls[n] \in [Threads -> Seq(Calls)]
    <3>1. ASSUME NEW t \in Threads PROVE calls[n][t] \in Seq(Calls)
      <4>1. calls[n][t] \in Seq(CallsOf(t, begun[n]))
        BY Zenon DEF IInv, NodeInv, Stacks
      <4>2. CallsOf(t, begun[n]) \subseteq Calls
        BY Zenon DEF CallsOf
      <4> QED  BY <4>1, <4>2
    <3> QED  BY Zenon, <3>1 DEF IInv, NodeInv, IsFun
  <2> QED  BY Zenon, <2>1 DEF IInv, Maps, IsFun
<1> QED  BY Zenon, <1>1, <1>2, <1>3, <1>4, <1>5 DEF IInv, Basics, TypeOK

(* the asserts on the queue and on the messages, and one rendezvous of     *)
(* mode SYMM_CONN at a time;                                               *)
LEMMA InvTable == IInv => TableSound /\ OneSymmConn
<1> SUFFICES ASSUME IInv PROVE TableSound /\ OneSymmConn
  OBVIOUS
<1>1. ASSUME NEW n \in Nodes
      PROVE  /\ Distinct(rendezvousConnIds_[n]) /\ Queued(n) \subseteq Known(n)
             /\ \A c \in Known(n) :
                    LET e == connStates_[n][c] IN
                    IF c \in Queued(n)
                    THEN e.rSess # "started" /\ ~e.keepalive /\ ~e.proxySession /\ c \notin begun[n]
                    ELSE c \in begun[n] /\ (e.rSess = "started" \/ e.keepalive)
             /\ \A c \in Known(n) :
                    connStates_[n][c].mode = "Unknown" /\ connStates_[n][c].status = "Pending"
                        => c = Head(rendezvousConnIds_[n])
  <2>1. Table(connStates_[n], rendezvousConnIds_[n], begun[n])
    BY Zenon DEF IInv, NodeInv
  <2>2. Distinct(rendezvousConnIds_[n]) /\ Queued(n) \subseteq Known(n)
    BY Zenon, <2>1 DEF Table, Queued, Known
  <2>3. ASSUME NEW c \in Known(n), c \in Queued(n)
        PROVE  LET e == connStates_[n][c] IN
               e.rSess # "started" /\ ~e.keepalive /\ ~e.proxySession /\ c \notin begun[n]
    BY Zenon, <2>1, <2>3 DEF Table, Queued, Known, Waiting
  <2>4. ASSUME NEW c \in Known(n), c \notin Queued(n)
        PROVE  LET e == connStates_[n][c] IN c \in begun[n] /\ (e.rSess = "started" \/ e.keepalive)
    BY Zenon, <2>1, <2>4 DEF Table, Queued, Known, Ran
  <2>5. ASSUME NEW c \in Known(n), connStates_[n][c].mode = "Unknown", connStates_[n][c].status = "Pending"
        PROVE  c = Head(rendezvousConnIds_[n])
    BY Zenon, <2>1, <2>5 DEF Table, Known, Asked
  <2> QED  BY Zenon, <2>2, <2>3, <2>4, <2>5
<1>2. QueueSound
  BY Zenon, <1>1, InvTypes DEF QueueSound
<1>3. ASSUME NEW n \in Nodes, NEW i \in DOMAIN toClient[n], toClient[n][i].connId \in Known(n)
      PROVE  /\ toClient[n][i].msg = "PENDING" => Asked(connStates_[n][toClient[n][i].connId])
             /\ toClient[n][i].msg = "ESTABLISHED" => connStates_[n][toClient[n][i].connId].mode # "Unknown"
  <2>1. PICK c : c = toClient[n][i].connId
    OBVIOUS
  <2>2. PICK tc : tc = toClient[n]
    OBVIOUS
  <2>3. tc \in Seq(ToClient) /\ c \in ConnIds /\ c \in DOMAIN connStates_[n]
    <3>1. tc \in Seq(ToClient)
      BY Zenon, <2>2 DEF IInv, NodeInv, Wire
    <3>2. c \in DOMAIN connStates_[n]
      BY Zenon, <1>3, <2>1 DEF Known
    <3>3. DOMAIN connStates_[n] \subseteq ConnIds
      BY Zenon DEF IInv, NodeInv, Table
    <3> QED  BY Zenon, <3>1, <3>2, <3>3
  <2>4. i \in 1..Len(tc)
    BY <2>2, <2>3
  <2>5. Has(tc, tc[i].msg, c)
    BY Zenon, <2>1, <2>2, <2>4 DEF Has
  <2>6. tc[i].msg = "PENDING" => Asked(connStates_[n][c])
    BY Zenon, <2>2, <2>3, <2>5 DEF IInv, NodeInv, Wire
  <2>7. tc[i].msg = "ESTABLISHED" => c \in begun[n]
    BY Zenon, <2>2, <2>3, <2>5 DEF IInv, NodeInv, Wire
  <2>8. c \in begun[n] => connStates_[n][c].mode # "Unknown"
    BY Zenon, <2>3 DEF IInv, NodeInv, Table, Ran
  <2> QED  BY Zenon, <2>1, <2>2, <2>6, <2>7, <2>8
<1>4. StatusExpected
  BY Zenon, <1>3 DEF StatusExpected, Asked
<1>5. OneSymmConn
  BY Zenon DEF IInv, NodeInv, Table, Symm, OneSymmConn, Known
<1> QED  BY Zenon, <1>2, <1>4, <1>5 DEF TableSound

(* and, with one reactor, that no thread waits for another while it holds  *)
(* m_.                                                                     *)
LEMMA InvWait ==
  ASSUME IInv, Local = "R"
  PROVE  NoWaitUnderLock
<1> SUFFICES ASSUME NEW n \in Nodes, NEW t \in Threads, m_[n] = t, Top(n, t, "release"),
                    MustWait(n, t, Head(calls[n][t]).conn)
             PROVE  FALSE
  BY Zenon DEF NoWaitUnderLock
<1>1. t # "M"
  BY DEF IInv, NodeInv, Lock, Top
<1>2. PICK u \in Threads \ {t} : InSession(n, u, Head(calls[n][t]).conn)
  BY Zenon DEF MustWait
<1>3. u = "M"
  BY Zenon, <1>1, <1>2 DEF Threads, Reactors
<1>4. PICK q : q = calls[n]["M"] /\ q \in Seq(CallsOf("M", begun[n]))
  BY Zenon, <1>2, <1>3 DEF IInv, NodeInv, Stacks
<1>5. PICK i \in DOMAIN q : q[i].op = "return"
  BY <1>2, <1>3, <1>4 DEF InSession
<1>6. q[i] \in CallsOf("M", begun[n])
  BY <1>4, <1>5
<1> QED  BY <1>5, <1>6 DEF CallsOf

-----------------------------------------------------------------------------
(* Steps of one node.                                                      *)

(* g is f but for node n, where it is v.                                   *)
Elsewhere(f, g, n) == IsFun(g, Nodes) /\ \A k \in Nodes \ {n} : g[k] = f[k]
Becomes(f, g, n, v) == Elsewhere(f, g, n) /\ g[n] = v

(* As an EXCEPT makes it.                                                  *)
LEMMA ElsewhereExcept ==
  ASSUME NEW f, IsFun(f, Nodes), NEW n \in Nodes, NEW v, NEW g, g = [f EXCEPT ![n] = v]
  PROVE  Becomes(f, g, n, v)
<1>1. DOMAIN f = Nodes
  BY Zenon DEF IsFun
<1>2. IsFun(g, Nodes)
  BY Zenon, <1>1 DEF IsFun
<1> QED  BY Zenon, <1>1, <1>2 DEF Becomes, Elsewhere

(* An EXCEPT with two indices, or with two and a field, in steps.          *)
LEMMA ExceptTwo ==
  ASSUME NEW f, NEW n, NEW t, NEW s, NEW w, w = [f[n] EXCEPT ![t] = s],
         NEW g, g = [f EXCEPT ![n][t] = s]
  PROVE  g = [f EXCEPT ![n] = w]
<1> QED  BY SMT

(* The same with a field of the entry: the assignments to a connState's    *)
(* mode, status, rSess and proxySession.                                   *)
LEMMA ExceptField ==
  ASSUME NEW f, NEW n, NEW t, NEW v
  PROVE  /\ [f EXCEPT ![n][t].mode = v] = [f EXCEPT ![n] = [f[n] EXCEPT ![t] = [f[n][t] EXCEPT !.mode = v]]]
         /\ [f EXCEPT ![n][t].status = v] = [f EXCEPT ![n] = [f[n] EXCEPT ![t] = [f[n][t] EXCEPT !.status = v]]]
         /\ [f EXCEPT ![n][t].rSess = v] = [f EXCEPT ![n] = [f[n] EXCEPT ![t] = [f[n][t] EXCEPT !.rSess = v]]]
         /\ [f EXCEPT ![n][t].proxySession = v] =
                [f EXCEPT ![n] = [f[n] EXCEPT ![t] = [f[n][t] EXCEPT !.proxySession = v]]]
<1> QED  BY SMT

(* Nothing happens to f.                                                   *)
LEMMA ElsewhereSame ==
  ASSUME NEW f, IsFun(f, Nodes), NEW n
  PROVE  Becomes(f, f, n, f[n])
<1> QED  BY Zenon DEF Becomes, Elsewhere

(* A step of node n keeps the invariant if it does so at n.                *)
OnlyAt(n) ==
    /\ Elsewhere(connStates_, connStates_', n) /\ Elsewhere(rendezvousConnIds_, rendezvousConnIds_', n)
    /\ Elsewhere(nextConnIdx_, nextConnIdx_', n) /\ Elsewhere(calls, calls', n)
    /\ Elsewhere(armed, armed', n) /\ Elsewhere(begun, begun', n)
    /\ Elsewhere(toServer, toServer', n) /\ Elsewhere(toClient, toClient', n)
    /\ Elsewhere(told, told', n) /\ Elsewhere(heard, heard', n) /\ Elsewhere(m_, m_', n)

(* The nodes that a step does not touch keep their part of the invariant.  *)
LEMMA Frame ==
  ASSUME IInv, NEW n \in Nodes, OnlyAt(n), Basics', NodeInv(n)'
  PROVE  IInv'
<1>1. Maps'
  BY Zenon DEF OnlyAt, Elsewhere, Maps
<1>2. ASSUME NEW k \in Nodes PROVE NodeInv(k)'
  <2>1. CASE k = n
    BY Zenon, <2>1
  <2>2. CASE k # n
    <3>1. /\ connStates_'[k] = connStates_[k] /\ rendezvousConnIds_'[k] = rendezvousConnIds_[k]
          /\ nextConnIdx_'[k] = nextConnIdx_[k] /\ calls'[k] = calls[k]
          /\ armed'[k] = armed[k] /\ begun'[k] = begun[k]
          /\ toServer'[k] = toServer[k] /\ toClient'[k] = toClient[k]
          /\ told'[k] = told[k] /\ heard'[k] = heard[k] /\ m_'[k] = m_[k]
      BY Zenon, <2>2 DEF OnlyAt, Elsewhere
    <3>2. NodeInv(k)
      BY Zenon DEF IInv
    <3> QED  BY Zenon, <3>1, <3>2 DEF NodeInv
  <2> QED  BY Zenon, <2>1, <2>2
<1> QED  BY Zenon, <1>1, <1>2 DEF IInv

(* m_ of n is kept as it is, or taken by t, or given up.                   *)
LEMMA LockTypes ==
  ASSUME IInv, NEW n \in Nodes, NEW t \in Threads \cup {"free"}, m_' = [m_ EXCEPT ![n] = t]
  PROVE  m_' \in [Nodes -> Threads \cup {"free"}] /\ Elsewhere(m_, m_', n) /\ m_'[n] = t
<1>1. m_ \in [Nodes -> Threads \cup {"free"}]
  BY Zenon DEF IInv, Basics
<1> QED  BY <1>1 DEF Elsewhere, IsFun

(* A step that leaves m_ alone.                                            *)
LEMMA LockSame ==
  ASSUME IInv, NEW n \in Nodes, m_' = m_
  PROVE  m_' \in [Nodes -> Threads \cup {"free"}] /\ Elsewhere(m_, m_', n) /\ m_'[n] = m_[n]
<1>1. m_ \in [Nodes -> Threads \cup {"free"}]
  BY Zenon DEF IInv, Basics
<1>2. IsFun(m_, Nodes)
  BY <1>1 DEF IsFun
<1> QED  BY Zenon, <1>1, <1>2, ElsewhereSame DEF Becomes

(* The calls that a thread has left, when more sessions were started.      *)
LEMMA StacksGrow ==
  ASSUME NEW cs, NEW beg, NEW ran, Stacks(cs, beg), beg \subseteq ran
  PROVE  Stacks(cs, ran)
<1> SUFFICES ASSUME NEW t \in Threads PROVE cs[t] \in Seq(CallsOf(t, ran))
  BY Zenon DEF Stacks
<1>1. cs[t] \in Seq(CallsOf(t, beg))
  BY Zenon DEF Stacks
<1>2. CallsOf(t, beg) \subseteq CallsOf(t, ran)
  BY Zenon DEF CallsOf
<1> QED  BY <1>1, <1>2

(* Thread t goes on with the calls in s.                                   *)
LEMMA ContinueStep ==
  ASSUME NEW n \in Nodes, IsFun(calls, Nodes), IsFun(calls[n], Threads), NEW t \in Threads,
         NEW beg, Stacks(calls[n], beg), NEW s \in Seq(CallsOf(t, beg)),
         calls' = [calls EXCEPT ![n][t] = s]
  PROVE  /\ Elsewhere(calls, calls', n) /\ IsFun(calls'[n], Threads) /\ Stacks(calls'[n], beg)
         /\ calls'[n][t] = s /\ \A u \in Threads \ {t} : calls'[n][u] = calls[n][u]
<1>1. PICK cs : cs = [calls[n] EXCEPT ![t] = s]
  OBVIOUS
<1>2. Elsewhere(calls, calls', n) /\ calls'[n] = cs
  <2>1. calls' = [calls EXCEPT ![n] = cs]
    BY Zenon, <1>1, ExceptTwo
  <2>2. Becomes(calls, calls', n, cs)
    BY Zenon, <2>1, ElsewhereExcept
  <2> QED  BY Zenon, <2>2 DEF Becomes
<1>3. DOMAIN calls[n] = Threads
  BY Zenon DEF IsFun
<1>4. IsFun(cs, Threads) /\ cs[t] = s /\ \A u \in Threads \ {t} : cs[u] = calls[n][u]
  BY Zenon, <1>1, <1>3 DEF IsFun
<1>5. Stacks(cs, beg)
  BY Zenon, <1>4 DEF Stacks
<1> QED  BY Zenon, <1>2, <1>4, <1>5

(* Thread t does the calls in s in place of its first one.                 *)
LEMMA InsteadStep ==
  ASSUME NEW n \in Nodes, IsFun(calls, Nodes), IsFun(calls[n], Threads), NEW t \in Threads,
         NEW beg, Stacks(calls[n], beg), NEW s \in Seq(CallsOf(t, beg)), calls[n][t] # <<>>,
         Instead(n, t, s)
  PROVE  /\ Elsewhere(calls, calls', n) /\ IsFun(calls'[n], Threads) /\ Stacks(calls'[n], beg)
         /\ \A u \in Threads \ {t} : calls'[n][u] = calls[n][u]
<1>1. PICK w : w = s \o Tail(calls[n][t])
  OBVIOUS
<1>2. calls[n][t] \in Seq(CallsOf(t, beg))
  BY Zenon DEF Stacks
<1>3. Tail(calls[n][t]) \in Seq(CallsOf(t, beg))
  BY Zenon, <1>2, HeadTailProperties
<1>4. w \in Seq(CallsOf(t, beg))
  BY Zenon, <1>1, <1>3, ConcatProperties
<1>5. calls' = [calls EXCEPT ![n][t] = w]
  BY Zenon, <1>1 DEF Instead
<1> QED  BY Zenon, <1>4, <1>5, ContinueStep

(* The first call of a thread.                                             *)
LEMMA FirstCall ==
  ASSUME NEW n \in Nodes, NEW t \in Threads, NEW beg, Stacks(calls[n], beg), calls[n][t] # <<>>
  PROVE  Head(calls[n][t]) \in CallsOf(t, beg)
<1>1. calls[n][t] \in Seq(CallsOf(t, beg))
  BY Zenon DEF Stacks
<1> QED  BY Zenon, <1>1, HeadTailProperties

(* The calls that handlers leave.                                          *)
LEMMA Leaves ==
  ASSUME NEW t \in Threads, NEW beg, NEW c \in ConnIds, NEW e, NEW ok \in BOOLEAN
  PROVE  /\ <<>> \in Seq(CallsOf(t, beg))
         /\ releaseOf(c, e) \in Seq(CallsOf(t, beg)) /\ callbackOf(c, e, ok) \in Seq(CallsOf(t, beg))
         /\ process \in Seq(CallsOf(t, beg)) /\ <<[op |-> "release", conn |-> c]>> \in Seq(CallsOf(t, beg))
<1>1. [op |-> "release", conn |-> c] \in Calls /\ [op |-> "process"] \in Calls
      /\ [op |-> "callback", conn |-> c, ok |-> ok] \in Calls
  BY DEF Calls
<1>2. /\ [op |-> "release", conn |-> c] \in CallsOf(t, beg) /\ [op |-> "process"] \in CallsOf(t, beg)
      /\ [op |-> "callback", conn |-> c, ok |-> ok] \in CallsOf(t, beg)
  BY <1>1 DEF CallsOf
<1>3. \A k \in CallsOf(t, beg) : <<k>> \in Seq(CallsOf(t, beg))
  OBVIOUS
<1>4. <<>> \in Seq(CallsOf(t, beg))
  OBVIOUS
<1> QED  BY Zenon, <1>2, <1>3, <1>4 DEF releaseOf, callbackOf, process

(* Those that only a reactor's thread has left.                            *)
LEMMA ReactorLeaves ==
  ASSUME NEW t \in Threads, t # "M", NEW beg, NEW c \in ConnIds, NEW ok \in BOOLEAN
  PROVE  /\ c \in beg => reports(c, ok) \in Seq(CallsOf(t, beg))
         /\ c \in beg => <<[op |-> "proxy", conn |-> c]>> \in Seq(CallsOf(t, beg))
         /\ c \in beg => <<[op |-> "stored", conn |-> c, ok |-> ok]>> \in Seq(CallsOf(t, beg))
         /\ <<[op |-> "onEstablished", conn |-> c, ok |-> ok], [op |-> "lock"],
              [op |-> "release", conn |-> c]>> \in Seq(CallsOf(t, beg))
         /\ <<[op |-> "onMsg", conn |-> c], [op |-> "lock"], [op |-> "release", conn |-> c],
              [op |-> "unlock"]>> \in Seq(CallsOf(t, beg))
<1> DEFINE S == CallsOf(t, beg)
<1>1. /\ [op |-> "onEstablished", conn |-> c, ok |-> ok] \in S /\ [op |-> "lock"] \in S
      /\ [op |-> "release", conn |-> c] \in S /\ [op |-> "onMsg", conn |-> c] \in S
      /\ [op |-> "unlock"] \in S /\ [op |-> "return", conn |-> c] \in S
  BY DEF Calls, CallsOf
<1>2. c \in beg => /\ [op |-> "onRendezvous", conn |-> c, ok |-> ok] \in S
                   /\ [op |-> "proxy", conn |-> c] \in S
                   /\ [op |-> "stored", conn |-> c, ok |-> ok] \in S
  BY DEF Calls, CallsOf
<1> HIDE DEF S
<1>3. /\ \A j \in S : <<j>> \in Seq(S)
      /\ \A j, k \in S : <<j, k>> \in Seq(S)
      /\ \A j, k, l \in S : <<j, k, l>> \in Seq(S)
      /\ \A j, k, l, m \in S : <<j, k, l, m>> \in Seq(S)
  OBVIOUS
<1> QED  BY Zenon, <1>1, <1>2, <1>3 DEF reports, S

-----------------------------------------------------------------------------
(* What a step does to the calls, the table and the wires of its node.     *)

(* The calls and the lock after a step of n, when the sessions ran were    *)
(* started.                                                                *)
CallsKept(n, ran) ==
    /\ Elsewhere(calls, calls', n) /\ IsFun(calls'[n], Threads) /\ Stacks(calls'[n], ran)
    /\ Elsewhere(m_, m_', n) /\ Lock(calls'[n], m_'[n]) /\ m_' \in [Nodes -> Threads \cup {"free"}]

(* The invariant after a step of n, from the parts.                        *)
LEMMA NodeStep ==
  ASSUME IInv, NEW n \in Nodes, NEW new, NEW q, NEW next, NEW ran, NEW us, NEW uc,
         Becomes(connStates_, connStates_', n, new), Becomes(rendezvousConnIds_, rendezvousConnIds_', n, q),
         Becomes(nextConnIdx_, nextConnIdx_', n, next), Becomes(begun, begun', n, ran),
         Becomes(toServer, toServer', n, us), Becomes(toClient, toClient', n, uc),
         UNCHANGED <<told, heard>>,
         Table(new, q, ran), Wire(n, new, ran, next, heard[n], us, uc), CallsKept(n, ran),
         Elsewhere(armed, armed', n), armed'[n] \subseteq ran,
         conn_' \in [Nodes -> BOOLEAN], users' \in [Nodes -> SUBSET ConnIds],
         answers' \in [ConnIds -> Seq({"ok", "error"})]
  PROVE  IInv'
<1>1. Becomes(told, told', n, told[n]) /\ Becomes(heard, heard', n, heard[n])
  BY Zenon, ElsewhereSame DEF IInv, Maps
<1>2. OnlyAt(n)
  BY Zenon, <1>1 DEF OnlyAt, Becomes, CallsKept
<1>3. Basics'
  BY Zenon DEF Basics, CallsKept
<1>4. NodeInv(n)
  BY Zenon DEF IInv
<1>5. NodeInv(n)'
  <2>1. /\ connStates_'[n] = new /\ rendezvousConnIds_'[n] = q /\ nextConnIdx_'[n] = next
        /\ begun'[n] = ran /\ toServer'[n] = us /\ toClient'[n] = uc /\ told'[n] = told[n]
        /\ heard'[n] = heard[n]
    BY Zenon, <1>1 DEF Becomes
  <2>2. Table(new, q, ran) /\ Wire(n, new, ran, next, heard[n], us, uc)
    OBVIOUS
  <2>3. Table(connStates_'[n], rendezvousConnIds_'[n], begun'[n])
    BY Zenon, <2>1, <2>2
  <2>4. Wire(n, connStates_'[n], begun'[n], nextConnIdx_'[n], heard'[n], toServer'[n], toClient'[n])
    BY Zenon, <2>1, <2>2
  <2>5. IsFun(calls'[n], Threads) /\ Stacks(calls'[n], begun'[n]) /\ Lock(calls'[n], m_'[n])
    BY Zenon, <2>1 DEF CallsKept
  <2>6. armed'[n] \subseteq begun'[n]
    BY Zenon, <2>1
  <2>7. told'[n] \subseteq ConnIds
    BY Zenon, <1>4, <2>1 DEF NodeInv
  <2> QED  BY Zenon, <2>3, <2>4, <2>5, <2>6, <2>7 DEF NodeInv
<1> QED  BY Zenon, <1>2, <1>3, <1>5, Frame

(* The invariant after a step that leaves the table and the wires alone.   *)
LEMMA QuietStep ==
  ASSUME IInv, NEW n \in Nodes, CallsKept(n, begun[n]),
         UNCHANGED <<connStates_, rendezvousConnIds_, nextConnIdx_, begun, toServer, toClient, told, heard>>,
         Elsewhere(armed, armed', n), armed'[n] \subseteq begun[n],
         conn_' \in [Nodes -> BOOLEAN], users' = users, answers' \in [ConnIds -> Seq({"ok", "error"})]
  PROVE  IInv'
<1>1. /\ Becomes(connStates_, connStates_', n, connStates_[n])
      /\ Becomes(rendezvousConnIds_, rendezvousConnIds_', n, rendezvousConnIds_[n])
      /\ Becomes(nextConnIdx_, nextConnIdx_', n, nextConnIdx_[n]) /\ Becomes(begun, begun', n, begun[n])
      /\ Becomes(toServer, toServer', n, toServer[n]) /\ Becomes(toClient, toClient', n, toClient[n])
  BY Zenon, ElsewhereSame DEF IInv, Maps
<1>2. /\ Table(connStates_[n], rendezvousConnIds_[n], begun[n])
      /\ Wire(n, connStates_[n], begun[n], nextConnIdx_[n], heard[n], toServer[n], toClient[n])
  BY Zenon DEF IInv, NodeInv
<1>3. users' \in [Nodes -> SUBSET ConnIds]
  BY Zenon DEF IInv, Basics
<1> QED  BY Zenon, <1>1, <1>2, <1>3, NodeStep

(* Thread t enters the class, and goes on with the calls in s or has none. *)
LEMMA CallEnter ==
  ASSUME IInv, NEW n \in Nodes, NEW t \in Threads, Enter(n, t)
  PROVE  /\ UNCHANGED calls => CallsKept(n, begun[n])
         /\ \A s \in Seq(CallsOf(t, begun[n])) : Continue(n, t, s) => CallsKept(n, begun[n])
<1>1. m_' \in [Nodes -> Threads \cup {"free"}] /\ Elsewhere(m_, m_', n) /\ m_'[n] = "free"
  BY Zenon, LockSame DEF Enter
<1>2. "free" # "M"
  OBVIOUS
<1>3. IsFun(calls, Nodes) /\ IsFun(calls[n], Threads) /\ Stacks(calls[n], begun[n])
  BY Zenon DEF IInv, Maps, NodeInv
<1>4. ASSUME UNCHANGED calls PROVE CallsKept(n, begun[n])
  BY Zenon, <1>1, <1>2, <1>3, <1>4, ElsewhereSame DEF CallsKept, Lock, Becomes
<1>5. ASSUME NEW s \in Seq(CallsOf(t, begun[n])), Continue(n, t, s) PROVE CallsKept(n, begun[n])
  <2>1. calls' = [calls EXCEPT ![n][t] = s]
    BY Zenon, <1>5 DEF Continue
  <2>2. Elsewhere(calls, calls', n) /\ IsFun(calls'[n], Threads) /\ Stacks(calls'[n], begun[n])
    BY Zenon, <2>1, <1>3, ContinueStep
  <2> QED  BY Zenon, <1>1, <1>2, <2>2 DEF CallsKept, Lock
<1> QED  BY Zenon, <1>4, <1>5

(* Thread t does the calls in s in place of one that is no turn of         *)
(* processRendezvous, and keeps m_ if it had it.                           *)
LEMMA CallQuiet ==
  ASSUME IInv, NEW n \in Nodes, NEW t \in Threads, NEW op, Top(n, t, op), op # "process",
         NEW s \in Seq(CallsOf(t, begun[n])), Instead(n, t, s), UNCHANGED m_
  PROVE  CallsKept(n, begun[n])
<1>1. m_' \in [Nodes -> Threads \cup {"free"}] /\ Elsewhere(m_, m_', n) /\ m_'[n] = m_[n]
  BY Zenon, LockSame
<1>2. IsFun(calls, Nodes) /\ IsFun(calls[n], Threads) /\ Stacks(calls[n], begun[n]) /\ Lock(calls[n], m_[n])
  BY Zenon DEF IInv, Maps, NodeInv
<1>3. calls[n][t] # <<>> /\ Head(calls[n][t]).op = op
  BY Zenon DEF Top
<1>4. /\ Elsewhere(calls, calls', n) /\ IsFun(calls'[n], Threads) /\ Stacks(calls'[n], begun[n])
      /\ \A u \in Threads \ {t} : calls'[n][u] = calls[n][u]
  BY Zenon, <1>2, <1>3, InsteadStep
<1>5. Lock(calls'[n], m_[n])
  <2>1. CASE t = "M"
    BY Zenon, <2>1, <1>2, <1>3 DEF Lock
  <2>2. CASE t # "M"
    <3>1. "M" \in Threads \ {t}
      BY Zenon, <2>2 DEF Threads
    <3>2. calls'[n]["M"] = calls[n]["M"]
      BY Zenon, <1>4, <3>1
    <3> QED  BY Zenon, <3>2, <1>2 DEF Lock
  <2> QED  BY Zenon, <2>1, <2>2
<1> QED  BY Zenon, <1>1, <1>4, <1>5 DEF CallsKept

(* Thread t does the calls in s in place of its first, and m_ is free, or  *)
(* a reactor's, after it.                                                  *)
LEMMA CallFree ==
  ASSUME IInv, NEW n \in Nodes, NEW t \in Threads, NEW ran, begun[n] \subseteq ran, calls[n][t] # <<>>,
         NEW s \in Seq(CallsOf(t, ran)), Instead(n, t, s),
         NEW u \in Threads \cup {"free"}, u # "M", m_' = [m_ EXCEPT ![n] = u]
  PROVE  CallsKept(n, ran)
<1>1. m_' \in [Nodes -> Threads \cup {"free"}] /\ Elsewhere(m_, m_', n) /\ m_'[n] = u
  BY Zenon, LockTypes
<1>2. IsFun(calls, Nodes) /\ IsFun(calls[n], Threads) /\ Stacks(calls[n], begun[n])
  BY Zenon DEF IInv, Maps, NodeInv
<1>3. Stacks(calls[n], ran)
  BY Zenon, <1>2, StacksGrow
<1>4. Elsewhere(calls, calls', n) /\ IsFun(calls'[n], Threads) /\ Stacks(calls'[n], ran)
  BY Zenon, <1>2, <1>3, InsteadStep
<1> QED  BY Zenon, <1>1, <1>4 DEF CallsKept, Lock

(* Thread t takes m_ for another turn of processRendezvous.                *)
LEMMA CallTurn ==
  ASSUME IInv, NEW n \in Nodes, NEW t \in Threads, NEW ran, begun[n] \subseteq ran,
         Top(n, t, "process"), UNCHANGED calls, m_' = [m_ EXCEPT ![n] = t]
  PROVE  CallsKept(n, ran)
<1>1. m_' \in [Nodes -> Threads \cup {"free"}] /\ Elsewhere(m_, m_', n) /\ m_'[n] = t
  BY Zenon, LockTypes
<1>2. IsFun(calls, Nodes) /\ IsFun(calls[n], Threads) /\ Stacks(calls[n], begun[n])
  BY Zenon DEF IInv, Maps, NodeInv
<1>3. Stacks(calls[n], ran)
  BY Zenon, <1>2, StacksGrow
<1>4. Elsewhere(calls, calls', n)
  BY Zenon, <1>2, ElsewhereSame DEF Becomes
<1>5. Lock(calls[n], t)
  BY Zenon DEF Lock, Top
<1> QED  BY Zenon, <1>1, <1>2, <1>3, <1>4, <1>5 DEF CallsKept

(* The table after Put, after Erased and after a field was set.            *)
LEMMA PutIs ==
  ASSUME IInv, NEW n \in Nodes, NEW c, NEW e, connStates_' = Put(n, c, e)
  PROVE  \E new : Becomes(connStates_, connStates_', n, new) /\ Puts(new, connStates_[n], c, e)
<1>1. PICK tab : tab = connStates_[n]
  OBVIOUS
<1>2. PICK new : new = [x \in DOMAIN tab \cup {c} |-> IF x = c THEN e ELSE tab[x]]
  OBVIOUS
<1>3. DOMAIN new = DOMAIN tab \cup {c} /\ \A x \in DOMAIN tab \cup {c} : new[x] = IF x = c THEN e ELSE tab[x]
  BY Zenon, <1>2
<1>4. new = [x \in DOMAIN tab \cup {c} |-> new[x]]
  BY Zenon, <1>2
<1>5. Puts(new, tab, c, e)
  BY <1>3, <1>4 DEF Puts
<1>6. connStates_' = [connStates_ EXCEPT ![n] = new]
  BY Zenon, <1>1, <1>2 DEF Put, Known
<1>7. Becomes(connStates_, connStates_', n, new)
  BY Zenon, <1>6, ElsewhereExcept DEF IInv, Maps
<1> QED  BY Zenon, <1>1, <1>5, <1>7

(* connStates_.erase: the entry of c is gone from n's table.               *)
LEMMA ErasedIs ==
  ASSUME IInv, NEW n \in Nodes, NEW c, connStates_' = Erased(n, c)
  PROVE  \E new : Becomes(connStates_, connStates_', n, new) /\ Drops(new, connStates_[n], c)
<1>1. PICK tab : tab = connStates_[n]
  OBVIOUS
<1>2. PICK new : new = [x \in DOMAIN tab \ {c} |-> tab[x]]
  OBVIOUS
<1>3. Drops(new, tab, c)
  BY Zenon, <1>2 DEF Drops
<1>4. connStates_' = [connStates_ EXCEPT ![n] = new]
  BY Zenon, <1>1, <1>2 DEF Erased, Known
<1>5. Becomes(connStates_, connStates_', n, new)
  BY Zenon, <1>4, ElsewhereExcept DEF IInv, Maps
<1> QED  BY Zenon, <1>1, <1>3, <1>5

(* An assignment through an iterator: the entry of c is e, the others are  *)
(* as they were.                                                           *)
LEMMA ChangeIs ==
  ASSUME IInv, NEW n \in Nodes, NEW c \in Known(n), NEW e,
         connStates_' = [connStates_ EXCEPT ![n] = [connStates_[n] EXCEPT ![c] = e]]
  PROVE  \E new : Becomes(connStates_, connStates_', n, new) /\ Puts(new, connStates_[n], c, e)
<1>1. PICK tab : tab = connStates_[n]
  OBVIOUS
<1>2. PICK new : new = [tab EXCEPT ![c] = e]
  OBVIOUS
<1>3. c \in DOMAIN tab /\ tab = [x \in DOMAIN tab |-> tab[x]]
  BY Zenon, <1>1 DEF Known, IInv, NodeInv, Table
<1>4. Puts(new, tab, c, e)
  <2>1. DOMAIN new = DOMAIN tab /\ new[c] = e /\ \A x \in DOMAIN tab \ {c} : new[x] = tab[x]
    BY Zenon, <1>2, <1>3
  <2>2. DOMAIN tab \cup {c} = DOMAIN tab
    BY Zenon, <1>3
  <2>3. new = [x \in DOMAIN tab |-> new[x]]
    BY Zenon, <1>2, <1>3
  <2> QED  BY Zenon, <2>1, <2>2, <2>3 DEF Puts
<1>5. Becomes(connStates_, connStates_', n, new)
  BY Zenon, <1>1, <1>2, ElsewhereExcept DEF IInv, Maps
<1> QED  BY Zenon, <1>1, <1>4, <1>5

(* CLOSE is sent, if there is a connection to send it on.                  *)
LEMMA CloseSent ==
  ASSUME IInv, NEW n \in Nodes, NEW c \in ConnIds, NEW ok \in BOOLEAN, sendMsg(n, close(c, ok))
  PROVE  \E us : Becomes(toServer, toServer', n, us) /\ Fewer(us, toServer[n], ToServer)
<1>1. toServer[n] \in Seq(ToServer) /\ IsFun(toServer, Nodes)
  BY Zenon DEF IInv, Maps, NodeInv, Wire
<1>2. CASE conn_[n]
  <2>1. PICK m : m = close(c, ok)
    OBVIOUS
  <2>2. m \in ToServer /\ m.msg \notin Keys
    BY <2>1 DEF close, ToServer, Keys
  <2>3. <<m>> \in Seq(ToServer) /\ \A i \in 1..Len(<<m>>) : <<m>>[i].msg \notin Keys
    BY <2>2
  <2>4. Fewer(toServer[n] \o <<m>>, toServer[n], ToServer)
    BY Zenon, <1>1, <2>3, FewerConcat
  <2>5. toServer' = [toServer EXCEPT ![n] = Append(toServer[n], m)]
    BY Zenon, <1>2, <2>1 DEF sendMsg
  <2>6. Append(toServer[n], m) = toServer[n] \o <<m>>
    BY Zenon, <1>1, <2>2, AppendIsConcat
  <2>7. Becomes(toServer, toServer', n, toServer[n] \o <<m>>)
    BY Zenon, <1>1, <2>5, <2>6, ElsewhereExcept
  <2> QED  BY Zenon, <2>4, <2>7
<1>3. CASE ~conn_[n]
  BY Zenon, <1>1, <1>3, ElsewhereSame, FewerSame DEF sendMsg
<1> QED  BY Zenon, <1>2, <1>3

(* What a step leaves alone.                                               *)
LEMMA LeftAlone ==
  ASSUME IInv, NEW n \in Nodes
  PROVE  /\ connStates_' = connStates_ => Becomes(connStates_, connStates_', n, connStates_[n])
         /\ rendezvousConnIds_' = rendezvousConnIds_ =>
                Becomes(rendezvousConnIds_, rendezvousConnIds_', n, rendezvousConnIds_[n])
         /\ nextConnIdx_' = nextConnIdx_ => Becomes(nextConnIdx_, nextConnIdx_', n, nextConnIdx_[n])
         /\ begun' = begun => Becomes(begun, begun', n, begun[n])
         /\ toServer' = toServer => Becomes(toServer, toServer', n, toServer[n])
         /\ toClient' = toClient => Becomes(toClient, toClient', n, toClient[n])
         /\ armed' = armed => Elsewhere(armed, armed', n) /\ armed'[n] \subseteq begun[n]
         /\ conn_' = conn_ => conn_' \in [Nodes -> BOOLEAN]
         /\ users' = users => users' \in [Nodes -> SUBSET ConnIds]
         /\ answers' = answers => answers' \in [ConnIds -> Seq({"ok", "error"})]
<1>1. /\ IsFun(connStates_, Nodes) /\ IsFun(rendezvousConnIds_, Nodes) /\ IsFun(nextConnIdx_, Nodes)
      /\ IsFun(begun, Nodes) /\ IsFun(toServer, Nodes) /\ IsFun(toClient, Nodes) /\ IsFun(armed, Nodes)
  BY Zenon DEF IInv, Maps
<1>2. /\ connStates_' = connStates_ => Becomes(connStates_, connStates_', n, connStates_[n])
      /\ rendezvousConnIds_' = rendezvousConnIds_ =>
             Becomes(rendezvousConnIds_, rendezvousConnIds_', n, rendezvousConnIds_[n])
      /\ nextConnIdx_' = nextConnIdx_ => Becomes(nextConnIdx_, nextConnIdx_', n, nextConnIdx_[n])
  BY Zenon, <1>1, ElsewhereSame
<1>3. /\ begun' = begun => Becomes(begun, begun', n, begun[n])
      /\ toServer' = toServer => Becomes(toServer, toServer', n, toServer[n])
      /\ toClient' = toClient => Becomes(toClient, toClient', n, toClient[n])
  BY Zenon, <1>1, ElsewhereSame
<1>4. armed' = armed => Elsewhere(armed, armed', n) /\ armed'[n] \subseteq begun[n]
  <2>1. armed[n] \subseteq begun[n]
    BY Zenon DEF IInv, NodeInv
  <2> QED  BY Zenon, <1>1, <2>1, ElsewhereSame DEF Becomes
<1>5. /\ conn_' = conn_ => conn_' \in [Nodes -> BOOLEAN]
      /\ users' = users => users' \in [Nodes -> SUBSET ConnIds]
      /\ answers' = answers => answers' \in [ConnIds -> Seq({"ok", "error"})]
  BY Zenon DEF IInv, Basics
<1> QED  BY Zenon, <1>2, <1>3, <1>4, <1>5

(* The messages of the server, of each kind.                               *)
LEMMA Messages ==
  ASSUME NEW m \in ToClient
  PROVE  m.connId \in ConnIds /\ (m.msg \in {"CONN", "PENDING"} => m.mode \in RendezvousModes)
<1> QED  BY DEF ToClient

(* The thread of the server's connection and the thread of the user are    *)
(* two.                                                                    *)
LEMMA ThreadNames == "R" \in Threads /\ "M" \in Threads /\ "R" # "M" /\ \A t \in Reactors : t \in Threads /\ t # "M"
<1> QED  BY ClientAssumption DEF Threads, Reactors

-----------------------------------------------------------------------------
(* R reads a message.                                                      *)

(* What the handler finds: a message of the type it is for, and after it   *)
(* no second one of that type about the connection.                        *)
LEMMA Received ==
  ASSUME IInv, NEW n \in Nodes, NEW K, Receive(n, {K})
  PROVE  /\ toClient[n] # <<>> /\ Head(toClient[n]) \in ToClient /\ Head(toClient[n]).msg = K
         /\ Head(toClient[n]).connId \in ConnIds
         /\ Has(toClient[n], K, Head(toClient[n]).connId)
         /\ Unique(toClient[n], K) => ~Has(Tail(toClient[n]), K, Head(toClient[n]).connId)
         /\ Fewer(Tail(toClient[n]), toClient[n], ToClient)
<1>1. PICK tc : tc = toClient[n]
  OBVIOUS
<1>2. tc # <<>> /\ Head(tc).msg = K
  BY Zenon, <1>1 DEF Receive
<1>3. tc \in Seq(ToClient)
  BY Zenon, <1>1 DEF IInv, NodeInv, Wire
<1>4. /\ Head(tc) \in ToClient /\ Has(tc, K, Head(tc).connId)
      /\ Unique(tc, K) => ~Has(Tail(tc), K, Head(tc).connId)
  BY Zenon, <1>2, <1>3, WireTail
<1>5. Fewer(Tail(tc), tc, ToClient)
  BY Zenon, <1>2, <1>3, FewerTail
<1>6. Head(tc).connId \in ConnIds
  BY Zenon, <1>4, Messages
<1> QED  BY Zenon, <1>1, <1>2, <1>4, <1>5, <1>6

(* A handler of R keeps the invariant, from what it leaves in the table    *)
(* and the queue and from the calls it makes.                              *)
LEMMA MessageStep ==
  ASSUME IInv, NEW n \in Nodes, NEW K, Receive(n, K), NEW new, NEW q,
         Becomes(connStates_, connStates_', n, new), Becomes(rendezvousConnIds_, rendezvousConnIds_', n, q),
         Table(new, q, begun[n]),
         Wire(n, new, begun[n], nextConnIdx_[n], heard[n], toServer[n], Tail(toClient[n])),
         UNCHANGED calls \/ \E s \in Seq(CallsOf("R", begun[n])) : Continue(n, "R", s)
  PROVE  IInv'
<1>1. /\ Enter(n, "R") /\ toClient' = [toClient EXCEPT ![n] = Tail(toClient[n])]
      /\ UNCHANGED <<conn_, nextConnIdx_, begun, armed, users, toServer, told, heard, answers>>
  BY Zenon DEF Receive, sessionVars
<1>2. CallsKept(n, begun[n])
  BY Zenon, <1>1, CallEnter, ThreadNames
<1>3. Becomes(toClient, toClient', n, Tail(toClient[n]))
  BY Zenon, <1>1, ElsewhereExcept DEF IInv, Maps
<1>4. /\ Becomes(nextConnIdx_, nextConnIdx_', n, nextConnIdx_[n]) /\ Becomes(begun, begun', n, begun[n])
      /\ Becomes(toServer, toServer', n, toServer[n])
      /\ Elsewhere(armed, armed', n) /\ armed'[n] \subseteq begun[n] /\ conn_' \in [Nodes -> BOOLEAN]
      /\ users' \in [Nodes -> SUBSET ConnIds] /\ answers' \in [ConnIds -> Seq({"ok", "error"})]
  BY Zenon, <1>1, LeftAlone
<1> QED  BY Zenon, <1>1, <1>2, <1>3, <1>4, NodeStep

(* A message that changes no entry.                                        *)
LEMMA MessageIgnored ==
  ASSUME IInv, NEW n \in Nodes, NEW K, Receive(n, {K}), UNCHANGED <<connStates_, rendezvousConnIds_>>,
         UNCHANGED calls \/ \E s \in Seq(CallsOf("R", begun[n])) : Continue(n, "R", s)
  PROVE  IInv'
<1>1. /\ Becomes(connStates_, connStates_', n, connStates_[n])
      /\ Becomes(rendezvousConnIds_, rendezvousConnIds_', n, rendezvousConnIds_[n])
  BY Zenon, LeftAlone
<1>2. /\ Table(connStates_[n], rendezvousConnIds_[n], begun[n])
      /\ Wire(n, connStates_[n], begun[n], nextConnIdx_[n], heard[n], toServer[n], toClient[n])
  BY Zenon DEF IInv, NodeInv
<1>3. Fewer(Tail(toClient[n]), toClient[n], ToClient) /\ Fewer(toServer[n], toServer[n], ToServer)
  BY Zenon, <1>2, Received, FewerSame DEF Wire
<1>4. Wire(n, connStates_[n], begun[n], nextConnIdx_[n], heard[n], toServer[n], Tail(toClient[n]))
  <2>1. heard[n] \subseteq ConnIds
    BY Zenon, <1>2 DEF Wire
  <2>2. /\ DOMAIN connStates_[n] \subseteq DOMAIN connStates_[n] /\ begun[n] \subseteq begun[n]
        /\ begun[n] \subseteq begun[n] \cup DOMAIN connStates_[n] /\ heard[n] \subseteq heard[n]
    BY Zenon
  <2> QED  BY Zenon, <1>2, <1>3, <2>1, <2>2, WireKeeps
<1> QED  BY Zenon, <1>1, <1>2, <1>4, MessageStep

(* The handlers of R, in these terms: tab, q, beg are the node's table,    *)
(* queue and started sessions, next, hrd, ts, tc what else Wire is about.  *)
View(n, tab, q, beg, next, hrd, ts, tc) ==
    /\ tab = connStates_[n] /\ q = rendezvousConnIds_[n] /\ beg = begun[n]
    /\ next = nextConnIdx_[n] /\ hrd = heard[n] /\ ts = toServer[n] /\ tc = toClient[n]
    /\ Table(tab, q, beg) /\ Wire(n, tab, beg, next, hrd, ts, tc)
    /\ hrd \subseteq hrd /\ hrd \subseteq ConnIds /\ beg \subseteq beg /\ beg \subseteq beg \cup DOMAIN tab
    /\ Fewer(ts, ts, ToServer) /\ Fewer(tc, tc, ToClient)

(* In every state of the invariant there are such values.                  *)
LEMMA AtNode ==
  ASSUME IInv, NEW n \in Nodes
  PROVE  \E tab, q, beg, next, hrd, ts, tc : View(n, tab, q, beg, next, hrd, ts, tc)
<1>1. /\ Table(connStates_[n], rendezvousConnIds_[n], begun[n])
      /\ Wire(n, connStates_[n], begun[n], nextConnIdx_[n], heard[n], toServer[n], toClient[n])
  BY Zenon DEF IInv, NodeInv
<1>2. heard[n] \subseteq ConnIds /\ toServer[n] \in Seq(ToServer) /\ toClient[n] \in Seq(ToClient)
  BY Zenon, <1>1 DEF Wire
<1>3. Fewer(toServer[n], toServer[n], ToServer) /\ Fewer(toClient[n], toClient[n], ToClient)
  BY Zenon, <1>2, FewerSame
<1> WITNESS connStates_[n], rendezvousConnIds_[n], begun[n], nextConnIdx_[n], heard[n], toServer[n], toClient[n]
<1> QED  BY Zenon, <1>1, <1>2, <1>3 DEF View

(* onRecvMsgConn: a connection is to be accepted.                          *)
LEMMA StepConn ==
  ASSUME IInv, NEW n \in Nodes, onRecvMsgConn(n)
  PROVE  IInv'
<1>1. PICK m : m = Head(toClient[n])
  OBVIOUS
<1>2. PICK c : c = m.connId
  OBVIOUS
<1>3. Receive(n, {"CONN"})
  BY Zenon DEF onRecvMsgConn
<1>4. CASE c \in Known(n)
  <2>1. UNCHANGED <<connStates_, rendezvousConnIds_, calls>>
    BY Zenon, <1>1, <1>2, <1>4 DEF onRecvMsgConn
  <2> QED  BY Zenon, <1>3, <2>1, MessageIgnored
<1>5. CASE c \notin Known(n)
  <2>0. PICK tab, q, beg, next, hrd, ts, tc : View(n, tab, q, beg, next, hrd, ts, tc)
    BY Zenon, AtNode
  <2> /\ tab = connStates_[n] /\ q = rendezvousConnIds_[n] /\ beg = begun[n]
        /\ next = nextConnIdx_[n] /\ hrd = heard[n] /\ ts = toServer[n] /\ tc = toClient[n]
        /\ Table(tab, q, beg) /\ Wire(n, tab, beg, next, hrd, ts, tc)
    BY Zenon, <2>0 DEF View
  <2>2. PICK uc : uc = Tail(tc)
    OBVIOUS
  <2>3. /\ m \in ToClient /\ m.msg = "CONN" /\ c \in ConnIds /\ Has(tc, "CONN", c)
        /\ Unique(tc, "CONN") => ~Has(uc, "CONN", c)
        /\ Fewer(uc, tc, ToClient)
    BY Zenon, <1>1, <1>2, <1>3, <2>2, Received
  <2>4. ~Has(uc, "CONN", c) /\ c \notin beg /\ c \notin DOMAIN tab
    BY Zenon, <2>3 DEF Wire
  <2>5. PICK e : e = [peer |-> c.nodeId, mode |-> m.mode, status |-> "Pending", callback |-> FALSE,
                      rSess |-> "created", keepalive |-> FALSE, proxySession |-> FALSE]
    OBVIOUS
  <2>6. m.mode \in RendezvousModes /\ c.nodeId \in Nodes
    BY Zenon, <2>3, Messages, ConnIdType
  <2>7. e \in ConnState /\ Waiting(e) /\ e.mode # "Unknown" /\ ~Asked(e)
    BY <2>5, <2>6 DEF ConnState, Waiting, Asked, RendezvousModes
  <2>8. /\ connStates_' = Put(n, c, e) /\ Continue(n, "R", process)
        /\ rendezvousConnIds_' = [rendezvousConnIds_ EXCEPT ![n] = Append(q, c)]
    BY Zenon, <1>1, <1>2, <1>5, <2>5 DEF onRecvMsgConn
  <2>9. PICK new : Becomes(connStates_, connStates_', n, new) /\ Puts(new, tab, c, e)
    BY Zenon, <2>8, PutIs
  <2>10. Becomes(rendezvousConnIds_, rendezvousConnIds_', n, Append(q, c))
    BY Zenon, <2>8, ElsewhereExcept DEF IInv, Maps
  <2>11. Table(new, Append(q, c), beg)
    BY Zenon, <2>3, <2>4, <2>7, <2>9, TableAdd
  <2>12. Wire(n, new, beg, next, hrd, ts, uc)
    BY Zenon, <2>3, <2>4, <2>7, <2>9, WireAccept
  <2>13. process \in Seq(CallsOf("R", begun[n]))
    BY Zenon, <2>3, Leaves, ThreadNames
  <2> QED  BY Zenon, <1>3, <2>2, <2>8, <2>9, <2>10, <2>11, <2>12, <2>13, MessageStep
<1> QED  BY Zenon, <1>4, <1>5

(* onRecvMsgConnStatus with PENDING: the mode of the head of the queue is  *)
(* known.                                                                  *)
LEMMA StepPending ==
  ASSUME IInv, NEW n \in Nodes, onPending(n)
  PROVE  IInv'
<1>1. PICK m : m = Head(toClient[n])
  OBVIOUS
<1>2. PICK c : c = m.connId
  OBVIOUS
<1>3. Receive(n, {"PENDING"}) /\ UNCHANGED rendezvousConnIds_
  BY Zenon DEF onPending
<1>4. CASE c \notin Known(n)
  <2>1. UNCHANGED <<connStates_, calls>>
    BY Zenon, <1>1, <1>2, <1>4 DEF onPending
  <2> QED  BY Zenon, <1>3, <2>1, MessageIgnored
<1>5. CASE c \in Known(n)
  <2>0. PICK tab, q, beg, next, hrd, ts, tc : View(n, tab, q, beg, next, hrd, ts, tc)
    BY Zenon, AtNode
  <2> /\ tab = connStates_[n] /\ q = rendezvousConnIds_[n] /\ beg = begun[n]
        /\ next = nextConnIdx_[n] /\ hrd = heard[n] /\ ts = toServer[n] /\ tc = toClient[n]
        /\ Table(tab, q, beg) /\ Wire(n, tab, beg, next, hrd, ts, tc)
        /\ hrd \subseteq hrd /\ hrd \subseteq ConnIds /\ beg \subseteq beg /\ beg \subseteq beg \cup DOMAIN tab
        /\ Fewer(ts, ts, ToServer)
    BY Zenon, <2>0 DEF View
  <2>2. PICK uc : uc = Tail(tc)
    OBVIOUS
  <2>3. /\ m \in ToClient /\ m.msg = "PENDING" /\ c \in ConnIds /\ Has(tc, "PENDING", c)
        /\ Unique(tc, "PENDING") => ~Has(uc, "PENDING", c)
        /\ Fewer(uc, tc, ToClient)
    BY Zenon, <1>1, <1>2, <1>3, <2>2, Received
  <2>4. c \in DOMAIN tab /\ ~Has(uc, "PENDING", c) /\ ~Has(ts, "CREATE", c) /\ Asked(tab[c])
    BY Zenon, <1>5, <2>3 DEF Wire, Known
  <2>5. c \notin beg /\ Waiting(tab[c]) /\ tab[c] \in ConnState
    <3>1. ~Ran(tab[c])
      BY Zenon, <2>4 DEF Ran, Asked
    <3>2. tab \in [DOMAIN tab -> ConnState]
      BY Zenon DEF Table
    <3> QED  BY Zenon, <3>1, <3>2, <2>4 DEF Table
  <2>6. PICK e : e = [tab[c] EXCEPT !.mode = m.mode]
    OBVIOUS
  <2>7. m.mode \in RendezvousModes
    BY Zenon, <2>3, Messages
  <2>8. /\ e \in ConnState /\ e.mode = m.mode /\ e.rSess = tab[c].rSess
        /\ e.keepalive = tab[c].keepalive /\ e.proxySession = tab[c].proxySession
    BY <2>5, <2>6, <2>7 DEF ConnState
  <2>9. "Unknown" \notin RendezvousModes
    BY DEF RendezvousModes
  <2>10. Waiting(e) /\ e.mode # "Unknown" /\ ~Asked(e) /\ ~Symm(e)
    BY Zenon, <2>5, <2>7, <2>8, <2>9 DEF Waiting, Asked, Symm
  <2>11. connStates_' = [connStates_ EXCEPT ![n] = [tab EXCEPT ![c] = e]] /\ Continue(n, "R", process)
    <3>1. connStates_' = [connStates_ EXCEPT ![n][c].mode = m.mode] /\ Continue(n, "R", process)
      BY Zenon, <1>1, <1>2, <1>5 DEF onPending
    <3> QED  BY Zenon, <3>1, <2>6, ExceptField
  <2>12. PICK new : Becomes(connStates_, connStates_', n, new) /\ Puts(new, tab, c, e)
    BY Zenon, <1>5, <2>11, ChangeIs
  <2>13. Becomes(rendezvousConnIds_, rendezvousConnIds_', n, q)
    BY Zenon, <1>3, LeftAlone
  <2>14. Table(new, q, beg)
    BY Zenon, <2>4, <2>5, <2>8, <2>10, <2>12, TableChange
  <2>15. Wire(n, new, beg, next, hrd, ts, uc)
    BY <2>3, <2>4, <2>10, <2>12, WirePuts
  <2>16. process \in Seq(CallsOf("R", begun[n]))
    BY Zenon, <2>3, Leaves, ThreadNames
  <2> QED  BY Zenon, <1>3, <2>2, <2>11, <2>12, <2>13, <2>14, <2>15, <2>16, MessageStep
<1> QED  BY Zenon, <1>4, <1>5

(* The messages that a rendezvous session reads.                           *)
LEMMA StepOther ==
  ASSUME IInv, NEW n \in Nodes, onRecvMsgOther(n)
  PROVE  IInv'
<1>1. PICK c : c = Head(toClient[n]).connId
  OBVIOUS
<1>2. Receive(n, {"RELAY"}) /\ UNCHANGED <<connStates_, rendezvousConnIds_>>
  BY Zenon DEF onRecvMsgOther
<1>3. c \in ConnIds
  BY Zenon, <1>1, <1>2, Received
<1>4. PICK s : s = <<[op |-> "onMsg", conn |-> c], [op |-> "lock"], [op |-> "release", conn |-> c],
                     [op |-> "unlock"]>>
  OBVIOUS
<1>5. UNCHANGED calls \/ Continue(n, "R", s)
  BY Zenon, <1>1, <1>4 DEF onRecvMsgOther
<1>6. s \in Seq(CallsOf("R", begun[n]))
  BY Zenon, <1>3, <1>4, ReactorLeaves, ThreadNames
<1> QED  BY Zenon, <1>2, <1>5, <1>6, MessageIgnored

(* The connection with the server is lost.                                 *)
LEMMA StepLost ==
  ASSUME IInv, NEW n \in Nodes, onConnectionLost(n)
  PROVE  IInv'
<1>1. /\ Enter(n, "R") /\ conn_' = [conn_ EXCEPT ![n] = FALSE]
      /\ UNCHANGED <<connStates_, rendezvousConnIds_, nextConnIdx_, calls, armed, begun, users, toServer,
                     toClient, told, heard, answers>>
  BY Zenon DEF onConnectionLost, sessionVars, wireVars
<1>2. CallsKept(n, begun[n])
  BY Zenon, <1>1, CallEnter, ThreadNames
<1>3. conn_' \in [Nodes -> BOOLEAN]
  BY <1>1 DEF IInv, Basics
<1>4. Elsewhere(armed, armed', n) /\ armed'[n] \subseteq begun[n] /\ answers' \in [ConnIds -> Seq({"ok", "error"})]
  BY Zenon, <1>1, LeftAlone
<1> QED  BY Zenon, <1>1, <1>2, <1>3, <1>4, QuietStep

(* onRecvMsgConnStatus with ESTABLISHED.                                   *)
LEMMA StepEstablished ==
  ASSUME IInv, NEW n \in Nodes, onEstablishedStatus(n)
  PROVE  IInv'
<1>1. PICK m : m = Head(toClient[n])
  OBVIOUS
<1>2. PICK c : c = m.connId
  OBVIOUS
<1>3. Receive(n, {"ESTABLISHED"}) /\ UNCHANGED rendezvousConnIds_
  BY Zenon DEF onEstablishedStatus
<1>4. CASE c \notin Known(n)
  <2>1. UNCHANGED <<connStates_, calls>>
    BY Zenon, <1>1, <1>2, <1>4 DEF onEstablishedStatus
  <2> QED  BY Zenon, <1>3, <2>1, MessageIgnored
<1>5. c \in ConnIds
  BY Zenon, <1>1, <1>2, <1>3, Received
<1>6. process \in Seq(CallsOf("R", begun[n]))
  BY Zenon, <1>5, Leaves, ThreadNames
<1>7. CASE c \in Known(n) /\ connStates_[n][c].rSess = "none"
  <2>1. UNCHANGED connStates_ /\ Continue(n, "R", process)
    BY Zenon, <1>1, <1>2, <1>7 DEF onEstablishedStatus
  <2> QED  BY Zenon, <1>3, <1>6, <2>1, MessageIgnored
<1>8. CASE c \in Known(n) /\ connStates_[n][c].rSess # "none"
  <2>0. PICK tab, q, beg, next, hrd, ts, tc : View(n, tab, q, beg, next, hrd, ts, tc)
    BY Zenon, AtNode
  <2> /\ tab = connStates_[n] /\ q = rendezvousConnIds_[n] /\ beg = begun[n]
        /\ next = nextConnIdx_[n] /\ hrd = heard[n] /\ ts = toServer[n] /\ tc = toClient[n]
        /\ Table(tab, q, beg) /\ Wire(n, tab, beg, next, hrd, ts, tc)
        /\ beg \subseteq beg /\ beg \subseteq beg \cup DOMAIN tab /\ Fewer(ts, ts, ToServer)
    BY Zenon, <2>0 DEF View
  <2>2. PICK uc : uc = Tail(tc)
    OBVIOUS
  <2>3. Has(tc, "ESTABLISHED", c) /\ Fewer(uc, tc, ToClient)
    BY Zenon, <1>1, <1>2, <1>3, <2>2, Received
  <2>4. c \in DOMAIN tab /\ c \in beg
    BY Zenon, <1>5, <1>8, <2>3 DEF Wire, Known
  <2>5. Ran(tab[c]) /\ tab[c] \in ConnState
    <3>1. tab \in [DOMAIN tab -> ConnState]
      BY Zenon DEF Table
    <3> QED  BY Zenon, <3>1, <2>4 DEF Table
  <2>6. PICK e : e = [tab[c] EXCEPT !.status = "Established"]
    OBVIOUS
  <2>7. /\ e \in ConnState /\ e.mode = tab[c].mode /\ e.rSess = tab[c].rSess
        /\ e.keepalive = tab[c].keepalive
    BY <2>5, <2>6 DEF ConnState
  <2>8. Ran(e) /\ ~Asked(e) /\ ~Asked(tab[c]) /\ (Symm(e) => Symm(tab[c]))
    BY Zenon, <2>5, <2>7 DEF Ran, Asked, Symm
  <2>9. PICK s : s = <<[op |-> "onEstablished", conn |-> c, ok |-> connStates_[n][c].mode = "FAST"],
                       [op |-> "lock"], [op |-> "release", conn |-> c]>>
    OBVIOUS
  <2>10. /\ connStates_' = [connStates_ EXCEPT ![n][c].status = "Established"]
         /\ Continue(n, "R", s \o process)
    BY Zenon, <1>1, <1>2, <1>8, <2>9 DEF onEstablishedStatus
  <2>11. connStates_' = [connStates_ EXCEPT ![n] = [tab EXCEPT ![c] = e]]
    BY Zenon, <2>6, <2>10, ExceptField
  <2>12. PICK new : Becomes(connStates_, connStates_', n, new) /\ Puts(new, tab, c, e)
    BY Zenon, <1>8, <2>11, ChangeIs
  <2>13. Becomes(rendezvousConnIds_, rendezvousConnIds_', n, q)
    BY Zenon, <1>3, LeftAlone
  <2>14. Table(new, q, beg)
    BY Zenon, <2>4, <2>7, <2>8, <2>12, TableChange
  <2>15. Wire(n, new, beg, next, hrd, ts, uc)
    BY <2>3, <2>4, <2>7, <2>8, <2>12, WirePuts
  <2>16. s \in Seq(CallsOf("R", begun[n]))
    BY Zenon, <1>5, <2>9, ReactorLeaves, ThreadNames
  <2>17. s \o process \in Seq(CallsOf("R", begun[n]))
    BY Zenon, <1>6, <2>16, ConcatProperties
  <2> QED  BY Zenon, <1>3, <2>2, <2>10, <2>12, <2>13, <2>14, <2>15, <2>17, MessageStep
<1> QED  BY Zenon, <1>4, <1>7, <1>8

(* The queue after Removed.                                                *)
LEMMA RemovedIs ==
  ASSUME IInv, NEW n \in Nodes, NEW c, rendezvousConnIds_' = Removed(n, c)
  PROVE  Becomes(rendezvousConnIds_, rendezvousConnIds_', n, Without(rendezvousConnIds_[n], c))
<1> QED  BY Zenon, ElsewhereExcept DEF IInv, Maps, Removed

(* onRecvMsgConnStatus with an error: the entry is erased, queued or not,  *)
(* and its session released.                                               *)
LEMMA StepError ==
  ASSUME IInv, NEW n \in Nodes, onErrorStatus(n)
  PROVE  IInv'
<1>1. PICK m : m = Head(toClient[n])
  OBVIOUS
<1>2. PICK c : c = m.connId
  OBVIOUS
<1>3. Receive(n, {"ERROR"})
  BY Zenon DEF onErrorStatus
<1>4. CASE c \notin Known(n)
  <2>1. UNCHANGED <<connStates_, rendezvousConnIds_, calls>>
    BY Zenon, <1>1, <1>2, <1>4 DEF onErrorStatus
  <2> QED  BY Zenon, <1>3, <2>1, MessageIgnored
<1>5. CASE c \in Known(n)
  <2>0. PICK tab, q, beg, next, hrd, ts, tc : View(n, tab, q, beg, next, hrd, ts, tc)
    BY Zenon, AtNode
  <2> /\ tab = connStates_[n] /\ q = rendezvousConnIds_[n] /\ beg = begun[n]
        /\ next = nextConnIdx_[n] /\ hrd = heard[n] /\ ts = toServer[n] /\ tc = toClient[n]
        /\ Table(tab, q, beg) /\ Wire(n, tab, beg, next, hrd, ts, tc)
        /\ beg \subseteq beg /\ beg \subseteq beg \cup DOMAIN tab /\ Fewer(ts, ts, ToServer)
    BY Zenon, <2>0 DEF View
  <2>2. PICK uc : uc = Tail(tc)
    OBVIOUS
  <2>3. c \in ConnIds /\ Fewer(uc, tc, ToClient)
    BY Zenon, <1>1, <1>2, <1>3, <2>2, Received
  <2>4. PICK e : e = connStates_[n][c]
    OBVIOUS
  <2>5. /\ connStates_' = Erased(n, c) /\ rendezvousConnIds_' = Removed(n, c)
        /\ Continue(n, "R", releaseOf(c, e) \o callbackOf(c, e, FALSE) \o process)
    BY Zenon, <1>1, <1>2, <1>5, <2>4 DEF onErrorStatus
  <2>6. PICK new : Becomes(connStates_, connStates_', n, new) /\ Drops(new, tab, c)
    BY Zenon, <2>5, ErasedIs
  <2>7. Becomes(rendezvousConnIds_, rendezvousConnIds_', n, Without(q, c))
    BY Zenon, <2>5, RemovedIs
  <2>8. Table(new, Without(q, c), beg)
    BY Zenon, <2>6, TableRemove
  <2>9. Wire(n, new, beg, next, hrd, ts, uc)
    BY Zenon, <2>3, <2>6, WireDrops
  <2>10. /\ releaseOf(c, e) \in Seq(CallsOf("R", begun[n])) /\ callbackOf(c, e, FALSE) \in Seq(CallsOf("R", begun[n]))
         /\ process \in Seq(CallsOf("R", begun[n]))
    BY Zenon, <2>3, Leaves, ThreadNames
  <2>11. releaseOf(c, e) \o callbackOf(c, e, FALSE) \o process \in Seq(CallsOf("R", begun[n]))
    BY Zenon, <2>10, ConcatProperties
  <2> QED  BY Zenon, <1>3, <2>2, <2>5, <2>6, <2>7, <2>8, <2>9, <2>11, MessageStep
<1> QED  BY Zenon, <1>4, <1>5

-----------------------------------------------------------------------------
(* M registers and closes.                                                 *)

(* The connections that a user holds, after a registration or a close.     *)
LEMMA UsersType ==
  ASSUME IInv, NEW n \in Nodes, NEW c \in ConnIds
  PROVE  /\ users' = [users EXCEPT ![n] = @ \cup {c}] => users' \in [Nodes -> SUBSET ConnIds]
         /\ users' = [users EXCEPT ![n] = @ \ {c}] => users' \in [Nodes -> SUBSET ConnIds]
<1>1. users \in [Nodes -> SUBSET ConnIds]
  BY Zenon DEF IInv, Basics
<1> QED  BY <1>1

(* closeConnection.                                                        *)
LEMMA StepClose ==
  ASSUME IInv, NEW n \in Nodes, NEW c \in ConnIds, closeConnection(n, c)
  PROVE  IInv'
<1> /\ Enter(n, "M") /\ UNCHANGED <<armed, begun, toClient, told, heard, answers>>
    /\ users' = [users EXCEPT ![n] = @ \ {c}]
  BY Zenon DEF closeConnection, sessionVars
<1>1. /\ users' \in [Nodes -> SUBSET ConnIds] /\ Becomes(begun, begun', n, begun[n])
      /\ Becomes(toClient, toClient', n, toClient[n])
      /\ Elsewhere(armed, armed', n) /\ armed'[n] \subseteq begun[n]
      /\ answers' \in [ConnIds -> Seq({"ok", "error"})]
  BY Zenon, LeftAlone, UsersType
<1>2. PICK tab, q, beg, next, hrd, ts, tc : View(n, tab, q, beg, next, hrd, ts, tc)
  BY Zenon, AtNode
<1> /\ tab = connStates_[n] /\ q = rendezvousConnIds_[n] /\ beg = begun[n]
    /\ next = nextConnIdx_[n] /\ hrd = heard[n] /\ ts = toServer[n] /\ tc = toClient[n]
    /\ Table(tab, q, beg) /\ Wire(n, tab, beg, next, hrd, ts, tc)
    /\ beg \subseteq beg /\ beg \subseteq beg \cup DOMAIN tab /\ Fewer(ts, ts, ToServer) /\ Fewer(tc, tc, ToClient)
  BY Zenon, <1>2 DEF View
<1>3. CASE c \notin Known(n)
  <2>1. UNCHANGED <<conn_, connStates_, rendezvousConnIds_, nextConnIdx_, calls, toServer>>
    BY Zenon, <1>3 DEF closeConnection, tableVars
  <2>2. /\ Becomes(connStates_, connStates_', n, tab) /\ Becomes(rendezvousConnIds_, rendezvousConnIds_', n, q)
        /\ Becomes(nextConnIdx_, nextConnIdx_', n, next) /\ Becomes(toServer, toServer', n, ts)
        /\ conn_' \in [Nodes -> BOOLEAN]
    BY Zenon, <2>1, LeftAlone
  <2>3. CallsKept(n, beg)
    BY Zenon, <2>1, CallEnter, ThreadNames
  <2> QED  BY Zenon, <1>1, <2>2, <2>3, NodeStep
<1>4. CASE c \in Known(n)
  <2>1. PICK e : e = connStates_[n][c]
    OBVIOUS
  <2>2. /\ connStates_' = Erased(n, c) /\ rendezvousConnIds_' = Removed(n, c)
        /\ sendMsg(n, close(c, FALSE)) \/ UNCHANGED toServer
        /\ Continue(n, "M", CloseCalls(c, e)) /\ UNCHANGED <<conn_, nextConnIdx_>>
    BY Zenon, <1>4, <2>1 DEF closeConnection
  <2>3. PICK new : Becomes(connStates_, connStates_', n, new) /\ Drops(new, tab, c)
    BY Zenon, <2>2, ErasedIs
  <2>4. Becomes(rendezvousConnIds_, rendezvousConnIds_', n, Without(q, c))
    BY Zenon, <2>2, RemovedIs
  <2>5. PICK us : Becomes(toServer, toServer', n, us) /\ Fewer(us, ts, ToServer)
    BY Zenon, <2>2, CloseSent, LeftAlone
  <2>6. Table(new, Without(q, c), beg)
    BY Zenon, <2>3, TableRemove
  <2>7. Wire(n, new, beg, next, hrd, us, tc)
    BY Zenon, <2>3, <2>5, WireDrops
  <2>8. CloseCalls(c, e) \in Seq(CallsOf("M", begun[n]))
    BY Zenon, Leaves, ThreadNames, ConcatProperties DEF CloseCalls
  <2>9. CallsKept(n, beg)
    BY Zenon, <2>2, <2>8, CallEnter, ThreadNames
  <2>10. Becomes(nextConnIdx_, nextConnIdx_', n, next) /\ conn_' \in [Nodes -> BOOLEAN]
    BY Zenon, <2>2, LeftAlone
  <2> QED  BY Zenon, <1>1, <2>3, <2>4, <2>5, <2>6, <2>7, <2>9, <2>10, NodeStep
<1> QED  BY Zenon, <1>3, <1>4

(* The id that a registered connection gets.                               *)
LEMMA NewId ==
  ASSUME IInv, NEW n \in Nodes, NewConnId(n).connIdx <= MaxConnIdx[n]
  PROVE  /\ NewConnId(n) \in ConnIds /\ NewConnId(n).nodeId = n
         /\ nextConnIdx_[n] <= NewConnId(n).connIdx
<1>1. PICK next : next = nextConnIdx_[n]
  OBVIOUS
<1>2. PICK i : i = IF next = 0 THEN 1 ELSE next
  OBVIOUS
<1>3. PICK c : c = [nodeId |-> n, connIdx |-> i]
  OBVIOUS
<1>4. next \in Nat
  BY Zenon, <1>1 DEF IInv, NodeInv, Wire
<1>5. NewConnId(n) = c /\ c.nodeId = n /\ c.connIdx = i
  BY <1>1, <1>2, <1>3 DEF NewConnId
<1>6. MaxConnIdx[n] \in Nat
  BY ClientAssumption
<1>7. i \in 1..MaxConnIdx[n] /\ next <= i
  BY <1>2, <1>4, <1>5, <1>6
<1>8. c \in [nodeId: {n}, connIdx: 1..MaxConnIdx[n]]
  BY <1>3, <1>7
<1>9. c \in ConnIds
  BY Zenon, <1>8 DEF ConnIds
<1> QED  BY Zenon, <1>1, <1>5, <1>7, <1>9

(* registerConnection: a new id at the end of the queue, asked for at once *)
(* if nothing else is under way.                                           *)
LEMMA StepRegister ==
  ASSUME IInv, NEW n \in Nodes, NEW d \in Nodes, registerConnection(n, d)
  PROVE  IInv'
<1>1. PICK c : c = NewConnId(n)
  OBVIOUS
<1>2. PICK now : now = CreateNow(n)
  OBVIOUS
<1>3. PICK e : e = [peer |-> d, mode |-> "Unknown", status |-> StatusAtRegister(now), callback |-> TRUE,
                    rSess |-> "none", keepalive |-> FALSE, proxySession |-> FALSE]
  OBVIOUS
<1>4. /\ Enter(n, "M") /\ conn_[n] /\ c.connIdx <= MaxConnIdx[n]
      /\ nextConnIdx_' = [nextConnIdx_ EXCEPT ![n] = c.connIdx + 1]
      /\ connStates_' = Put(n, c, e)
      /\ rendezvousConnIds_' = [rendezvousConnIds_ EXCEPT ![n] = Append(rendezvousConnIds_[n], c)]
      /\ now => sendMsg(n, create(c, d))
      /\ ~now => UNCHANGED toServer
      /\ users' = [users EXCEPT ![n] = @ \cup {c}]
      /\ UNCHANGED <<conn_, calls, armed, begun, toClient, told, heard, answers>>
  BY Zenon, <1>1, <1>2, <1>3 DEF registerConnection, sessionVars
<1>5. PICK tab, q, beg, next, hrd, ts, tc : View(n, tab, q, beg, next, hrd, ts, tc)
  BY Zenon, AtNode
<1> /\ tab = connStates_[n] /\ q = rendezvousConnIds_[n] /\ beg = begun[n]
    /\ next = nextConnIdx_[n] /\ hrd = heard[n] /\ ts = toServer[n] /\ tc = toClient[n]
    /\ Table(tab, q, beg) /\ Wire(n, tab, beg, next, hrd, ts, tc)
  BY Zenon, <1>5 DEF View
<1>6. c \in ConnIds /\ c.nodeId = n /\ next <= c.connIdx
  BY Zenon, <1>1, <1>4, NewId
<1>7. /\ e \in ConnState /\ Waiting(e) /\ (now => Asked(e)) /\ (~now => ~Asked(e))
  BY <1>3 DEF ConnState, Waiting, Asked, StatusAtRegister
<1>8. Asked(e) => q = <<>>
  BY Zenon, <1>2, <1>7 DEF CreateNow
<1>9. PICK new : Becomes(connStates_, connStates_', n, new) /\ Puts(new, tab, c, e)
  BY Zenon, <1>4, PutIs
<1>10. PICK after : after = c.connIdx + 1
  OBVIOUS
<1>11. DOMAIN tab \subseteq ConnIds /\ beg \subseteq ConnIds
  BY Zenon DEF Table
<1>12. /\ c \notin DOMAIN tab /\ c \notin beg /\ ~Has(ts, "CREATE", c) /\ ~Has(tc, "PENDING", c)
       /\ Wire(n, new, beg, after, hrd, ts, tc)
  BY <1>6, <1>9, <1>10, <1>11, WireRegister
<1>13. Table(new, Append(q, c), beg)
  BY Zenon, <1>6, <1>7, <1>8, <1>9, <1>12, TableAdd
<1>14. PICK us : Becomes(toServer, toServer', n, us) /\ Wire(n, new, beg, after, hrd, us, tc)
  <2>1. CASE now
    <3>1. c \in DOMAIN new /\ Asked(new[c])
      BY Zenon, <1>7, <1>9, <2>1 DEF Puts
    <3>2. Wire(n, new, beg, after, hrd, Append(ts, create(c, d)), tc)
      BY Zenon, <1>6, <1>12, <3>1, WireAsk
    <3>3. toServer' = [toServer EXCEPT ![n] = Append(ts, create(c, d))]
      BY Zenon, <1>4, <2>1 DEF sendMsg
    <3>4. Becomes(toServer, toServer', n, Append(ts, create(c, d)))
      BY Zenon, <3>3, ElsewhereExcept DEF IInv, Maps
    <3> QED  BY Zenon, <3>2, <3>4
  <2>2. CASE ~now
    BY Zenon, <1>4, <1>12, <2>2, LeftAlone
  <2> QED  BY Zenon, <2>1, <2>2
<1>15. /\ Becomes(rendezvousConnIds_, rendezvousConnIds_', n, Append(q, c))
       /\ Becomes(nextConnIdx_, nextConnIdx_', n, after)
  BY Zenon, <1>4, <1>10, ElsewhereExcept DEF IInv, Maps
<1>16. /\ users' \in [Nodes -> SUBSET ConnIds] /\ Becomes(begun, begun', n, beg)
       /\ Becomes(toClient, toClient', n, tc) /\ conn_' \in [Nodes -> BOOLEAN]
       /\ Elsewhere(armed, armed', n) /\ armed'[n] \subseteq beg
       /\ answers' \in [ConnIds -> Seq({"ok", "error"})]
  BY Zenon, <1>4, <1>6, LeftAlone, UsersType
<1>17. CallsKept(n, beg)
  BY Zenon, <1>4, CallEnter, ThreadNames
<1> QED  BY Zenon, <1>4, <1>9, <1>13, <1>14, <1>15, <1>16, <1>17, NodeStep
=============================================================================
