------------------------ MODULE PortAllocatorProofs ------------------------
(* The port pool's invariants for any number of ports, sessions and ticks. *)
EXTENDS PortAllocator, FiniteSetTheorems, SequenceTheorems, TLAPS

USE ZenonT(3), SMTT(30)

(* What the reactor thread holds between two steps, and what a reservation *)
(* that does not exist looks like.                                         *)
Bookkeeping ==
    /\ handler = "none" => ~locked
    /\ turn = "scan" => handler = "onDecayTimeout"
    /\ \A r \in Reservations : r \notin live => ports[r] = {}

IInv == TypeOK /\ Bookkeeping /\ Accounting /\ Ownership /\ QueueSound /\ DecayTimerArmed

(* RemoveAt, with which onDecayTimeout takes its token and freeReservation a
   request, yields the other elements in their order. *)
LEMMA RemoveAtProperties ==
    ASSUME NEW S, NEW q \in Seq(S), NEW k \in 1..Len(q)
    PROVE  /\ RemoveAt(q, k) \in Seq(S)
           /\ Len(RemoveAt(q, k)) = Len(q) - 1
           /\ \A i \in 1..Len(RemoveAt(q, k)) :
                RemoveAt(q, k)[i] = IF i < k THEN q[i] ELSE q[i+1]
<1> DEFINE a == SubSeq(q, 1, k-1)
           b == SubSeq(q, k+1, Len(q))
           e == RemoveAt(q, k)
<1>1. /\ a \in Seq(S) /\ Len(a) = k - 1
      /\ \A i \in 1..(k-1) : a[i] = q[i]
  OBVIOUS
<1>2. /\ b \in Seq(S) /\ Len(b) = Len(q) - k
      /\ \A i \in 1..(Len(q) - k) : b[i] = q[k + i]
  OBVIOUS
<1>3. e = a \o b
  BY DEF RemoveAt
<1> HIDE DEF a, b, e
<1>4. Len(e) = Len(q) - 1 /\ e \in Seq(S)
  <2>1. a \in Seq(S) /\ b \in Seq(S)
    BY <1>1, <1>2
  <2>2. a \o b \in Seq(S) /\ Len(a \o b) = Len(a) + Len(b)
    BY <2>1, ConcatProperties
  <2>3. Len(e) = (k - 1) + (Len(q) - k) /\ e \in Seq(S)
    BY <2>2, <1>1, <1>2, <1>3
  <2>4. Len(q) \in Nat
    OBVIOUS
  <2> QED BY <2>3, <2>4
<1>5. ASSUME NEW i \in 1..Len(e)
      PROVE  e[i] = IF i < k THEN q[i] ELSE q[i+1]
  <2>1. CASE i < k
    BY <2>1, <1>1, <1>2, <1>3, <1>4
  <2>2. CASE i >= k
    <3>1. e[i] = b[i - (k - 1)]
      BY <2>2, <1>1, <1>2, <1>3, <1>4
    <3>2. i - (k - 1) \in 1..(Len(q) - k)
      BY <2>2, <1>4
    <3>3. b[i - (k - 1)] = q[k + (i - (k - 1))]
      BY Zenon, <3>2, <1>2
    <3>4. k + (i - (k - 1)) = i + 1
      OBVIOUS
    <3> QED BY <2>2, <3>1, <3>3, <3>4
  <2> QED BY <2>1, <2>2
<1> QED BY <1>4, <1>5 DEF e

(* Erase takes out the request of r and nothing else, in order. *)
LEMMA EraseProperties ==
    ASSUME NEW S, NEW q \in Seq(S), NEW r,
           \A i, j \in DOMAIN q : q[i] = q[j] => i = j
    PROVE  /\ Erase(q, r) \in Seq(S)
           /\ \A i \in DOMAIN Erase(q, r) : \E j \in DOMAIN q : q[j] = Erase(q, r)[i] /\ q[j] # r
           /\ \A j \in DOMAIN q : q[j] # r => \E i \in DOMAIN Erase(q, r) : Erase(q, r)[i] = q[j]
           /\ \A i, j \in DOMAIN Erase(q, r) : Erase(q, r)[i] = Erase(q, r)[j] => i = j
<1>1. CASE ~ \E i \in DOMAIN q : q[i] = r
  BY <1>1 DEF Erase
<1>2. CASE \E i \in DOMAIN q : q[i] = r
  <2> DEFINE k == CHOOSE i \in DOMAIN q : q[i] = r
             e == Erase(q, r)
  <2>1. k \in 1..Len(q) /\ q[k] = r
    BY <1>2
  <2>2. e = RemoveAt(q, k)
    BY <1>2 DEF Erase
  <2> HIDE DEF k, e
  <2>3. /\ e \in Seq(S)
        /\ Len(e) = Len(q) - 1
        /\ \A i \in 1..Len(e) : e[i] = IF i < k THEN q[i] ELSE q[i+1]
    BY Zenon, <2>1, <2>2, RemoveAtProperties
  <2>4. DOMAIN e = 1..Len(e)
    BY <2>3
  <2>5. \A i \in DOMAIN e : \E j \in DOMAIN q : q[j] = e[i] /\ q[j] # r
    <3> SUFFICES ASSUME NEW i \in DOMAIN e
                 PROVE  \E j \in DOMAIN q : q[j] = e[i] /\ q[j] # r
      OBVIOUS
    <3>1. CASE i < k
      BY <3>1, <2>1, <2>3, <2>4
    <3>2. CASE i >= k
      <4>1. i + 1 \in DOMAIN q /\ q[i + 1] = e[i] /\ i + 1 # k
        BY <3>2, <2>1, <2>3, <2>4
      <4> QED BY <4>1, <2>1
    <3> QED BY <3>1, <3>2, <2>1, <2>4
  <2>6. \A j \in DOMAIN q : q[j] # r => \E i \in DOMAIN e : e[i] = q[j]
    <3> SUFFICES ASSUME NEW j \in DOMAIN q, q[j] # r
                 PROVE  \E i \in DOMAIN e : e[i] = q[j]
      OBVIOUS
    <3>1. CASE j < k
      BY <3>1, <2>1, <2>3, <2>4
    <3>2. CASE j > k
      <4>1. j - 1 \in DOMAIN e /\ e[j - 1] = q[j]
        BY <3>2, <2>1, <2>3, <2>4
      <4> QED BY <4>1
    <3> QED BY <3>1, <3>2, <2>1
  <2>7. \A i, j \in DOMAIN e : e[i] = e[j] => i = j
    <3> SUFFICES ASSUME NEW i \in DOMAIN e, NEW j \in DOMAIN e, e[i] = e[j]
                 PROVE  i = j
      OBVIOUS
    <3>0. i \in 1..(Len(q) - 1) /\ j \in 1..(Len(q) - 1)
      BY <2>3, <2>4
    <3>1. /\ i \in Int /\ j \in Int /\ k \in Int
          /\ i < k => e[i] = q[i]
          /\ i >= k => e[i] = q[i+1]
          /\ j < k => e[j] = q[j]
          /\ j >= k => e[j] = q[j+1]
      BY <3>0, <2>1, <2>3, <2>4
    <3>2. i \in DOMAIN q /\ i + 1 \in DOMAIN q /\ j \in DOMAIN q /\ j + 1 \in DOMAIN q
      BY <3>0
    <3>3. CASE i < k /\ j < k
      BY Zenon, <3>1, <3>2, <3>3
    <3>4. CASE i >= k /\ j >= k
      <4>1. q[i + 1] = q[j + 1]
        BY <3>1, <3>4, <2>1
      <4>2. i + 1 = j + 1
        BY <4>1, <3>2
      <4> QED BY <4>2, <3>1, <3>4, <2>1
    <3>5. CASE i < k /\ j >= k
      <4>1. q[i] = q[j + 1]
        BY <3>1, <3>5, <2>1
      <4>2. i = j + 1
        BY <4>1, <3>2
      <4> QED BY <4>2, <3>1, <3>5, <2>1
    <3>6. CASE i >= k /\ j < k
      <4>1. q[i + 1] = q[j]
        BY <3>1, <3>6, <2>1
      <4>2. i + 1 = j
        BY <4>1, <3>2
      <4> QED BY <4>2, <3>1, <3>6, <2>1
    <3> QED BY <3>1, <3>3, <3>4, <3>5, <3>6, <2>1
  <2> QED BY <2>3, <2>5, <2>6, <2>7 DEF e
<1> QED BY <1>1, <1>2

(* Disjoint sets of ports add up. *)
LEMMA CardinalityUnion ==
    ASSUME NEW A, NEW B, IsFiniteSet(A), IsFiniteSet(B), A \cap B = {}
    PROVE  Cardinality(A \cup B) = Cardinality(A) + Cardinality(B)
<1>1. Cardinality(A \cup B) = Cardinality(A) + Cardinality(B) - Cardinality({})
  BY FS_Union
<1>2. Cardinality({}) = 0
  BY FS_EmptySet
<1>3. Cardinality(A) \in Nat /\ Cardinality(B) \in Nat
  BY FS_CardinalityType
<1> QED BY <1>1, <1>2, <1>3

(* Ports that go back to the pool are taken off the count. *)
LEMMA CardinalityRemove ==
    ASSUME NEW A, NEW B, IsFiniteSet(A), B \subseteq A
    PROVE  /\ Cardinality(A \ B) = Cardinality(A) - Cardinality(B)
           /\ Cardinality(A \ B) \in Nat
<1>1. A \cap B = B
  OBVIOUS
<1>2. Cardinality(A \ B) = Cardinality(A) - Cardinality(A \cap B) /\ IsFiniteSet(A \ B)
  BY FS_Difference
<1> QED BY Zenon, <1>1, <1>2, FS_CardinalityType

(* The sets of ports of a class are finite and their sizes are numbers. *)
LEMMA PortSetsFinite ==
    ASSUME NEW S, S \subseteq Ports
    PROVE  IsFiniteSet(S) /\ Cardinality(S) \in Nat
BY PortsAssumption, FS_Subset, FS_CardinalityType

(* A window that reservePorts can hand out. *)
LEMMA WindowProperties ==
    ASSUME TypeOK, NEW c \in Classes, NEW S \in Windows(c)
    PROVE  /\ S \subseteq Ports
           /\ S # {}
           /\ \A p \in S : status[p] = "Free"
           /\ Cardinality(S) \in Nat
           /\ reservedPorts_[c] + Cardinality(S) <= numPorts_(c)
<1>1. /\ ~(Window(c) + reservedPorts_[c] > numPorts_(c))
      /\ S \subseteq Reservable /\ Cardinality(S) = Window(c)
  BY DEF Windows
<1>2. S \subseteq Ports /\ \A p \in S : status[p] = "Free"
  BY <1>1 DEF Reservable
<1>3. Window(c) \in Nat \ {0} /\ numPorts_(c) \in Nat /\ reservedPorts_[c] \in Nat
  BY WindowAssumption, PortsAssumption DEF Window, numPorts_, TypeOK
<1>4. S # {}
  BY <1>1, <1>3, FS_EmptySet
<1> QED BY <1>1, <1>2, <1>3, <1>4

(* Reserving a window for a reservation without ports. *)
LEMMA ReserveKeepsPorts ==
    ASSUME TypeOK, Accounting, Ownership, Bookkeeping,
           NEW r \in Reservations, NEW c \in Classes, NEW S \in Windows(c),
           ports[r] = {}, reservePorts(r, c, S),
           live' = live \cup {r}
    PROVE  /\ status' \in [Ports -> Status]
           /\ reservedPorts_' \in [Classes -> Nat]
           /\ ports' \in [Reservations -> SUBSET Ports]
           /\ Accounting'
           /\ Ownership'
<1>1. /\ S \subseteq Ports /\ S # {} /\ \A p \in S : status[p] = "Free"
      /\ Cardinality(S) \in Nat
      /\ reservedPorts_[c] + Cardinality(S) <= numPorts_(c)
  BY WindowProperties
<1>2. status' \in [Ports -> Status]
  BY <1>1 DEF reservePorts, TypeOK, Status
<1>3. reservedPorts_' \in [Classes -> Nat]
  BY <1>1 DEF reservePorts, TypeOK
<1>4. ports' \in [Reservations -> SUBSET Ports]
  BY <1>1 DEF reservePorts, TypeOK
<1>5. Accounting'
  <2> SUFFICES ASSUME NEW d \in Classes
               PROVE  /\ reservedPorts_'[d] = Cardinality(ReservedFor(d)')
                      /\ reservedPorts_'[d] <= numPorts_(d)
    BY DEF Accounting, numPorts_
  <2>1. CASE d = c
    <3>1. ReservedFor(c)' = ReservedFor(c) \cup S /\ ReservedFor(c) \cap S = {}
      BY <1>1 DEF ReservedFor, reservePorts, Classes, TypeOK
    <3>2. IsFiniteSet(ReservedFor(c)) /\ IsFiniteSet(S)
      BY <1>1, PortSetsFinite DEF ReservedFor
    <3>3. Cardinality(ReservedFor(c)') = Cardinality(ReservedFor(c)) + Cardinality(S)
      BY <3>1, <3>2, CardinalityUnion
    <3> QED BY <2>1, <3>3, <1>1 DEF Accounting, reservePorts, TypeOK
  <2>2. CASE d # c
    <3>1. ReservedFor(d)' = ReservedFor(d)
      BY <2>2, <1>1 DEF ReservedFor, reservePorts, Classes, TypeOK
    <3> QED BY <2>2, <3>1 DEF Accounting, reservePorts, TypeOK
  <2> QED BY <2>1, <2>2
<1>6. Ownership'
  <2>1. \A q \in Reservations : q # r => ports[q] \cap S = {}
    BY <1>1 DEF Ownership, Bookkeeping
  <2>2. \A s, t \in Reservations : s # t => ports'[s] \cap ports'[t] = {}
    BY <2>1 DEF Ownership, reservePorts, TypeOK
  <2>3. \A p \in Ports : status'[p] # "Free" <=> \E q \in live' : p \in ports'[q]
    <3> SUFFICES ASSUME NEW p \in Ports
                 PROVE  status'[p] # "Free" <=> \E q \in live' : p \in ports'[q]
      OBVIOUS
    <3>1. CASE p \in S
      BY <3>1 DEF reservePorts, TypeOK, Classes
    <3>2. CASE p \notin S
      BY <3>2 DEF reservePorts, TypeOK, Ownership
    <3> QED BY <3>1, <3>2
  <2>4. \A q \in Reservations : \A p1, p2 \in ports'[q] : status'[p1] = status'[p2]
    BY <1>1, <2>1 DEF Ownership, reservePorts, TypeOK
  <2> QED BY <2>2, <2>3, <2>4 DEF Ownership
<1> QED BY <1>2, <1>3, <1>4, <1>5, <1>6

(* Taking the ports F of one reservation out of it, for both               *)
(* keepaliveReservation (all but one) and freeReservation (all).           *)
LEMMA ReleaseKeepsPorts ==
    ASSUME TypeOK, Accounting, Ownership, Bookkeeping,
           NEW r \in live, NEW p \in ports[r], NEW F \in SUBSET ports[r],
           status' = [q \in Ports |-> IF q \in F THEN "Free" ELSE status[q]],
           reservedPorts_' = [reservedPorts_ EXCEPT ![status[p]] = @ - Cardinality(F)],
           ports' = [ports EXCEPT ![r] = ports[r] \ F],
           \/ live' = live
           \/ live' = live \ {r} /\ F = ports[r]
    PROVE  /\ status' \in [Ports -> Status]
           /\ reservedPorts_' \in [Classes -> Nat]
           /\ ports' \in [Reservations -> SUBSET Ports]
           /\ Accounting'
           /\ Ownership'
<1>0. status[p] \in Classes
  BY DEF TypeOK, Ownership, Status
<1> PICK c \in Classes : c = status[p]
  BY <1>0
<1>1. r \in Reservations /\ F \subseteq Ports
  BY DEF TypeOK
<1>2. \A q \in F : status[q] = c
  BY <1>1 DEF Ownership
<1>3. F \subseteq ReservedFor(c)
  BY <1>1, <1>2 DEF ReservedFor
<1>4. IsFiniteSet(ReservedFor(c))
  BY PortSetsFinite DEF ReservedFor
<1>5. /\ Cardinality(ReservedFor(c) \ F) = reservedPorts_[c] - Cardinality(F)
      /\ Cardinality(ReservedFor(c) \ F) \in Nat
  BY <1>1, <1>3, <1>4, CardinalityRemove DEF Accounting
<1>6. /\ reservedPorts_' \in [Classes -> Nat]
      /\ reservedPorts_'[c] = Cardinality(ReservedFor(c) \ F)
      /\ \A d \in Classes : d # c => reservedPorts_'[d] = reservedPorts_[d]
  BY <1>1, <1>5 DEF TypeOK
<1>7. status' \in [Ports -> Status]
  BY <1>1 DEF TypeOK, Status
<1>8. ports' \in [Reservations -> SUBSET Ports]
  BY <1>1 DEF TypeOK
<1>9. Accounting'
  <2> SUFFICES ASSUME NEW d \in Classes
               PROVE  /\ reservedPorts_'[d] = Cardinality(ReservedFor(d)')
                      /\ reservedPorts_'[d] <= numPorts_(d)
    BY DEF Accounting, numPorts_
  <2>1. CASE d = c
    <3>1. ReservedFor(c)' = ReservedFor(c) \ F
      BY <1>1, <1>2 DEF ReservedFor, Classes
    <3>2. numPorts_(c) \in Nat /\ reservedPorts_[c] \in Nat /\ reservedPorts_[c] <= numPorts_(c)
      BY <1>1, PortsAssumption DEF numPorts_, TypeOK, Accounting
    <3>3. Cardinality(F) \in Nat
      BY <1>1, PortSetsFinite
    <3> QED BY <2>1, <3>1, <3>2, <3>3, <1>5, <1>6
  <2>2. CASE d # c
    <3>1. ReservedFor(d)' = ReservedFor(d)
      BY <2>2, <1>1, <1>2 DEF ReservedFor, Classes
    <3> QED BY <2>2, <3>1, <1>6 DEF Accounting
  <2> QED BY <2>1, <2>2
<1>10. Ownership'
  <2>1. \A q \in Reservations : q # r => ports[q] \cap F = {}
    BY <1>1 DEF Ownership
  <2>2. \A s, t \in Reservations : s # t => ports'[s] \cap ports'[t] = {}
    BY <1>1 DEF Ownership, TypeOK
  <2>3. \A x \in Ports : status'[x] # "Free" <=> \E q \in live' : x \in ports'[q]
    <3> SUFFICES ASSUME NEW x \in Ports
                 PROVE  status'[x] # "Free" <=> \E q \in live' : x \in ports'[q]
      OBVIOUS
    <3>0. live' \subseteq live /\ live \subseteq Reservations
      BY DEF TypeOK
    <3>1. CASE x \in F
      <4>1. \A q \in live : x \notin ports'[q]
        BY <3>0, <3>1, <2>1, <1>1 DEF TypeOK
      <4> QED BY <3>0, <3>1, <4>1
    <3>2. CASE x \notin F
      <4>1. \A q \in live : x \in ports'[q] <=> x \in ports[q]
        BY <3>0, <3>2, <1>1 DEF TypeOK
      <4>2. \A q \in live : x \in ports[q] => q \in live'
        BY <3>0, <3>2
      <4> QED BY <3>0, <3>2, <4>1, <4>2 DEF Ownership
    <3> QED BY <3>1, <3>2
  <2>4. \A q \in Reservations : \A p1, p2 \in ports'[q] : status'[p1] = status'[p2]
    <3> SUFFICES ASSUME NEW q \in Reservations, NEW p1 \in ports'[q], NEW p2 \in ports'[q]
                 PROVE  status'[p1] = status'[p2]
      OBVIOUS
    <3>1. p1 \in ports[q] /\ p2 \in ports[q] /\ p1 \notin F /\ p2 \notin F
      BY <2>1, <1>1 DEF TypeOK
    <3>2. p1 \in Ports /\ p2 \in Ports
      BY <3>1 DEF TypeOK
    <3> QED BY <3>1, <3>2 DEF Ownership
  <2> QED BY <2>2, <2>3, <2>4 DEF Ownership
<1> QED BY <1>6, <1>7, <1>8, <1>9, <1>10

(* The decay timer invariant mentions these variables only. *)
LEMMA TimerUnchanged ==
    ASSUME DecayTimerArmed, UNCHANGED <<decay, decayTokens, handler, decayRunning_>>
    PROVE  DecayTimerArmed'
BY DEF DecayTimerArmed, Decaying

(* Accounting and Ownership depend on status, ports and reservedPorts_ only. *)
LEMMA PortsUnchanged ==
    ASSUME Accounting, Ownership, UNCHANGED <<status, reservedPorts_, ports>>,
           live' = live \/ (\E r \in Reservations : ports[r] = {} /\ live' \in {live \cup {r}, live \ {r}})
    PROVE  Accounting' /\ Ownership'
<1>1. Accounting'
  BY DEF Accounting, ReservedFor, numPorts_
<1>2. \A p \in Ports : (\E r \in live' : p \in ports[r]) <=> (\E r \in live : p \in ports[r])
  OBVIOUS
<1>3. Ownership'
  BY <1>2 DEF Ownership
<1> QED BY <1>1, <1>3

(* An operation that touches neither the queues nor who has ports. *)
LEMMA QueueUnchanged ==
    ASSUME QueueSound, UNCHANGED <<requests_, live>>,
           \A r \in live : ports'[r] = {} <=> ports[r] = {}
    PROVE  QueueSound'
BY DEF QueueSound

(* StartDecay leaves one timer due, posted now or before (useReservation,
   freeReservation). *)
LEMMA StartDecayArms ==
    ASSUME TypeOK, DecayTimerArmed, StartDecay, UNCHANGED handler
    PROVE  /\ DecayTimerArmed'
           /\ decayRunning_' \in BOOLEAN
           /\ decayTokens' \in Seq(0..(DecayTimeout + 1))
<1>1. DecayTimeout + 1 \in 0..(DecayTimeout + 1)
  BY DecayAssumption
<1>2. CASE decayRunning_
  BY <1>2 DEF StartDecay, TypeOK, DecayTimerArmed
<1>3. CASE ~decayRunning_
  <2>1. /\ decayTokens \in Seq(0..(DecayTimeout + 1))
        /\ Len(decayTokens) = 0 /\ handler # "onDecayTimeout"
    BY <1>3 DEF TypeOK, DecayTimerArmed
  <2>2. /\ decayTokens' \in Seq(0..(DecayTimeout + 1))
        /\ Len(decayTokens') = 1
    BY <1>1, <1>3, <2>1 DEF StartDecay
  <2> QED BY <2>1, <2>2 DEF StartDecay, DecayTimerArmed
<1> QED BY <1>2, <1>3

(* reserveSymmPorts and reserveFastPorts preserve the invariant. *)
LEMMA ReserveNowKeepsIInv ==
    ASSUME IInv, NEW r \in Reservations, NEW c \in Classes, reserveNow(r, c)
    PROVE  IInv'
<1>1. PICK S \in Windows(c) : reservePorts(r, c, S)
  BY DEF reserveNow
<1>2. ports[r] = {} /\ live' = live \cup {r} /\ r \notin live
  BY DEF IInv, Bookkeeping, reserveNow
<1>3. /\ status' \in [Ports -> Status]
      /\ reservedPorts_' \in [Classes -> Nat]
      /\ ports' \in [Reservations -> SUBSET Ports]
      /\ Accounting' /\ Ownership'
  BY <1>1, <1>2, ReserveKeepsPorts DEF IInv
<1>4. TypeOK'
  BY <1>2, <1>3 DEF IInv, TypeOK, reserveNow, Call
<1>5. ports' = [ports EXCEPT ![r] = S] /\ S # {}
  BY <1>1, WindowProperties DEF reservePorts, IInv
<1>6. Bookkeeping'
  BY <1>2, <1>5 DEF IInv, TypeOK, Bookkeeping, reserveNow, Call
<1>7. QueueSound'
  <2>1. requests_' = requests_ /\ QueueSound
    BY DEF reserveNow, IInv
  <2>2. \A q \in Reservations : q # r => ports'[q] = ports[q]
    BY <1>5 DEF IInv, TypeOK
  <2>3. ports'[r] # {} /\ live \subseteq Reservations
    BY <1>5 DEF IInv, TypeOK
  <2>4. \A d \in Classes : \A i \in DOMAIN requests_'[d] :
            requests_'[d][i] \in live' /\ ports'[requests_'[d][i]] = {}
    BY <2>1, <2>2, <2>3, <1>2 DEF QueueSound
  <2>5. \A q \in live' : ports'[q] = {} =>
            \E d \in Classes : \E i \in DOMAIN requests_'[d] : requests_'[d][i] = q
    BY <2>1, <2>2, <2>3, <1>2 DEF QueueSound
  <2> QED BY <2>1, <2>4, <2>5 DEF QueueSound
<1>8. DecayTimerArmed'
  BY TimerUnchanged DEF IInv, reserveNow, Call
<1> QED BY <1>3, <1>4, <1>6, <1>7, <1>8 DEF IInv

(* The best-effort requests preserve the invariant: the new reservation is
   queued once. *)
LEMMA ReserveBestEffortKeepsIInv ==
    ASSUME IInv, NEW r \in Reservations, NEW c \in Classes, reserveBestEffort(r, c)
    PROVE  IInv'
<1>1. /\ ports[r] = {} /\ live' = live \cup {r} /\ r \notin live /\ ports' = ports
      /\ requests_' = [requests_ EXCEPT ![c] = Append(requests_[c], r)]
      /\ requests_ \in [Classes -> Seq(Reservations)]
  BY DEF IInv, Bookkeeping, reserveBestEffort, TypeOK
<1>2. requests_' \in [Classes -> Seq(Reservations)]
  BY <1>1
<1>3. TypeOK'
  BY <1>1, <1>2, PostedAssumption DEF IInv, TypeOK, reserveBestEffort, Call, PostProcess, portVars
<1>4. Bookkeeping'
  BY <1>1 DEF IInv, Bookkeeping, reserveBestEffort, Call
<1>5. Accounting' /\ Ownership'
  BY <1>1, PortsUnchanged DEF IInv, reserveBestEffort, portVars
<1>6. /\ \A d \in Classes : d # c => requests_'[d] = requests_[d]
      /\ Len(requests_'[c]) = Len(requests_[c]) + 1
      /\ DOMAIN requests_'[c] = 1..(Len(requests_[c]) + 1)
      /\ \A i \in 1..Len(requests_[c]) : requests_'[c][i] = requests_[c][i]
      /\ requests_'[c][Len(requests_[c]) + 1] = r
      /\ DOMAIN requests_[c] = 1..Len(requests_[c]) /\ Len(requests_[c]) \in Nat
  BY <1>1
<1>7. QueueSound'
  <2>1. \A d \in Classes : \A i \in DOMAIN requests_[d] :
            requests_[d][i] \in live /\ requests_[d][i] # r
    BY <1>1 DEF IInv, QueueSound
  <2>2. \A d \in Classes : \A i \in DOMAIN requests_'[d] :
            requests_'[d][i] \in live' /\ ports'[requests_'[d][i]] = {}
    BY <1>1, <1>6 DEF IInv, QueueSound
  <2>3. \A q \in live' : ports'[q] = {} =>
            \E d \in Classes : \E i \in DOMAIN requests_'[d] : requests_'[d][i] = q
    <3> SUFFICES ASSUME NEW q \in live', ports'[q] = {}
                 PROVE  \E d \in Classes : \E i \in DOMAIN requests_'[d] : requests_'[d][i] = q
      OBVIOUS
    <3>1. CASE q = r
      BY <3>1, <1>6
    <3>2. CASE q \in live
      <4>1. PICK d \in Classes : \E i \in DOMAIN requests_[d] : requests_[d][i] = q
        BY <3>2, <1>1 DEF IInv, QueueSound
      <4> QED BY <4>1, <1>6
    <3> QED BY <3>1, <3>2, <1>1
  <2>4. \A d, e \in Classes : \A i \in DOMAIN requests_'[d], j \in DOMAIN requests_'[e] :
            requests_'[d][i] = requests_'[e][j] => d = e /\ i = j
    <3> SUFFICES ASSUME NEW d \in Classes, NEW e \in Classes,
                        NEW i \in DOMAIN requests_'[d], NEW j \in DOMAIN requests_'[e],
                        requests_'[d][i] = requests_'[e][j]
                 PROVE  d = e /\ i = j
      OBVIOUS
    <3> DEFINE old(x, k) == k \in DOMAIN requests_[x]
    <3>1. \A x \in Classes : \A k \in DOMAIN requests_'[x] :
            \/ old(x, k) /\ requests_'[x][k] = requests_[x][k]
            \/ x = c /\ k = Len(requests_[c]) + 1 /\ requests_'[x][k] = r
      BY <1>6
    <3>2. CASE /\ old(d, i) /\ requests_'[d][i] = requests_[d][i]
               /\ old(e, j) /\ requests_'[e][j] = requests_[e][j]
      <4>1. requests_[d][i] = requests_[e][j] => d = e /\ i = j
        BY <3>2 DEF IInv, QueueSound
      <4> QED BY Zenon, <3>2, <4>1
    <3> QED BY <3>1, <3>2, <2>1
  <2> QED BY <2>2, <2>3, <2>4 DEF QueueSound
<1>8. DecayTimerArmed'
  BY TimerUnchanged DEF IInv, reserveBestEffort, Call, portVars
<1> QED BY <1>3, <1>4, <1>5, <1>7, <1>8 DEF IInv

(* useReservation preserves the invariant: the ports it puts in quarantine
   have a timer. *)
LEMMA UseKeepsIInv ==
    ASSUME IInv, NEW r \in Reservations, useReservation(r)
    PROVE  IInv'
<1>1. /\ DecayTimerArmed' /\ decayRunning_' \in BOOLEAN
      /\ decayTokens' \in Seq(0..(DecayTimeout + 1))
  BY StartDecayArms DEF IInv, useReservation, Call
<1>2. decay' \in [Ports -> 0..Forever] /\ cool' \in [Ports -> 0..DecayTimeout]
  BY DecayAssumption DEF IInv, TypeOK, useReservation, Forever
<1>3. TypeOK'
  BY <1>1, <1>2 DEF IInv, TypeOK, useReservation, Call
<1>4. Bookkeeping'
  BY DEF IInv, Bookkeeping, useReservation, Call
<1>5. Accounting' /\ Ownership'
  BY PortsUnchanged DEF IInv, useReservation
<1>6. QueueSound'
  BY QueueUnchanged DEF IInv, useReservation
<1> QED BY <1>1, <1>3, <1>4, <1>5, <1>6 DEF IInv

(* keepaliveReservation preserves the invariant: one port stays reserved. *)
LEMMA KeepaliveKeepsIInv ==
    ASSUME IInv, NEW r \in Reservations, keepaliveReservation(r)
    PROVE  IInv'
<1>1. PICK p \in ports[r] :
        /\ status' = [q \in Ports |-> IF q \in ports[r] \ {p} THEN "Free" ELSE status[q]]
        /\ reservedPorts_' = [reservedPorts_ EXCEPT ![status[p]] = @ - KeepaliveReleased(r)]
        /\ ports' = [ports EXCEPT ![r] = KeepalivePorts(r, p)]
        /\ decay' = [decay EXCEPT ![p] = KeptDecay(p)]
        /\ cool' = [cool EXCEPT ![p] = 0]
  BY Zenon DEF keepaliveReservation
<1> DEFINE F == ports[r] \ {p}
<1>2. r \in live /\ ports[r] \subseteq Ports /\ p \in Ports
  BY DEF IInv, TypeOK, Bookkeeping
<1>3. Cardinality(F) = KeepaliveReleased(r)
  BY <1>2, PortSetsFinite, FS_RemoveElement DEF KeepaliveReleased
<1>4. ports[r] \ F = KeepalivePorts(r, p)
  BY DEF KeepalivePorts
<1>5. live' = live
  BY DEF keepaliveReservation
<1>6. /\ status' \in [Ports -> Status]
      /\ reservedPorts_' \in [Classes -> Nat]
      /\ ports' \in [Reservations -> SUBSET Ports]
      /\ Accounting' /\ Ownership'
  <2>1. /\ F \in SUBSET ports[r]
        /\ status' = [q \in Ports |-> IF q \in F THEN "Free" ELSE status[q]]
        /\ reservedPorts_' = [reservedPorts_ EXCEPT ![status[p]] = @ - Cardinality(F)]
        /\ ports' = [ports EXCEPT ![r] = ports[r] \ F]
    BY Zenon, <1>1, <1>3, <1>4
  <2> HIDE DEF F
  <2> QED BY Zenon, <2>1, <1>2, <1>5, ReleaseKeepsPorts DEF IInv
<1>7. decay' \in [Ports -> 0..Forever] /\ cool' \in [Ports -> 0..DecayTimeout]
  BY <1>1, DecayAssumption DEF IInv, TypeOK, Forever, KeptDecay
<1>8. TypeOK'
  BY SMTT(30), <1>2, <1>6, <1>7, PostedAssumption DEF IInv, TypeOK, keepaliveReservation, Call, PostProcess
<1>9. ports'[r] = {p} /\ \A q \in Reservations : q # r => ports'[q] = ports[q]
  BY <1>1 DEF IInv, TypeOK, KeepalivePorts
<1>10. Bookkeeping'
  BY <1>2, <1>9 DEF IInv, Bookkeeping, keepaliveReservation, Call
<1>11. QueueSound'
  <2>1. \A q \in live : ports'[q] = {} <=> ports[q] = {}
    BY Zenon, <1>9 DEF IInv, TypeOK
  <2> QED BY Zenon, <2>1, QueueUnchanged DEF IInv, keepaliveReservation
<1>12. DecayTimerArmed'
  <2>1. Decaying' \subseteq Decaying
    <3>1. \A q \in Ports : decay'[q] = decay[q] \/ decay'[q] = Forever
      BY <1>1 DEF KeptDecay, IInv, TypeOK
    <3>2. ~(Forever < Forever)
      BY DecayAssumption DEF Forever
    <3> QED BY <3>1, <3>2 DEF Decaying, Forever
  <2> QED BY Zenon, <2>1 DEF IInv, DecayTimerArmed, keepaliveReservation, Call
<1> QED BY <1>6, <1>8, <1>10, <1>11, <1>12 DEF IInv

(* freeReservation of a queued reservation preserves the invariant: no
   request is left behind. *)
LEMMA FreeRequestKeepsIInv ==
    ASSUME IInv, NEW r \in Reservations, freeReservation(r), FreeRequest(r)
    PROVE  IInv'
<1>1. /\ r \in live /\ live' = live \ {r} /\ ports[r] = {} /\ ports' = ports
      /\ requests_' = [c \in Classes |-> Erase(requests_[c], r)]
      /\ requests_ \in [Classes -> Seq(Reservations)]
  BY DEF IInv, TypeOK, freeReservation, FreeRequest
<1>2. \A c \in Classes :
        /\ requests_'[c] \in Seq(Reservations)
        /\ \A i \in DOMAIN requests_'[c] :
             \E j \in DOMAIN requests_[c] : requests_[c][j] = requests_'[c][i] /\ requests_[c][j] # r
        /\ \A j \in DOMAIN requests_[c] : requests_[c][j] # r =>
             \E i \in DOMAIN requests_'[c] : requests_'[c][i] = requests_[c][j]
        /\ \A i, j \in DOMAIN requests_'[c] : requests_'[c][i] = requests_'[c][j] => i = j
  <2> SUFFICES ASSUME NEW c \in Classes
               PROVE  /\ Erase(requests_[c], r) \in Seq(Reservations)
                      /\ \A i \in DOMAIN Erase(requests_[c], r) :
                           \E j \in DOMAIN requests_[c] :
                              requests_[c][j] = Erase(requests_[c], r)[i] /\ requests_[c][j] # r
                      /\ \A j \in DOMAIN requests_[c] : requests_[c][j] # r =>
                           \E i \in DOMAIN Erase(requests_[c], r) :
                              Erase(requests_[c], r)[i] = requests_[c][j]
                      /\ \A i, j \in DOMAIN Erase(requests_[c], r) :
                           Erase(requests_[c], r)[i] = Erase(requests_[c], r)[j] => i = j
    BY SMTT(30), <1>1
  <2>1. \A i, j \in DOMAIN requests_[c] : requests_[c][i] = requests_[c][j] => i = j
    BY SMTT(30) DEF IInv, QueueSound
  <2>2. requests_[c] \in Seq(Reservations)
    BY Zenon, <1>1
  <2> QED BY Zenon, <2>1, <2>2, EraseProperties
<1>3. TypeOK'
  <2>1. requests_' \in [Classes -> Seq(Reservations)]
    BY Zenon, <1>1, <1>2
  <2> QED BY <1>1, <2>1 DEF IInv, TypeOK, freeReservation, FreeRequest, Call, portVars
<1>4. Bookkeeping'
  BY Zenon, <1>1 DEF IInv, Bookkeeping, freeReservation, Call
<1>5. Accounting' /\ Ownership'
  BY Zenon, <1>1, PortsUnchanged DEF IInv, FreeRequest, portVars
<1>6. QueueSound'
  <2>1. \A c \in Classes : \A i \in DOMAIN requests_'[c] :
            requests_'[c][i] \in live' /\ ports'[requests_'[c][i]] = {}
    BY SMTT(30), <1>1, <1>2 DEF IInv, QueueSound
  <2>2. \A q \in live' : ports'[q] = {} =>
            \E c \in Classes : \E i \in DOMAIN requests_'[c] : requests_'[c][i] = q
    <3> SUFFICES ASSUME NEW q \in live', ports'[q] = {}
                 PROVE  \E c \in Classes : \E i \in DOMAIN requests_'[c] : requests_'[c][i] = q
      OBVIOUS
    <3>1. PICK c \in Classes : \E j \in DOMAIN requests_[c] : requests_[c][j] = q
      BY Zenon, <1>1 DEF IInv, QueueSound
    <3>2. q # r
      BY <1>1
    <3>3. PICK j \in DOMAIN requests_[c] : requests_[c][j] = q
      BY <3>1
    <3>4. \E i \in DOMAIN requests_'[c] : requests_'[c][i] = q
      BY SMTT(30), <3>2, <3>3, <1>2
    <3> QED BY Zenon, <3>4
  <2>3. \A c, d \in Classes : \A i \in DOMAIN requests_'[c], j \in DOMAIN requests_'[d] :
            requests_'[c][i] = requests_'[d][j] => c = d /\ i = j
    <3> SUFFICES ASSUME NEW c \in Classes, NEW d \in Classes,
                        NEW i \in DOMAIN requests_'[c], NEW j \in DOMAIN requests_'[d],
                        requests_'[c][i] = requests_'[d][j]
                 PROVE  c = d /\ i = j
      OBVIOUS
    <3>1. c = d
      BY SMTT(30), <1>2 DEF IInv, QueueSound
    <3> QED BY <3>1, <1>2
  <2> QED BY <2>1, <2>2, <2>3 DEF QueueSound
<1>7. DecayTimerArmed'
  BY TimerUnchanged DEF IInv, freeReservation, FreeRequest, Call, portVars
<1> QED BY <1>3, <1>4, <1>5, <1>6, <1>7 DEF IInv

(* freeReservation of a granted reservation preserves the invariant. *)
LEMMA FreePortsKeepsIInv ==
    ASSUME IInv, NEW r \in Reservations, freeReservation(r), FreePorts(r)
    PROVE  IInv'
<1> DEFINE kept == {p \in ports[r] : decay[p] = Forever}
<1>1. /\ r \in live /\ live' = live \ {r} /\ keptAlive' = keptAlive \ {r}
      /\ UNCHANGED <<handler, turn, locked, requests_, cool>>
      /\ ports' = [ports EXCEPT ![r] = {}]
  BY Zenon DEF freeReservation, FreePorts, Call
<1>2. PICK p \in ports[r] :
        reservedPorts_' = [reservedPorts_ EXCEPT ![status[p]] = @ - Cardinality(ports[r])]
  BY Zenon DEF FreePorts
<1>3. /\ status' \in [Ports -> Status]
      /\ reservedPorts_' \in [Classes -> Nat]
      /\ ports' \in [Reservations -> SUBSET Ports]
      /\ Accounting' /\ Ownership'
  <2> DEFINE F == ports[r]
  <2>1. /\ F \in SUBSET ports[r]
        /\ status' = [q \in Ports |-> IF q \in F THEN "Free" ELSE status[q]]
        /\ reservedPorts_' = [reservedPorts_ EXCEPT ![status[p]] = @ - Cardinality(F)]
        /\ ports' = [ports EXCEPT ![r] = ports[r] \ F]
        /\ live' = live \ {r} /\ F = ports[r]
    BY Zenon, <1>1, <1>2 DEF FreePorts
  <2> HIDE DEF F
  <2>2. r \in live /\ (live' = live \/ (live' = live \ {r} /\ F = ports[r]))
    BY <2>1, <1>1
  <2>3. TypeOK /\ Accounting /\ Ownership /\ Bookkeeping
    BY Zenon DEF IInv
  <2> QED BY Zenon, <2>1, <2>2, <2>3, ReleaseKeepsPorts
<1>4. decay' \in [Ports -> 0..Forever]
  <2>1. decay \in [Ports -> 0..Forever] /\ Forever \in Nat
    BY DecayAssumption DEF IInv, TypeOK, Forever
  <2>2. DecayTimeout \in 0..Forever
    BY DecayAssumption DEF Forever
  <2> QED BY <2>1, <2>2 DEF FreePorts
<1>5. /\ DecayTimerArmed' /\ decayRunning_' \in BOOLEAN
      /\ decayTokens' \in Seq(0..(DecayTimeout + 1))
  <2>1. CASE kept # {}
    <3>1. StartDecay
      BY Zenon, <2>1 DEF FreePorts
    <3> QED BY <3>1, <1>1, StartDecayArms DEF IInv
  <2>2. CASE kept = {}
    <3>1. UNCHANGED <<decayRunning_, decayTokens>>
      BY Zenon, <2>2 DEF FreePorts
    <3>2. decay' = decay
      BY Zenon, <2>2 DEF FreePorts, IInv, TypeOK
    <3> QED BY <3>1, <3>2, <1>1, TimerUnchanged DEF IInv, TypeOK
  <2> QED BY <2>1, <2>2
<1>6. TypeOK'
  BY SMTT(30), <1>1, <1>3, <1>4, <1>5, PostedAssumption DEF IInv, TypeOK, FreePorts, PostProcess
<1>7. \A q \in Reservations : q # r => ports'[q] = ports[q]
  BY <1>1 DEF IInv, TypeOK
<1>8. Bookkeeping'
  BY <1>1, <1>7 DEF IInv, TypeOK, Bookkeeping
<1>9. QueueSound'
  <2>1. \A c \in Classes : \A i \in DOMAIN requests_[c] : requests_[c][i] # r
    BY Zenon, <1>2 DEF IInv, QueueSound
  <2>2. \A c \in Classes : \A i \in DOMAIN requests_'[c] :
            requests_'[c][i] \in live' /\ ports'[requests_'[c][i]] = {}
    BY SMTT(30), <2>1, <1>1, <1>7 DEF IInv, TypeOK, QueueSound
  <2>3. \A q \in live' : ports'[q] = {} =>
            \E c \in Classes : \E i \in DOMAIN requests_'[c] : requests_'[c][i] = q
    <3> SUFFICES ASSUME NEW q \in live', ports'[q] = {}
                 PROVE  \E c \in Classes : \E i \in DOMAIN requests_[c] : requests_[c][i] = q
      BY <1>1
    <3>1. q \in live /\ ports[q] = {}
      BY <1>1, <1>7 DEF IInv, TypeOK
    <3> QED BY Zenon, <3>1 DEF IInv, QueueSound
  <2> QED BY SMTT(30), <2>2, <2>3, <1>1 DEF IInv, QueueSound
<1> QED BY <1>3, <1>5, <1>6, <1>8, <1>9 DEF IInv

(* A grant of processRequests preserves the invariant. *)
LEMMA GrantKeepsIInv ==
    ASSUME IInv, NEW c \in Classes, processRequestsGrant(c)
    PROVE  IInv'
<1> DEFINE r == Head(requests_[c])
<1>1. /\ requests_[c] \in Seq(Reservations) /\ requests_[c] # <<>>
      /\ requests_ \in [Classes -> Seq(Reservations)]
      /\ requests_' = [requests_ EXCEPT ![c] = Tail(requests_[c])]
      /\ UNCHANGED <<decay, cool, decayRunning_, live, keptAlive, processTokens,
                     decayTokens, handler, turn>>
      /\ locked' = FALSE /\ handler # "none"
  BY DEF IInv, TypeOK, processRequestsGrant
<1>2. r = requests_[c][1] /\ 1 \in DOMAIN requests_[c]
  BY <1>1
<1>3. r \in live /\ r \in Reservations /\ ports[r] = {}
  BY <1>2 DEF IInv, TypeOK, QueueSound
<1>4. PICK S \in Windows(c) : reservePorts(r, c, S)
  BY DEF processRequestsGrant
<1> HIDE DEF r
<1>5. /\ status' \in [Ports -> Status]
      /\ reservedPorts_' \in [Classes -> Nat]
      /\ ports' \in [Reservations -> SUBSET Ports]
      /\ Accounting' /\ Ownership'
  <2>1. live' = live \cup {r}
    BY Zenon, <1>1, <1>3
  <2> QED BY Zenon, <2>1, <1>3, <1>4, ReserveKeepsPorts DEF IInv
<1>6. requests_' \in [Classes -> Seq(Reservations)]
  BY <1>1
<1>7. TypeOK'
  BY Zenon, <1>1, <1>5, <1>6 DEF IInv, TypeOK
<1>8. /\ ports'[r] # {}
      /\ \A q \in Reservations : q # r => ports'[q] = ports[q]
  BY <1>3, <1>4, WindowProperties DEF reservePorts, IInv, TypeOK
<1>9. Bookkeeping'
  BY Zenon, <1>1, <1>3, <1>8 DEF IInv, Bookkeeping
<1>10. DecayTimerArmed'
  BY <1>1, TimerUnchanged DEF IInv
<1>11. /\ \A d \in Classes : d # c => requests_'[d] = requests_[d]
       /\ DOMAIN requests_[c] = 1..Len(requests_[c]) /\ Len(requests_[c]) \in Nat
       /\ DOMAIN requests_'[c] = 1..(Len(requests_[c]) - 1)
       /\ \A i \in 1..(Len(requests_[c]) - 1) : requests_'[c][i] = requests_[c][i + 1]
  BY <1>1
<1>12. QueueSound'
  <2>1. \A d \in Classes : \A i \in DOMAIN requests_'[d] :
          \E j \in DOMAIN requests_[d] :
             /\ requests_'[d][i] = requests_[d][j]
             /\ j = (IF d = c THEN i + 1 ELSE i)
             /\ d = c => j # 1
    <3> SUFFICES ASSUME NEW d \in Classes, NEW i \in DOMAIN requests_'[d]
                 PROVE  \E j \in DOMAIN requests_[d] :
                           /\ requests_'[d][i] = requests_[d][j]
                           /\ j = (IF d = c THEN i + 1 ELSE i)
                           /\ d = c => j # 1
      OBVIOUS
    <3>1. CASE d = c
      <4>1. i + 1 \in DOMAIN requests_[c] /\ requests_'[c][i] = requests_[c][i + 1] /\ i + 1 # 1
        BY <3>1, <1>11
      <4> QED BY <3>1, <4>1
    <3>2. CASE d # c
      BY <3>2, <1>11
    <3> QED BY Zenon, <3>1, <3>2
  <2>2. \A d \in Classes : \A i \in DOMAIN requests_'[d] :
            requests_'[d][i] \in live' /\ ports'[requests_'[d][i]] = {}
    <3> SUFFICES ASSUME NEW d \in Classes, NEW i \in DOMAIN requests_'[d]
                 PROVE  requests_'[d][i] \in live' /\ ports'[requests_'[d][i]] = {}
      OBVIOUS
    <3>1. PICK j \in DOMAIN requests_[d] :
             requests_'[d][i] = requests_[d][j] /\ (d = c => j # 1)
      BY <2>1
    <3>2. requests_[d][j] # r
      <4>1. requests_[d][j] = requests_[c][1] => d = c /\ j = 1
        BY SMTT(30), <1>2 DEF IInv, QueueSound
      <4> QED BY <3>1, <4>1, <1>2
    <3>3. requests_[d][j] \in live /\ ports[requests_[d][j]] = {}
      BY DEF IInv, QueueSound
    <3>4. live \subseteq Reservations
      BY DEF IInv, TypeOK
    <3> QED BY <3>1, <3>2, <3>3, <3>4, <1>1, <1>8
  <2>3. \A q \in live' : ports'[q] = {} =>
            \E d \in Classes : \E i \in DOMAIN requests_'[d] : requests_'[d][i] = q
    <3> SUFFICES ASSUME NEW q \in live', ports'[q] = {}
                 PROVE  \E d \in Classes : \E i \in DOMAIN requests_'[d] : requests_'[d][i] = q
      OBVIOUS
    <3>1. q \in live /\ q # r /\ ports[q] = {}
      BY Zenon, <1>1, <1>8 DEF IInv, TypeOK
    <3>a. PICK d \in Classes : \E j \in DOMAIN requests_[d] : requests_[d][j] = q
      BY Zenon, <3>1 DEF IInv, QueueSound
    <3>2. PICK j \in DOMAIN requests_[d] : requests_[d][j] = q
      BY <3>a
    <3>3. CASE d = c
      <4>1. j # 1
        BY <3>1, <3>2, <3>3, <1>2
      <4>2. j - 1 \in 1..(Len(requests_[c]) - 1) /\ (j - 1) + 1 = j
        BY <4>1, <3>3, <1>11
      <4>3. requests_'[c][j - 1] = q
        BY <4>2, <3>2, <3>3, <1>11
      <4> QED BY Zenon, <4>2, <4>3, <3>3, <1>11
    <3>4. CASE d # c
      BY <3>2, <3>4, <1>11
    <3> QED BY <3>3, <3>4
  <2>4. \A d, e \in Classes : \A i \in DOMAIN requests_'[d], j \in DOMAIN requests_'[e] :
            requests_'[d][i] = requests_'[e][j] => d = e /\ i = j
    <3> SUFFICES ASSUME NEW d \in Classes, NEW e \in Classes,
                        NEW i \in DOMAIN requests_'[d], NEW j \in DOMAIN requests_'[e],
                        requests_'[d][i] = requests_'[e][j]
                 PROVE  d = e /\ i = j
      OBVIOUS
    <3>1. PICK k \in DOMAIN requests_[d] :
             requests_'[d][i] = requests_[d][k] /\ k = (IF d = c THEN i + 1 ELSE i)
      BY <2>1
    <3>2. PICK m \in DOMAIN requests_[e] :
             requests_'[e][j] = requests_[e][m] /\ m = (IF e = c THEN j + 1 ELSE j)
      BY <2>1
    <3>3. d = e /\ k = m
      <4>1. requests_[d][k] = requests_[e][m]
        BY Zenon, <3>1, <3>2
      <4>2. requests_[d][k] = requests_[e][m] => d = e /\ k = m
        BY DEF IInv, QueueSound
      <4> QED BY <4>1, <4>2
    <3>4. CASE d = c
      <4>1. i \in Int /\ j \in Int /\ i + 1 = j + 1
        BY SMTT(30), <3>1, <3>2, <3>3, <3>4, <1>11
      <4> QED BY <3>3, <4>1
    <3> QED BY <3>1, <3>2, <3>3, <3>4
  <2> QED BY Zenon, <2>2, <2>3, <2>4 DEF QueueSound
<1> QED BY <1>5, <1>7, <1>9, <1>10, <1>12 DEF IInv

(* The other steps of the two reactor callbacks preserve the invariant. *)
LEMMA ReactorKeepsIInv ==
    ASSUME IInv,
           \/ onProcessRequests
           \/ onDecayTimeout
           \/ \E c \in Classes : processRequestsEnd(c)
           \/ decayScan
    PROVE  IInv'
<1>1. CASE onProcessRequests
  <2>a. processTokens' \in 0..MaxPosted
    BY <1>1, PostedAssumption DEF onProcessRequests, IInv, TypeOK
  <2>1. TypeOK' /\ Bookkeeping'
    BY Zenon, <1>1, <2>a DEF onProcessRequests, IInv, TypeOK, Bookkeeping, portVars
  <2>2. Accounting' /\ Ownership'
    BY Zenon, <1>1, PortsUnchanged DEF onProcessRequests, IInv, portVars
  <2>3. QueueSound'
    BY Zenon, <1>1, QueueUnchanged DEF onProcessRequests, IInv
  <2>4. DecayTimerArmed'
    BY <1>1 DEF onProcessRequests, IInv, portVars, DecayTimerArmed, Decaying
  <2> QED BY <2>1, <2>2, <2>3, <2>4 DEF IInv
<1>2. CASE onDecayTimeout
  <2>1. PICK i \in DOMAIN decayTokens : decayTokens' = RemoveAt(decayTokens, i)
    BY <1>2 DEF onDecayTimeout
  <2>2. /\ decayTokens' \in Seq(0..(DecayTimeout + 1))
        /\ Len(decayTokens') = Len(decayTokens) - 1
        /\ Len(decayTokens) \in Nat \ {0}
    BY <2>1, RemoveAtProperties DEF IInv, TypeOK
  <2>3. TypeOK' /\ Bookkeeping'
    BY Zenon, <1>2, <2>2 DEF onDecayTimeout, IInv, TypeOK, Bookkeeping, portVars
  <2>4. Accounting' /\ Ownership'
    BY Zenon, <1>2, PortsUnchanged DEF onDecayTimeout, IInv, portVars
  <2>5. QueueSound'
    BY Zenon, <1>2, QueueUnchanged DEF onDecayTimeout, IInv
  <2>6. DecayTimerArmed'
    BY <1>2, <2>2 DEF onDecayTimeout, IInv, portVars, DecayTimerArmed, Decaying
  <2> QED BY <2>3, <2>4, <2>5, <2>6 DEF IInv
<1>3. ASSUME NEW c \in Classes, processRequestsEnd(c)
      PROVE  IInv'
  <2>1. TypeOK'
    BY Zenon, <1>3 DEF processRequestsEnd, AfterTurn, IInv, TypeOK, portVars
  <2>2. Bookkeeping'
    BY Zenon, <1>3 DEF processRequestsEnd, AfterTurn, IInv, Bookkeeping
  <2>3. Accounting' /\ Ownership'
    BY Zenon, <1>3, PortsUnchanged DEF processRequestsEnd, IInv, portVars
  <2>4. QueueSound'
    BY Zenon, <1>3, QueueUnchanged DEF processRequestsEnd, IInv
  <2>5. handler' = "onDecayTimeout" <=> handler = "onDecayTimeout"
    BY Zenon, <1>3 DEF processRequestsEnd, AfterTurn, Classes
  <2>6. DecayTimerArmed'
    BY Zenon, <1>3, <2>5 DEF processRequestsEnd, IInv, portVars, DecayTimerArmed, Decaying
  <2> QED BY <2>1, <2>2, <2>3, <2>4, <2>6 DEF IInv
<1>4. CASE decayScan
  <2>1. StillDecaying = Decaying
    BY DecayAssumption DEF StillDecaying, Decaying, Forever, IInv, TypeOK
  <2>2. Decaying' = Decaying
    BY <1>4 DEF decayScan, Decaying, portVars
  <2>3. Len(decayTokens) = 0 /\ decayTokens \in Seq(0..(DecayTimeout + 1))
    BY <1>4 DEF decayScan, IInv, TypeOK, DecayTimerArmed
  <2>6. Bookkeeping' /\ Accounting' /\ Ownership' /\ QueueSound'
    <3>1. Bookkeeping'
      BY Zenon, <1>4 DEF decayScan, IInv, Bookkeeping
    <3>2. Accounting' /\ Ownership'
      BY Zenon, <1>4, PortsUnchanged DEF decayScan, IInv, portVars
    <3>3. QueueSound'
      BY <1>4, QueueUnchanged DEF decayScan, IInv
    <3> QED BY <3>1, <3>2, <3>3
  <2>4. CASE Decaying = {}
    <3>1. decayRunning_' = FALSE /\ decayTokens' = decayTokens
      BY Zenon, <1>4, <2>1, <2>4 DEF decayScan
    <3>2. DecayTimerArmed'
      BY <3>1, <1>4, <2>2, <2>3, <2>4 DEF decayScan, DecayTimerArmed
    <3>3. TypeOK'
      BY Zenon, <3>1, <1>4 DEF decayScan, IInv, TypeOK, portVars
    <3> QED BY <3>2, <3>3, <2>6 DEF IInv
  <2>5. CASE Decaying # {}
    <3>1. PICK p \in Decaying : decayTokens' = Append(decayTokens, decay[p] + 1)
      BY <1>4, <2>1, <2>5 DEF decayScan
    <3>2. decay[p] + 1 \in 0..(DecayTimeout + 1)
      BY DecayAssumption DEF Decaying, Forever, IInv, TypeOK
    <3>3. decayTokens' \in Seq(0..(DecayTimeout + 1)) /\ Len(decayTokens') = 1
      BY <3>1, <3>2, <2>3
    <3>4. decayRunning_' = TRUE
      BY Zenon, <1>4, <2>1, <2>5 DEF decayScan
    <3>5. DecayTimerArmed'
      BY <3>3, <3>4, <1>4 DEF decayScan, DecayTimerArmed
    <3>6. TypeOK'
      BY Zenon, <3>3, <3>4, <1>4 DEF decayScan, IInv, TypeOK, portVars
    <3> QED BY <3>5, <3>6, <2>6 DEF IInv
  <2> QED BY <2>4, <2>5
<1> QED BY <1>1, <1>2, <1>3, <1>4

(* The passing of time preserves the invariant. *)
LEMMA TickKeepsIInv ==
    ASSUME IInv, Tick
    PROVE  IInv'
<1>1. decay' \in [Ports -> 0..Forever]
  BY DecayAssumption DEF Tick, Decaying, Forever, IInv, TypeOK
<1>2. cool' \in [Ports -> 0..DecayTimeout]
  BY DecayAssumption DEF Tick, IInv, TypeOK
<1>3. decayTokens' \in Seq(0..(DecayTimeout + 1)) /\ Len(decayTokens') = Len(decayTokens)
  BY DecayAssumption DEF Tick, IInv, TypeOK
<1>4. TypeOK' /\ Bookkeeping'
  BY Zenon, <1>1, <1>2, <1>3 DEF Tick, IInv, TypeOK, Bookkeeping
<1>5. Accounting' /\ Ownership'
  BY Zenon, PortsUnchanged DEF Tick, IInv
<1>6. QueueSound'
  BY Zenon, QueueUnchanged DEF Tick, IInv
<1>7. Decaying' \subseteq Decaying
  BY Zenon, DecayAssumption DEF Tick, Decaying, Forever, IInv, TypeOK
<1>8. DecayTimerArmed'
  BY Zenon, <1>3, <1>7 DEF Tick, DecayTimerArmed, IInv
<1> QED BY <1>4, <1>5, <1>6, <1>8 DEF IInv

(* The constructor establishes the invariant. *)
LEMMA InitIInv == Init => IInv
<1> SUFFICES ASSUME Init
             PROVE  IInv
  OBVIOUS
<1>a. /\ decay \in [Ports -> 0..Forever] /\ cool \in [Ports -> 0..DecayTimeout]
      /\ processTokens \in 0..MaxPosted
  BY DecayAssumption, PostedAssumption DEF Init, Forever
<1>b. decayTokens \in Seq(0..(DecayTimeout + 1)) /\ requests_ \in [Classes -> Seq(Reservations)]
  BY DEF Init
<1>1. TypeOK /\ Bookkeeping
  BY Zenon, <1>a, <1>b DEF Init, TypeOK, Bookkeeping, Status
<1>2. Accounting
  <2>1. \A c \in Classes : ReservedFor(c) = {}
    BY DEF Init, ReservedFor, Classes
  <2>2. \A c \in Classes : numPorts_(c) \in Nat /\ reservedPorts_[c] = 0
    BY PortsAssumption DEF Init, numPorts_
  <2>3. Cardinality({}) = 0
    BY FS_EmptySet
  <2> QED BY <2>1, <2>2, <2>3 DEF Accounting
<1>3. Ownership /\ QueueSound /\ DecayTimerArmed
  BY DEF Init, Ownership, QueueSound, DecayTimerArmed, Decaying
<1> QED BY <1>1, <1>2, <1>3 DEF IInv

(* Every step preserves the invariant. *)
LEMMA NextIInv == IInv /\ [Next]_vars => IInv'
<1> SUFFICES ASSUME IInv, [Next]_vars
             PROVE  IInv'
  OBVIOUS
<1>1. CASE Operation
  <2> SUFFICES ASSUME NEW r \in Reservations,
                      \/ \E c \in Classes : reserveNow(r, c) \/ reserveBestEffort(r, c)
                      \/ useReservation(r)
                      \/ keepaliveReservation(r)
                      \/ freeReservation(r)
               PROVE  IInv'
    BY <1>1 DEF Operation
  <2>1. CASE freeReservation(r)
    BY <2>1, FreeRequestKeepsIInv, FreePortsKeepsIInv DEF freeReservation
  <2> QED BY <2>1, ReserveNowKeepsIInv, ReserveBestEffortKeepsIInv, UseKeepsIInv, KeepaliveKeepsIInv
<1>2. CASE Reactor
  BY <1>2, ReactorKeepsIInv, GrantKeepsIInv DEF Reactor
<1>3. CASE Tick
  BY <1>3, TickKeepsIInv
<1>4. CASE UNCHANGED vars
  <2>1. TypeOK' /\ Bookkeeping'
    BY Zenon, <1>4 DEF IInv, TypeOK, Bookkeeping, vars, portVars, reactorVars
  <2> QED BY Zenon, <1>4, <2>1, PortsUnchanged, QueueUnchanged, TimerUnchanged
          DEF IInv, vars, portVars, reactorVars
<1> QED BY <1>1, <1>2, <1>3, <1>4 DEF Next

(* The counters are exact, ports have one owner and no request is lost or  *)
(* dangling, for any pool, any windows and any number of reservations      *)
(* (reservePorts, keepaliveReservation and freeReservation).               *)
THEOREM AllocatorInvariant == Spec => [](TypeOK /\ Consistent)
<1>1. IInv => TypeOK /\ Consistent
  BY DEF IInv, Consistent
<1> QED BY InitIInv, NextIInv, <1>1, PTL DEF Spec

(* The decay timer is neither lost nor doubled: as long as a port decays   *)
(* one onDecayTimeout is posted or running, whoever set decayRunning_.     *)
THEOREM DecayTimerSafe == Spec => []DecayTimerArmed
<1>1. IInv => DecayTimerArmed
  BY DEF IInv
<1> QED BY InitIInv, NextIInv, <1>1, PTL DEF Spec

(* A reservation that was handed to a tunnel has its port. *)
KeptInv == \A r \in keptAlive : ports[r] # {}

(* No step takes the port from a kept-alive reservation that still exists. *)
LEMMA NextKeptInv == IInv /\ KeptInv /\ [Next]_vars => KeptInv'
<1> SUFFICES ASSUME IInv, KeptInv, [Next]_vars, NEW q \in keptAlive'
             PROVE  ports'[q] # {}
  BY DEF KeptInv
<1>t. /\ keptAlive \subseteq live /\ live \subseteq Reservations
      /\ ports \in [Reservations -> SUBSET Ports]
  BY DEF IInv, TypeOK
<1>k. q \in keptAlive => ports[q] # {}
  BY DEF KeptInv
<1>1. ASSUME NEW r \in Reservations, NEW c \in Classes, reserveNow(r, c)
      PROVE  ports'[q] # {}
  <2>1. r \notin live /\ keptAlive' = keptAlive
    BY <1>1 DEF reserveNow
  <2>2. PICK S : ports' = [ports EXCEPT ![r] = S]
    BY Zenon, <1>1 DEF reserveNow, reservePorts
  <2> QED BY <2>1, <2>2, <1>t, <1>k
<1>2. ASSUME NEW r \in Reservations, keepaliveReservation(r)
      PROVE  ports'[q] # {}
  <2>1. PICK x \in ports[r] : ports' = [ports EXCEPT ![r] = {x}]
    BY Zenon, <1>2 DEF keepaliveReservation, KeepalivePorts
  <2>2. keptAlive' = keptAlive \cup {r}
    BY Zenon, <1>2 DEF keepaliveReservation
  <2>3. CASE q = r
    BY <2>1, <2>3, <1>t
  <2>4. CASE q # r
    BY <2>1, <2>2, <2>4, <1>t, <1>k
  <2> QED BY <2>3, <2>4
<1>3. ASSUME NEW r \in Reservations, freeReservation(r)
      PROVE  ports'[q] # {}
  <2>1. keptAlive' = keptAlive \ {r}
    BY <1>3 DEF freeReservation
  <2>2. ports' = ports \/ ports' = [ports EXCEPT ![r] = {}]
    BY <1>3 DEF freeReservation, FreeRequest, FreePorts
  <2> QED BY <2>1, <2>2, <1>t, <1>k
<1>4. ASSUME NEW c \in Classes, processRequestsGrant(c)
      PROVE  ports'[q] # {}
  <2> DEFINE r == Head(requests_[c])
  <2>1. ports[r] = {}
    <3>1. requests_[c] \in Seq(Reservations) /\ requests_[c] # <<>>
      BY <1>4 DEF IInv, TypeOK, processRequestsGrant
    <3>2. r = requests_[c][1] /\ 1 \in DOMAIN requests_[c]
      BY <3>1
    <3> QED BY <3>2 DEF IInv, QueueSound
  <2>2. PICK S : ports' = [ports EXCEPT ![r] = S]
    BY Zenon, <1>4 DEF processRequestsGrant, reservePorts
  <2>3. keptAlive' = keptAlive
    BY <1>4 DEF processRequestsGrant
  <2> HIDE DEF r
  <2> QED BY <2>1, <2>2, <2>3, <1>t, <1>k
<1>5. CASE \/ \E r \in Reservations : useReservation(r)
           \/ \E r \in Reservations, c \in Classes : reserveBestEffort(r, c)
           \/ onProcessRequests \/ onDecayTimeout \/ decayScan \/ Tick \/ UNCHANGED vars
           \/ \E c \in Classes : processRequestsEnd(c)
  <2>1. UNCHANGED <<keptAlive, ports>>
    BY Zenon, <1>5 DEF useReservation, reserveBestEffort, onProcessRequests, onDecayTimeout,
                decayScan, Tick, processRequestsEnd, vars
  <2> QED BY <2>1, <1>k
<1> QED BY Zenon, <1>1, <1>2, <1>3, <1>4, <1>5 DEF Next, Operation, Reactor

(* The decay time and the time since the last traffic measure the same     *)
(* thing; a kept-alive port stands still on both.                          *)
CoolInv ==
    \A p \in Ports : IF p \in KeptPorts THEN decay[p] = Forever /\ cool[p] = 0
                     ELSE decay[p] + cool[p] = DecayTimeout

(* The two measures move together under every step. *)
LEMMA NextCoolInv == IInv /\ KeptInv /\ CoolInv /\ [Next]_vars => CoolInv'
<1> SUFFICES ASSUME IInv, KeptInv, CoolInv, [Next]_vars, NEW p \in Ports
             PROVE  IF p \in KeptPorts' THEN decay'[p] = Forever /\ cool'[p] = 0
                    ELSE decay'[p] + cool'[p] = DecayTimeout
  BY Zenon DEF CoolInv, Forever
<1> USE DecayAssumption
<1>t. /\ decay[p] \in 0..Forever /\ cool[p] \in 0..DecayTimeout
      /\ keptAlive \subseteq live /\ live \subseteq Reservations
      /\ ports \in [Reservations -> SUBSET Ports]
      /\ decay \in [Ports -> 0..Forever] /\ cool \in [Ports -> 0..DecayTimeout]
  BY DEF IInv, TypeOK
<1>c. IF p \in KeptPorts THEN decay[p] = Forever /\ cool[p] = 0
      ELSE decay[p] + cool[p] = DecayTimeout
  BY DEF CoolInv
<1>s. ASSUME KeptPorts' = KeptPorts, UNCHANGED <<decay, cool>>
      PROVE  IF p \in KeptPorts' THEN decay'[p] = Forever /\ cool'[p] = 0
             ELSE decay'[p] + cool'[p] = DecayTimeout
  BY <1>c, <1>s
<1>1. ASSUME NEW r \in Reservations, NEW c \in Classes, reserveNow(r, c)
      PROVE  KeptPorts' = KeptPorts /\ UNCHANGED <<decay, cool>>
  <2>1. r \notin live /\ keptAlive' = keptAlive /\ UNCHANGED <<decay, cool>>
    BY <1>1 DEF reserveNow
  <2>2. \A q \in keptAlive : ports'[q] = ports[q]
    BY Zenon, <1>1, <1>t, <2>1 DEF reserveNow, reservePorts
  <2> QED BY Zenon, <2>1, <2>2 DEF KeptPorts
<1>2. ASSUME NEW r \in Reservations, NEW c \in Classes, reserveBestEffort(r, c)
      PROVE  KeptPorts' = KeptPorts /\ UNCHANGED <<decay, cool>>
  BY <1>2 DEF reserveBestEffort, KeptPorts, portVars
<1>3. ASSUME NEW r \in Reservations, useReservation(r)
      PROVE  IF p \in KeptPorts' THEN decay'[p] = Forever /\ cool'[p] = 0
             ELSE decay'[p] + cool'[p] = DecayTimeout
  <2>1. KeptPorts' = KeptPorts
    BY <1>3 DEF useReservation, KeptPorts
  <2>2. \A q \in keptAlive : ports[q] \cap ports[r] = {}
    BY <1>3, <1>t DEF useReservation, IInv, Ownership
  <2>3. p \in ports[r] => p \notin KeptPorts
    BY <2>2 DEF KeptPorts
  <2>4. /\ decay'[p] = IF p \in ports[r] THEN DecayTimeout ELSE decay[p]
        /\ cool'[p] = IF p \in ports[r] THEN 0 ELSE cool[p]
    BY Zenon, <1>3 DEF useReservation
  <2>5. CASE p \in ports[r]
    BY SMTT(30), <2>1, <2>3, <2>4, <2>5
  <2>6. CASE p \notin ports[r]
    BY <1>c, <2>1, <2>4, <2>6
  <2> QED BY <2>5, <2>6
<1>4. ASSUME NEW r \in Reservations, keepaliveReservation(r)
      PROVE  IF p \in KeptPorts' THEN decay'[p] = Forever /\ cool'[p] = 0
             ELSE decay'[p] + cool'[p] = DecayTimeout
  <2>1. PICK x \in ports[r] :
          /\ ports' = [ports EXCEPT ![r] = {x}]
          /\ decay' = [decay EXCEPT ![x] = Forever]
          /\ cool' = [cool EXCEPT ![x] = 0]
    BY Zenon, <1>4 DEF keepaliveReservation, KeepalivePorts, KeptDecay
  <2>2. r \notin keptAlive /\ keptAlive' = keptAlive \cup {r}
    BY <1>4 DEF keepaliveReservation
  <2>3. ports'[r] = {x} /\ \A q \in keptAlive : ports'[q] = ports[q]
    BY <2>1, <2>2, <1>t
  <2>4. KeptPorts' = KeptPorts \cup {x}
    BY <2>2, <2>3 DEF KeptPorts
  <2>5. CASE p = x
    BY <2>1, <2>4, <2>5, <1>t
  <2>6. CASE p # x
    <3>1. decay'[p] = decay[p] /\ cool'[p] = cool[p]
      BY <2>1, <2>6, <1>t
    <3> QED BY Zenon, <3>1, <2>4, <2>6, <1>c
  <2> QED BY <2>5, <2>6
<1>5. ASSUME NEW r \in Reservations, freeReservation(r)
      PROVE  IF p \in KeptPorts' THEN decay'[p] = Forever /\ cool'[p] = 0
             ELSE decay'[p] + cool'[p] = DecayTimeout
  <2>0. keptAlive' = keptAlive \ {r}
    BY <1>5 DEF freeReservation
  <2>1. CASE FreeRequest(r)
    <3>1. ports[r] = {} /\ ports' = ports /\ UNCHANGED <<decay, cool>>
      BY <2>1 DEF FreeRequest, portVars
    <3>2. KeptPorts' = KeptPorts
      BY <2>0, <3>1 DEF KeptPorts
    <3> QED BY Zenon, <3>1, <3>2, <1>s
  <2>2. CASE FreePorts(r)
    <3>1. /\ cool' = cool /\ ports' = [ports EXCEPT ![r] = {}]
          /\ decay' = [x \in Ports |-> IF x \in {y \in ports[r] : decay[y] = Forever}
                                       THEN DecayTimeout ELSE decay[x]]
      BY <2>2 DEF FreePorts
    <3>2. \A q \in keptAlive' : ports'[q] = ports[q]
      BY <2>0, <3>1, <1>t
    <3>3. \A q \in keptAlive' : ports[q] \cap ports[r] = {}
      BY <2>0, <1>t DEF IInv, Ownership
    <3>4. KeptPorts' = KeptPorts \ ports[r]
      BY Zenon, <2>0, <3>2, <3>3 DEF KeptPorts
    <3>5. CASE p \in ports[r] /\ decay[p] = Forever
      <4>1. p \in KeptPorts
        BY <3>5, <1>c, <1>t DEF Forever
      <4> QED BY <3>1, <3>4, <3>5, <4>1, <1>c
    <3>6. CASE ~(p \in ports[r] /\ decay[p] = Forever)
      <4>1. decay'[p] = decay[p] /\ cool'[p] = cool[p]
        BY <3>1, <3>6
      <4>2. p \in KeptPorts' <=> p \in KeptPorts
        BY <3>4, <3>6, <1>c
      <4> QED BY <4>1, <4>2, <1>c
    <3> QED BY <3>5, <3>6
  <2> QED BY Zenon, <1>5, <2>1, <2>2 DEF freeReservation
<1>6. ASSUME NEW c \in Classes, processRequestsGrant(c)
      PROVE  KeptPorts' = KeptPorts /\ UNCHANGED <<decay, cool>>
  <2> DEFINE r == Head(requests_[c])
  <2>1. ports[r] = {} /\ r \in Reservations
    <3>1. requests_[c] \in Seq(Reservations) /\ requests_[c] # <<>>
      BY <1>6 DEF IInv, TypeOK, processRequestsGrant
    <3>2. r = requests_[c][1] /\ 1 \in DOMAIN requests_[c]
      BY <3>1
    <3>3. requests_[c][1] \in Reservations
      BY <3>1, <3>2
    <3>4. ports[requests_[c][1]] = {}
      BY <3>2 DEF IInv, QueueSound
    <3> QED BY <3>2, <3>3, <3>4
  <2>2. PICK S : ports' = [ports EXCEPT ![r] = S]
    BY Zenon, <1>6 DEF processRequestsGrant, reservePorts
  <2>3. keptAlive' = keptAlive /\ UNCHANGED <<decay, cool>>
    BY <1>6 DEF processRequestsGrant
  <2>4. r \notin keptAlive
    BY <2>1 DEF KeptInv
  <2> HIDE DEF r
  <2> QED BY <2>2, <2>3, <2>4, <1>t DEF KeptPorts
<1>7. ASSUME Tick
      PROVE  IF p \in KeptPorts' THEN decay'[p] = Forever /\ cool'[p] = 0
             ELSE decay'[p] + cool'[p] = DecayTimeout
  <2>1. KeptPorts' = KeptPorts
    BY Zenon, <1>7 DEF Tick, KeptPorts
  <2>2. /\ decay'[p] = IF p \in Decaying THEN decay[p] - 1 ELSE decay[p]
        /\ cool'[p] = IF p \in KeptPorts \/ cool[p] = DecayTimeout THEN cool[p] ELSE cool[p] + 1
    BY Zenon, <1>7 DEF Tick
  <2>3. p \in Decaying <=> decay[p] > 0 /\ decay[p] < Forever
    BY DEF Decaying
  <2> QED BY SMTT(30), <2>1, <2>2, <2>3, <1>c, <1>t DEF Forever
<1>8. CASE onProcessRequests \/ onDecayTimeout \/ decayScan \/ UNCHANGED vars
           \/ \E c \in Classes : processRequestsEnd(c)
  <2>1. UNCHANGED <<keptAlive, ports, decay, cool>>
    BY Zenon, <1>8 DEF onProcessRequests, onDecayTimeout, decayScan, processRequestsEnd, vars, portVars
  <2>2. KeptPorts' = KeptPorts
    BY <2>1 DEF KeptPorts
  <2> QED BY <2>1, <2>2, <1>s
<1> QED BY Zenon, <1>1, <1>2, <1>3, <1>4, <1>5, <1>6, <1>7, <1>8, <1>s DEF Next, Operation, Reactor

(* A port enters a reservation only out of quarantine: for any number of   *)
(* ports and any DecayTimeout, between its last traffic (use or keepalive)  *)
(* and its next reservation lies DecayTimeout.                              *)
THEOREM QuarantineKept == Spec => ReusedOnlyWhenCool
<1> DEFINE Inv == IInv /\ KeptInv /\ CoolInv
           A == \A p \in Ports : status[p] = "Free" /\ status'[p] # "Free" => cool[p] = DecayTimeout
<1>1. Init => Inv
  <2> SUFFICES ASSUME Init PROVE KeptInv /\ CoolInv
    BY InitIInv
  <2>1. KeptInv /\ KeptPorts = {}
    BY DEF Init, KeptInv, KeptPorts
  <2> QED BY <2>1, DecayAssumption DEF Init, CoolInv
<1>2. Inv /\ [Next]_vars => Inv'
  BY NextIInv, NextKeptInv, NextCoolInv
<1>3. Inv /\ [Next]_vars => [A]_vars
  <2> SUFFICES ASSUME Inv, [Next]_vars, NEW p \in Ports, status[p] = "Free", status'[p] # "Free"
               PROVE  cool[p] = DecayTimeout
    OBVIOUS
  <2>t. status \in [Ports -> Status] /\ cool[p] \in 0..DecayTimeout
    BY DEF IInv, TypeOK
  <2>1. ASSUME decay[p] = 0 PROVE cool[p] = DecayTimeout
    BY <2>1, <2>t, DecayAssumption DEF CoolInv, Forever
  <2>2. ASSUME NEW r, NEW c \in Classes, NEW S \in Windows(c), reservePorts(r, c, S)
        PROVE  decay[p] = 0
    <3>1. S \subseteq Reservable
      BY <2>2 DEF Windows
    <3>2. p \in S
      BY <2>2 DEF reservePorts
    <3> QED BY <3>1, <3>2 DEF Reservable
  <2>3. ASSUME NEW r \in Reservations, NEW c \in Classes, reserveNow(r, c) PROVE decay[p] = 0
    BY Zenon, <2>2, <2>3 DEF reserveNow
  <2>4. ASSUME NEW c \in Classes, processRequestsGrant(c) PROVE decay[p] = 0
    BY Zenon, <2>2, <2>4 DEF processRequestsGrant
  <2>5. ASSUME NEW r \in Reservations, keepaliveReservation(r) \/ freeReservation(r) PROVE FALSE
    BY Zenon, <2>5 DEF keepaliveReservation, freeReservation, FreeRequest, FreePorts, portVars
  <2>6. CASE \/ \E r \in Reservations : useReservation(r)
             \/ \E r \in Reservations, c \in Classes : reserveBestEffort(r, c)
             \/ onProcessRequests \/ onDecayTimeout \/ decayScan \/ Tick \/ UNCHANGED vars
             \/ \E c \in Classes : processRequestsEnd(c)
    BY Zenon, <2>6 DEF useReservation, reserveBestEffort, onProcessRequests, onDecayTimeout,
                decayScan, Tick, processRequestsEnd, vars, portVars
  <2> QED BY Zenon, <2>1, <2>3, <2>4, <2>5, <2>6 DEF Next, Operation, Reactor
<1> QED BY <1>1, <1>2, <1>3, PTL DEF Spec, ReusedOnlyWhenCool
=============================================================================
