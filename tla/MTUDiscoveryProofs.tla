------------------------- MODULE MTUDiscoveryProofs -------------------------
(* Proofs about MTUDiscovery for every interval, precision, number of      *)
(* tries and path.                                                         *)
EXTENDS MTUDiscovery, TLAPS

(* The bounds and what an answer that may still arrive is worth.  The      *)
(* lower bound is what was reported.  An answer to the current index is    *)
(* for the current size, and there is none once the interval is small      *)
(* enough: both ends of the interval move together with the index.         *)
IInv ==
    /\ TypeOK
    /\ mtu = minMTU_ /\ Sound
    /\ MinMTU <= minMTU_ /\ maxMTU_ <= MaxMTU
    /\ ~Done(minMTU_, maxMTU_) => minMTU_ <= curMTU_ /\ curMTU_ <= maxMTU_
    /\ curIndex_ \in answers => curMTU_ <= path
    /\ curTry_ > 0 \/ curIndex_ \in answers => ~Done(minMTU_, maxMTU_)
    /\ ~posted => Done(minMTU_, maxMTU_)
    /\ missed = {} /\ path <= MaxMTU => path <= maxMTU_

(* The middle of an interval of integers lies in it.                       *)
LEMMA Middle ==
    ASSUME NEW a \in Int, NEW b \in Int, a <= b
    PROVE  /\ (a + b) \div 2 \in Int
           /\ a <= (a + b) \div 2 /\ (a + b) \div 2 <= b
  BY SMT

(* The search starts with the invariant.                                   *)
LEMMA InitIInv == Init => IInv
  BY MTUAssumption DEF Init, IInv, TypeOK, Sound, Done

(* An answer to the current index raises the lower bound.                  *)
LEMMA ReplyIInv ==
    ASSUME IInv, NEW index \in answers, onMTUProbeReply(index)
    PROVE  IInv'
  <1> USE MTUAssumption DEF IInv, TypeOK, Sound, Done
  <1>1. curIndex_ \in answers /\ ~Done(minMTU_, maxMTU_) /\ curMTU_ <= path
        /\ minMTU_ <= curMTU_ /\ curMTU_ <= maxMTU_
    BY DEF onMTUProbeReply
  <1>2. curMTU_' \in Int /\ minMTU_' <= curMTU_' /\ curMTU_' <= maxMTU_'
    BY <1>1, Middle DEF onMTUProbeReply
  <1>3. curIndex_' \in Nat /\ curIndex_' \notin answers' /\ answers' \subseteq 0..curIndex_'
    BY DEF onMTUProbeReply
  <1>4. posted' = posted /\ posted
    BY <1>1 DEF onMTUProbeReply
  <1> QED
    BY <1>1, <1>2, <1>3, <1>4 DEF onMTUProbeReply

(* Giving a size up lowers the upper bound below it.                       *)
LEMMA GiveUpIInv ==
    ASSUME IInv, posted, curTry_ >= NumTries, giveUp, missed' = missed \cup ({curMTU_} \cap 0..path),
           UNCHANGED <<path, minMTU_, mtu>>
    PROVE  IInv'
  <1> USE MTUAssumption DEF IInv, TypeOK, Sound, Done
  <1>1. ~Done(minMTU_, maxMTU_) /\ minMTU_ <= curMTU_ /\ curMTU_ <= maxMTU_
    OBVIOUS
  <1>2. maxMTU_' \in Int /\ maxMTU_' < curMTU_ /\ maxMTU_' <= MaxMTU
    BY <1>1 DEF giveUp
  <1>3. missed' = {} /\ path <= MaxMTU => path <= maxMTU_'
    BY <1>1 DEF giveUp
  <1>4. curMTU_' \in Int /\ curMTU_' = (minMTU_ + maxMTU_') \div 2
    BY DEF giveUp
  <1>5. minMTU_ <= maxMTU_' => minMTU_ <= curMTU_' /\ curMTU_' <= maxMTU_'
    BY <1>2, <1>4, Middle
  <1>6. curIndex_' = curIndex_ + 1 /\ curIndex_' \in Nat /\ curIndex_' \notin answers
    BY DEF giveUp
  <1>7. missed' \subseteq 0..path'
    BY Zenon
  <1>8. CASE Done(minMTU_, curMTU_ - 1)
    <2>1. curTry_' = 0 /\ posted' = FALSE /\ answers' = answers
      BY <1>8 DEF giveUp
    <2>2. Done(minMTU_, maxMTU_')
      BY <1>8 DEF giveUp
    <2>3. TypeOK'
      <3>1. answers' \subseteq 0..curIndex_'
        BY <1>6, <2>1
      <3>2. curTry_' \in 0..NumTries /\ path' \in Paths
        BY <2>1
      <3>3. {minMTU_', maxMTU_', curMTU_', mtu'} \subseteq Int
        BY <1>2, <1>4
      <3> QED
        BY Zenon, <1>6, <1>7, <2>1, <3>1, <3>2, <3>3
    <2> QED
      BY <1>2, <1>3, <1>4, <1>5, <1>6, <2>1, <2>2, <2>3
  <1>9. CASE ~Done(minMTU_, curMTU_ - 1)
    <2>1. curTry_' = 1 /\ posted' = TRUE
          /\ answers' = IF curMTU_' <= path THEN answers \cup {curIndex_'} ELSE answers
      BY <1>6, <1>9 DEF giveUp, sendProbe, onMTUProbe
    <2>2. ~Done(minMTU_, maxMTU_')
      BY <1>9 DEF giveUp
    <2>3. TypeOK'
      <3>1. answers' \subseteq 0..curIndex_'
        BY <1>6, <2>1
      <3>2. curTry_' \in 0..NumTries /\ path' \in Paths
        BY <2>1
      <3>3. {minMTU_', maxMTU_', curMTU_', mtu'} \subseteq Int
        BY <1>2, <1>4
      <3> QED
        BY <1>6, <1>7, <2>1, <3>1, <3>2, <3>3
    <2>4. curIndex_' \in answers' => curMTU_' <= path'
      BY <1>6, <2>1
    <2> QED
      BY <1>2, <1>3, <1>4, <1>5, <1>6, <2>1, <2>2, <2>3, <2>4
  <1> QED
    BY <1>8, <1>9

(* The timer either gives up, ends the search or sends a probe.            *)
LEMMA TimeoutIInv ==
    ASSUME IInv, onMTUProbeTimeout
    PROVE  IInv'
  <1>1. CASE curTry_ >= NumTries
    <2>1. posted /\ giveUp /\ missed' = missed \cup ({curMTU_} \cap 0..path) /\ UNCHANGED <<path, minMTU_, mtu>>
      BY <1>1 DEF onMTUProbeTimeout
    <2> QED
      BY <1>1, <2>1, GiveUpIInv
  <1>2. CASE ~(curTry_ >= NumTries)
    <2> USE MTUAssumption DEF IInv, TypeOK, Sound, Done
    <2>1. UNCHANGED <<path, minMTU_, mtu, curIndex_, maxMTU_, curMTU_, missed>>
      BY <1>2 DEF onMTUProbeTimeout
    <2>2. CASE Done(minMTU_, maxMTU_)
      <3>1. posted' = FALSE /\ UNCHANGED <<curTry_, answers>>
        BY <1>2, <2>2 DEF onMTUProbeTimeout
      <3> QED
        BY Zenon, <2>1, <2>2, <3>1
    <2>3. CASE ~Done(minMTU_, maxMTU_)
      <3>1. curTry_' = curTry_ + 1 /\ posted' = TRUE
            /\ answers' = IF curMTU_ <= path THEN answers \cup {curIndex_} ELSE answers
        BY <1>2, <2>3 DEF onMTUProbeTimeout, sendProbe, onMTUProbe
      <3> QED
        BY <1>2, <2>1, <2>3, <3>1
    <2> QED
      BY <2>2, <2>3
  <1> QED
    BY <1>1, <1>2

(* However probes and answers are lost, late or doubled, the transport is  *)
(* only told sizes that the path lets through, and every probe is sized    *)
(* within the interval.  If answers come in time, the search ends within   *)
(* Precision of the path.                                                  *)
THEOREM SearchCorrect == Spec => [](TypeOK /\ ProbeFits /\ Accurate)
  <1>1. IInv /\ [Next]_vars => IInv'
    <2> SUFFICES ASSUME IInv, [Next]_vars PROVE IInv'
      OBVIOUS
    <2>1. CASE onMTUProbeTimeout
      BY <2>1, TimeoutIInv
    <2>2. CASE \E index \in answers : onMTUProbeReply(index)
      BY <2>2, ReplyIInv
    <2>3. CASE UNCHANGED vars
      BY <2>3 DEF vars, IInv, TypeOK, Sound, Done
    <2> QED
      BY <2>1, <2>2, <2>3 DEF Next
  <1>2. IInv => TypeOK /\ ProbeFits
    BY MTUAssumption DEF IInv, TypeOK, Sound, ProbeFits, Done
  <1>3. IInv => Accurate
    BY MTUAssumption DEF IInv, TypeOK, Sound, Accurate, Done
  <1> QED
    BY InitIInv, <1>1, <1>2, <1>3, PTL DEF Spec

=============================================================================
