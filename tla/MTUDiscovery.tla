---------------------------- MODULE MTUDiscovery ----------------------------
(***************************************************************************)
(* MTUDiscovery: a bisection for the largest datagram that gets through to *)
(* the peer.  A probe of the size in question is sent numTries_ times, 500 *)
(* ms apart; an answer raises the lower bound, no answer lowers the upper  *)
(* one.  The peer answers every probe that reaches it (onMTUProbe) with    *)
(* the probe's index.  Probes and answers may be lost, late or doubled.    *)
(***************************************************************************)
EXTENDS Integers

CONSTANTS
    MinMTU, MaxMTU,  \* the interval that is searched (1024 and 1486)
    NumTries,        \* numTries_ (6)
    Precision,       \* size of an interval that is good enough (16)
    Paths            \* the largest sizes that paths may let through

ASSUME MTUAssumption ==
    /\ MinMTU \in Nat /\ MaxMTU \in Nat /\ MinMTU <= MaxMTU
    /\ NumTries \in Nat \ {0} /\ Precision \in Nat \ {0}
    /\ Paths \subseteq Nat

VARIABLES
    path,       \* the largest size that gets through
    minMTU_, maxMTU_, curIndex_, curMTU_, curTry_,
    posted,     \* whether onMTUProbeTimeout is posted
    answers,    \* indices of probes that reached the peer
    mtu,        \* the last newMTU the transport was told, MinMTU at first
    missed      \* history: sizes that get through and were given up

vars == <<path, minMTU_, maxMTU_, curIndex_, curMTU_, curTry_, posted, answers, mtu, missed>>

(* The constructor and start().                                            *)
Init ==
    /\ path \in Paths
    /\ minMTU_ = MinMTU /\ maxMTU_ = MaxMTU
    /\ curIndex_ = 0 /\ curMTU_ = MinMTU /\ curTry_ = 0
    /\ posted = TRUE
    /\ answers = {}
    /\ mtu = MinMTU
    /\ missed = {}

(* The interval is small enough.                                           *)
Done(min, max) == max - min <= Precision

(* Mutant of onMTUProbeReply: the size before the answer is reported.      *)
onMTUProbeReplyOldMTU(index) ==
    /\ index \in answers
    /\ index = curIndex_
    /\ curTry_' = 0
    /\ curIndex_' = curIndex_ + 1
    /\ minMTU_' = curMTU_
    /\ curMTU_' = (curMTU_ + maxMTU_) \div 2
    /\ mtu' = minMTU_
    /\ UNCHANGED <<path, maxMTU_, posted, answers, missed>>

onMTUProbeReply(index) ==
    /\ index \in answers
    /\ index = curIndex_
    /\ curTry_' = 0
    /\ curIndex_' = curIndex_ + 1
    /\ minMTU_' = curMTU_
    /\ curMTU_' = (curMTU_ + maxMTU_) \div 2
    /\ mtu' = curMTU_
    /\ UNCHANGED <<path, maxMTU_, posted, answers, missed>>

(* The peer answers a probe of size bytes, if it gets there.               *)
onMTUProbe(index, size) == IF size <= path THEN answers \cup {index} ELSE answers

(* Mutant of sendProbe: tries are not counted.                             *)
sendProbeUncounted(try, index, size) ==
    /\ curTry_' = try
    /\ posted' = TRUE
    /\ answers' = onMTUProbe(index, size)

sendProbe(try, index, size) ==
    /\ curTry_' = try + 1
    /\ posted' = TRUE
    /\ answers' = onMTUProbe(index, size)

(* All tries of a size are used up: it is taken for too large.            *)
giveUp ==
    /\ curIndex_' = curIndex_ + 1
    /\ maxMTU_' = curMTU_ - 1
    /\ curMTU_' = (minMTU_ + curMTU_ - 1) \div 2
    /\ IF Done(minMTU_, curMTU_ - 1)
       THEN curTry_' = 0 /\ posted' = FALSE /\ UNCHANGED answers
       ELSE sendProbe(0, curIndex_ + 1, (minMTU_ + curMTU_ - 1) \div 2)

onMTUProbeTimeout ==
    /\ posted
    /\ IF curTry_ >= NumTries
       THEN giveUp /\ missed' = missed \cup ({curMTU_} \cap 0..path)
       ELSE /\ UNCHANGED <<curIndex_, maxMTU_, curMTU_, missed>>
            /\ IF Done(minMTU_, maxMTU_)
               THEN posted' = FALSE /\ UNCHANGED <<curTry_, answers>>
               ELSE sendProbe(curTry_, curIndex_, curMTU_)
    /\ UNCHANGED <<path, minMTU_, mtu>>

Next == onMTUProbeTimeout \/ \E index \in answers : onMTUProbeReply(index)

Spec == Init /\ [][Next]_vars

(* The reactor's timer goes off; answers need not arrive.                  *)
FairSpec == Spec /\ WF_vars(onMTUProbeTimeout)

-----------------------------------------------------------------------------
(* The type of every variable.                                             *)
TypeOK ==
    /\ path \in Paths
    /\ {minMTU_, maxMTU_, curMTU_, mtu} \subseteq Int
    /\ curIndex_ \in Nat /\ curTry_ \in 0..NumTries
    /\ posted \in BOOLEAN /\ missed \subseteq 0..path
    /\ answers \subseteq 0..curIndex_

(* The transport is only told sizes that got through, whatever was lost or *)
(* late in between: an answer counts for the size it was sent for.         *)
Sound == mtu > path => mtu = MinMTU

(* A probe's size is within the bounds, however tries, late answers and    *)
(* giving up alternate: never longer than the largest datagram, nor too    *)
(* short for the headers copied into it (the count of the memset at 148).  *)
ProbeFits ==
    curTry_ > 0 =>
        /\ minMTU_ <= curMTU_ /\ curMTU_ <= maxMTU_
        /\ MinMTU <= minMTU_ /\ maxMTU_ <= MaxMTU

(* The size told to the transport is never too long (Sound), and if each   *)
(* size that gets through was answered before its last timeout the search  *)
(* ends within Precision of what the path lets through, whatever the order *)
(* in which answers, old ones and timeouts came.                           *)
Accurate ==
    /\ Sound
    /\ missed = {} /\ ~posted /\ path \in MinMTU..MaxMTU =>
           mtu <= path /\ path <= mtu + Precision

(* The search ends.                                                        *)
Ends == <>~posted

=============================================================================
