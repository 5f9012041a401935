---------------------------- MODULE Rpmsg_proofs ----------------------------
(***************************************************************************)
(* Proofs about the rpmsg transport, for every ring size and every way the *)
(* PRU and the host interleave: that it keeps its indices and descriptors  *)
(* in order, and, in the last part, that the vrings carry messages as two  *)
(* FIFO channels do.                                                       *)
(***************************************************************************)
EXTENDS RpmsgImplements, Lemmas, FiniteSetTheorems, TLAPS

----------------------------------------------------------------------------
(* Zeroed vrings and a fresh virtqueue have their types.                   *)
LEMMA InitTypeOK == Init => TypeOK
<1> USE RpmsgAssumption DEF Queue, ToArm, ToPru, Slot, Desc
<1> SUFFICES ASSUME Init PROVE TypeOK
  OBVIOUS
<1>1. 0 \in Slot /\ 0 \in 0 .. IdxMod-1 /\ 0 \in 0 .. CntMod-1 /\ 0 \in 0 .. MaxPosted
  OBVIOUS
<1> QED
  BY <1>1 DEF Init, TypeOK, Step, Result, TxState

(* The remainders the model computes are ring slots and index values.      *)
LEMMA Ranges ==
  /\ \A x \in Int : (x % Num) \in Slot /\ (x % Num) \in Desc
  /\ \A x \in Int : (x % IdxMod) \in 0 .. IdxMod-1
  /\ \A x \in Int : (x % CntMod) \in 0 .. CntMod-1
<1>1. Num \in Nat \ {0} /\ IdxMod \in Nat \ {0} /\ CntMod \in Nat \ {0}
  BY RpmsgAssumption
<1>2. \A x \in Int : (x % Num) \in 0 .. Num-1
  BY <1>1, ModRange
<1>3. \A x \in Int : (x % IdxMod) \in 0 .. IdxMod-1
  BY <1>1, ModRange
<1>4. \A x \in Int : (x % CntMod) \in 0 .. CntMod-1
  BY <1>1, ModRange
<1> QED
  BY <1>2, <1>3, <1>4 DEF Slot, Desc

(* Every step keeps the widths of the indices and the ranges of the        *)
(* descriptors.                                                            *)
LEMMA NextTypeOK == TypeOK /\ [Next]_vars => TypeOK'
<1> USE RpmsgAssumption DEF TypeOK, vring_vars, host_vars, pru_vars
<1> SUFFICES ASSUME TypeOK, [Next]_vars PROVE TypeOK'
  OBVIOUS
<1>a. ToArm \in Queue /\ ToPru \in Queue
  BY DEF Queue
<1>b. /\ \A q \in Queue, x \in Int : (x % Num) \in Slot
      /\ \A x \in Int : (x % IdxMod) \in 0 .. IdxMod-1
      /\ \A x \in Int : (x % CntMod) \in 0 .. CntMod-1
      /\ Slot = Desc
  BY Ranges DEF Slot, Desc
<1>c. \A q \in Queue : /\ last_avail_idx[q] + 1 \in Int
                       /\ avail_idx[q] + 1 \in Int
                       /\ used_idx[q] + 1 \in Int
                       /\ last_used[q] + 1 \in Int
                       /\ last_used[q] \in Int
                       /\ posted[q] \in Int
                       /\ used_idx[q] - 1 \in Int
  OBVIOUS
<1>1. ASSUME NEW m \in Msgs, Send(m) PROVE TypeOK'
  BY <1>1, <1>a DEF Send, Step, Result
<1>2. CASE Receive
  BY <1>2, <1>a DEF Receive, Step, Result
<1>3. CASE GetAvailIdx
  BY <1>3 DEF GetAvailIdx, Step, Result
<1>4. CASE GetAvailHead
  <2>1. avail_ring[vq][last_avail_idx[vq] % Num] \in Desc
    BY <1>b
  <2>2. ((last_avail_idx[vq] + 1) % CntMod) \in 0 .. CntMod-1
    BY <1>b, <1>c
  <2> QED
    <3>1. last_avail_idx' \in [Queue -> 0 .. CntMod-1]
      BY <1>4, <2>2 DEF GetAvailHead
    <3>2. head' \in Desc /\ pc' \in Step
      BY <1>4, <2>1 DEF GetAvailHead, Step
    <3> QED
      BY <1>4, <3>1, <3>2 DEF GetAvailHead
<1>5. CASE Copy
  <2>1. /\ buf' \in [Queue -> [Desc -> Msgs \cup {NoMsg}]]
        /\ got' \in Msgs \cup {NoMsg}
    <3>1. CASE vq = ToArm
      <4>1. /\ msg \in Msgs \cup {NoMsg} /\ got \in Msgs \cup {NoMsg}
            /\ buf[ToArm] \in [Desc -> Msgs \cup {NoMsg}]
        BY <1>a
      <4>2. /\ buf' = [buf EXCEPT ![ToArm] = [buf[ToArm] EXCEPT ![head] = msg]]
            /\ got' = got
        BY <1>5, <3>1 DEF Copy
      <4>3. [buf[ToArm] EXCEPT ![head] = msg] \in [Desc -> Msgs \cup {NoMsg}]
        BY <4>1
      <4> QED
        BY <4>1, <4>2, <4>3
    <3>2. CASE vq # ToArm
      <4>1. buf[ToPru][head] \in Msgs \cup {NoMsg}
        BY <1>a
      <4> QED
        BY <1>5, <3>2, <4>1 DEF Copy
    <3> QED
      BY <3>1, <3>2
  <2>2. pc' \in Step /\ ret' \in Result
    BY <1>5 DEF Copy, Step, Result
  <2> QED
    BY <1>5, <2>1, <2>2 DEF Copy
<1>6. CASE StoreUsedIdx
  <2>1. ((used_idx[vq] + 1) % IdxMod) \in 0 .. IdxMod-1
    BY <1>b, <1>c
  <2> QED
    BY <1>6, <2>1 DEF StoreUsedIdx, AfterAddUsed, Step
<1>7. CASE StoreUsedElem
  <2>1. UsedSlot \in Slot
    BY <1>b DEF UsedSlot
  <2> QED
    BY <1>7, <2>1 DEF StoreUsedElem, AfterAddUsed, Step
<1>8. CASE Kick
  BY <1>8 DEF Kick, Step, Result
<1>9. ASSUME NEW q \in Queue, NEW d \in Desc, Post(q, d)
      PROVE  /\ free' \in [Queue -> SUBSET Desc]
             /\ avail_ring' \in [Queue -> [Slot -> Desc]]
             /\ avail_idx' \in [Queue -> 0 .. IdxMod-1]
             /\ posted' \in [Queue -> 0 .. MaxPosted]
  <2>1. (posted[q] % Num) \in Slot /\ ((avail_idx[q] + 1) % IdxMod) \in 0 .. IdxMod-1
    BY <1>b, <1>c
  <2>2. posted[q] + 1 \in 0 .. MaxPosted
    BY <1>9 DEF Post
  <2> QED
    BY <1>9, <2>1, <2>2 DEF Post
<1>10. ASSUME NEW q \in Queue, ReadUsed(q)
       PROVE  /\ free' \in [Queue -> SUBSET Desc]
              /\ last_used' \in [Queue -> 0 .. IdxMod-1]
  <2>1. used_ring[q][last_used[q] % Num] \in Desc
    BY <1>b
  <2>2. ((last_used[q] + 1) % IdxMod) \in 0 .. IdxMod-1
    BY <1>b, <1>c
  <2> QED
    BY <1>10, <2>1, <2>2 DEF ReadUsed
<1>11. CASE HostPost
  BY <1>11, <1>9, <1>a DEF HostPost
<1>12. ASSUME NEW m \in Msgs \ Oversized, HostSend(m) PROVE TypeOK'
  BY <1>12, <1>9, <1>a DEF HostSend
<1>13. CASE HostIrq
  BY <1>13 DEF HostIrq, TxState
<1>14. CASE HostReceive
  <2>1. used_ring[ToArm][last_used[ToArm] % Num] \in Desc
    BY <1>a, <1>b
  <2>2. host_got' \in Msgs \cup {NoMsg}
    BY <1>14, <1>a, <2>1 DEF HostReceive
  <2>3. free' \in [Queue -> SUBSET Desc] /\ last_used' \in [Queue -> 0 .. IdxMod-1]
    BY <1>14, <1>10, <1>a DEF HostReceive
  <2> QED
    BY <1>14, <2>2, <2>3 DEF HostReceive
<1>15. CASE HostRxDone
  BY <1>15 DEF HostRxDone
<1>16. CASE HostReclaim
  BY <1>16, <1>10, <1>a DEF HostReclaim
<1>17. CASE HostBlock
  BY <1>17, <1>a DEF HostBlock, TxState
<1>18. CASE HostRecheck
  BY <1>18, <1>10, <1>a DEF HostRecheck, TxState
<1>19. CASE UNCHANGED vars
  BY <1>19 DEF vars
<1> QED
  BY <1>1, <1>2, <1>3, <1>4, <1>5, <1>6, <1>7, <1>8, <1>11, <1>12, <1>13, <1>14,
     <1>15, <1>16, <1>17, <1>18, <1>19 DEF Next, PruStep, HostStep

(* Ring indices, descriptors and buffers keep their widths and ranges      *)
(* whatever the host and the PRU do, wrap-around and races included.       *)
THEOREM TypeCorrect == Spec => []TypeOK
  BY InitTypeOK, NextTypeOK, PTL DEF Spec

----------------------------------------------------------------------------
(* From here on a vring carries fewer buffers than an index can count, and *)
(* the host never reads an element that is counted but not stored: either  *)
(* the build stores the element first or the host is never that fast.      *)
Lifetime == MaxPosted < IdxMod
NoRace   == ~(IndexFirst /\ HostRaces)

(* An index that counts to less than its modulus behaves like an integer.  *)
LEMMA NoWrap ==
  ASSUME Lifetime, NEW n \in 0 .. MaxPosted
  PROVE  (n % IdxMod) = n /\ (n % CntMod) = n
<1>1. IdxMod \in Nat \ {0} /\ CntMod \in Nat \ {0}
      /\ n \in 0 .. IdxMod-1 /\ n \in 0 .. CntMod-1
  BY RpmsgAssumption DEF Lifetime
<1> QED
  BY <1>1, ModSmall

Counters ==
  \A q \in Queue : /\ last_avail_idx[q] \in Nat /\ used_idx[q] \in Nat
                   /\ last_used[q] \in Nat /\ avail_idx[q] \in Nat
                   /\ posted[q] \in 0 .. MaxPosted

(* What TypeOK says of the counters, as numbers.                           *)
LEMMA CountersNat == TypeOK => Counters
  BY RpmsgAssumption DEF TypeOK, Counters

(* All indices start at 0.                                                 *)
LEMMA InitIndices == Init => IndicesAgree
  BY DEF Init, IndicesAgree, IndicesCount, Uncounted, Stored, Holding

(* Every step keeps the indices counting buffers: each index moves by one, *)
(* and only with the buffer it counts.                                     *)
LEMMA NextIndices ==
  ASSUME Lifetime, NoRace, TypeOK, IndicesAgree, TakesAdvertised, [Next]_vars
  PROVE  IndicesAgree'
<1> USE RpmsgAssumption
<1>a. Counters /\ MaxPosted \in Nat /\ vq \in Queue /\ ToArm \in Queue /\ ToPru \in Queue
      /\ ToArm # ToPru
  BY CountersNat DEF TypeOK, Queue, ToArm, ToPru
<1>f. /\ last_avail_idx \in [Queue -> 0 .. CntMod-1]
      /\ used_idx \in [Queue -> 0 .. IdxMod-1]
      /\ last_used \in [Queue -> 0 .. IdxMod-1]
      /\ avail_idx \in [Queue -> 0 .. IdxMod-1]
      /\ posted \in [Queue -> 0 .. MaxPosted]
      /\ IndexFirst \in BOOLEAN
  BY DEF TypeOK
<1>h. head \in Desc
  BY DEF TypeOK
<1> SUFFICES ASSUME NEW q \in Queue PROVE IndicesCount(q)'
  BY DEF IndicesAgree
<1>i. IndicesCount(q) /\ IndicesCount(vq)
  BY <1>a DEF IndicesAgree
<1> USE DEF IndicesCount, Uncounted, Stored, Holding, Counters
<1>1. ASSUME NEW m \in Msgs, Send(m) PROVE IndicesCount(q)'
  BY <1>1, <1>i DEF Send, vring_vars, host_vars
<1>2. CASE Receive
  BY <1>2, <1>i DEF Receive, vring_vars, host_vars
<1>3. CASE GetAvailIdx
  BY <1>3, <1>i DEF GetAvailIdx, vring_vars, host_vars
<1>4. CASE GetAvailHead
  <2>1. last_avail_idx[vq] < posted[vq]
    BY <1>4 DEF GetAvailHead, TakesAdvertised
  <2>2. ((last_avail_idx[vq] + 1) % CntMod) = last_avail_idx[vq] + 1
    BY <2>1, <1>a, NoWrap
  <2>3. last_avail_idx' = [last_avail_idx EXCEPT ![vq] = last_avail_idx[vq] + 1]
    BY <1>4, <2>2 DEF GetAvailHead
  <2>4. /\ pc = "get_head" /\ pc' = "copy" /\ vq' = vq
        /\ UNCHANGED <<avail_idx, used_idx, last_used, posted>>
    BY <1>4 DEF GetAvailHead, vring_vars, host_vars
  <2> QED
    BY <2>1, <2>3, <2>4, <1>i, <1>a, <1>f
<1>5. CASE Copy
  <2>1. ~(head > Num)
    BY <1>h DEF Desc
  <2> QED
    BY <1>5, <2>1, <1>i DEF Copy, host_vars
<1>6. CASE StoreUsedIdx
  <2>1. used_idx[vq] + 1 = last_avail_idx[vq]
    BY <1>6, <1>i, <1>a DEF StoreUsedIdx, UsedIdxStep
  <2>2. ((used_idx[vq] + 1) % IdxMod) = used_idx[vq] + 1
    BY <2>1, <1>i, <1>a, NoWrap
  <2>3. used_idx' = [used_idx EXCEPT ![vq] = used_idx[vq] + 1]
    BY <1>6, <2>2 DEF StoreUsedIdx
  <2>4. /\ pc = UsedIdxStep /\ pc' = AfterAddUsed /\ vq' = vq
        /\ UNCHANGED <<avail_idx, last_avail_idx, last_used, posted>>
    BY <1>6 DEF StoreUsedIdx, host_vars
  <2> QED
    BY <2>1, <2>3, <2>4, <1>i, <1>a, <1>f DEF UsedIdxStep, AfterAddUsed
<1>7. CASE StoreUsedElem
  <2>1. /\ pc = UsedElemStep /\ pc' = AfterAddUsed /\ vq' = vq
        /\ UNCHANGED <<avail_idx, used_idx, last_avail_idx, last_used, posted>>
    BY <1>7 DEF StoreUsedElem, host_vars
  <2> QED
    BY <2>1, <1>i, <1>a, <1>f DEF UsedElemStep, AfterAddUsed
<1>8. CASE Kick
  BY <1>8, <1>i DEF Kick, vring_vars, host_vars
<1>9. ASSUME NEW r \in Queue, NEW d \in Desc, Post(r, d),
             UNCHANGED <<used_idx, last_used, pru_vars>>
      PROVE  IndicesCount(q)'
  <2>1. posted[r] + 1 \in 0 .. MaxPosted /\ avail_idx[r] = posted[r]
    BY <1>9, <1>a DEF Post, IndicesAgree
  <2>2. ((avail_idx[r] + 1) % IdxMod) = avail_idx[r] + 1
    BY <2>1, NoWrap
  <2>3. /\ avail_idx' = [avail_idx EXCEPT ![r] = avail_idx[r] + 1]
        /\ posted' = [posted EXCEPT ![r] = posted[r] + 1]
    BY <1>9, <2>2 DEF Post
  <2>4. UNCHANGED <<used_idx, last_used, last_avail_idx, pc, vq>>
    BY <1>9 DEF pru_vars
  <2> QED
    BY <2>1, <2>3, <2>4, <1>i, <1>a, <1>f
<1>10. ASSUME NEW r \in Queue, ReadUsed(r),
              UNCHANGED <<avail_idx, used_idx, posted, pru_vars>>
       PROVE  IndicesCount(q)'
  <2>0. IndicesCount(r)
    BY DEF IndicesAgree
  <2>1. last_used[r] < used_idx[r]
    BY <1>10, <2>0, <1>a DEF ReadUsed
  <2>2. ((last_used[r] + 1) % IdxMod) = last_used[r] + 1
    BY <2>0, <2>1, <1>a, NoWrap
  <2>3. last_used' = [last_used EXCEPT ![r] = last_used[r] + 1]
    BY <1>10, <2>2 DEF ReadUsed
  <2>4. last_used[r] < Stored(r)
    BY <1>10, <2>0, <2>1, <2>2, <1>a DEF ReadUsed, NextIsStale, NoRace
  <2>5. UNCHANGED <<avail_idx, used_idx, posted, last_avail_idx, pc, vq>>
    BY <1>10 DEF pru_vars
  <2> QED
    BY <2>1, <2>3, <2>4, <2>5, <1>i, <1>a, <1>f
<1>11. CASE HostPost
  BY <1>11, <1>9, <1>a DEF HostPost
<1>12. ASSUME NEW m \in Msgs \ Oversized, HostSend(m) PROVE IndicesCount(q)'
  BY <1>12, <1>9, <1>a DEF HostSend
<1>13. CASE HostIrq
  BY <1>13, <1>i DEF HostIrq, vring_vars, pru_vars
<1>14. CASE HostReceive
  BY <1>14, <1>10, <1>a DEF HostReceive, vring_vars
<1>15. CASE HostRxDone
  BY <1>15, <1>i DEF HostRxDone, vring_vars, pru_vars
<1>16. CASE HostReclaim
  BY <1>16, <1>10, <1>a DEF HostReclaim, vring_vars
<1>17. CASE HostBlock
  BY <1>17, <1>i DEF HostBlock, pru_vars
<1>18. CASE HostRecheck
  <2>1. CASE ReadUsed(ToPru)
    BY <1>18, <2>1, <1>10, <1>a DEF HostRecheck
  <2>2. CASE UNCHANGED last_used
    BY <1>18, <2>2, <1>i DEF HostRecheck, pru_vars, ReadUsed
  <2> QED
    BY <1>18, <2>1, <2>2 DEF HostRecheck
<1>19. CASE UNCHANGED vars
  BY <1>19, <1>i DEF vars, vring_vars, pru_vars, host_vars
<1> QED
  BY <1>1, <1>2, <1>3, <1>4, <1>5, <1>6, <1>7, <1>8, <1>11, <1>12, <1>13, <1>14,
     <1>15, <1>16, <1>17, <1>18, <1>19 DEF Next, PruStep, HostStep

(* The comparison in virtqueue_get_avail_buf holds until the descriptor is *)
(* read: the host only ever posts more.                                    *)
LEMMA NextTakesAdvertised ==
  ASSUME TypeOK, IndicesAgree, TakesAdvertised, [Next]_vars
  PROVE  TakesAdvertised'
<1>a. Counters /\ vq \in Queue /\ MaxPosted \in Nat
  BY CountersNat, RpmsgAssumption DEF TypeOK
<1>i. last_avail_idx[vq] <= posted[vq] /\ avail_idx[vq] = posted[vq]
  BY <1>a DEF IndicesAgree, IndicesCount
<1>f. posted \in [Queue -> 0 .. MaxPosted]
  BY DEF TypeOK
<1> USE DEF TakesAdvertised, Counters, vring_vars, host_vars, pru_vars
<1>1. CASE pc' # "get_head"
  BY <1>1
<1>2. CASE GetAvailIdx
  BY <1>2, <1>a, <1>i DEF GetAvailIdx
<1>3. ASSUME NEW q \in Queue, NEW d \in Desc, Post(q, d), UNCHANGED pru_vars
      PROVE  TakesAdvertised'
  <2>1. posted' = [posted EXCEPT ![q] = posted[q] + 1]
    BY <1>3 DEF Post
  <2>2. UNCHANGED <<pc, vq, last_avail_idx>>
    BY <1>3
  <2> QED
    BY <2>1, <2>2, <1>a, <1>f
<1>4. CASE HostPost
  BY <1>4, <1>3 DEF HostPost, Queue
<1>5. ASSUME NEW m \in Msgs \ Oversized, HostSend(m) PROVE TakesAdvertised'
  BY <1>5, <1>3 DEF HostSend, Queue
<1>6. CASE UNCHANGED <<pc, vq, last_avail_idx, posted>>
  BY <1>6
<1>7. ASSUME PruStep \/ Receive \/ \E m \in Msgs : Send(m), ~GetAvailIdx
      PROVE  pc' # "get_head"
  BY <1>7 DEF PruStep, Receive, Send, GetAvailHead, Copy, StoreUsedIdx, StoreUsedElem,
              Kick, AfterAddUsed
<1>8. ASSUME HostIrq \/ HostReceive \/ HostRxDone \/ HostReclaim \/ HostBlock \/ HostRecheck
      PROVE  UNCHANGED <<pc, vq, last_avail_idx, posted>>
  BY <1>8 DEF HostIrq, HostReceive, HostRxDone, HostReclaim, HostBlock, HostRecheck
<1>9. CASE UNCHANGED vars
  BY <1>9 DEF vars
<1> QED
  BY <1>1, <1>2, <1>4, <1>5, <1>6, <1>7, <1>8, <1>9 DEF Next, HostStep

----------------------------------------------------------------------------
(* Ownership of the descriptors of one queue.                              *)

(* A step that moves no buffer of the queue changes nobody's ownership.    *)
LEMMA SameOwners ==
  ASSUME NEW q \in Queue, OwnedOnce(q),
         UNCHANGED <<posted[q], last_used[q], free[q]>>,
         \A n \in InFlight(q) : DescAt(q, n)' = DescAt(q, n)
  PROVE  OwnedOnce(q)'
<1>1. InFlight(q)' = InFlight(q)
  BY DEF InFlight
<1>2. \A i, j \in InFlight(q)' : DescAt(q, i)' = DescAt(q, j)' => i = j
  BY <1>1 DEF OwnedOnce
<1>3. \A i \in InFlight(q)' : DescAt(q, i)' \notin free[q]'
  BY <1>1 DEF OwnedOnce
<1>4. Cardinality(free[q])' + (posted[q]' - last_used[q]') = Num
  BY DEF OwnedOnce
<1> QED
  BY <1>2, <1>3, <1>4 DEF OwnedOnce

(* A step that leaves the rings of a queue alone moves no descriptor, also *)
(* when the PRU is at work on the other queue.                             *)
LEMMA SameDesc ==
  ASSUME TypeOK, NEW q \in Queue,
         UNCHANGED <<avail_ring[q], used_ring[q], last_avail_idx[q], Holding(q)>>,
         Holding(q) => head' = head,
         NEW n \in InFlight(q)
  PROVE  DescAt(q, n)' = DescAt(q, n)
<1>1. Stored(q)' = Stored(q)
  BY DEF Stored
<1>2. CASE Holding(q)
  BY <1>1, <1>2 DEF DescAt
<1>3. CASE ~Holding(q)
  <2>1. Stored(q) = last_avail_idx[q] /\ Stored(q)' = last_avail_idx[q]
    BY <1>1, <1>3, CountersNat DEF Stored, Counters
  <2> QED
    BY <2>1 DEF DescAt
<1> QED
  BY <1>2, <1>3

(* Nor does it change the ownership, if it moves no buffer either.         *)
LEMMA SameQueue ==
  ASSUME NEW q \in Queue, OwnedOnce(q), TypeOK,
         UNCHANGED <<posted[q], last_used[q], free[q], avail_ring[q], used_ring[q],
                     last_avail_idx[q], Holding(q)>>,
         Holding(q) => head' = head
  PROVE  OwnedOnce(q)'
  BY SameDesc, SameOwners

(* At most Num buffers are in flight.                                      *)
LEMMA AtMostNum ==
  ASSUME TypeOK, NEW q \in Queue, OwnedOnce(q)
  PROVE  /\ IsFiniteSet(free[q])
         /\ Cardinality(free[q]) \in Nat
         /\ posted[q] - last_used[q] <= Num
         /\ free[q] # {} => posted[q] - last_used[q] < Num
<1>1. IsFiniteSet(free[q])
  <2>1. IsFiniteSet(Desc)
    BY FS_Interval, RpmsgAssumption DEF Desc
  <2> QED
    BY <2>1, FS_Subset DEF TypeOK
<1>2. Cardinality(free[q]) \in Nat /\ (free[q] # {} => Cardinality(free[q]) # 0)
  BY <1>1, FS_CardinalityType, FS_EmptySet
<1>3. Counters /\ Num \in Nat /\ MaxPosted \in Nat
  BY CountersNat, RpmsgAssumption
<1> QED
  BY <1>1, <1>2, <1>3 DEF OwnedOnce, Counters

(* Reading a descriptor off the avail ring hands it to the PRU.            *)
LEMMA TakeDesc ==
  ASSUME Lifetime, TypeOK, TakesAdvertised, GetAvailHead, NEW q \in Queue,
         NEW n \in InFlight(q)
  PROVE  DescAt(q, n)' = DescAt(q, n)
<1>1. UNCHANGED <<posted, last_used, free, avail_ring, used_ring, vq>>
      /\ pc = "get_head" /\ pc' = "copy"
  BY DEF GetAvailHead, vring_vars, host_vars
<1>2. CASE q # vq
  BY <1>1, <1>2, SameDesc DEF GetAvailHead, Holding, TypeOK
<1>3. CASE q = vq
  <2>1. Counters /\ MaxPosted \in Nat /\ last_avail_idx \in [Queue -> 0 .. CntMod-1]
    BY CountersNat, RpmsgAssumption DEF TypeOK
  <2>2. last_avail_idx[q] + 1 \in 0 .. MaxPosted
    BY <1>1, <1>3, <2>1 DEF TakesAdvertised, Counters
  <2>3. last_avail_idx'[q] = last_avail_idx[q] + 1
    BY <1>3, <2>1, <2>2, NoWrap DEF GetAvailHead
  <2>4. ~Holding(q) /\ Holding(q)'
    BY <1>1, <1>3 DEF Holding
  <2>5. Stored(q) = last_avail_idx[q] /\ Stored(q)' = last_avail_idx[q]
    BY <2>1, <2>3, <2>4 DEF Stored, Counters
  <2>6. head' = avail_ring[q][last_avail_idx[q] % Num]
    BY <1>3 DEF GetAvailHead
  <2>7. n \in Int
    BY <2>1 DEF InFlight, Counters
  <2>8. CASE n < last_avail_idx[q]
    BY <1>1, <2>5, <2>8 DEF DescAt
  <2>9. CASE n = last_avail_idx[q]
    BY <1>1, <2>1, <2>3, <2>5, <2>6, <2>9 DEF DescAt, Counters
  <2>10. CASE n > last_avail_idx[q]
    BY <1>1, <2>1, <2>3, <2>5, <2>7, <2>10 DEF DescAt, Counters
  <2> QED
    BY <2>1, <2>7, <2>8, <2>9, <2>10 DEF Counters
<1> QED
  BY <1>2, <1>3

(* Its owner is the same, then.                                            *)
LEMMA TakeOwners ==
  ASSUME Lifetime, TypeOK, TakesAdvertised, NEW q \in Queue, OwnedOnce(q), GetAvailHead
  PROVE  OwnedOnce(q)'
<1>1. UNCHANGED <<posted, last_used, free>>
  BY DEF GetAvailHead, host_vars
<1> QED
  BY <1>1, TakeDesc, SameOwners

(* Storing the used element hands the descriptor the PRU holds back to the *)
(* used ring.                                                              *)
LEMMA StoreDesc ==
  ASSUME TypeOK, IndicesAgree, NEW q \in Queue, OwnedOnce(q), StoreUsedElem,
         NEW n \in InFlight(q)
  PROVE  DescAt(q, n)' = DescAt(q, n)
<1>1. UNCHANGED <<posted, last_used, free, avail_ring, last_avail_idx, head, vq>>
      /\ pc = UsedElemStep /\ pc' = AfterAddUsed
  BY DEF StoreUsedElem, host_vars
<1>2. used_ring' = [used_ring EXCEPT ![vq] = [used_ring[vq] EXCEPT ![UsedSlot] = head]]
      /\ used_ring \in [Queue -> [Slot -> Desc]] /\ vq \in Queue
  BY DEF StoreUsedElem, TypeOK
<1>3. CASE q # vq
  BY <1>1, <1>2, <1>3, SameDesc DEF Holding
<1>4. CASE q = vq
  <2> DEFINE la == last_avail_idx[q]
  <2>1. Counters /\ Num \in Nat \ {0} /\ MaxPosted \in Nat /\ IndexFirst \in BOOLEAN
    BY CountersNat, RpmsgAssumption
  <2>2. Holding(q) /\ ~Holding(q)'
    BY <1>1, <1>4, <2>1 DEF Holding, UsedElemStep, AfterAddUsed
  <2>3. Stored(q) = la - 1 /\ Stored(q)' = la
    BY <1>1, <2>1, <2>2 DEF Stored, Counters
  <2>4. la <= posted[q] /\ posted[q] - last_used[q] <= Num /\ last_used[q] <= la - 1
    BY <2>3, AtMostNum DEF IndicesAgree, IndicesCount
  <2>5. UsedSlot = ((la - 1) % Num)
    BY <1>1, <1>4, <2>1, <2>2 DEF IndicesAgree, IndicesCount, Uncounted, UsedSlot, UsedElemStep, Counters
  <2>6. UsedSlot \in Slot
    BY <2>1, <2>5, Ranges DEF Counters
  <2>7. n \in Int /\ last_used[q] <= n /\ n < posted[q]
    BY <2>1 DEF InFlight, Counters
  <2>8. CASE n < la - 1
    <3>1. (n % Num) # UsedSlot
      BY <2>1, <2>4, <2>5, <2>7, <2>8, ModDistinct DEF Counters
    <3>2. (n % Num) \in Slot
      BY <2>7, Ranges
    <3>3. used_ring'[q][n % Num] = used_ring[q][n % Num]
      BY <1>2, <1>4, <3>1, <3>2
    <3>4. n < la
      BY <2>1, <2>7, <2>8 DEF Counters
    <3> QED
      BY <2>3, <2>8, <3>3, <3>4 DEF DescAt
  <2>9. CASE n = la - 1
    <3>1. used_ring'[q][n % Num] = head
      BY <1>2, <1>4, <2>5, <2>6, <2>9
    <3>2. n < la /\ ~(n < la - 1)
      BY <2>1, <2>7, <2>9 DEF Counters
    <3> QED
      BY <2>3, <3>1, <3>2 DEF DescAt
  <2>10. CASE n >= la
    <3>1. ~(n < la) /\ ~(n < la - 1)
      BY <2>1, <2>7, <2>10 DEF Counters
    <3> QED
      BY <1>1, <2>3, <3>1 DEF DescAt
  <2> QED
    BY <2>1, <2>7, <2>8, <2>9, <2>10 DEF Counters
<1> QED
  BY <1>3, <1>4

(* Its owner is the same, then.                                            *)
LEMMA StoreOwners ==
  ASSUME TypeOK, IndicesAgree, NEW q \in Queue, OwnedOnce(q), StoreUsedElem
  PROVE  OwnedOnce(q)'
<1>1. UNCHANGED <<posted, last_used, free>>
  BY DEF StoreUsedElem, host_vars
<1> QED
  BY <1>1, StoreDesc, SameOwners

(* Posting a free descriptor overwrites no slot that is in use, ...        *)
LEMMA PostDesc ==
  ASSUME TypeOK, IndicesAgree, NEW r \in Queue, OwnedOnce(r), NEW d \in Desc, Post(r, d),
         UNCHANGED <<used_ring, pru_vars>>, NEW p \in Nat, p = posted[r]
  PROVE  /\ \A q \in Queue : \A n \in InFlight(q) : DescAt(q, n)' = DescAt(q, n)
         /\ DescAt(r, p)' = d
         /\ last_used[r] <= p /\ p - last_used[r] < Num
<1>1. /\ UNCHANGED <<last_avail_idx, pc, vq, head>>
      /\ \A q \in Queue : UNCHANGED <<Stored(q), Holding(q)>>
  BY DEF pru_vars, Holding, Stored
<1>2. /\ avail_ring' = [avail_ring EXCEPT ![r] = [avail_ring[r] EXCEPT ![posted[r] % Num] = d]]
      /\ posted' = [posted EXCEPT ![r] = posted[r] + 1]
      /\ d \in free[r] /\ posted[r] < MaxPosted
  BY DEF Post
<1>3. /\ avail_ring \in [Queue -> [Slot -> Desc]]
      /\ posted \in [Queue -> 0 .. MaxPosted] /\ MaxPosted \in Nat
      /\ Counters /\ Num \in Nat \ {0}
  BY CountersNat, RpmsgAssumption DEF TypeOK
<1> DEFINE la == last_avail_idx[r]
<1>4. la <= p /\ Stored(r) <= la /\ last_used[r] <= p /\ p - last_used[r] < Num
  BY <1>2, <1>3, AtMostNum DEF IndicesAgree, IndicesCount, Stored, Counters
<1>5. (p % Num) \in Slot
  BY Ranges
<1>6. ASSUME NEW q \in Queue, q # r, NEW n \in InFlight(q)
      PROVE  DescAt(q, n)' = DescAt(q, n)
  BY <1>1, <1>2, <1>3, <1>6, SameDesc
<1>7. ASSUME NEW n \in InFlight(r)
      PROVE  DescAt(r, n)' = DescAt(r, n)
  <2>1. n \in Int /\ last_used[r] <= n /\ n < p
    BY <1>3, <1>4 DEF InFlight, Counters
  <2>2. (n % Num) # (p % Num)
    <3>1. p - n < Num /\ p \in Int
      BY <1>3, <1>4, <2>1 DEF Counters
    <3> QED
      BY <1>3, <2>1, <3>1, ModDistinct
  <2>3. (n % Num) \in Slot
    BY <2>1, Ranges
  <2>4. avail_ring'[r][n % Num] = avail_ring[r][n % Num]
    BY <1>2, <1>3, <2>2, <2>3
  <2> QED
    BY <1>1, <2>4 DEF DescAt
<1>8. DescAt(r, p)' = d
  <2>1. avail_ring'[r][p % Num] = d
    BY <1>2, <1>3, <1>5
  <2>2. ~(p < la) /\ ~(p < Stored(r))
    BY <1>3, <1>4 DEF Counters, Stored
  <2> QED
    BY <1>1, <2>1, <2>2 DEF DescAt
<1> QED
  BY <1>4, <1>6, <1>7, <1>8

(* ... and moves it from the host into flight.                             *)
LEMMA PostOwners ==
  ASSUME TypeOK, IndicesAgree, NEW q \in Queue, OwnedOnce(q), NEW r \in Queue,
         NEW d \in Desc, Post(r, d),
         UNCHANGED <<used_ring, last_used, pru_vars>>
  PROVE  OwnedOnce(q)'
<1>1. UNCHANGED <<last_avail_idx, pc, vq, head, Stored(q), Holding(q)>>
  BY DEF pru_vars, Holding, Stored
<1>2. /\ free' = [free EXCEPT ![r] = free[r] \ {d}]
      /\ avail_ring' = [avail_ring EXCEPT ![r] = [avail_ring[r] EXCEPT ![posted[r] % Num] = d]]
      /\ posted' = [posted EXCEPT ![r] = posted[r] + 1]
      /\ d \in free[r] /\ posted[r] < MaxPosted
  BY DEF Post
<1>3. /\ free \in [Queue -> SUBSET Desc] /\ avail_ring \in [Queue -> [Slot -> Desc]]
      /\ posted \in [Queue -> 0 .. MaxPosted] /\ MaxPosted \in Nat
      /\ Counters /\ Num \in Nat \ {0}
  BY CountersNat, RpmsgAssumption DEF TypeOK
<1>4. CASE q # r
  BY <1>1, <1>2, <1>3, <1>4, SameQueue
<1>5. CASE q = r
  <2>0. PICK p \in 0 .. MaxPosted : p = posted[q]
    BY <1>3
  <2>1. posted'[q] = p + 1 /\ free'[q] = free[q] \ {d} /\ d \in free[q]
        /\ last_used'[q] = last_used[q] /\ p \in Nat
    BY <1>2, <1>3, <1>5, <2>0
  <2>2. \A n \in InFlight(q) : DescAt(q, n)' = DescAt(q, n)
    BY <1>5, <2>0, <2>1, PostDesc
  <2>3. DescAt(q, p)' = d
    BY <1>5, <2>0, PostDesc
  <2>4. \A n \in InFlight(q)' : n \in InFlight(q) \/ n = p
    <3>1. PICK u \in Nat : u = last_used[q]
      BY <1>3 DEF Counters
    <3>2. InFlight(q) = u .. p-1
      BY <2>0, <3>1 DEF InFlight
    <3>3. InFlight(q)' = u .. (p+1)-1
      BY <2>1, <3>1 DEF InFlight
    <3>4. \A n \in u .. (p+1)-1 : n \in u .. p-1 \/ n = p
      BY ONLY p \in Nat, u \in Nat
    <3> QED
      BY ONLY <3>2, <3>3, <3>4
  <2>5. ASSUME NEW n \in InFlight(q) PROVE DescAt(q, n)' \notin free[q] /\ DescAt(q, n)' # d
    BY <2>1, <2>2 DEF OwnedOnce
  <2>6. \A i, j \in InFlight(q)' : DescAt(q, i)' = DescAt(q, j)' => i = j
    <3> SUFFICES ASSUME NEW i \in InFlight(q)', NEW j \in InFlight(q)',
                        DescAt(q, i)' = DescAt(q, j)'
                 PROVE  i = j
      OBVIOUS
    <3>1. CASE i = p \/ j = p
      BY <2>3, <2>4, <2>5, <3>1
    <3>2. CASE i \in InFlight(q) /\ j \in InFlight(q)
      BY <2>2, <3>2 DEF OwnedOnce
    <3> QED
      BY <2>4, <3>1, <3>2
  <2>7. \A i \in InFlight(q)' : DescAt(q, i)' \notin free'[q]
    BY <2>1, <2>3, <2>4, <2>5
  <2>8. Cardinality(free'[q]) + (posted'[q] - last_used'[q]) = Num
    <3>1. IsFiniteSet(free[q]) /\ Cardinality(free[q]) \in Nat
      BY AtMostNum
    <3>2. Cardinality(free'[q]) = Cardinality(free[q]) - 1
      <4>1. Cardinality(free[q] \ {d}) = Cardinality(free[q]) - 1
        BY <2>1, <3>1, FS_RemoveElement
      <4> QED
        BY <2>1, <4>1
    <3>3. Cardinality(free[q]) + (p - last_used[q]) = Num
      BY <2>0 DEF OwnedOnce
    <3>4. /\ posted'[q] = p + 1 /\ last_used'[q] = last_used[q]
          /\ p \in Nat /\ last_used[q] \in Nat
      BY <1>3, <2>1 DEF Counters
    <3> QED
      BY ONLY <3>1, <3>2, <3>3, <3>4
  <2> QED
    BY <2>6, <2>7, <2>8 DEF OwnedOnce
<1> QED
  BY <1>4, <1>5

(* Reading a stored used element makes its descriptor free again.          *)
LEMMA ReadOwners ==
  ASSUME Lifetime, NoRace, TypeOK, IndicesAgree, NEW q \in Queue, OwnedOnce(q),
         NEW r \in Queue, ReadUsed(r),
         UNCHANGED <<used_ring, avail_ring, posted, pru_vars>>
  PROVE  OwnedOnce(q)'
<1>1. UNCHANGED <<last_avail_idx, pc, vq, head, Stored(q), Holding(q)>>
  BY DEF pru_vars, Holding, Stored
<1>2. /\ free' = [free EXCEPT ![r] = free[r] \cup {used_ring[r][last_used[r] % Num]}]
      /\ last_used' = [last_used EXCEPT ![r] = (last_used[r] + 1) % IdxMod]
      /\ last_used[r] # used_idx[r] /\ (HostRaces \/ ~NextIsStale(r))
  BY DEF ReadUsed
<1>3. /\ free \in [Queue -> SUBSET Desc]
      /\ last_used \in [Queue -> 0 .. IdxMod-1]
      /\ Counters /\ Num \in Nat \ {0} /\ MaxPosted \in Nat /\ IndexFirst \in BOOLEAN
  BY CountersNat, RpmsgAssumption DEF TypeOK
<1>4. CASE q # r
  BY <1>1, <1>2, <1>3, <1>4, SameQueue
<1>5. CASE q = r
  <2> DEFINE lu == last_used[q]
  <2>1. IndicesCount(q)
    BY DEF IndicesAgree
  <2>2. lu < used_idx[q] /\ lu + 1 \in 0 .. MaxPosted
    BY <1>2, <1>3, <1>5, <2>1 DEF IndicesCount, Counters
  <2>3. last_used'[q] = lu + 1 /\ ((lu + 1) % IdxMod) = lu + 1
    BY <1>2, <1>3, <1>5, <2>2, NoWrap
  <2>4. lu < Stored(q) /\ Stored(q) <= last_avail_idx[q] /\ lu < posted[q]
    BY <1>2, <1>3, <1>5, <2>1, <2>2, <2>3
       DEF IndicesCount, Counters, NextIsStale, NoRace, Stored, Holding, Uncounted
  <2>5. lu \in InFlight(q) /\ DescAt(q, lu) = used_ring[q][lu % Num]
    BY <1>3, <2>4 DEF InFlight, DescAt, Counters
  <2>6. \A n \in InFlight(q)' : n \in InFlight(q) /\ n # lu
    BY <1>3, <2>3 DEF InFlight, Counters
  <2>7. \A n \in InFlight(q) : DescAt(q, n)' = DescAt(q, n)
    BY <1>1 DEF DescAt
  <2>8. free'[q] = free[q] \cup {DescAt(q, lu)} /\ DescAt(q, lu) \notin free[q]
    BY <1>2, <1>3, <1>5, <2>5 DEF OwnedOnce
  <2>9. \A i, j \in InFlight(q)' : DescAt(q, i)' = DescAt(q, j)' => i = j
    BY <2>6, <2>7 DEF OwnedOnce
  <2>10. \A i \in InFlight(q)' : DescAt(q, i)' \notin free'[q]
    BY <2>5, <2>6, <2>7, <2>8 DEF OwnedOnce
  <2>11. Cardinality(free'[q]) + (posted'[q] - last_used'[q]) = Num
    <3>1. IsFiniteSet(free[q]) /\ Cardinality(free[q]) \in Nat
      BY AtMostNum
    <3>2. Cardinality(free'[q]) = Cardinality(free[q]) + 1
      BY <2>8, <3>1, FS_AddElement
    <3>3. Cardinality(free[q]) + (posted[q] - lu) = Num
      BY DEF OwnedOnce
    <3> QED
      BY <1>3, <2>3, <3>1, <3>2, <3>3 DEF Counters
  <2> QED
    BY <2>9, <2>10, <2>11 DEF OwnedOnce
<1> QED
  BY <1>4, <1>5

(* At first the host owns every descriptor.                                *)
LEMMA InitOwned == Init => ExclusiveOwnership
<1> SUFFICES ASSUME Init, NEW q \in Queue PROVE OwnedOnce(q)
  BY DEF ExclusiveOwnership
<1>1. InFlight(q) = {} /\ free[q] = Desc /\ posted[q] = 0 /\ last_used[q] = 0
  BY DEF Init, InFlight
<1>2. Cardinality(Desc) = Num
  <2>1. Cardinality(0 .. Num-1) = (Num-1) - 0 + 1
    BY FS_Interval, RpmsgAssumption
  <2> QED
    BY <2>1, RpmsgAssumption DEF Desc
<1> QED
  BY <1>1, <1>2, RpmsgAssumption DEF OwnedOnce

(* Every step of the PRU and of the host keeps the ownership exclusive.    *)
LEMMA NextOwned ==
  ASSUME Lifetime, NoRace, TypeOK, IndicesAgree, TakesAdvertised, ExclusiveOwnership,
         [Next]_vars
  PROVE  ExclusiveOwnership'
<1> SUFFICES ASSUME NEW q \in Queue PROVE OwnedOnce(q)'
  BY DEF ExclusiveOwnership
<1>o. OwnedOnce(q)
  BY DEF ExclusiveOwnership
<1>q. ToArm \in Queue /\ ToPru \in Queue
  BY DEF Queue
<1> USE DEF vring_vars, host_vars, pru_vars
<1>1. ASSUME UNCHANGED <<posted, last_used, free, avail_ring, used_ring,
                         last_avail_idx, head, Holding(q)>>
      PROVE  OwnedOnce(q)'
  BY <1>1, <1>o, SameQueue
<1>2. ASSUME NEW m \in Msgs, Send(m) PROVE OwnedOnce(q)'
  BY <1>1, <1>2 DEF Send, Holding
<1>3. CASE Receive
  BY <1>1, <1>3 DEF Receive, Holding
<1>4. CASE GetAvailIdx
  BY <1>1, <1>4 DEF GetAvailIdx, Holding
<1>5. CASE GetAvailHead
  BY <1>5, <1>o, TakeOwners
<1>6. CASE Copy
  <2>1. ~(head > Num)
    BY RpmsgAssumption DEF TypeOK, Desc
  <2> QED
    BY <1>1, <1>6, <2>1 DEF Copy, Holding
<1>7. CASE StoreUsedIdx
  BY <1>1, <1>7, RpmsgAssumption DEF StoreUsedIdx, UsedIdxStep, AfterAddUsed, Holding
<1>8. CASE StoreUsedElem
  BY <1>8, <1>o, StoreOwners
<1>9. CASE Kick
  BY <1>1, <1>9 DEF Kick, Holding
<1>10. CASE HostPost
  BY <1>10, <1>o, <1>q, PostOwners DEF HostPost
<1>11. ASSUME NEW m \in Msgs \ Oversized, HostSend(m) PROVE OwnedOnce(q)'
  BY <1>11, <1>o, <1>q, PostOwners DEF HostSend
<1>12. CASE HostIrq
  BY <1>1, <1>12 DEF HostIrq, Holding
<1>13. CASE HostReceive
  BY <1>13, <1>o, <1>q, ReadOwners DEF HostReceive
<1>14. CASE HostRxDone
  BY <1>1, <1>14 DEF HostRxDone, Holding
<1>15. CASE HostReclaim
  BY <1>15, <1>o, <1>q, ReadOwners DEF HostReclaim
<1>16. CASE HostBlock
  BY <1>1, <1>16 DEF HostBlock, Holding
<1>17. CASE HostRecheck
  <2>1. CASE ReadUsed(ToPru)
    BY <1>17, <2>1, <1>o, <1>q, ReadOwners DEF HostRecheck
  <2>2. CASE UNCHANGED <<last_used, free>>
    BY <1>1, <1>17, <2>2 DEF HostRecheck, Holding
  <2> QED
    BY <1>17, <2>1, <2>2 DEF HostRecheck
<1>18. CASE UNCHANGED vars
  BY <1>1, <1>18 DEF vars, Holding
<1> QED
  BY <1>2, <1>3, <1>4, <1>5, <1>6, <1>7, <1>8, <1>9, <1>10, <1>11, <1>12, <1>13, <1>14,
     <1>15, <1>16, <1>17, <1>18 DEF Next, PruStep, HostStep

(* The three invariants only hold together: the indices need the PRU to    *)
(* take advertised buffers only, ownership needs the indices.              *)
TransportInv == TypeOK /\ IndicesAgree /\ TakesAdvertised /\ ExclusiveOwnership

(* The conjunction is inductive.                                           *)
LEMMA InitTransport == Init => TransportInv
  BY InitTypeOK, InitIndices, InitOwned DEF TransportInv, TakesAdvertised, Init

LEMMA NextTransport ==
  ASSUME Lifetime, NoRace, TransportInv, [Next]_vars
  PROVE  TransportInv'
  BY NextTypeOK, NextIndices, NextTakesAdvertised, NextOwned DEF TransportInv

LEMMA Inductive ==
  ASSUME Lifetime, NoRace
  PROVE  Spec => []TransportInv
  BY InitTransport, NextTransport, PTL DEF Spec

(* For every ring size, within the life of a 16-bit index, the ring        *)
(* indices count the buffers and the host reads only stored elements.      *)
THEOREM IndicesCorrect ==
  ASSUME Lifetime, NoRace
  PROVE  Spec => []IndicesAgree
<1>1. TransportInv => IndicesAgree
  BY DEF TransportInv
<1> QED
  BY <1>1, Inductive, PTL

(* virtqueue_get_avail_buf takes no buffer the host has not advertised,    *)
(* as long as no index wraps (the run wrap_16bit shows it does after).     *)
THEOREM NeverTakesUnadvertised ==
  ASSUME Lifetime, NoRace
  PROVE  Spec => []TakesAdvertised
<1>1. TransportInv => TakesAdvertised
  BY DEF TransportInv
<1> QED
  BY <1>1, Inductive, PTL

(* Every descriptor of both vrings always has exactly one owner, whatever  *)
(* the ring size and however the PRU and the host interleave, if the host  *)
(* cannot see a used index before its element is stored.                   *)
THEOREM OwnershipExclusive ==
  ASSUME Lifetime, NoRace
  PROVE  Spec => []ExclusiveOwnership
<1>1. TransportInv => ExclusiveOwnership
  BY DEF TransportInv
<1> QED
  BY <1>1, Inductive, PTL

----------------------------------------------------------------------------
(* The FIFO channels: every step of the PRU and of the host is a step of   *)
(* RpmsgChannel or none.                                                   *)

(* What is at position n of a queue.                                       *)
Carried(q, n) == buf[q][DescAt(q, n)]

(* The positions on their way: From(q) .. To(q)-1.                         *)
From(q) == IF q = ToArm THEN last_used[q] ELSE Fetched
To(q)   == IF q = ToArm THEN Sent ELSE posted[q]

(* The channel holds what is at these positions.                           *)
LEMMA Window ==
  ASSUME NEW q \in Queue, NEW lo \in Int, NEW hi \in Int
  PROVE  /\ From(q) = lo /\ To(q) = hi =>
              ChannelState[q] = [i \in 1 .. hi-lo |-> Carried(q, lo + i - 1)]
         /\ From(q)' = lo /\ To(q)' = hi =>
              ChannelState'[q] = [i \in 1 .. hi-lo |-> Carried(q, lo + i - 1)']
  BY DEF ChannelState, Messages, Carried, From, To, DescAt

(* Every position names a descriptor, and its buffer holds something.      *)
LEMMA CarriedType ==
  ASSUME NEW q \in Queue, NEW n \in Int
  PROVE  /\ TypeOK => Carried(q, n) \in Msgs \cup {NoMsg}
         /\ TypeOK' => Carried(q, n)' \in Msgs \cup {NoMsg}
<1>1. (n % Num) \in Slot
  BY Ranges
<1> QED
  BY <1>1 DEF TypeOK, Carried, DescAt

(* No position on its way is free for the host to post again.              *)
LEMMA WindowInFlight ==
  ASSUME TypeOK, IndicesAgree, NEW q \in Queue
  PROVE  /\ From(q) \in Int /\ To(q) \in Int
         /\ last_used[q] <= From(q) /\ From(q) <= To(q) /\ To(q) <= posted[q]
<1>1. Counters /\ IndexFirst \in BOOLEAN /\ MaxPosted \in Nat /\ vq \in Queue
      /\ IndicesCount(q) /\ q \in {ToArm, ToPru} /\ ToArm # ToPru
      /\ ToArm \in Queue /\ ToPru \in Queue
  BY CountersNat, RpmsgAssumption DEF IndicesAgree, TypeOK, Queue, ToArm, ToPru
<1> QED
  BY <1>1 DEF From, To, Sent, Fetched, IndicesCount, Stored, Holding, Uncounted, Counters

----------------------------------------------------------------------------
(* The n-th buffer of a queue keeps its descriptor from the moment it is   *)
(* posted until the host has it back.                                      *)
LEMMA DescFixed ==
  ASSUME Lifetime, NoRace, TransportInv, [Next]_vars, NEW q \in Queue, NEW n \in InFlight(q)
  PROVE  DescAt(q, n)' = DescAt(q, n)
<1> USE DEF TransportInv, vring_vars, host_vars, pru_vars
<1>q. ToArm \in Queue /\ ToPru \in Queue
  BY DEF Queue
<1>1. ASSUME UNCHANGED <<avail_ring, used_ring, last_avail_idx, head, Holding(q)>>
      PROVE  DescAt(q, n)' = DescAt(q, n)
  BY <1>1, SameDesc
<1>2. ASSUME NEW m \in Msgs, Send(m) PROVE DescAt(q, n)' = DescAt(q, n)
  BY <1>1, <1>2 DEF Send, Holding
<1>3. CASE Receive \/ GetAvailIdx \/ Kick
  BY <1>1, <1>3 DEF Receive, GetAvailIdx, Kick, Holding
<1>4. CASE GetAvailHead
  BY <1>4, TakeDesc
<1>5. CASE Copy
  <2>1. ~(head > Num)
    BY RpmsgAssumption DEF TypeOK, Desc
  <2> QED
    BY <1>1, <1>5, <2>1 DEF Copy, Holding
<1>6. CASE StoreUsedIdx
  BY <1>1, <1>6, RpmsgAssumption DEF StoreUsedIdx, UsedIdxStep, AfterAddUsed, Holding
<1>7. CASE StoreUsedElem
  BY <1>7, StoreDesc DEF ExclusiveOwnership
<1>8. ASSUME NEW r \in Queue, NEW d \in Desc, Post(r, d), UNCHANGED <<used_ring, pru_vars>>
      PROVE  DescAt(q, n)' = DescAt(q, n)
  <2>1. PICK p \in Nat : p = posted[r]
    BY CountersNat, RpmsgAssumption DEF Counters
  <2> QED
    BY <1>8, <2>1, PostDesc DEF ExclusiveOwnership
<1>9. CASE HostPost \/ \E m \in Msgs \ Oversized : HostSend(m)
  BY <1>8, <1>9, <1>q DEF HostPost, HostSend
<1>10. CASE HostIrq \/ HostReceive \/ HostRxDone \/ HostReclaim \/ HostBlock \/ HostRecheck
  BY <1>1, <1>10 DEF HostIrq, HostReceive, HostRxDone, HostReclaim, HostBlock, HostRecheck, Holding
<1>11. CASE UNCHANGED vars
  BY <1>1, <1>11 DEF vars, Holding
<1> QED
  BY <1>2, <1>3, <1>4, <1>5, <1>6, <1>7, <1>9, <1>10, <1>11 DEF Next, PruStep, HostStep

----------------------------------------------------------------------------
(* What happens to a channel when its window stays, ...                    *)
LEMMA ChannelSame ==
  ASSUME TypeOK, TypeOK', NEW q \in Queue, NEW lo \in Int, NEW hi \in Int, lo <= hi,
         From(q) = lo, To(q) = hi, From(q)' = lo, To(q)' = hi,
         \A n \in lo .. hi-1 : Carried(q, n)' = Carried(q, n)
  PROVE  ChannelState'[q] = ChannelState[q]
<1> DEFINE s == [i \in 1 .. hi-lo |-> Carried(q, lo + i - 1)]
           t == [i \in 1 .. hi-lo |-> Carried(q, lo + i - 1)']
<1>1. ChannelState[q] = s /\ ChannelState'[q] = t
  BY Window
<1>2. \A i \in 1 .. hi-lo : lo + i - 1 \in lo .. hi-1
  OBVIOUS
<1> QED
  BY <1>1, <1>2

(* ... grows by the next position, ...                                     *)
LEMMA ChannelGrows ==
  ASSUME TypeOK, TypeOK', NEW q \in Queue, NEW lo \in Int, NEW hi \in Int, lo <= hi,
         From(q) = lo, To(q) = hi, From(q)' = lo, To(q)' = hi + 1,
         \A n \in lo .. hi-1 : Carried(q, n)' = Carried(q, n)
  PROVE  /\ ChannelState'[q] = Append(ChannelState[q], Carried(q, hi)')
         /\ Len(ChannelState[q]) = hi - lo
<1> DEFINE k == hi - lo
           s == [i \in 1 .. k |-> Carried(q, lo + i - 1)]
           t == [i \in 1 .. k+1 |-> Carried(q, lo + i - 1)']
<1>0. k \in Nat /\ (hi + 1) - lo = k + 1 /\ lo + (k + 1) - 1 = hi /\ k + 1 \in 1 .. k+1
  OBVIOUS
<1>1. ChannelState[q] = s
  BY Window
<1>2. ChannelState'[q] = t
  <2>1. PICK h \in Int : h = hi + 1
    OBVIOUS
  <2>2. ChannelState'[q] = [i \in 1 .. h-lo |-> Carried(q, lo + i - 1)']
    BY <2>1, Window
  <2> QED
    BY <1>0, <2>1, <2>2
<1>3. s \in [1 .. k -> Msgs \cup {NoMsg}] /\ t \in [1 .. k+1 -> Msgs \cup {NoMsg}]
  BY CarriedType
<1>4. \A i \in 1 .. k : lo + i - 1 \in lo .. hi-1 /\ i \in 1 .. k+1
  OBVIOUS
<1>5. \A i \in 1 .. k : t[i] = s[i]
  BY <1>4
<1>6. t[k + 1] = Carried(q, hi)'
  BY <1>0
<1> HIDE DEF s, t
<1>7. Len(s) = k /\ t = Append(s, t[k + 1])
  BY <1>0, <1>3, <1>5, WindowGrows
<1> QED
  BY <1>1, <1>2, <1>6, <1>7

(* ... or leaves its oldest position.                                      *)
LEMMA ChannelShrinks ==
  ASSUME TypeOK, TypeOK', NEW q \in Queue, NEW lo \in Int, NEW hi \in Int, lo < hi,
         From(q) = lo, To(q) = hi, From(q)' = lo + 1, To(q)' = hi,
         \A n \in lo .. hi-1 : Carried(q, n)' = Carried(q, n)
  PROVE  /\ ChannelState[q] # <<>>
         /\ Head(ChannelState[q]) = Carried(q, lo)
         /\ ChannelState'[q] = Tail(ChannelState[q])
<1> DEFINE k == hi - lo - 1
           s == [i \in 1 .. k+1 |-> Carried(q, lo + i - 1)]
           t == [i \in 1 .. k |-> Carried(q, (lo + 1) + i - 1)']
<1>0. k \in Nat /\ hi - lo = k + 1 /\ hi - (lo + 1) = k /\ lo + 1 - 1 = lo /\ 1 \in 1 .. k+1
  OBVIOUS
<1>1. ChannelState[q] = s
  <2>1. ChannelState[q] = [i \in 1 .. hi-lo |-> Carried(q, lo + i - 1)]
    BY Window
  <2> QED
    BY <1>0, <2>1
<1>2. ChannelState'[q] = t
  <2>1. ChannelState'[q] = [i \in 1 .. hi-(lo+1) |-> Carried(q, (lo + 1) + i - 1)']
    BY Window
  <2> QED
    BY <1>0, <2>1
<1>3. s \in [1 .. k+1 -> Msgs \cup {NoMsg}] /\ t \in [1 .. k -> Msgs \cup {NoMsg}]
  BY CarriedType
<1>4. \A i \in 1 .. k : /\ (lo + 1) + i - 1 \in lo .. hi-1 /\ i + 1 \in 1 .. k+1
                        /\ lo + (i + 1) - 1 = (lo + 1) + i - 1
  OBVIOUS
<1>5. \A i \in 1 .. k : t[i] = s[i + 1]
  BY <1>4
<1>6. s[1] = Carried(q, lo)
  BY <1>0
<1> HIDE DEF s, t
<1>7. s # <<>> /\ Head(s) = s[1] /\ t = Tail(s)
  BY <1>0, <1>3, <1>5, WindowShrinks
<1> QED
  BY <1>1, <1>2, <1>6, <1>7

----------------------------------------------------------------------------
(* A position in flight carries the same unless its buffer is written.     *)
LEMMA CarriedFixed ==
  ASSUME Lifetime, NoRace, TransportInv, [Next]_vars, NEW q \in Queue, NEW n \in InFlight(q),
         buf'[q][DescAt(q, n)] = buf[q][DescAt(q, n)]
  PROVE  Carried(q, n)' = Carried(q, n)
<1>1. DescAt(q, n)' = DescAt(q, n)
  BY DescFixed
<1> QED
  BY <1>1 DEF Carried

(* Positions of the window are in flight.                                  *)
LEMMA InWindow ==
  ASSUME TypeOK, IndicesAgree, NEW q \in Queue, NEW n \in From(q) .. To(q)-1
  PROVE  n \in InFlight(q)
<1>1. last_used[q] \in Nat /\ posted[q] \in Nat
  BY CountersNat, RpmsgAssumption DEF Counters
<1> QED
  BY <1>1, WindowInFlight DEF InFlight

(* A step that leaves window and buffers of a queue alone is none of its   *)
(* channel.                                                                *)
LEMMA Quiet ==
  ASSUME Lifetime, NoRace, TransportInv, [Next]_vars, NEW q \in Queue,
         UNCHANGED <<From(q), To(q)>>,
         \A n \in From(q) .. To(q)-1 : buf'[q][DescAt(q, n)] = buf[q][DescAt(q, n)]
  PROVE  ChannelState'[q] = ChannelState[q]
<1>1. TypeOK /\ IndicesAgree /\ TypeOK'
  BY NextTransport DEF TransportInv
<1>2. PICK lo \in Int, hi \in Int : lo = From(q) /\ hi = To(q) /\ lo <= hi
  BY <1>1, WindowInFlight
<1>3. \A n \in lo .. hi-1 : Carried(q, n)' = Carried(q, n)
  BY <1>1, <1>2, InWindow, CarriedFixed
<1> QED
  BY <1>1, <1>2, <1>3, ChannelSame

(* The two channels are the state of RpmsgChannel.                         *)
LEMMA TwoChannels ==
  /\ ChannelState'[ToArm] = ChannelState[ToArm] /\ ChannelState'[ToPru] = ChannelState[ToPru]
       => ChannelState' = ChannelState
  /\ \A x : ChannelState'[ToArm] = x /\ ChannelState'[ToPru] = ChannelState[ToPru]
             => ChannelState' = [ChannelState EXCEPT ![ToArm] = x]
  /\ \A x : ChannelState'[ToPru] = x /\ ChannelState'[ToArm] = ChannelState[ToArm]
             => ChannelState' = [ChannelState EXCEPT ![ToPru] = x]
<1>1. /\ ChannelState = [q \in Queue |-> ChannelState[q]]
      /\ ChannelState' = [q \in Queue |-> ChannelState'[q]]
  BY DEF ChannelState
<1> HIDE DEF ChannelState
<1> QED
  BY <1>1 DEF Queue, ToArm, ToPru

----------------------------------------------------------------------------
(* What the PRU sends fits, from rpmsg_send's check of the length until    *)
(* the host may read it.                                                   *)
MessageFits ==
  vq = ToArm =>
    /\ pc \in {"get_avail", "get_head", "copy"} => msg \in Msgs \ Oversized
    /\ pc \in {"add_used", "add_used2"} =>
         Carried(ToArm, last_avail_idx[ToArm] - 1) \in Msgs \ Oversized

ImplementsInv == TransportInv /\ MessageFits

(* The position the PRU is working on.                                     *)
LEMMA Working ==
  ASSUME TypeOK, IndicesAgree, pc \in {"copy", "add_used", "add_used2"}
  PROVE  /\ last_avail_idx[vq] - 1 \in InFlight(vq)
         /\ pc = "copy" => DescAt(vq, last_avail_idx[vq] - 1) = head
<1>1. Counters /\ IndexFirst \in BOOLEAN /\ MaxPosted \in Nat /\ vq \in Queue
      /\ IndicesCount(vq)
  BY CountersNat, RpmsgAssumption DEF IndicesAgree, TypeOK
<1> QED
  BY <1>1 DEF IndicesCount, Stored, Holding, Uncounted, Counters, InFlight, DescAt

(* Every step keeps it so.                                                 *)
LEMMA NextFits ==
  ASSUME Lifetime, NoRace, ImplementsInv, [Next]_vars
  PROVE  MessageFits'
<1> USE DEF vring_vars, host_vars, pru_vars
<1>t. TypeOK /\ IndicesAgree /\ TypeOK' /\ IndicesAgree' /\ TransportInv /\ MessageFits
  BY NextTransport DEF ImplementsInv, TransportInv
<1>a. vq \in Queue /\ ToArm \in Queue /\ ToArm # ToPru
  BY <1>t DEF TypeOK, Queue, ToArm, ToPru
<1>1. CASE pc' \notin {"get_avail", "get_head", "copy", "add_used", "add_used2"} \/ vq' # ToArm
  BY <1>1 DEF MessageFits
<1>2. ASSUME UNCHANGED <<vq, pc, last_avail_idx, msg, buf[ToArm]>> \/
             (UNCHANGED <<vq, last_avail_idx, buf>> /\ pc \in {"add_used", "add_used2"}
                /\ pc' \in {"add_used2", "kick"})
      PROVE  MessageFits'
  <2>1. CASE vq = ToArm /\ pc \in {"add_used", "add_used2"}
    <3>1. PICK n : n = last_avail_idx[ToArm] - 1
      OBVIOUS
    <3>2. n \in InFlight(ToArm)
      BY <1>t, <2>1, <3>1, Working
    <3>3. Carried(ToArm, n)' = Carried(ToArm, n)
      BY <1>2, <1>t, <1>a, <3>2, CarriedFixed
    <3>4. Carried(ToArm, last_avail_idx[ToArm] - 1)' = Carried(ToArm, n)'
      BY <1>2, <3>1 DEF Carried, DescAt
    <3>5. Carried(ToArm, n) \in Msgs \ Oversized
      BY <1>t, <2>1, <3>1 DEF MessageFits
    <3> QED
      BY <1>2, <2>1, <3>3, <3>4, <3>5 DEF MessageFits
  <2>2. CASE ~(vq = ToArm /\ pc \in {"add_used", "add_used2"})
    BY <1>2, <1>t, <2>2 DEF MessageFits
  <2> QED
    BY <2>1, <2>2
<1>3. ASSUME NEW m \in Msgs, Send(m) PROVE MessageFits'
  BY <1>3 DEF Send, MessageFits
<1>4. CASE Receive
  BY <1>1, <1>4, <1>a DEF Receive
<1>5. CASE GetAvailIdx
  BY <1>5, <1>t DEF GetAvailIdx, MessageFits
<1>6. CASE GetAvailHead
  BY <1>6, <1>t DEF GetAvailHead, MessageFits
<1>7. CASE Copy
  <2>1. ~(head > Num) /\ head \in Desc /\ buf \in [Queue -> [Desc -> Msgs \cup {NoMsg}]]
    BY <1>t, RpmsgAssumption DEF TypeOK, Desc
  <2>2. /\ pc = "copy" /\ pc' = "add_used" /\ UNCHANGED <<vq, last_avail_idx>>
        /\ vq = ToArm => buf' = [buf EXCEPT ![ToArm] = [buf[ToArm] EXCEPT ![head] = msg]]
    BY <1>7, <2>1 DEF Copy
  <2>3. CASE vq = ToArm
    <3>1. PICK n : n = last_avail_idx[ToArm] - 1
      OBVIOUS
    <3>2. n \in InFlight(ToArm) /\ DescAt(ToArm, n) = head
      BY <1>t, <2>2, <2>3, <3>1, Working
    <3>3. DescAt(ToArm, n)' = head
      BY <1>t, <1>a, <3>2, DescFixed
    <3>4. Carried(ToArm, n)' = msg
      BY <1>a, <2>1, <2>2, <2>3, <3>3 DEF Carried
    <3>5. Carried(ToArm, last_avail_idx[ToArm] - 1)' = Carried(ToArm, n)'
      BY <2>2, <3>1 DEF Carried, DescAt
    <3>6. msg \in Msgs \ Oversized
      BY <1>t, <2>2, <2>3 DEF MessageFits
    <3> QED
      BY <2>2, <3>4, <3>5, <3>6 DEF MessageFits
  <2>4. CASE vq # ToArm
    BY <1>1, <2>2, <2>4
  <2> QED
    BY <2>3, <2>4
<1>8. CASE StoreUsedIdx
  BY <1>2, <1>8, RpmsgAssumption DEF StoreUsedIdx, UsedIdxStep, AfterAddUsed
<1>9. CASE StoreUsedElem
  BY <1>2, <1>9, RpmsgAssumption DEF StoreUsedElem, UsedElemStep, AfterAddUsed
<1>10. CASE Kick
  BY <1>1, <1>10 DEF Kick
<1>11. ASSUME NEW m \in Msgs \ Oversized, HostSend(m) PROVE MessageFits'
  <2>1. buf'[ToArm] = buf[ToArm]
    BY <1>11, <1>a, <1>t DEF HostSend, TypeOK
  <2> QED
    BY <1>2, <1>11, <2>1 DEF HostSend
<1>12. CASE HostPost \/ HostIrq \/ HostReceive \/ HostRxDone \/ HostReclaim \/ HostBlock \/ HostRecheck
  BY <1>2, <1>12
     DEF HostPost, HostIrq, HostReceive, HostRxDone, HostReclaim, HostBlock, HostRecheck
<1>13. CASE UNCHANGED vars
  BY <1>2, <1>13 DEF vars
<1> QED
  BY <1>3, <1>4, <1>5, <1>6, <1>7, <1>8, <1>9, <1>10, <1>11, <1>12, <1>13
     DEF Next, PruStep, HostStep

----------------------------------------------------------------------------
(* The steps that put a message into a channel or take one out.            *)

(* The second store of virtqueue_add_used_buf puts the message the PRU     *)
(* sends where the host finds it.                                          *)
LEMMA StorePuts ==
  ASSUME Lifetime, NoRace, ImplementsInv, StoreUsedIdx \/ StoreUsedElem,
         pc = "add_used2", vq = ToArm
  PROVE  \E m \in Msgs \ Oversized : Channel!Put(ToArm, m)
<1>t. TypeOK /\ IndicesAgree /\ TypeOK' /\ TransportInv /\ MessageFits /\ [Next]_vars
      /\ ExclusiveOwnership
  BY NextTransport DEF ImplementsInv, TransportInv, Next, PruStep
<1>a. ToArm \in Queue /\ ToPru \in Queue /\ ToArm # ToPru
  BY DEF Queue, ToArm, ToPru
<1>1. /\ pc' = "kick"
      /\ UNCHANGED <<buf, last_avail_idx, last_used, posted, vq, got, host_got>>
  BY DEF StoreUsedIdx, StoreUsedElem, AfterAddUsed, host_vars
<1>2. PICK lo \in Int, hi \in Int : lo = From(ToArm) /\ hi = To(ToArm) /\ lo <= hi
  BY <1>a, <1>t, WindowInFlight
<1>3. hi = last_avail_idx[ToArm] - 1 /\ lo = last_used[ToArm]
  BY <1>2 DEF To, From, Sent
<1>4. From(ToArm)' = lo /\ To(ToArm)' = hi + 1
  <2>1. last_avail_idx[ToArm] \in Nat
    BY <1>a, <1>t, CountersNat DEF Counters
  <2> QED
    BY <1>1, <1>3, <2>1 DEF To, From, Sent
<1>5. \A n \in lo .. hi-1 : Carried(ToArm, n)' = Carried(ToArm, n)
  BY <1>a, <1>t, <1>1, <1>2, InWindow, CarriedFixed
<1>6. /\ ChannelState'[ToArm] = Append(ChannelState[ToArm], Carried(ToArm, hi)')
      /\ Len(ChannelState[ToArm]) = hi - lo
  BY <1>a, <1>t, <1>2, <1>4, <1>5, ChannelGrows
<1>7. hi \in InFlight(ToArm)
  BY <1>t, <1>3, Working
<1>8. Carried(ToArm, hi)' \in Msgs \ Oversized
  <2>1. Carried(ToArm, hi)' = Carried(ToArm, hi)
    BY <1>a, <1>t, <1>1, <1>7, CarriedFixed
  <2> QED
    BY <1>t, <1>3, <2>1 DEF MessageFits
<1>9. hi - lo < Num
  <2>1. posted[ToArm] - last_used[ToArm] <= Num /\ hi < posted[ToArm]
        /\ posted[ToArm] \in Nat /\ last_used[ToArm] \in Nat
    BY <1>a, <1>t, <1>7, AtMostNum, CountersNat, RpmsgAssumption
       DEF ExclusiveOwnership, InFlight, Counters
  <2> QED
    BY <1>3, <2>1, RpmsgAssumption
<1>10. ChannelState'[ToPru] = ChannelState[ToPru]
  <2>1. UNCHANGED <<From(ToPru), To(ToPru)>>
    BY <1>1, <1>a DEF From, To, Fetched
  <2> QED
    BY <1>a, <1>t, <1>1, <2>1, Quiet
<1>11. ChannelState' = [ChannelState EXCEPT ![ToArm] = Append(ChannelState[ToArm], Carried(ToArm, hi)')]
  BY <1>6, <1>10, TwoChannels
<1> QED
  BY <1>1, <1>6, <1>8, <1>9, <1>11 DEF Channel!Put

(* The host posts a buffer with a message in it.                           *)
LEMMA HostPuts ==
  ASSUME Lifetime, NoRace, ImplementsInv, NEW m \in Msgs \ Oversized, HostSend(m)
  PROVE  Channel!Put(ToPru, m)
<1>t. TypeOK /\ IndicesAgree /\ TypeOK' /\ TransportInv /\ [Next]_vars /\ ExclusiveOwnership
  BY NextTransport DEF ImplementsInv, TransportInv, Next, HostStep
<1>a. ToArm \in Queue /\ ToPru \in Queue /\ ToArm # ToPru
  BY DEF Queue, ToArm, ToPru
<1>1. PICK d \in Desc : Post(ToPru, d) /\ buf' = [buf EXCEPT ![ToPru][d] = m]
  BY DEF HostSend
<1>2. UNCHANGED <<used_ring, last_used, last_avail_idx, pc, vq, head, got, host_got>>
      /\ UNCHANGED pru_vars
  BY DEF HostSend, pru_vars
<1>b. buf' = [buf EXCEPT ![ToPru] = [buf[ToPru] EXCEPT ![d] = m]]
      /\ buf \in [Queue -> [Desc -> Msgs \cup {NoMsg}]]
  BY <1>t, <1>1 DEF TypeOK
<1>3. PICK lo \in Int, hi \in Int : lo = From(ToPru) /\ hi = To(ToPru) /\ lo <= hi
  BY <1>a, <1>t, WindowInFlight
<1>4. hi = posted[ToPru] /\ hi \in Nat /\ posted'[ToPru] = hi + 1 /\ last_used[ToPru] <= lo
      /\ posted'[ToArm] = posted[ToArm]
  <2>1. posted' = [posted EXCEPT ![ToPru] = posted[ToPru] + 1]
    BY <1>1 DEF Post
  <2>2. posted \in [Queue -> 0 .. MaxPosted] /\ MaxPosted \in Nat
    BY <1>t, RpmsgAssumption DEF TypeOK
  <2> QED
    BY <1>a, <1>t, <1>3, <2>1, <2>2, WindowInFlight DEF To
<1>5. From(ToPru)' = lo /\ To(ToPru)' = hi + 1
  BY <1>2, <1>3, <1>4, <1>a DEF From, To, Fetched
<1>6. DescAt(ToPru, hi)' = d /\ hi - last_used[ToPru] < Num
  BY <1>a, <1>t, <1>1, <1>2, <1>4, PostDesc DEF ExclusiveOwnership
<1>7. \A n \in lo .. hi-1 : Carried(ToPru, n)' = Carried(ToPru, n)
  <2> SUFFICES ASSUME NEW n \in lo .. hi-1 PROVE Carried(ToPru, n)' = Carried(ToPru, n)
    OBVIOUS
  <2>1. n \in InFlight(ToPru)
    BY <1>a, <1>t, <1>3, InWindow
  <2>2. DescAt(ToPru, n) # d
    BY <1>a, <1>t, <1>1, <2>1 DEF ExclusiveOwnership, OwnedOnce, Post
  <2> QED
    BY <1>a, <1>t, <1>b, <2>1, <2>2, CarriedFixed
<1>8. /\ ChannelState'[ToPru] = Append(ChannelState[ToPru], Carried(ToPru, hi)')
      /\ Len(ChannelState[ToPru]) = hi - lo
  BY <1>a, <1>t, <1>3, <1>5, <1>7, ChannelGrows
<1>9. Carried(ToPru, hi)' = m
  BY <1>a, <1>b, <1>6 DEF Carried
<1>10. hi - lo < Num
  <2>1. last_used[ToPru] \in Nat /\ Num \in Nat
    BY <1>a, <1>t, CountersNat, RpmsgAssumption DEF Counters
  <2> QED
    BY <1>4, <1>6, <2>1
<1>11. ChannelState'[ToArm] = ChannelState[ToArm]
  <2>1. UNCHANGED <<From(ToArm), To(ToArm), buf[ToArm]>>
    BY <1>2, <1>a, <1>b DEF From, To, Sent
  <2> QED
    BY <1>a, <1>t, <2>1, Quiet
<1>12. ChannelState' = [ChannelState EXCEPT ![ToPru] = Append(ChannelState[ToPru], m)]
  BY <1>8, <1>9, <1>11, TwoChannels
<1> QED
  BY <1>2, <1>8, <1>10, <1>12 DEF Channel!Put

(* rpmsg_receive takes the oldest message out of its buffer.               *)
LEMMA CopyGets ==
  ASSUME Lifetime, NoRace, ImplementsInv, Copy, vq = ToPru
  PROVE  Channel!PruGet
<1>t. TypeOK /\ IndicesAgree /\ TypeOK' /\ TransportInv /\ [Next]_vars
  BY NextTransport DEF ImplementsInv, TransportInv, Next, PruStep
<1>a. ToArm \in Queue /\ ToPru \in Queue /\ ToArm # ToPru
  BY DEF Queue, ToArm, ToPru
<1>1. /\ pc = "copy" /\ pc' = "add_used"
      /\ got' = buf[ToPru][head]
      /\ UNCHANGED <<buf, last_avail_idx, last_used, posted, vq, host_got>>
  <2>1. ~(head > Num)
    BY <1>t, RpmsgAssumption DEF TypeOK, Desc
  <2> QED
    BY <1>a, <2>1 DEF Copy, host_vars
<1>2. PICK lo \in Int, hi \in Int : lo = From(ToPru) /\ hi = To(ToPru)
  BY <1>a, <1>t, WindowInFlight
<1>3. lo = last_avail_idx[ToPru] - 1 /\ hi = posted[ToPru] /\ last_avail_idx[ToPru] \in Nat
      /\ lo < hi
  <2>1. Counters /\ MaxPosted \in Nat /\ last_avail_idx[ToPru] <= posted[ToPru]
    BY <1>a, <1>t, CountersNat, RpmsgAssumption DEF IndicesAgree, IndicesCount
  <2>2. lo = last_avail_idx[ToPru] - 1 /\ hi = posted[ToPru]
    BY <1>a, <1>1, <1>2 DEF From, To, Fetched
  <2> QED
    BY <1>a, <2>1, <2>2 DEF Counters
<1>4. From(ToPru)' = lo + 1 /\ To(ToPru)' = hi
  BY <1>a, <1>1, <1>3 DEF From, To, Fetched
<1>5. \A n \in lo .. hi-1 : Carried(ToPru, n)' = Carried(ToPru, n)
  BY <1>a, <1>t, <1>1, <1>2, InWindow, CarriedFixed
<1>6. /\ ChannelState[ToPru] # <<>>
      /\ Head(ChannelState[ToPru]) = Carried(ToPru, lo)
      /\ ChannelState'[ToPru] = Tail(ChannelState[ToPru])
  BY <1>a, <1>t, <1>2, <1>3, <1>4, <1>5, ChannelShrinks
<1>7. got' = Carried(ToPru, lo)
  BY <1>t, <1>1, <1>3, Working DEF Carried
<1>8. ChannelState'[ToArm] = ChannelState[ToArm]
  <2>1. UNCHANGED <<From(ToArm), To(ToArm)>>
    BY <1>1, <1>a DEF From, To, Sent
  <2> QED
    BY <1>a, <1>t, <1>1, <2>1, Quiet
<1>9. ChannelState' = [ChannelState EXCEPT ![ToPru] = Tail(ChannelState[ToPru])]
  BY <1>6, <1>8, TwoChannels
<1> QED
  BY <1>1, <1>6, <1>7, <1>9 DEF Channel!PruGet, ToPru

(* The host takes the oldest message off the used ring.                    *)
LEMMA ReceiveGets ==
  ASSUME Lifetime, NoRace, ImplementsInv, HostReceive
  PROVE  Channel!HostGet
<1>t. TypeOK /\ IndicesAgree /\ TypeOK' /\ TransportInv /\ [Next]_vars
  BY NextTransport DEF ImplementsInv, TransportInv, Next, HostStep
<1>a. ToArm \in Queue /\ ToPru \in Queue /\ ToArm # ToPru /\ IndexFirst \in BOOLEAN
  BY RpmsgAssumption DEF Queue, ToArm, ToPru
<1> DEFINE lu == last_used[ToArm]
<1>1. /\ ReadUsed(ToArm)
      /\ host_got' = buf[ToArm][used_ring[ToArm][lu % Num]]
      /\ UNCHANGED <<buf, last_avail_idx, posted, pc, vq, got, used_ring>>
  BY DEF HostReceive, vring_vars, pru_vars
<1>2. Counters /\ MaxPosted \in Nat /\ IndicesCount(ToArm)
      /\ last_used \in [Queue -> 0 .. IdxMod-1]
  BY <1>a, <1>t, CountersNat, RpmsgAssumption DEF IndicesAgree, TypeOK
<1>3. lu < used_idx[ToArm] /\ lu + 1 \in 0 .. MaxPosted
  BY <1>1, <1>2, <1>a DEF ReadUsed, IndicesCount, Counters
<1>4. ((lu + 1) % IdxMod) = lu + 1
  BY <1>3, NoWrap
<1>5. last_used' = [last_used EXCEPT ![ToArm] = lu + 1]
  BY <1>1, <1>4 DEF ReadUsed
<1>6. HostRaces \/ ~NextIsStale(ToArm)
  BY <1>1 DEF ReadUsed
<1>7. PICK lo \in Int, hi \in Int : lo = From(ToArm) /\ hi = To(ToArm)
  BY <1>a, <1>t, WindowInFlight
<1>8. lo = lu /\ hi = Sent
  BY <1>7 DEF From, To
<1>9. lo < hi /\ lo < Stored(ToArm)
  <2>1. lu < Stored(ToArm)
    BY <1>2, <1>3, <1>4, <1>6, <1>a
       DEF IndicesCount, Counters, NextIsStale, NoRace, Stored, Holding, Uncounted
  <2>2. lu < Sent
    BY <1>2, <1>3, <1>4, <1>6, <1>a
       DEF IndicesCount, Counters, NextIsStale, NoRace, Sent, Uncounted
  <2> QED
    BY <1>8, <2>1, <2>2
<1>10. From(ToArm)' = lo + 1 /\ To(ToArm)' = hi
  BY <1>1, <1>2, <1>5, <1>8, <1>a DEF From, To, Sent
<1>11. \A n \in lo .. hi-1 : Carried(ToArm, n)' = Carried(ToArm, n)
  BY <1>a, <1>t, <1>1, <1>7, InWindow, CarriedFixed
<1>12. /\ ChannelState[ToArm] # <<>>
       /\ Head(ChannelState[ToArm]) = Carried(ToArm, lo)
       /\ ChannelState'[ToArm] = Tail(ChannelState[ToArm])
  BY <1>a, <1>t, <1>7, <1>9, <1>10, <1>11, ChannelShrinks
<1>13. host_got' = Carried(ToArm, lo)
  BY <1>1, <1>8, <1>9 DEF Carried, DescAt
<1>14. ChannelState'[ToPru] = ChannelState[ToPru]
  <2>1. UNCHANGED <<From(ToPru), To(ToPru)>>
    BY <1>1, <1>a DEF From, To, Fetched
  <2> QED
    BY <1>a, <1>t, <1>1, <2>1, Quiet
<1>15. ChannelState' = [ChannelState EXCEPT ![ToArm] = Tail(ChannelState[ToArm])]
  BY <1>12, <1>14, TwoChannels
<1> QED
  BY <1>1, <1>12, <1>13, <1>15 DEF Channel!HostGet, ToArm

----------------------------------------------------------------------------
(* Every other step changes neither channel.                               *)
LEMMA OtherSteps ==
  ASSUME Lifetime, NoRace, ImplementsInv, [Next]_vars,
         ~HostReceive, ~(Copy /\ vq = ToPru), \A m \in Msgs \ Oversized : ~HostSend(m),
         ~((StoreUsedIdx \/ StoreUsedElem) /\ pc = "add_used2" /\ vq = ToArm)
  PROVE  UNCHANGED Channel!chan_vars
<1> USE DEF vring_vars, host_vars, pru_vars
<1>t. TypeOK /\ IndicesAgree /\ TransportInv /\ TakesAdvertised /\ ExclusiveOwnership
  BY DEF ImplementsInv, TransportInv
<1>a. ToArm \in Queue /\ ToPru \in Queue /\ ToArm # ToPru /\ IndexFirst \in BOOLEAN
      /\ vq \in Queue
  BY <1>t, RpmsgAssumption DEF Queue, ToArm, ToPru, TypeOK
<1>1. ASSUME UNCHANGED <<buf, got, host_got, From(ToArm), To(ToArm), From(ToPru), To(ToPru)>>
      PROVE  UNCHANGED Channel!chan_vars
  <2>1. ChannelState'[ToArm] = ChannelState[ToArm] /\ ChannelState'[ToPru] = ChannelState[ToPru]
    BY <1>1, <1>a, <1>t, Quiet
  <2> QED
    BY <1>1, <2>1, TwoChannels DEF Channel!chan_vars
<1> USE DEF From, To, Sent, Fetched
<1>2. ASSUME NEW m \in Msgs, Send(m) PROVE UNCHANGED Channel!chan_vars
  BY <1>1, <1>2 DEF Send
<1>3. CASE Receive \/ GetAvailIdx \/ Kick
  BY <1>1, <1>3 DEF Receive, GetAvailIdx, Kick
<1>4. CASE GetAvailHead
  <2>1. Counters /\ MaxPosted \in Nat /\ last_avail_idx \in [Queue -> 0 .. CntMod-1]
    BY <1>t, CountersNat, RpmsgAssumption DEF TypeOK
  <2>2. last_avail_idx[vq] + 1 \in 0 .. MaxPosted
    BY <1>4, <1>t, <1>a, <2>1 DEF GetAvailHead, TakesAdvertised, Counters
  <2>3. last_avail_idx' = [last_avail_idx EXCEPT ![vq] = last_avail_idx[vq] + 1]
    BY <1>4, <2>2, NoWrap DEF GetAvailHead
  <2>4. /\ pc = "get_head" /\ pc' = "copy"
        /\ UNCHANGED <<buf, got, host_got, vq, last_used, posted>>
    BY <1>4 DEF GetAvailHead
  <2>5. UNCHANGED <<From(ToArm), To(ToArm), From(ToPru), To(ToPru)>>
    BY <1>a, <2>1, <2>3, <2>4 DEF Counters, Queue
  <2> QED
    BY <1>1, <2>4, <2>5
<1>5. CASE Copy
  <2>1. vq = ToArm /\ ~(head > Num) /\ head \in Desc
        /\ buf \in [Queue -> [Desc -> Msgs \cup {NoMsg}]]
    BY <1>5, <1>a, <1>t, RpmsgAssumption DEF TypeOK, Desc, Queue
  <2>2. /\ pc = "copy" /\ pc' = "add_used"
        /\ buf' = [buf EXCEPT ![ToArm] = [buf[ToArm] EXCEPT ![head] = msg]]
        /\ UNCHANGED <<got, host_got, vq, last_avail_idx, last_used, posted>>
    BY <1>5, <2>1 DEF Copy
  <2>3. UNCHANGED <<From(ToArm), To(ToArm), From(ToPru), To(ToPru)>>
    BY <2>1, <2>2, <1>a
  <2>4. ASSUME NEW n \in From(ToArm) .. To(ToArm)-1
        PROVE  buf'[ToArm][DescAt(ToArm, n)] = buf[ToArm][DescAt(ToArm, n)]
    <3>1. PICK k : k = last_avail_idx[ToArm] - 1
      OBVIOUS
    <3>2. k \in InFlight(ToArm) /\ DescAt(ToArm, k) = head
      BY <1>t, <2>1, <2>2, <3>1, Working
    <3>3. n \in InFlight(ToArm)
      BY <1>a, <1>t, InWindow
    <3>4. n # k
      BY <2>1, <2>2, <3>1, <3>2, <1>a, <1>t, WindowInFlight, CountersNat DEF Counters
    <3>5. DescAt(ToArm, n) # head
      BY <1>a, <1>t, <3>2, <3>3, <3>4 DEF ExclusiveOwnership, OwnedOnce
    <3> QED
      BY <1>a, <2>1, <2>2, <3>5
  <2>5. buf'[ToPru] = buf[ToPru]
    BY <1>a, <2>1, <2>2
  <2>6. ChannelState'[ToArm] = ChannelState[ToArm]
    BY <1>a, <1>t, <2>3, <2>4, Quiet
  <2>7. ChannelState'[ToPru] = ChannelState[ToPru]
    BY <1>a, <1>t, <2>3, <2>5, Quiet
  <2> QED
    BY <2>2, <2>6, <2>7, TwoChannels DEF Channel!chan_vars
<1>6. CASE StoreUsedIdx \/ StoreUsedElem
  BY <1>1, <1>6, <1>a DEF StoreUsedIdx, StoreUsedElem, UsedIdxStep, UsedElemStep, AfterAddUsed
<1>7. CASE HostPost
  <2>1. posted'[ToPru] = posted[ToPru]
    BY <1>7, <1>a, <1>t DEF HostPost, Post, TypeOK
  <2> QED
    BY <1>1, <1>7, <1>a, <2>1 DEF HostPost
<1>8. ASSUME ReadUsed(ToPru), UNCHANGED <<buf, pru_vars, posted, host_got>>
      PROVE  UNCHANGED Channel!chan_vars
  <2>1. last_used'[ToArm] = last_used[ToArm]
    BY <1>8, <1>a, <1>t DEF ReadUsed, TypeOK
  <2> QED
    BY <1>1, <1>8, <1>a, <2>1
<1>9. CASE HostReclaim \/ HostRecheck
  BY <1>1, <1>8, <1>9 DEF HostReclaim, HostRecheck
<1>10. CASE HostIrq \/ HostRxDone \/ HostBlock
  BY <1>1, <1>10 DEF HostIrq, HostRxDone, HostBlock
<1>11. CASE UNCHANGED vars
  BY <1>1, <1>11 DEF vars
<1> QED
  BY <1>2, <1>3, <1>4, <1>5, <1>6, <1>7, <1>9, <1>10, <1>11 DEF Next, PruStep, HostStep

(* So every step is one of the two channels, or none.                      *)
LEMMA NextChannel ==
  ASSUME Lifetime, NoRace, ImplementsInv, [Next]_vars
  PROVE  Channel!ChannelNext \/ UNCHANGED Channel!chan_vars
<1>1. CASE HostReceive
  BY <1>1, ReceiveGets DEF Channel!ChannelNext
<1>2. CASE Copy /\ vq = ToPru
  BY <1>2, CopyGets DEF Channel!ChannelNext
<1>3. ASSUME NEW m \in Msgs \ Oversized, HostSend(m) PROVE Channel!ChannelNext
  BY <1>3, HostPuts DEF Channel!ChannelNext, ToPru
<1>4. CASE (StoreUsedIdx \/ StoreUsedElem) /\ pc = "add_used2" /\ vq = ToArm
  BY <1>4, StorePuts DEF Channel!ChannelNext, ToArm
<1> QED
  BY <1>1, <1>2, <1>3, <1>4, OtherSteps

(* At first nothing is on its way.                                         *)
LEMMA InitChannel == Init => Channel!ChannelInit /\ ImplementsInv
<1> SUFFICES ASSUME Init PROVE Channel!ChannelInit /\ ImplementsInv
  OBVIOUS
<1>1. ChannelState = [q \in Queue |-> <<>>]
  <2>1. ASSUME NEW q \in Queue PROVE ChannelState[q] = <<>>
    <3>1. PICK lo \in Int, hi \in Int : lo = From(q) /\ hi = To(q)
      BY <2>1, WindowInFlight, InitTransport DEF TransportInv
    <3>2. lo = 0 /\ hi = 0
      BY <2>1, <3>1 DEF Init, From, To, Sent, Fetched, Queue, ToArm, ToPru
    <3>3. ChannelState[q] = [i \in 1 .. hi-lo |-> Carried(q, lo + i - 1)]
      BY <2>1, <3>1, Window
    <3> QED
      BY <3>2, <3>3
  <2>2. ChannelState = [q \in Queue |-> ChannelState[q]]
    BY DEF ChannelState
  <2> QED
    BY <2>1, <2>2
<1>2. ImplementsInv
  BY InitTransport DEF Init, ImplementsInv, MessageFits
<1> QED
  BY <1>1, <1>2 DEF Init, Channel!ChannelInit, Queue, ToArm, ToPru

(* The transport of rpmsg.c and the host's side of it implement two FIFO   *)
(* channels of Num messages, for every ring size and every interleaving,   *)
(* within the life of a 16-bit index and if the host cannot see a used     *)
(* index before its element is stored: nothing is lost, duplicated,        *)
(* reordered or overwritten.                                               *)
THEOREM TransportIsFifo ==
  ASSUME Lifetime, NoRace
  PROVE  Spec => ImplementsChannel
<1>1. ImplementsInv /\ [Next]_vars => ImplementsInv'
  BY NextTransport, NextFits DEF ImplementsInv
<1>2. ImplementsInv /\ [Next]_vars => [Channel!ChannelNext]_(Channel!chan_vars)
  BY NextChannel
<1> QED
  BY <1>1, <1>2, InitChannel, PTL DEF Spec, ImplementsChannel, Channel!ChannelSpec
=============================================================================
