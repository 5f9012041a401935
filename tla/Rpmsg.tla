------------------------------- MODULE Rpmsg -------------------------------
(***************************************************************************)
(* The rpmsg transport of a PRU (lib/rpmsg/rpmsg.c) and the Linux host it  *)
(* shares two vrings with.                                                 *)
(*                                                                         *)
(* The PRU runs one call at a time, rpmsg_send or rpmsg_receive.  Every    *)
(* access of a call to memory the host also uses is a step of its own, so  *)
(* that the host can run between any two of them.                          *)
(*                                                                         *)
(* The host is external: it is the Linux virtio driver as far as           *)
(* include/linux/virtio_ring.h fixes it.  It posts buffers, sleeps until   *)
(* it is interrupted, and reads the used ring.                             *)
(***************************************************************************)
EXTENDS Integers, FiniteSets

CONSTANTS
  Num,         \* vring->num, descriptors per vring (16 in the resource table)
  IdxMod,      \* modulus of the __u16 ring indices, 2^16
  CntMod,      \* modulus of vq->last_avail_idx, an unsigned int, 2^32
  PruVring,    \* INTERRUPT_PRU_VRING: 16 on PRU0, 18 on PRU1
  IndexFirst,  \* the build stores used->idx before the used element
  HostRaces,   \* the host may read a used element the PRU is still storing
  Msgs,        \* the messages
  Oversized,   \* the messages that do not fit in a buffer
  NoMsg,       \* content of a buffer nothing was written to
  MaxPosted    \* bound: buffers the host posts per vring

ASSUME RpmsgAssumption ==
  /\ Num \in Nat \ {0}
  /\ IdxMod \in Nat \ {0}
  /\ CntMod \in Nat /\ IdxMod <= CntMod
  /\ MaxPosted \in Nat /\ MaxPosted < CntMod
  /\ PruVring \in Nat
  /\ IndexFirst \in BOOLEAN
  /\ HostRaces \in BOOLEAN
  /\ Oversized \subseteq Msgs
  /\ NoMsg \notin Msgs

VARIABLES
  avail_ring, avail_idx,  \* struct vring_avail: written by the host
  no_interrupt,           \* avail->flags & VRING_AVAIL_F_NO_INTERRUPT
  used_ring, used_idx,    \* struct vring_used: written by the PRU
  buf,                    \* what the buffer of each descriptor holds
  last_avail_idx,         \* struct virtqueue, private to the PRU
  pc, vq, head,           \* PRU: next step, virtqueue and descriptor in use
  msg, got, ret,          \* PRU: message still to send, last one received, result
  irq,                    \* a system event for this PRU's host is pending
  rx, tx,                 \* host: receive handler runs; state of the sender
  free, last_used,        \* host: unposted descriptors, used entries read
  posted,                 \* host: buffers posted so far
  host_got                \* host: last message received

vring_vars == <<avail_ring, avail_idx, no_interrupt, used_ring, used_idx, buf>>
pru_vars   == <<last_avail_idx, pc, vq, head, msg, got, ret>>
host_vars  == <<rx, tx, free, last_used, posted, host_got>>
vars       == <<vring_vars, pru_vars, host_vars, irq>>

ToArm == "pru_to_arm"
ToPru == "arm_to_pru"
Queue == {ToArm, ToPru}
Desc  == 0 .. Num-1
Slot  == 0 .. Num-1

Step    == {"idle", "get_avail", "get_head", "copy", "add_used", "add_used2", "kick"}
Result  == {"none", "SUCCESS", "BUFFER_TOO_SMALL", "NO_BUFFER_AVAILABLE", "INVALID_HEAD"}
TxState == {"running", "recheck", "asleep"}

(* Type correctness: the widths of the ring indices (virtio_ring.h:80-98)  *)
(* and of last_avail_idx (rpmsg.h:10), and descriptors that exist.         *)
TypeOK ==
  /\ avail_ring \in [Queue -> [Slot -> Desc]]
  /\ used_ring \in [Queue -> [Slot -> Desc]]
  /\ avail_idx \in [Queue -> 0 .. IdxMod-1]
  /\ used_idx \in [Queue -> 0 .. IdxMod-1]
  /\ last_used \in [Queue -> 0 .. IdxMod-1]
  /\ last_avail_idx \in [Queue -> 0 .. CntMod-1]
  /\ no_interrupt \in [Queue -> BOOLEAN]
  /\ buf \in [Queue -> [Desc -> Msgs \cup {NoMsg}]]
  /\ free \in [Queue -> SUBSET Desc]
  /\ posted \in [Queue -> 0 .. MaxPosted]
  /\ pc \in Step /\ vq \in Queue /\ head \in Desc /\ ret \in Result
  /\ {msg, got, host_got} \subseteq Msgs \cup {NoMsg}
  /\ irq \in BOOLEAN /\ rx \in BOOLEAN /\ tx \in TxState

(* virtqueue_init on zeroed vrings.  The host interrupts on the receive    *)
(* ring only: it looks for returned transmit buffers when it needs one.    *)
Init ==
  /\ avail_ring = [q \in Queue |-> [s \in Slot |-> 0]]
  /\ used_ring = [q \in Queue |-> [s \in Slot |-> 0]]
  /\ avail_idx = [q \in Queue |-> 0]
  /\ used_idx = [q \in Queue |-> 0]
  /\ last_avail_idx = [q \in Queue |-> 0]
  /\ no_interrupt = [q \in Queue |-> q = ToPru]
  /\ buf = [q \in Queue |-> [d \in Desc |-> NoMsg]]
  /\ pc = "idle" /\ vq = ToArm /\ head = 0 /\ ret = "none"
  /\ msg = NoMsg /\ got = NoMsg /\ host_got = NoMsg
  /\ irq = FALSE /\ rx = FALSE /\ tx = "running"
  /\ free = [q \in Queue |-> Desc]
  /\ last_used = [q \in Queue |-> 0]
  /\ posted = [q \in Queue |-> 0]

----------------------------------------------------------------------------
(* The PRU: a call from its entry to its return.                           *)

SysEvent(q) == IF q = ToArm THEN PruVring ELSE 0

(* The event a write of INT_ENABLE | (sys_event - INT_OFFSET) to R31       *)
(* raises: its low four bits, offset by 16.                                *)
EventRaised(q) == 16 + ((SysEvent(q) - 16) % 16)

Send(m) ==
  /\ pc = "idle"
  /\ vq' = ToArm
  /\ IF m \in Oversized
       THEN pc' = "idle" /\ ret' = "BUFFER_TOO_SMALL" /\ UNCHANGED msg
       ELSE pc' = "get_avail" /\ ret' = "none" /\ msg' = m
  /\ UNCHANGED <<vring_vars, host_vars, irq, last_avail_idx, head, got>>

Receive ==
  /\ pc = "idle"
  /\ vq' = ToPru
  /\ pc' = "get_avail"
  /\ ret' = "none"
  /\ UNCHANGED <<vring_vars, host_vars, irq, last_avail_idx, head, msg, got>>

(* Mutant: the check for an empty ring is missing.                         *)
GetAvailIdxUnchecked ==
  /\ pc = "get_avail"
  /\ pc' = "get_head"
  /\ UNCHANGED <<vring_vars, host_vars, irq, last_avail_idx, vq, head, msg, got, ret>>

GetAvailIdx ==
  /\ pc = "get_avail"
  /\ IF last_avail_idx[vq] = avail_idx[vq]
       THEN pc' = "idle" /\ ret' = "NO_BUFFER_AVAILABLE" /\ msg' = NoMsg
       ELSE pc' = "get_head" /\ UNCHANGED <<ret, msg>>
  /\ UNCHANGED <<vring_vars, host_vars, irq, last_avail_idx, vq, head, got>>

GetAvailHead ==
  /\ pc = "get_head"
  /\ head' = avail_ring[vq][last_avail_idx[vq] % Num]
  /\ last_avail_idx' = [last_avail_idx EXCEPT ![vq] = (@ + 1) % CntMod]
  /\ pc' = "copy"
  /\ UNCHANGED <<vring_vars, host_vars, irq, vq, msg, got, ret>>

(* Mutant: the payload is looked up by ring slot, not by descriptor.       *)
CopyBySlot ==
  /\ pc = "copy"
  /\ LET slot == (last_avail_idx[vq] - 1) % Num IN
     IF vq = ToArm
       THEN buf' = [buf EXCEPT ![ToArm][slot] = msg] /\ UNCHANGED got
       ELSE got' = buf[ToPru][slot] /\ UNCHANGED buf
  /\ pc' = "add_used"
  /\ msg' = NoMsg
  /\ UNCHANGED <<avail_ring, avail_idx, no_interrupt, used_ring, used_idx, ret,
                 host_vars, irq, last_avail_idx, vq, head>>

Copy ==
  /\ pc = "copy"
  /\ IF vq = ToArm
       THEN buf' = [buf EXCEPT ![ToArm][head] = msg] /\ UNCHANGED got
       ELSE got' = buf[ToPru][head] /\ UNCHANGED buf
  /\ IF head > Num
       THEN pc' = "idle" /\ ret' = "INVALID_HEAD"
       ELSE pc' = "add_used" /\ UNCHANGED ret
  /\ msg' = NoMsg
  /\ UNCHANGED <<avail_ring, avail_idx, no_interrupt, used_ring, used_idx,
                 host_vars, irq, last_avail_idx, vq, head>>

(* virtqueue_add_used_buf makes two stores the host can tell apart; the    *)
(* memory is not volatile, so their order is the build's.                  *)
UsedIdxStep  == IF IndexFirst THEN "add_used" ELSE "add_used2"
UsedElemStep == IF IndexFirst THEN "add_used2" ELSE "add_used"
AfterAddUsed == IF pc = "add_used" THEN "add_used2" ELSE "kick"

(* Mutant: everything advertised is counted as used.                       *)
StoreUsedIdxAll ==
  /\ pc = UsedIdxStep
  /\ used_idx' = [used_idx EXCEPT ![vq] = avail_idx[vq]]
  /\ pc' = AfterAddUsed
  /\ UNCHANGED <<avail_ring, avail_idx, no_interrupt, used_ring, buf,
                 host_vars, irq, last_avail_idx, vq, head, msg, got, ret>>

StoreUsedIdx ==
  /\ pc = UsedIdxStep
  /\ used_idx' = [used_idx EXCEPT ![vq] = (@ + 1) % IdxMod]
  /\ pc' = AfterAddUsed
  /\ UNCHANGED <<avail_ring, avail_idx, no_interrupt, used_ring, buf,
                 host_vars, irq, last_avail_idx, vq, head, msg, got, ret>>

(* Mutant: the slot comes from the avail index, already incremented.       *)
UsedSlotOfAvail == last_avail_idx[vq] % Num

(* The slot was computed from used->idx before it was incremented.         *)
UsedSlot == (IF IndexFirst THEN used_idx[vq] - 1 ELSE used_idx[vq]) % Num

(* Mutant: the element names the position, not the descriptor.             *)
StoreUsedElemPosition ==
  /\ pc = UsedElemStep
  /\ used_ring' = [used_ring EXCEPT ![vq][UsedSlot] = last_avail_idx[vq]]
  /\ pc' = AfterAddUsed
  /\ UNCHANGED <<avail_ring, avail_idx, no_interrupt, used_idx, buf,
                 host_vars, irq, last_avail_idx, vq, head, msg, got, ret>>

StoreUsedElem ==
  /\ pc = UsedElemStep
  /\ used_ring' = [used_ring EXCEPT ![vq][UsedSlot] = head]
  /\ pc' = AfterAddUsed
  /\ UNCHANGED <<avail_ring, avail_idx, no_interrupt, used_idx, buf,
                 host_vars, irq, last_avail_idx, vq, head, msg, got, ret>>

(* Mutant: the sense of VRING_AVAIL_F_NO_INTERRUPT is inverted.            *)
KickInverted ==
  /\ pc = "kick"
  /\ irq' = (irq \/ (no_interrupt[vq] /\ EventRaised(vq) = PruVring))
  /\ pc' = "idle"
  /\ ret' = "SUCCESS"
  /\ UNCHANGED <<vring_vars, host_vars, last_avail_idx, vq, head, msg, got>>

Kick ==
  /\ pc = "kick"
  /\ irq' = (irq \/ (~no_interrupt[vq] /\ EventRaised(vq) = PruVring))
  /\ pc' = "idle"
  /\ ret' = "SUCCESS"
  /\ UNCHANGED <<vring_vars, host_vars, last_avail_idx, vq, head, msg, got>>

PruStep ==
  \/ GetAvailIdx \/ GetAvailHead \/ Copy
  \/ StoreUsedIdx \/ StoreUsedElem \/ Kick

----------------------------------------------------------------------------
(* The host.                                                               *)

Post(q, d) ==
  /\ posted[q] < MaxPosted
  /\ d \in free[q]
  /\ free' = [free EXCEPT ![q] = @ \ {d}]
  /\ avail_ring' = [avail_ring EXCEPT ![q][posted[q] % Num] = d]
  /\ avail_idx' = [avail_idx EXCEPT ![q] = (@ + 1) % IdxMod]
  /\ posted' = [posted EXCEPT ![q] = @ + 1]

(* The element the host would read next is counted but not yet stored.     *)
NextIsStale(q) ==
  /\ IndexFirst /\ pc = "add_used2" /\ vq = q
  /\ (last_used[q] + 1) % IdxMod = used_idx[q]

ReadUsed(q) ==
  /\ last_used[q] # used_idx[q]
  /\ HostRaces \/ ~NextIsStale(q)
  /\ free' = [free EXCEPT ![q] = @ \cup {used_ring[q][last_used[q] % Num]}]
  /\ last_used' = [last_used EXCEPT ![q] = (@ + 1) % IdxMod]

HostPost ==
  /\ \E d \in Desc : Post(ToArm, d)
  /\ UNCHANGED <<no_interrupt, used_ring, used_idx, buf, pru_vars, irq,
                 rx, tx, last_used, host_got>>

HostSend(m) ==
  /\ tx = "running"
  /\ \E d \in Desc : Post(ToPru, d) /\ buf' = [buf EXCEPT ![ToPru][d] = m]
  /\ UNCHANGED <<no_interrupt, used_ring, used_idx, pru_vars, irq,
                 rx, tx, last_used, host_got>>

HostIrq ==
  /\ irq
  /\ irq' = FALSE
  /\ rx' = TRUE
  /\ tx' = IF tx = "asleep" THEN "recheck" ELSE tx
  /\ UNCHANGED <<vring_vars, pru_vars, free, last_used, posted, host_got>>

HostReceive ==
  /\ rx
  /\ ReadUsed(ToArm)
  /\ host_got' = buf[ToArm][used_ring[ToArm][last_used[ToArm] % Num]]
  /\ UNCHANGED <<vring_vars, pru_vars, irq, rx, tx, posted>>

HostRxDone ==
  /\ rx
  /\ last_used[ToArm] = used_idx[ToArm]
  /\ rx' = FALSE
  /\ UNCHANGED <<vring_vars, pru_vars, irq, tx, free, last_used, posted, host_got>>

HostReclaim ==
  /\ tx = "running" /\ free[ToPru] = {}
  /\ ReadUsed(ToPru)
  /\ UNCHANGED <<vring_vars, pru_vars, irq, rx, tx, posted, host_got>>

(* Out of buffers: ask for interrupts, then look once more, then sleep.    *)
HostBlock ==
  /\ tx = "running" /\ free[ToPru] = {}
  /\ last_used[ToPru] = used_idx[ToPru]
  /\ no_interrupt' = [no_interrupt EXCEPT ![ToPru] = FALSE]
  /\ tx' = "recheck"
  /\ UNCHANGED <<avail_ring, avail_idx, used_ring, used_idx, buf, pru_vars, irq,
                 rx, free, last_used, posted, host_got>>

HostRecheck ==
  /\ tx = "recheck"
  /\ \/ /\ ReadUsed(ToPru)
        /\ no_interrupt' = [no_interrupt EXCEPT ![ToPru] = TRUE]
        /\ tx' = "running"
     \/ /\ last_used[ToPru] = used_idx[ToPru]
        /\ tx' = "asleep"
        /\ UNCHANGED <<no_interrupt, free, last_used>>
  /\ UNCHANGED <<avail_ring, avail_idx, used_ring, used_idx, buf, pru_vars, irq,
                 rx, posted, host_got>>

HostStep ==
  \/ HostPost \/ HostIrq \/ HostReceive \/ HostRxDone
  \/ HostReclaim \/ HostBlock \/ HostRecheck
  \/ \E m \in Msgs \ Oversized : HostSend(m)

----------------------------------------------------------------------------
Next == PruStep \/ Receive \/ HostStep \/ \E m \in Msgs : Send(m)

Spec == Init /\ [][Next]_vars

(* The PRU runs on and its main loop polls rpmsg_receive for ever; the     *)
(* host serves its interrupt and a woken sender looks again.  Nobody is    *)
(* obliged to send or to post.                                             *)
Fairness ==
  /\ WF_vars(PruStep)
  /\ SF_vars(Receive)
  /\ WF_vars(HostIrq) /\ WF_vars(HostReceive) /\ WF_vars(HostRxDone)
  /\ WF_vars(HostRecheck)

FairSpec == Spec /\ Fairness

----------------------------------------------------------------------------
(* The n-th buffer posted on a queue keeps its position n on the way       *)
(* through the avail ring, the PRU and the used ring, because the PRU      *)
(* serves a queue in order.                                                *)

(* The PRU holds a buffer of q: taken, and not on the used ring yet.       *)
Holding(q) ==
  /\ vq = q
  /\ pc \in {"copy", "add_used"} \/ (pc = "add_used2" /\ IndexFirst)

Stored(q)   == last_avail_idx[q] - (IF Holding(q) THEN 1 ELSE 0)
InFlight(q) == last_used[q] .. posted[q] - 1

DescAt(q, n) ==
  IF n < Stored(q) THEN used_ring[q][n % Num]
  ELSE IF n < last_avail_idx[q] THEN head
  ELSE avail_ring[q][n % Num]

OwnedOnce(q) ==
  /\ \A i, j \in InFlight(q) : DescAt(q, i) = DescAt(q, j) => i = j
  /\ \A i \in InFlight(q) : DescAt(q, i) \notin free[q]
  /\ Cardinality(free[q]) + (posted[q] - last_used[q]) = Num

(* Every descriptor has one owner: the host that has not posted it, or one *)
(* position in flight; none is shared and none is lost.  This is what the  *)
(* two ring indices and the order of the stores are for.                   *)
ExclusiveOwnership == \A q \in Queue : OwnedOnce(q)

(* The PRU has taken a buffer of q and not counted it as used yet.         *)
Uncounted(q) ==
  /\ vq = q
  /\ pc \in {"copy", "add_used"} \/ (pc = "add_used2" /\ ~IndexFirst)

IndicesCount(q) ==
  /\ avail_idx[q] = posted[q]
  /\ used_idx[q] = last_avail_idx[q] - (IF Uncounted(q) THEN 1 ELSE 0)
  /\ last_used[q] <= used_idx[q]
  /\ last_used[q] <= Stored(q)
  /\ last_avail_idx[q] <= posted[q]

(* Until an index wraps, the indices in memory count the buffers exactly,  *)
(* but for the one the PRU has taken and not counted as used yet, and the  *)
(* host never reads past what is really stored on the used ring.           *)
IndicesAgree == \A q \in Queue : IndicesCount(q)

(* The PRU takes a buffer only if the host has posted one it has not taken *)
(* yet ("Grab the next descriptor number the ARM host is advertising").    *)
TakesAdvertised ==
  pc = "get_head" => last_avail_idx[vq] < posted[vq]

(* Whatever the PRU puts on the used ring of the receive direction is read *)
(* by the host: no kick is missed between its check and its sleep.         *)
Delivery ==
  \A n \in 0 .. MaxPosted-1 : (used_idx[ToArm] > n) ~> (last_used[ToArm] > n)

(* A host sender asleep for want of a transmit buffer is woken when the    *)
(* PRU returns one (rpmsg_receive: "Kick the ARM host").                   *)
SenderWakes == (tx = "asleep") ~> (tx = "running")
=============================================================================
