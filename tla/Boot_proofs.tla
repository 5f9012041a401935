---------------------------- MODULE Boot_proofs ----------------------------
(***************************************************************************)
(* However often the service is killed and started anew, and whatever      *)
(* the ring size, the alignment and the pages Linux allocates: main() only *)
(* uses the vrings of its own run, their parts lie where they should, and  *)
(* a service never reads the reply to a command of an earlier run.         *)
(***************************************************************************)
EXTENDS Boot, Lemmas

-----------------------------------------------------------------------------
(* The layout of a vring (Vring.tla), for every ring size and alignment *)

(* Rounding up reaches the next multiple, which is less than align away.   *)
LEMMA AlignUpRange ==
  ASSUME NEW align \in Nat \ {0}, NEW x \in Int
  PROVE  /\ AlignUp(x, align) \in Int
         /\ x <= AlignUp(x, align) /\ AlignUp(x, align) < x + align
<1> DEFINE y == x + align - 1
<1>1. y \in Int
  OBVIOUS
<1>2. (y % align) \in 0 .. align-1
  BY <1>1, ModRange
<1>3. AlignUp(x, align) = y - (y % align)
  BY DEF AlignUp
<1> QED
  BY <1>1, <1>2, <1>3

(* Multiples of align leave no remainder.                                  *)
LEMMA MultipleOf ==
  ASSUME NEW align \in Nat \ {0}, NEW k \in Int
  PROVE  ((align * k) % align) = 0
<1>1. ((0 + align * k) % align) = (0 % align)
  BY ModShift
<1>2. (0 % align) = 0
  BY ModSmall
<1>3. align * k \in Int
  OBVIOUS
<1>4. 0 + align * k = align * k
  BY <1>3
<1> QED
  BY <1>1, <1>2, <1>4

(* What rounding up reaches is a multiple of align.                        *)
LEMMA AlignUpMultiple ==
  ASSUME NEW align \in Nat \ {0}, NEW x \in Int
  PROVE  (AlignUp(x, align) % align) = 0
<1> DEFINE y == x + align - 1
           q == y \div align
<1>1. y \in Int
  OBVIOUS
<1>2. q \in Int /\ y = align * q + (y % align) /\ (y % align) \in Int
  BY <1>1
<1>3. AlignUp(x, align) = y - (y % align)
  BY DEF AlignUp
<1> HIDE DEF y, q
<1>4. align * q \in Int
  BY <1>2
<1>5. AlignUp(x, align) = align * q
  BY <1>1, <1>2, <1>3, <1>4
<1> QED
  BY <1>2, <1>5, MultipleOf

(* From an aligned address on, it rounds as from address 0 on.             *)
LEMMA AlignUpShift ==
  ASSUME NEW align \in Nat \ {0}, NEW p \in Int, NEW x \in Int, (p % align) = 0
  PROVE  AlignUp(p + x, align) = p + AlignUp(x, align)
<1> DEFINE y == x + align - 1
           k == p \div align
<1>1. y \in Int
  OBVIOUS
<1>2. k \in Int /\ p = align * k
  OBVIOUS
<1>3. ((y + align * k) % align) = (y % align)
  BY <1>1, <1>2, ModShift
<1>4. (p + x) + align - 1 = y + p
  OBVIOUS
<1>5. AlignUp(p + x, align) = (y + p) - ((y + p) % align)
  BY <1>4 DEF AlignUp
<1>6. AlignUp(x, align) = y - (y % align)
  BY DEF AlignUp
<1>7. (y % align) \in Int
  BY <1>1, ModRange
<1> HIDE DEF y, k
<1>8. ((y + p) % align) = (y % align)
  BY <1>2, <1>3
<1> QED
  BY <1>1, <1>5, <1>6, <1>7, <1>8

(* vring_init computes what vring_size allocates for: from an aligned      *)
(* address on, the parts of the ring lie one behind the other and end      *)
(* where the memory ends, for every ring size and alignment.               *)
THEOREM LayoutTheorem ==
  ASSUME NEW num \in Nat \ {0}, NEW align \in Nat \ {0}, NEW p \in Nat, (p % align) = 0
  PROVE  /\ vring_init(num, p, align) \in [num : {num}, desc : Nat, avail : Nat, used : Nat]
         /\ WellPlaced(vring_init(num, p, align), p, align)
<1> DEFINE vr   == vring_init(num, p, align)
           head == num * DescSize + AvailSize(num)
<1>1. head \in Nat /\ num * DescSize \in Nat /\ AvailSize(num) \in Nat /\ UsedSize(num) \in Nat
  BY DEF DescSize, AvailRing, AvailSize, UsedSize, U16, UsedElemSize
<1>e. /\ p + num * DescSize + AvailRing(num) + U16 = p + num * DescSize + AvailSize(num)
      /\ DescSize * num + U16 * (3 + num) = head
      /\ U16 * 3 + UsedElemSize * num = UsedSize(num)
  BY DEF DescSize, AvailRing, AvailSize, UsedSize, U16, UsedElemSize
<1>2. vr = [num |-> num, desc |-> p, avail |-> p + num * DescSize,
            used |-> AlignUp(p + num * DescSize + AvailSize(num), align)]
  BY <1>e DEF vring_init
<1>3. p + num * DescSize + AvailSize(num) = p + head
  BY <1>1
<1>4. vr.used = AlignUp(p + head, align)
  BY <1>2, <1>3
<1>5. vring_size(num, align) = AlignUp(head, align) + UsedSize(num)
  <2>1. AlignUp(head, align) \in Int
    BY <1>1, AlignUpRange
  <2>2. vring_size(num, align) = AlignUp(head, align) + U16 * 3 + UsedElemSize * num
    BY <1>e DEF vring_size
  <2> QED
    BY <1>e, <2>1, <2>2 DEF U16, UsedElemSize
<1> HIDE DEF vr, head
<1>i. p \in Int /\ head \in Int /\ p + head \in Int
  BY <1>1
<1>6. AlignUp(p + head, align) = p + AlignUp(head, align)
  BY <1>i, AlignUpShift
<1>7. AlignUp(p + head, align) \in Int /\ p + head <= AlignUp(p + head, align)
  BY <1>i, AlignUpRange
<1>8. AlignUp(head, align) \in Int
  BY <1>i, AlignUpRange
<1>9. (vr.used % align) = 0
  BY <1>i, <1>4, AlignUpMultiple
<1>10. vr \in [num : {num}, desc : Nat, avail : Nat, used : Nat]
  BY <1>1, <1>2, <1>3, <1>7
<1>11. WellPlaced(vr, p, align)
  <2>1. vr.num = num /\ vr.desc = p /\ vr.avail = p + num * DescSize
    BY <1>2
  <2>2. vr.avail + AvailSize(num) = p + head
    BY <1>1, <1>3, <2>1
  <2>3. vr.used + UsedSize(num) = p + vring_size(num, align)
    BY <1>1, <1>4, <1>5, <1>6, <1>8
  <2> QED
    BY <1>1, <1>4, <1>5, <1>7, <1>8, <1>9, <2>1, <2>2, <2>3 DEF WellPlaced
<1> QED
  BY <1>10, <1>11 DEF vr
-----------------------------------------------------------------------------
(* The boot: the inductive invariant *)

(* The resource table says where the vrings are from the moment on from    *)
(* which main() may look at it, until the PRU is stopped.                  *)
TableFilled ==
  /\ pru = "halted" <=> rproc # "running"
  /\ area \in [Queue -> {0} \cup {Page * p : p \in Pages}]
  /\ rproc # "running" => area[ToArm] = 0
  /\ area[ToArm] # 0 => table.da = area
  /\ rproc = "running" /\ table.status = DRIVER_OK => area[ToArm] # 0
  /\ pru \notin {"halted", "wait_ok"} => table.status = DRIVER_OK

(* What was under way is gone when the PRU is stopped.                     *)
NothingLeft ==
  /\ rproc # "running" =>
       /\ avail = [q \in Queue |-> <<>>] /\ used = <<>> /\ fifo = <<>> /\ devices = {}
  /\ script = "serving" => rproc = "running"

Data == [kind : {"data"}, run : 1 .. MaxRuns]

(* Only announcements of existing channels and replies are sent, and only  *)
(* commands received.                                                      *)
Traffic ==
  /\ avail[ToPru] \in Seq(Data) /\ fifo \in Seq(Data)
  /\ used \in Seq([kind : {"ns"}, port : Port .. Port + channels - 1] \cup Data)
  /\ pru = "serve" => command \in Data
  /\ pru \in {"wait_ok", "init", "announce"} => announced < channels

(* Past the check for a PRU that runs, all that is under way is of this    *)
(* run.                                                                    *)
OfThisRun ==
  script \in {"start", "sleep", "open", "serving"} =>
    /\ \A k \in DOMAIN avail[ToPru] : avail[ToPru][k].run = run
    /\ \A k \in DOMAIN fifo : fifo[k].run = run
    /\ \A k \in DOMAIN used : used[k].kind = "data" => used[k].run = run
    /\ pru = "serve" => command.run = run

BootInv ==
  TypeOK /\ TableFilled /\ AttachedToRings /\ NothingLeft /\ Traffic /\ OfThisRun /\ FreshReply

(* TypeOK in four parts.                                                   *)
ServiceTypes ==
  /\ channels \in Firmware
  /\ script \in {"overlay", "wait_for", "check", "stop", "start", "sleep", "open",
                 "serving", "dead"}
  /\ tries \in 0 .. Tries /\ run \in 1 .. MaxRuns /\ sent \in 0 .. MaxCommands
  /\ late \in BOOLEAN /\ overlay \in BOOLEAN /\ autoboot \in BOOLEAN /\ irq \in BOOLEAN
  /\ got \subseteq 1 .. MaxRuns

LinuxTypes ==
  /\ rproc \in {"absent", "offline", "running"}
  /\ table \in [status : {"none", DRIVER_OK}, da : [Queue -> Nat]]
  /\ area \in [Queue -> Nat]
  /\ seen \in 0 .. Len(used)
  /\ devices \subseteq Port .. Port + channels - 1

RingTypes ==
  /\ avail \in [Queue -> Seq(Message)] /\ used \in Seq(Message) /\ fifo \in Seq(Message)

PruTypes ==
  /\ pru \in {"halted", "wait_ok", "init", "announce", "receive", "serve"}
  /\ announced \in 0 .. channels
  /\ vq \in [Queue -> Virtqueue]
  /\ command \in Message


-----------------------------------------------------------------------------
(* What is sent and received.                                              *)
LEMMA MessageTypes ==
  /\ Data \subseteq Message /\ Empty \in Message
  /\ \A p \in Nat : Ns(p) \in Message /\ Ns(p).kind = "ns" /\ Ns(p).port = p
  /\ \A r \in 1 .. MaxRuns : Msg(r) \in Data /\ Msg(r).run = r
  /\ \A d \in Data : d.kind = "data" /\ d.run \in 1 .. MaxRuns
  BY DEF Data, Message, Empty, Ns, Msg

(* A page that Linux has allocated is not at address 0.                    *)
LEMMA PageAddress ==
  ASSUME NEW p \in Pages
  PROVE  Page * p \in Nat \ {0}
<1>1. Page \in Nat \ {0} /\ p \in Nat \ {0}
  BY BootAssumption
<1> QED
  BY <1>1

(* The vrings start where the rings can be laid out.                       *)
LEMMA AreaAligned ==
  ASSUME TableFilled
  PROVE  \A q \in Queue : area[q] \in Nat /\ (area[q] % Align) = 0
<1>1. Page \in Nat \ {0} /\ Align \in Nat \ {0} /\ (Page % Align) = 0 /\ Pages \subseteq Nat
  BY BootAssumption
<1>2. ASSUME NEW p \in Pages
      PROVE  Page * p \in Nat /\ ((Page * p) % Align) = 0
  <2> DEFINE k == Page \div Align
  <2>1. k \in Int /\ Page = Align * k /\ p \in Nat
    BY <1>1
  <2> HIDE DEF k
  <2>2. k * p \in Int
    BY <2>1
  <2>3. ((Align * (k * p)) % Align) = 0
    BY <1>1, <2>2, MultipleOf
  <2>4. Page * p = Align * (k * p)
    BY <1>1, <2>1
  <2> QED
    BY <1>1, <2>1, <2>3, <2>4
<1>3. (0 % Align) = 0
  BY <1>1, ModSmall
<1> QED
  BY <1>2, <1>3 DEF TableFilled

(* They are all of it.                                                     *)
LEMMA TypeParts ==
  TypeOK <=> ServiceTypes /\ LinuxTypes /\ RingTypes /\ PruTypes
  BY DEF TypeOK, ServiceTypes, LinuxTypes, RingTypes, PruTypes

(* The resource table as it comes with the firmware.                       *)
LEMMA UnfilledType == Unfilled \in [status : {"none", DRIVER_OK}, da : [Queue -> Nat]]
  BY DEF Unfilled

(* A buffer taken from one virtqueue.                                      *)
LEMMA Taken ==
  ASSUME NEW v \in [Queue -> Virtqueue], NEW q \in Queue
  PROVE  LET w == [v EXCEPT ![q].last_avail_idx = @ + 1] IN
         /\ w \in [Queue -> Virtqueue]
         /\ w[q].vring = v[q].vring /\ w[q].sys_event = v[q].sys_event
         /\ w[q].last_avail_idx = v[q].last_avail_idx + 1
         /\ \A r \in Queue \ {q} : w[r] = v[r]
<1> DEFINE w == [v EXCEPT ![q].last_avail_idx = @ + 1]
<1>1. w[q] = [v[q] EXCEPT !.last_avail_idx = @ + 1] /\ \A r \in Queue \ {q} : w[r] = v[r]
  OBVIOUS
<1>2. v[q] \in Virtqueue
  OBVIOUS
<1>3. w[q] \in Virtqueue /\ w[q].vring = v[q].vring /\ w[q].sys_event = v[q].sys_event
      /\ w[q].last_avail_idx = v[q].last_avail_idx + 1
  BY <1>1, <1>2 DEF Virtqueue
<1>4. w = [r \in Queue |-> w[r]]
  OBVIOUS
<1>5. \A r \in Queue : w[r] \in Virtqueue
  BY <1>1, <1>3
<1> HIDE DEF w
<1>6. w \in [Queue -> Virtqueue]
  BY <1>4, <1>5
<1> QED
  BY <1>1, <1>3, <1>6 DEF w

(* What the PRU receives is there.                                         *)
LEMMA ReceiveIndex ==
  ASSUME BootInv, pru = "receive", vq[ToPru].last_avail_idx # Len(avail[ToPru])
  PROVE  vq[ToPru].last_avail_idx + 1 \in 1 .. Len(avail[ToPru])
<1>1. vq[ToPru].last_avail_idx \in 0 .. Len(avail[ToPru])
  BY DEF BootInv, AttachedToRings, Attached, Queue
<1>2. Len(avail[ToPru]) \in Nat
  BY TypeParts DEF BootInv, RingTypes, Queue
<1> QED
  BY <1>1, <1>2

-----------------------------------------------------------------------------
(* The types of the script and the service are kept, ...                   *)
LEMMA ServiceTypesStep ==
  ASSUME BootInv, [Next]_vars
  PROVE  ServiceTypes'
<1>a. /\ channels \in Nat \ {0} /\ run \in Nat /\ MaxRuns \in Nat \ {0} /\ MaxCommands \in Nat
      /\ Buffers \in Nat \ {0} /\ channels \in Firmware
  BY BootAssumption DEF BootInv, TypeOK
<1>b. ServiceTypes /\ LinuxTypes /\ RingTypes /\ PruTypes /\ TableFilled /\ Traffic
  BY TypeParts DEF BootInv
<1> USE <1>a, <1>b
<1> USE DEF ServiceTypes, Queue, ToArm, ToPru, service, linux, firm
<1>1. CASE HostIrqDone
  BY <1>1 DEF HostIrqDone
<1>2. CASE Command
  BY <1>2 DEF Command
<1>3. CASE wait_for
  <2>1. tries' \in 0 .. Tries
    BY <1>3 DEF wait_for, Tries
  <2>2. late' \in BOOLEAN
    BY <1>3 DEF wait_for
  <2>3. script' \in {"wait_for", "check"} /\ UNCHANGED <<channels, run, sent, got, overlay, autoboot, irq>>
    BY <1>3 DEF wait_for, Goto
  <2> QED
    BY <2>1, <2>2, <2>3
<1>4. CASE Read
  <2>1. Head(fifo).run \in 1 .. MaxRuns
    BY <1>4, MessageTypes, Popped DEF Read, Traffic
  <2> QED
    BY <1>4, <2>1 DEF Read
<1>5. CASE Restart
  <2>1. run' \in 1 .. MaxRuns /\ tries' \in 0 .. Tries /\ sent' \in 0 .. MaxCommands
    BY <1>5 DEF Restart, Tries
  <2> QED
    BY <1>5, <2>1 DEF Restart
<1>6. CASE LoadOverlay \/ Check \/ Stop \/ Start \/ Sleep
  BY <1>6 DEF LoadOverlay, Check, Stop, Start, Sleep, Goto, Unload, Load,
     StateUnchanged
<1>7. CASE Open \/ WaitDriverOk \/ rpmsg_init \/ Announce \/ Receive
  BY <1>7 DEF Open, WaitDriverOk, rpmsg_init, Announce, Receive, Goto,
     rpmsg_send, AfterAnnounce, HasBuffer
<1>8. CASE Reply \/ Probe \/ AutoBoot \/ FillTable \/ DriverOk
  BY <1>8 DEF Reply, Probe, AutoBoot, FillTable, DriverOk, rpmsg_send,
     HasBuffer, Load, StateUnchanged
<1>9. CASE Post \/ HostReceive
  BY <1>9 DEF Post, HostReceive
<1>10. CASE UNCHANGED vars
  BY <1>10 DEF vars
<1> QED
  BY <1>1, <1>2, <1>3, <1>4, <1>5, <1>6, <1>7, <1>8, <1>9, <1>10 DEF Next, Script, Pru, Linux

(* ... those of what remoteproc and virtio keep, ...                        *)
LEMMA LinuxTypesStep ==
  ASSUME BootInv, [Next]_vars
  PROVE  LinuxTypes'
<1>a. /\ channels \in Nat \ {0} /\ run \in Nat /\ MaxRuns \in Nat \ {0} /\ MaxCommands \in Nat
      /\ Buffers \in Nat \ {0} /\ channels \in Firmware
  BY BootAssumption DEF BootInv, TypeOK
<1>b. ServiceTypes /\ LinuxTypes /\ RingTypes /\ PruTypes /\ TableFilled /\ Traffic
  BY TypeParts DEF BootInv
<1> USE <1>a, <1>b
<1> USE DEF LinuxTypes, Port, Queue, ToArm, ToPru, service, linux, firm
<1>1. CASE Stop
  <2>1. seen' = 0 /\ used' = <<>> /\ devices' = {} /\ rproc' = "offline"
    BY <1>1 DEF Stop, Unload
  <2>2. area' \in [Queue -> Nat] /\ UNCHANGED <<table, channels>>
    BY <1>1 DEF Stop, Unload
  <2>3. seen' \in 0 .. Len(used')
    BY <2>1
  <2> QED
    BY <2>1, <2>2, <2>3
<1>2. CASE Start
  <2>1. CASE rproc = "offline"
    BY <1>2, <2>1, UnfilledType DEF Start, Load
  <2>2. CASE rproc # "offline"
    BY <1>2, <2>2 DEF Start, StateUnchanged
  <2> QED
    BY <2>1, <2>2
<1>3. CASE AutoBoot
  <2>1. CASE rproc = "offline"
    BY <1>3, <2>1, UnfilledType DEF AutoBoot, Load
  <2>2. CASE rproc # "offline"
    BY <1>3, <2>2 DEF AutoBoot, StateUnchanged
  <2> QED
    BY <2>1, <2>2
<1>4. CASE FillTable
  <2>1. \A p \in Pages : Page * p \in Nat
    BY PageAddress
  <2>2. area' \in [Queue -> Nat]
    BY <1>4, <2>1 DEF FillTable
  <2>3. table' \in [status : {"none", DRIVER_OK}, da : [Queue -> Nat]]
    BY <1>4, <2>2 DEF FillTable
  <2> QED
    BY <1>4, <2>2, <2>3 DEF FillTable
<1>5. CASE Announce
  <2>1. Len(used') = Len(used) + 1
    BY <1>5 DEF Announce, rpmsg_send, RingTypes
  <2> QED
    BY <1>5, <2>1 DEF Announce, rpmsg_send
<1>6. CASE Reply
  <2>1. Len(used') \in {Len(used), Len(used) + 1}
    BY <1>6 DEF Reply, rpmsg_send, RingTypes
  <2> QED
    BY <1>6, <2>1 DEF Reply, rpmsg_send
<1>7. CASE HostReceive
  <2>1. Len(used) \in Nat /\ seen + 1 \in 1 .. Len(used)
    BY <1>7 DEF HostReceive, RingTypes
  <2>2. used[seen + 1].kind = "ns" => used[seen + 1].port \in Port .. Port + channels - 1
    BY <2>1, Element, MessageTypes DEF Traffic
  <2>3. devices' \subseteq Port .. Port + channels - 1
    <3>1. CASE used[seen + 1].kind = "ns"
      BY <1>7, <2>2, <3>1 DEF HostReceive
    <3>2. CASE used[seen + 1].kind # "ns"
      BY <1>7, <3>2 DEF HostReceive
    <3> QED
      BY <3>1, <3>2
  <2> QED
    BY <1>7, <2>1, <2>3 DEF HostReceive
<1>8. CASE LoadOverlay \/ wait_for \/ Check \/ Sleep \/ Open
  BY <1>8 DEF LoadOverlay, wait_for, Check, Sleep, Open, Goto
<1>9. CASE Read \/ WaitDriverOk \/ rpmsg_init \/ Receive \/ Probe
  BY <1>9 DEF Read, WaitDriverOk, rpmsg_init, Receive, Probe
<1>10. CASE DriverOk \/ Post \/ HostIrqDone \/ Command \/ Restart
  BY <1>10 DEF DriverOk, Post, HostIrqDone, Command, Restart
<1>11. CASE UNCHANGED vars
  BY <1>11 DEF vars
<1> QED
  BY <1>1, <1>2, <1>3, <1>4, <1>5, <1>6, <1>7, <1>8, <1>9, <1>10, <1>11 DEF Next, Script, Pru, Linux

(* ... of what is in the rings and in the device, ...                      *)
LEMMA RingTypesStep ==
  ASSUME BootInv, [Next]_vars
  PROVE  RingTypes'
<1>a. /\ channels \in Nat \ {0} /\ run \in Nat /\ MaxRuns \in Nat \ {0} /\ MaxCommands \in Nat
      /\ Buffers \in Nat \ {0} /\ channels \in Firmware
  BY BootAssumption DEF BootInv, TypeOK
<1>b. ServiceTypes /\ LinuxTypes /\ RingTypes /\ PruTypes /\ TableFilled /\ Traffic
  BY TypeParts DEF BootInv
<1> USE <1>a, <1>b
<1> USE DEF RingTypes, Queue, ToArm, ToPru, service, linux, firm
<1>1. CASE Stop
  <2>1. avail' = [q \in Queue |-> <<>>] /\ used' = <<>> /\ fifo' = <<>>
    BY <1>1 DEF Stop, Unload
  <2>2. <<>> \in Seq(Message)
    OBVIOUS
  <2> QED
    BY <2>1, <2>2
<1>2. CASE Read
  <2>1. fifo' \in Seq(Message)
    BY <1>2, Popped DEF Read
  <2> QED
    BY <1>2, <2>1 DEF Read
<1>3. CASE Announce
  <2>1. Ns(Port + announced) \in Message
    BY MessageTypes DEF Port, PruTypes
  <2>2. used' \in Seq(Message)
    BY <1>3, <2>1, Appended DEF Announce, rpmsg_send
  <2> QED
    BY <1>3, <2>2 DEF Announce
<1>4. CASE Reply
  <2>1. used' \in Seq(Message)
    <3>1. CASE HasBuffer
      <4>1. command \in Message
        BY DEF PruTypes
      <4>2. Append(used, command) \in Seq(Message)
        BY <4>1, Appended
      <4> QED
        BY <1>4, <3>1, <4>2 DEF Reply, rpmsg_send
    <3>2. CASE ~HasBuffer
      BY <1>4, <3>2 DEF Reply
    <3> QED
      BY <3>1, <3>2
  <2> QED
    BY <1>4, <2>1 DEF Reply
<1>5. CASE Post
  <2>1. Append(avail[ToArm], Empty) \in Seq(Message)
    BY MessageTypes
  <2> QED
    BY <1>5, <2>1 DEF Post
<1>6. CASE HostReceive
  <2>1. used[seen + 1] \in Message
    BY <1>6, Element DEF HostReceive, LinuxTypes
  <2>2. Append(fifo, used[seen + 1]) \in Seq(Message)
    BY <2>1, Appended
  <2>3. fifo' \in Seq(Message)
    <3>1. CASE used[seen + 1].kind = "ns"
      BY <1>6, <3>1 DEF HostReceive
    <3>2. CASE used[seen + 1].kind # "ns"
      BY <1>6, <2>2, <3>2 DEF HostReceive
    <3> QED
      BY <3>1, <3>2
  <2> QED
    BY <1>6, <2>3 DEF HostReceive
<1>7. CASE Command
  <2>1. Append(avail[ToPru], Msg(run)) \in Seq(Message)
    BY MessageTypes DEF ServiceTypes
  <2> QED
    BY <1>7, <2>1 DEF Command
<1>8. CASE LoadOverlay \/ wait_for \/ Check \/ Start \/ Sleep
  BY <1>8 DEF LoadOverlay, wait_for, Check, Start, Sleep, Goto, Load,
     StateUnchanged
<1>9. CASE Open \/ WaitDriverOk \/ rpmsg_init \/ Receive \/ Probe
  BY <1>9 DEF Open, WaitDriverOk, rpmsg_init, Receive, Probe, Goto
<1>10. CASE AutoBoot \/ FillTable \/ DriverOk \/ HostIrqDone \/ Restart
  BY <1>10 DEF AutoBoot, FillTable, DriverOk, HostIrqDone, Restart, Load,
     StateUnchanged
<1>11. CASE UNCHANGED vars
  BY <1>11 DEF vars
<1> QED
  BY <1>1, <1>2, <1>3, <1>4, <1>5, <1>6, <1>7, <1>8, <1>9, <1>10, <1>11 DEF Next, Script, Pru, Linux

(* ... and of the PRU.                                                     *)
LEMMA PruTypesStep ==
  ASSUME BootInv, [Next]_vars
  PROVE  PruTypes'
<1>a. /\ channels \in Nat \ {0} /\ run \in Nat /\ MaxRuns \in Nat \ {0} /\ MaxCommands \in Nat
      /\ Buffers \in Nat \ {0} /\ channels \in Firmware
  BY BootAssumption DEF BootInv, TypeOK
<1>b. ServiceTypes /\ LinuxTypes /\ RingTypes /\ PruTypes /\ TableFilled /\ Traffic
  BY TypeParts DEF BootInv
<1> USE <1>a, <1>b
<1> USE DEF PruTypes, Queue, ToArm, ToPru, service, linux, firm
<1>1. CASE Start
  <2>1. CASE rproc = "offline"
    BY <1>1, <2>1, MessageTypes DEF Start, Load
  <2>2. CASE rproc # "offline"
    BY <1>1, <2>2 DEF Start, StateUnchanged
  <2> QED
    BY <2>1, <2>2
<1>2. CASE AutoBoot
  <2>1. CASE rproc = "offline"
    BY <1>2, <2>1, MessageTypes DEF AutoBoot, Load
  <2>2. CASE rproc # "offline"
    BY <1>2, <2>2 DEF AutoBoot, StateUnchanged
  <2> QED
    BY <2>1, <2>2
<1>3. CASE rpmsg_init
  <2>1. ASSUME NEW q \in Queue
        PROVE  /\ table.da[q] \in Nat
               /\ vring_init(Num, table.da[q], Align) \in [num : {Num}, desc : Nat, avail : Nat, used : Nat]
    <3>1. table.da = area
      BY <1>3 DEF rpmsg_init, TableFilled
    <3> QED
      BY <3>1, AreaAligned, LayoutTheorem, BootAssumption
  <2>2. \A q \in Queue : vq'[q] \in Virtqueue
    BY <1>3, <2>1 DEF rpmsg_init, virtqueue_init, Virtqueue
  <2>3. vq' \in [Queue -> Virtqueue]
    BY <1>3, <2>2 DEF rpmsg_init
  <2> QED
    BY <1>3, <2>3 DEF rpmsg_init
<1>4. CASE Announce
  <2>1. vq' \in [Queue -> Virtqueue]
    BY <1>4, Taken DEF Announce, rpmsg_send
  <2>2. announced' \in 0 .. channels
    BY <1>4 DEF Announce, Traffic
  <2>3. pru' \in {"receive", "announce"}
    BY <1>4 DEF Announce, AfterAnnounce
  <2> QED
    BY <1>4, <2>1, <2>2, <2>3 DEF Announce
<1>5. CASE Receive
  <2>1. vq' \in [Queue -> Virtqueue]
    BY <1>5, Taken DEF Receive
  <2>2. vq[ToPru].last_avail_idx + 1 \in 1 .. Len(avail[ToPru])
    BY <1>5, ReceiveIndex DEF Receive
  <2>3. command' \in Message
    BY <1>5, <2>2, Element DEF Receive, RingTypes
  <2> QED
    BY <1>5, <2>1, <2>3 DEF Receive
<1>6. CASE Reply
  <2>1. vq' \in [Queue -> Virtqueue]
    <3>1. CASE HasBuffer
      <4>1. vq' = [vq EXCEPT ![ToArm].last_avail_idx = @ + 1]
        BY <1>6, <3>1 DEF Reply, rpmsg_send
      <4> QED
        BY <4>1, Taken
    <3>2. CASE ~HasBuffer
      BY <1>6, <3>2 DEF Reply
    <3> QED
      BY <3>1, <3>2
  <2> QED
    BY <1>6, <2>1, MessageTypes DEF Reply
<1>7. CASE LoadOverlay \/ wait_for \/ Check \/ Stop \/ Sleep \/ Open
  BY <1>7 DEF LoadOverlay, wait_for, Check, Stop, Sleep, Open, Goto, Unload
<1>8. CASE Read \/ WaitDriverOk \/ Probe \/ FillTable \/ DriverOk \/ Post
  BY <1>8 DEF Read, WaitDriverOk, Probe, FillTable, DriverOk, Post
<1>9. CASE HostReceive \/ HostIrqDone \/ Command \/ Restart
  BY <1>9 DEF HostReceive, HostIrqDone, Command, Restart
<1>10. CASE UNCHANGED vars
  BY <1>10 DEF vars
<1> QED
  BY <1>1, <1>2, <1>3, <1>4, <1>5, <1>6, <1>7, <1>8, <1>9, <1>10 DEF Next, Script, Pru, Linux

(* Commands and replies stay what they are, and no channel is announced    *)
(* that the firmware does not have.                                        *)
LEMMA TrafficStep ==
  ASSUME BootInv, [Next]_vars
  PROVE  Traffic'
<1>a. /\ channels \in Nat \ {0} /\ run \in Nat /\ MaxRuns \in Nat \ {0} /\ MaxCommands \in Nat
      /\ Buffers \in Nat \ {0} /\ channels \in Firmware
  BY BootAssumption DEF BootInv, TypeOK
<1>b. ServiceTypes /\ LinuxTypes /\ RingTypes /\ PruTypes /\ TableFilled /\ Traffic /\ NothingLeft
  BY TypeParts DEF BootInv
<1> USE <1>a, <1>b
<1> USE DEF Traffic, RingTypes, Queue, ToArm, ToPru, service, linux, firm
<1>1. CASE Start
  <2>1. CASE rproc = "offline"
    BY <1>1, <2>1 DEF Start, Load
  <2>2. CASE rproc # "offline"
    BY <1>1, <2>2 DEF Start, StateUnchanged
  <2> QED
    BY <2>1, <2>2
<1>2. CASE AutoBoot
  <2>1. CASE rproc = "offline"
    BY <1>2, <2>1 DEF AutoBoot, Load
  <2>2. CASE rproc # "offline"
    BY <1>2, <2>2 DEF AutoBoot, StateUnchanged
  <2> QED
    BY <2>1, <2>2
<1>3. CASE Stop
  <2>1. avail' = [q \in Queue |-> <<>>] /\ used' = <<>> /\ fifo' = <<>> /\ pru' = "halted"
    BY <1>3 DEF Stop, Unload
  <2> QED
    BY <2>1
<1>4. CASE Read
  <2>1. fifo' \in Seq(Data)
    BY <1>4, Popped DEF Read
  <2> QED
    BY <1>4, <2>1 DEF Read
<1>5. CASE Announce
  <2> DEFINE Sent == [kind : {"ns"}, port : Port .. Port + channels - 1] \cup Data
  <2>1. Port + announced \in Port .. Port + channels - 1
    BY <1>5 DEF Announce, Port, PruTypes
  <2>2. Ns(Port + announced) \in Sent
    BY <2>1 DEF Ns
  <2>3. used \in Seq(Sent) /\ used' = Append(used, Ns(Port + announced))
    BY <1>5 DEF Announce, rpmsg_send
  <2> HIDE DEF Sent
  <2>4. used' \in Seq(Sent)
    BY <2>2, <2>3, Appended
  <2>5. pru' \in {"wait_ok", "init", "announce"} => announced' < channels
    BY <1>5 DEF Announce, AfterAnnounce, PruTypes
  <2>6. UNCHANGED <<channels, avail, fifo, command>> /\ pru' # "serve"
    BY <1>5 DEF Announce, AfterAnnounce
  <2> QED
    BY <2>4, <2>5, <2>6 DEF Sent
<1>6. CASE Receive
  <2>1. vq[ToPru].last_avail_idx + 1 \in 1 .. Len(avail[ToPru])
    BY <1>6, ReceiveIndex DEF Receive
  <2>2. command' \in Data
    BY <1>6, <2>1, Element DEF Receive
  <2> QED
    BY <1>6, <2>2 DEF Receive
<1>7. CASE Reply
  <2> DEFINE Sent == [kind : {"ns"}, port : Port .. Port + channels - 1] \cup Data
  <2>1. command \in Sent /\ used \in Seq(Sent)
    BY <1>7 DEF Reply
  <2>2. used' = used \/ used' = Append(used, command)
    BY <1>7 DEF Reply, rpmsg_send
  <2> HIDE DEF Sent
  <2>3. used' \in Seq(Sent)
    <3>1. Append(used, command) \in Seq(Sent)
      BY <2>1, Appended
    <3> QED
      BY <2>1, <2>2, <3>1
  <2>4. UNCHANGED <<channels, avail, fifo>> /\ pru' = "receive"
    BY <1>7 DEF Reply
  <2> QED
    BY <2>3, <2>4 DEF Sent
<1>8. CASE HostReceive
  <2> DEFINE msg == used[seen + 1]
  <2>1. seen + 1 \in 1 .. Len(used)
    BY <1>8 DEF HostReceive, LinuxTypes
  <2>2. msg.kind # "ns" => msg \in Data
    BY <2>1, Element
  <2>3. fifo' = fifo \/ (msg.kind # "ns" /\ fifo' = Append(fifo, msg))
    BY <1>8 DEF HostReceive
  <2> HIDE DEF msg
  <2>4. fifo' \in Seq(Data)
    BY <2>2, <2>3, Appended
  <2> QED
    BY <1>8, <2>4 DEF HostReceive
<1>9. CASE Command
  <2>1. Append(avail[ToPru], Msg(run)) \in Seq(Data)
    BY MessageTypes, Appended DEF ServiceTypes
  <2> QED
    BY <1>9, <2>1 DEF Command
<1>10. CASE LoadOverlay \/ wait_for \/ Check \/ Sleep \/ Open
  BY <1>10 DEF LoadOverlay, wait_for, Check, Sleep, Open, Goto
<1>11. CASE WaitDriverOk \/ rpmsg_init \/ Probe \/ FillTable \/ DriverOk
  BY <1>11 DEF WaitDriverOk, rpmsg_init, Probe, FillTable, DriverOk
<1>12. CASE Post \/ HostIrqDone \/ Restart
  BY <1>12 DEF Post, HostIrqDone, Restart
<1>13. CASE UNCHANGED vars
  BY <1>13 DEF vars
<1> QED
  BY <1>1, <1>2, <1>3, <1>4, <1>5, <1>6, <1>7, <1>8, <1>9, <1>10, <1>11, <1>12,
     <1>13 DEF Next, Script, Pru, Linux

(* Attaching takes the addresses from the table that Linux has filled in,  *)
(* and every buffer taken had been posted.                                 *)
LEMMA AttachedStep ==
  ASSUME BootInv, [Next]_vars
  PROVE  AttachedToRings'
<1>a. /\ channels \in Nat \ {0} /\ run \in Nat /\ MaxRuns \in Nat \ {0} /\ MaxCommands \in Nat
      /\ Buffers \in Nat \ {0} /\ channels \in Firmware
  BY BootAssumption DEF BootInv, TypeOK
<1>b. ServiceTypes /\ LinuxTypes /\ RingTypes /\ PruTypes /\ TableFilled /\ Traffic /\ NothingLeft
  BY TypeParts DEF BootInv
<1> USE <1>a, <1>b
<1> USE DEF BootInv, AttachedToRings, Attached, RingTypes, PruTypes, Queue,
     ToArm, ToPru, service, linux, firm
<1>1. CASE Start
  <2>1. CASE rproc = "offline"
    BY <1>1, <2>1 DEF Start, Load
  <2>2. CASE rproc # "offline"
    BY <1>1, <2>2 DEF Start, StateUnchanged
  <2> QED
    BY <2>1, <2>2
<1>2. CASE AutoBoot
  <2>1. CASE rproc = "offline"
    BY <1>2, <2>1 DEF AutoBoot, Load
  <2>2. CASE rproc # "offline"
    BY <1>2, <2>2 DEF AutoBoot, StateUnchanged
  <2> QED
    BY <2>1, <2>2
<1>3. CASE FillTable
  <2>1. ~Attached
    BY <1>3 DEF FillTable, TableFilled
  <2> QED
    BY <1>3, <2>1 DEF FillTable
<1>4. CASE Post
  <2>1. Len(avail'[ToArm]) = Len(avail[ToArm]) + 1 /\ avail'[ToPru] = avail[ToPru]
    BY <1>4, MessageTypes, Appended DEF Post
  <2>2. UNCHANGED <<pru, vq, area>> /\ Len(avail[ToArm]) \in Nat
    BY <1>4 DEF Post
  <2> QED
    BY <2>1, <2>2
<1>5. CASE Command
  <2>1. Len(avail'[ToPru]) = Len(avail[ToPru]) + 1 /\ avail'[ToArm] = avail[ToArm]
    BY <1>5, MessageTypes, Appended DEF Command, ServiceTypes
  <2>2. UNCHANGED <<pru, vq, area>> /\ Len(avail[ToPru]) \in Nat
    BY <1>5 DEF Command
  <2> QED
    BY <2>1, <2>2
<1>6. CASE rpmsg_init
  <2>1. table.da = area
    BY <1>6 DEF rpmsg_init, TableFilled
  <2>2. \A q \in Queue : Len(avail[q]) \in Nat
    OBVIOUS
  <2> QED
    BY <1>6, <2>1, <2>2 DEF rpmsg_init, virtqueue_init
<1>7. CASE Announce
  <2>1. vq' = [vq EXCEPT ![ToArm].last_avail_idx = @ + 1]
    BY <1>7 DEF Announce, rpmsg_send
  <2>2. vq[ToArm].last_avail_idx \in 0 .. Len(avail[ToArm]) - 1 /\ Len(avail[ToArm]) \in Nat
    BY <1>7 DEF Announce, HasBuffer
  <2>3. UNCHANGED <<area, avail>>
    BY <1>7 DEF Announce
  <2> QED
    BY <1>7, <2>1, <2>2, <2>3, Taken DEF Announce
<1>8. CASE Receive
  <2>1. vq' = [vq EXCEPT ![ToPru].last_avail_idx = @ + 1]
    BY <1>8 DEF Receive
  <2>2. vq[ToPru].last_avail_idx + 1 \in 1 .. Len(avail[ToPru])
    BY <1>8, ReceiveIndex DEF Receive
  <2>3. UNCHANGED <<area, avail>>
    BY <1>8 DEF Receive
  <2> QED
    BY <1>8, <2>1, <2>2, <2>3, Taken DEF Receive
<1>9. CASE Reply
  <2>1. UNCHANGED <<area, avail>>
    BY <1>9 DEF Reply
  <2>2. CASE HasBuffer
    <3>1. vq' = [vq EXCEPT ![ToArm].last_avail_idx = @ + 1]
      BY <1>9, <2>2 DEF Reply, rpmsg_send
    <3>2. vq[ToArm].last_avail_idx \in 0 .. Len(avail[ToArm]) - 1 /\ Len(avail[ToArm]) \in Nat
      BY <1>9, <2>2 DEF Reply, HasBuffer
    <3> QED
      BY <1>9, <2>1, <3>1, <3>2, Taken DEF Reply
  <2>3. CASE ~HasBuffer
    BY <1>9, <2>1, <2>3 DEF Reply
  <2> QED
    BY <2>2, <2>3
<1>10. CASE LoadOverlay \/ wait_for \/ Check \/ Stop \/ Sleep
  BY <1>10 DEF LoadOverlay, wait_for, Check, Stop, Sleep, Goto, Unload
<1>11. CASE Open \/ Read \/ WaitDriverOk \/ Probe \/ DriverOk
  BY <1>11 DEF Open, Read, WaitDriverOk, Probe, DriverOk, Goto
<1>12. CASE HostReceive \/ HostIrqDone \/ Restart
  BY <1>12 DEF HostReceive, HostIrqDone, Restart
<1>13. CASE UNCHANGED vars
  BY <1>13 DEF vars
<1> QED
  BY <1>1, <1>2, <1>3, <1>4, <1>5, <1>6, <1>7, <1>8, <1>9, <1>10, <1>11, <1>12,
     <1>13 DEF Next, Script, Pru, Linux

(* The table is filled in before main() leaves its wait, and stays so as   *)
(* long as the PRU runs.                                                   *)
LEMMA TableFilledStep ==
  ASSUME BootInv, [Next]_vars
  PROVE  TableFilled'
<1>a. /\ channels \in Nat \ {0} /\ run \in Nat /\ MaxRuns \in Nat \ {0} /\ MaxCommands \in Nat
      /\ Buffers \in Nat \ {0} /\ channels \in Firmware
  BY BootAssumption DEF BootInv, TypeOK
<1>b. ServiceTypes /\ LinuxTypes /\ RingTypes /\ PruTypes /\ TableFilled /\ Traffic /\ NothingLeft
  BY TypeParts DEF BootInv
<1> USE <1>a, <1>b
<1> USE DEF TableFilled, LinuxTypes, PruTypes, Unfilled, DRIVER_OK, Queue,
     ToArm, ToPru, service, linux, firm
<1>1. CASE Stop
  BY <1>1 DEF Stop, Goto, Unload
<1>2. CASE DriverOk
  BY <1>2 DEF DriverOk
<1>3. CASE WaitDriverOk
  BY <1>3 DEF WaitDriverOk
<1>4. CASE rpmsg_init
  BY <1>4 DEF rpmsg_init
<1>5. CASE Announce
  BY <1>5 DEF Announce, rpmsg_send, AfterAnnounce, HasBuffer
<1>6. CASE Reply
  BY <1>6 DEF Reply, rpmsg_send, HasBuffer
<1>7. CASE Start
  <2>1. CASE rproc = "offline"
    BY <1>7, <2>1 DEF Start, Load
  <2>2. CASE rproc # "offline"
    BY <1>7, <2>2 DEF Start, StateUnchanged
  <2> QED
    BY <2>1, <2>2
<1>8. CASE AutoBoot
  <2>1. CASE rproc = "offline"
    BY <1>8, <2>1 DEF AutoBoot, Load
  <2>2. CASE rproc # "offline"
    BY <1>8, <2>2 DEF AutoBoot, StateUnchanged
  <2> QED
    BY <2>1, <2>2
<1>9. CASE FillTable
  <2>1. table' = [table EXCEPT !.da = area'] /\ area' \in [Queue -> {Page * p : p \in Pages}]
    BY <1>9 DEF FillTable
  <2>2. area'[ToArm] # 0
    BY <2>1, PageAddress
  <2> QED
    BY <1>9, <2>1, <2>2 DEF FillTable
<1>10. CASE LoadOverlay \/ wait_for \/ Check \/ Sleep \/ Open \/ Read \/ Receive
  BY <1>10 DEF LoadOverlay, wait_for, Check, Sleep, Open, Read, Receive, Goto
<1>11. CASE Probe \/ Post \/ HostReceive \/ HostIrqDone \/ Command \/ Restart
  BY <1>11 DEF Probe, Post, HostReceive, HostIrqDone, Command, Restart
<1>12. CASE UNCHANGED vars
  BY <1>12 DEF vars
<1> QED
  BY <1>1, <1>2, <1>3, <1>4, <1>5, <1>6, <1>7, <1>8, <1>9, <1>10, <1>11, <1>12 DEF Next, Script, Pru, Linux

(* Stopping the PRU removes everything, and a service that has opened its  *)
(* device has a PRU that runs.                                             *)
LEMMA NothingLeftStep ==
  ASSUME BootInv, [Next]_vars
  PROVE  NothingLeft'
<1>a. /\ channels \in Nat \ {0} /\ run \in Nat /\ MaxRuns \in Nat \ {0} /\ MaxCommands \in Nat
      /\ Buffers \in Nat \ {0} /\ channels \in Firmware
  BY BootAssumption DEF BootInv, TypeOK
<1>b. ServiceTypes /\ LinuxTypes /\ RingTypes /\ PruTypes /\ TableFilled /\ Traffic /\ NothingLeft
  BY TypeParts DEF BootInv
<1> USE <1>a, <1>b
<1> USE DEF TableFilled, NothingLeft, ServiceTypes, LinuxTypes, PruTypes,
     Traffic, Queue, ToArm, ToPru, service, linux, firm
<1>1. CASE Stop
  BY <1>1 DEF Stop, Goto, Unload
<1>2. CASE Start
  BY <1>2 DEF Start, Goto, Load, StateUnchanged
<1>3. CASE AutoBoot
  BY <1>3 DEF AutoBoot, Load, StateUnchanged
<1>4. CASE Open
  BY <1>4 DEF Open, Goto
<1>5. CASE Read
  BY <1>5 DEF Read
<1>6. CASE Announce
  BY <1>6 DEF Announce, rpmsg_send, AfterAnnounce, HasBuffer
<1>7. CASE Reply
  BY <1>7 DEF Reply, rpmsg_send, HasBuffer
<1>8. CASE Post
  BY <1>8 DEF Post
<1>9. CASE Command
  BY <1>9 DEF Command
<1>10. CASE Restart
  BY <1>10 DEF Restart
<1>11. CASE HostReceive
  <2>1. rproc = "running"
    BY <1>11 DEF HostReceive
  <2> QED
    BY <1>11, <2>1 DEF HostReceive
<1>12. CASE LoadOverlay \/ wait_for \/ Check \/ Sleep \/ WaitDriverOk \/
     rpmsg_init
  BY <1>12 DEF LoadOverlay, wait_for, Check, Sleep, WaitDriverOk, rpmsg_init,
     Goto
<1>13. CASE Receive \/ Probe \/ FillTable \/ DriverOk \/ HostIrqDone
  BY <1>13 DEF Receive, Probe, FillTable, DriverOk, HostIrqDone
<1>14. CASE UNCHANGED vars
  BY <1>14 DEF vars
<1> QED
  BY <1>1, <1>2, <1>3, <1>4, <1>5, <1>6, <1>7, <1>8, <1>9, <1>10, <1>11, <1>12,
     <1>13, <1>14 DEF Next, Script, Pru, Linux

(* Nothing of an earlier run appears once the check for a running PRU is   *)
(* passed.                                                                 *)
LEMMA OfThisRunStep ==
  ASSUME BootInv, [Next]_vars
  PROVE  OfThisRun'
<1>a. /\ channels \in Nat \ {0} /\ run \in Nat /\ MaxRuns \in Nat \ {0} /\ MaxCommands \in Nat
      /\ Buffers \in Nat \ {0} /\ channels \in Firmware
  BY BootAssumption DEF BootInv, TypeOK
<1>b. ServiceTypes /\ LinuxTypes /\ RingTypes /\ PruTypes /\ TableFilled /\ Traffic /\ NothingLeft
      /\ OfThisRun
  BY TypeParts DEF BootInv
<1> USE <1>a, <1>b
<1> USE DEF NothingLeft, Traffic, OfThisRun, ServiceTypes, RingTypes, Queue,
     ToArm, ToPru, service, linux, firm
<1>1. CASE Stop
  BY <1>1 DEF Stop, Goto, Unload
<1>2. CASE Start
  BY <1>2 DEF Start, Goto, Load, StateUnchanged
<1>3. CASE AutoBoot
  BY <1>3 DEF AutoBoot, Load, StateUnchanged
<1>4. CASE Read
  <2>1. /\ script' = "serving" /\ script = "serving" /\ UNCHANGED <<avail, used, run, pru, command>>
         /\ fifo # <<>> /\ fifo' = Tail(fifo)
    BY <1>4 DEF Read
  <2>2. \A k \in DOMAIN fifo' : k + 1 \in DOMAIN fifo /\ fifo'[k] = fifo[k + 1]
    BY <2>1, Element, Popped
  <2> QED
    BY <2>1, <2>2
<1>5. CASE Announce
  <2>1. UNCHANGED <<script, run, avail, fifo, command>> /\ pru' # "serve"
    BY <1>5 DEF Announce, AfterAnnounce
  <2>2. used' = Append(used, Ns(Port + announced)) /\ Port + announced \in Nat
    BY <1>5 DEF Announce, rpmsg_send, PruTypes, Port
  <2>3. Ns(Port + announced) \in Message /\ Ns(Port + announced).kind = "ns"
    BY <2>2, MessageTypes
  <2>4. \A k \in DOMAIN used' : (k \in DOMAIN used /\ used'[k] = used[k]) \/ used'[k].kind = "ns"
    BY <2>2, <2>3, Element, Appended
  <2> QED
    BY <2>1, <2>4
<1>6. CASE Receive
  <2>1. vq[ToPru].last_avail_idx + 1 \in DOMAIN avail[ToPru]
    BY <1>6, ReceiveIndex, Element DEF Receive
  <2>2. /\ UNCHANGED <<script, run, avail, fifo, used>>
         /\ command' = avail[ToPru][vq[ToPru].last_avail_idx + 1]
    BY <1>6 DEF Receive
  <2> QED
    BY <2>1, <2>2
<1>7. CASE Reply
  <2>1. UNCHANGED <<script, run, avail, fifo>> /\ pru' = "receive" /\ pru = "serve"
    BY <1>7 DEF Reply
  <2>2. used' = used \/ used' = Append(used, command)
    BY <1>7 DEF Reply, rpmsg_send
  <2>3. command \in Message
    BY DEF PruTypes
  <2>4. \A k \in DOMAIN used' : (k \in DOMAIN used /\ used'[k] = used[k]) \/ used'[k] = command
    <3>1. CASE used' = used
      BY <3>1
    <3>2. CASE used' = Append(used, command)
      BY <2>3, <3>2, Element, Appended
    <3> QED
      BY <2>2, <3>1, <3>2
  <2> QED
    BY <2>1, <2>4
<1>8. CASE Post
  <2>1. UNCHANGED <<script, run, used, fifo, pru, command>> /\ avail'[ToPru] = avail[ToPru]
    BY <1>8 DEF Post
  <2> QED
    BY <2>1
<1>9. CASE HostReceive
  <2> DEFINE msg == used[seen + 1]
  <2>1. UNCHANGED <<script, run, avail, used, pru, command>>
    BY <1>9 DEF HostReceive
  <2>2. seen + 1 \in DOMAIN used /\ msg \in Message
    BY <1>9, Element DEF HostReceive, LinuxTypes
  <2>3. msg.kind # "ns" => msg.kind = "data"
    BY <2>2, Element, MessageTypes
  <2>4. fifo' = fifo \/ (msg.kind # "ns" /\ fifo' = Append(fifo, msg))
    BY <1>9 DEF HostReceive
  <2> HIDE DEF msg
  <2>5. \A k \in DOMAIN fifo' :
           (k \in DOMAIN fifo /\ fifo'[k] = fifo[k]) \/ (fifo'[k] = msg /\ msg.kind = "data")
    <3>1. CASE fifo' = fifo
      BY <3>1
    <3>2. CASE fifo' = Append(fifo, msg) /\ msg.kind = "data"
      BY <2>2, <3>2, Element, Appended
    <3> QED
      BY <2>3, <2>4, <3>1, <3>2
  <2> QED
    BY <2>1, <2>2, <2>5 DEF msg
<1>10. CASE Command
  <2>1. UNCHANGED <<script, run, used, fifo, pru, command>> /\ avail'[ToPru] = Append(avail[ToPru], Msg(run))
    BY <1>10 DEF Command
  <2>2. Msg(run) \in Data /\ Msg(run).run = run
    BY MessageTypes
  <2>3. \A k \in DOMAIN avail'[ToPru] :
           \/ k \in DOMAIN avail[ToPru] /\ avail'[ToPru][k] = avail[ToPru][k]
           \/ avail'[ToPru][k] = Msg(run)
    BY <2>1, <2>2, Element, Appended
  <2> QED
    BY <2>1, <2>2, <2>3
<1>11. CASE Check
  <2>1. UNCHANGED <<run, used, fifo, pru, avail, command>>
    BY <1>11 DEF Check, Goto
  <2>2. CASE rproc = "running"
    BY <1>11, <2>2 DEF Check, Goto
  <2>3. CASE rproc # "running"
    <3>1. avail[ToPru] = <<>> /\ used = <<>> /\ fifo = <<>> /\ pru = "halted"
      BY <2>3 DEF TableFilled
    <3>2. DOMAIN <<>> = {}
      OBVIOUS
    <3> QED
      BY <2>1, <3>1, <3>2
  <2> QED
    BY <2>2, <2>3
<1>12. CASE LoadOverlay \/ wait_for \/ Sleep \/ Open
  BY <1>12 DEF LoadOverlay, wait_for, Sleep, Open, Goto
<1>13. CASE WaitDriverOk \/ rpmsg_init \/ Probe \/ FillTable
  BY <1>13 DEF WaitDriverOk, rpmsg_init, Probe, FillTable
<1>14. CASE DriverOk \/ HostIrqDone \/ Restart
  BY <1>14 DEF DriverOk, HostIrqDone, Restart
<1>15. CASE UNCHANGED vars
  BY <1>15 DEF vars
<1> QED
  BY <1>1, <1>2, <1>3, <1>4, <1>5, <1>6, <1>7, <1>8, <1>9, <1>10, <1>11, <1>12,
     <1>13, <1>14, <1>15 DEF Next, Script, Pru, Linux

(* So that nothing of an earlier run is read.                              *)
LEMMA FreshReplyStep ==
  ASSUME BootInv, [Next]_vars
  PROVE  FreshReply'
<1>a. /\ channels \in Nat \ {0} /\ run \in Nat /\ MaxRuns \in Nat \ {0} /\ MaxCommands \in Nat
      /\ Buffers \in Nat \ {0} /\ channels \in Firmware
  BY BootAssumption DEF BootInv, TypeOK
<1>b. ServiceTypes /\ LinuxTypes /\ RingTypes /\ PruTypes /\ TableFilled /\ Traffic /\ NothingLeft
      /\ OfThisRun /\ FreshReply
  BY TypeParts DEF BootInv
<1> USE <1>a, <1>b
<1> USE DEF FreshReply, Queue, ToArm, ToPru, service, linux, firm
<1>1. CASE Read
  <2>1. Head(fifo).run = run
    BY <1>1, Popped DEF Read, OfThisRun, Traffic
  <2> QED
    BY <1>1, <2>1 DEF Read
<1>2. CASE LoadOverlay \/ wait_for \/ Check \/ Stop \/ Start \/ Sleep \/ Open
  BY <1>2 DEF LoadOverlay, wait_for, Check, Stop, Start, Sleep, Open, Goto,
     Unload, Load, StateUnchanged
<1>3. CASE WaitDriverOk \/ rpmsg_init \/ Announce \/ Receive \/ Reply \/ Probe
     \/ AutoBoot
  BY <1>3 DEF WaitDriverOk, rpmsg_init, Announce, Receive, Reply, Probe,
     AutoBoot, rpmsg_send, AfterAnnounce, HasBuffer, Load, StateUnchanged
<1>4. CASE FillTable \/ DriverOk \/ Post \/ HostReceive \/ HostIrqDone \/
     Command \/ Restart
  BY <1>4 DEF FillTable, DriverOk, Post, HostReceive, HostIrqDone, Command,
     Restart
<1>5. CASE UNCHANGED vars
  BY <1>5 DEF vars
<1> QED
  BY <1>1, <1>2, <1>3, <1>4, <1>5 DEF Next, Script, Pru, Linux


(* The invariant holds from the first start of the service on ...          *)
LEMMA InitBootInv == Init => BootInv
<1> SUFFICES ASSUME Init PROVE BootInv
  OBVIOUS
<1>1. channels \in Nat \ {0} /\ MaxRuns \in Nat \ {0} /\ MaxCommands \in Nat
  BY BootAssumption DEF Init
<1>2. ServiceTypes
  <2>1. run \in 1 .. MaxRuns /\ sent \in 0 .. MaxCommands /\ tries \in 0 .. Tries /\ channels \in Firmware
    BY <1>1 DEF Init, Tries
  <2>2. late \in BOOLEAN /\ overlay \in BOOLEAN /\ autoboot \in BOOLEAN /\ irq \in BOOLEAN
    BY DEF Init
  <2>3. script = "overlay" /\ got = {}
    BY DEF Init
  <2> QED
    BY <2>1, <2>2, <2>3 DEF ServiceTypes
<1>3. LinuxTypes
  BY <1>1, UnfilledType DEF Init, LinuxTypes
<1>4. RingTypes
  BY DEF Init, RingTypes
<1>5. PruTypes
  <2>1. Num \in Nat \ {0} /\ Align \in Nat \ {0} /\ 0 \in Nat /\ (0 % Align) = 0
    BY BootAssumption, ModSmall
  <2>2. vring_init(Num, 0, Align) \in [num : {Num}, desc : Nat, avail : Nat, used : Nat]
    BY <2>1, LayoutTheorem
  <2>3. virtqueue_init(0, 0) \in Virtqueue
    BY <2>2 DEF virtqueue_init, Virtqueue
  <2> QED
    BY <1>1, <2>3, MessageTypes DEF Init, PruTypes
<1>6. TableFilled
  BY DEF Init, TableFilled, Unfilled, Queue, ToArm, ToPru, DRIVER_OK
<1>7. NothingLeft /\ OfThisRun /\ FreshReply /\ AttachedToRings
  BY DEF Init, NothingLeft, OfThisRun, FreshReply, AttachedToRings, Attached
<1>8. Traffic
  BY DEF Init, Traffic, Queue, ToPru
<1> QED
  BY <1>2, <1>3, <1>4, <1>5, <1>6, <1>7, <1>8, TypeParts DEF BootInv

(* ... and after every step.                                               *)
THEOREM BootInvariance == Spec => []BootInv
<1>1. BootInv /\ [Next]_vars => BootInv'
  <2> SUFFICES ASSUME BootInv, [Next]_vars
               PROVE  BootInv'
    OBVIOUS
  <2>1. ServiceTypes' /\ LinuxTypes' /\ RingTypes' /\ PruTypes'
    BY ServiceTypesStep, LinuxTypesStep, RingTypesStep, PruTypesStep
  <2>2. TypeOK'
    BY <2>1 DEF TypeOK, ServiceTypes, LinuxTypes, RingTypes, PruTypes
  <2>3. TableFilled' /\ AttachedToRings' /\ NothingLeft'
    BY TableFilledStep, AttachedStep, NothingLeftStep
  <2>4. Traffic' /\ OfThisRun' /\ FreshReply'
    BY TrafficStep, OfThisRunStep, FreshReplyStep
  <2> QED
    BY <2>2, <2>3, <2>4 DEF BootInv
<1> QED
  BY InitBootInv, <1>1, PTL DEF Spec

(* Type correctness, for all values of the constants.                      *)
THEOREM BootTypes == Spec => []TypeOK
<1>1. BootInv => TypeOK
  BY DEF BootInv
<1> QED
  BY BootInvariance, <1>1, PTL

(* A PRU that uses its vrings uses those of this run, and has taken no     *)
(* buffer that was not posted, for every number of restarts.               *)
THEOREM AttachedTheorem == Spec => []AttachedToRings
<1>1. BootInv => AttachedToRings
  BY DEF BootInv
<1> QED
  BY BootInvariance, <1>1, PTL

(* The parts of its vrings are apart and inside their memory, whatever the *)
(* ring size, the alignment and the pages.                                 *)
THEOREM PartsTheorem == Spec => []PartsApart
<1>1. BootInv => PartsApart
  <2> SUFFICES ASSUME BootInv, Attached, NEW q \in Queue
               PROVE  WellPlaced(vq[q].vring, area[q], Align)
    BY DEF PartsApart
  <2>1. area[q] \in Nat /\ (area[q] % Align) = 0
    BY AreaAligned DEF BootInv
  <2>2. vq[q].vring = vring_init(Num, area[q], Align)
    BY DEF BootInv, AttachedToRings
  <2> QED
    BY <2>1, <2>2, LayoutTheorem, BootAssumption
<1> QED
  BY BootInvariance, <1>1, PTL

(* No service reads the reply to a command of an earlier one, for every    *)
(* number of restarts, commands and buffers.                               *)
THEOREM FreshTheorem == Spec => []FreshReply
<1>1. BootInv => FreshReply
  BY DEF BootInv
<1> QED
  BY BootInvariance, <1>1, PTL
-----------------------------------------------------------------------------
(* The device of the service *)

(* The first message of a PRU is the announcement of its first channel;    *)
(* every message raises an interrupt that stays up until Linux has read    *)
(* all of them, and an announcement that was read has made its device.     *)
Started ==
  /\ pru # "halted" => IF announced = 0 THEN used = <<>> ELSE used # <<>> /\ used[1] = Ns(Port)
  /\ pru \in {"wait_ok", "init"} => announced = 0
  /\ pru \in {"receive", "serve"} => announced = channels
  /\ Attached => vq[ToArm].sys_event = PruVring /\ vq[ToArm].last_avail_idx = Len(used)
  /\ seen < Len(used) => irq
  /\ \A k \in 1 .. seen : used[k].kind = "ns" => used[k].port \in devices

(* Where the script gets to in a run none of whose waits was too short.    *)
InTime ==
  ~late =>
    /\ script \in {"check", "stop", "start"} => rproc # "absent"
    /\ script = "sleep" => rproc = "running"
    /\ script = "open" => Port \in devices
    /\ script # "dead"

(* INTERRUPT_PRU_VRING is the ARM's: a PRU attached to its rings raises it *)
(* with every message, which becomes the last of those on the used ring.   *)
LEMMA Sending ==
  ASSUME BootInv, Started, Attached, NEW msg \in Message, rpmsg_send(msg)
  PROVE  /\ irq' = TRUE
         /\ vq'[ToArm].sys_event = PruVring /\ vq'[ToArm].last_avail_idx = Len(used')
         /\ Len(used') = Len(used) + 1 /\ used' # <<>>
         /\ used'[Len(used) + 1] = msg
         /\ \A k \in 1 .. Len(used) : used'[k] = used[k]
<1>1. used \in Seq(Message) /\ vq \in [Queue -> Virtqueue] /\ ToArm \in Queue
  BY TypeParts DEF BootInv, RingTypes, PruTypes, Queue
<1>2. used' = Append(used, msg) /\ vq' = [vq EXCEPT ![ToArm].last_avail_idx = @ + 1]
  BY DEF rpmsg_send
<1>3. vq[ToArm].sys_event = PruVring /\ vq[ToArm].last_avail_idx = Len(used)
  BY DEF Started
<1>4. /\ Len(used') = Len(used) + 1 /\ used' # <<>> /\ used'[Len(used) + 1] = msg
      /\ \A k \in 1 .. Len(used) : used'[k] = used[k]
  BY <1>1, <1>2
<1>5. vq'[ToArm].sys_event = PruVring /\ vq'[ToArm].last_avail_idx = Len(used')
  BY <1>1, <1>2, <1>3, <1>4, Taken
<1>6. ReachesArm(EventRaised(ToArm))
  <2>1. PruVring \in 16 .. 31
    BY BootAssumption
  <2>2. PruVring - 16 \in 0 .. 16 - 1 /\ 16 \in Nat \ {0}
    BY <2>1
  <2>3. ((PruVring - 16) % 16) = PruVring - 16
    BY <2>2, ModSmall
  <2>4. EventRaised(ToArm) = PruVring
    BY <1>3, <2>1, <2>3 DEF EventRaised
  <2>5. pru_intc_map(PruVring) = 2 /\ channel_host[2] = 2
    BY DEF pru_intc_map, channel_host
  <2> QED
    BY <2>4, <2>5 DEF ReachesArm
<1>7. irq' = TRUE
  BY <1>6 DEF rpmsg_send
<1> QED
  BY <1>4, <1>5, <1>7

(* A PRU that starts finds no message of the one before.                   *)
LEMMA LoadStarted ==
  ASSUME BootInv, rproc = "offline", Load
  PROVE  Started'
<1>1. used = <<>> /\ seen = 0
  BY TypeParts DEF BootInv, NothingLeft, LinuxTypes
<1>2. pru' = "wait_ok" /\ announced' = 0 /\ used' = <<>> /\ seen' = 0
  BY <1>1 DEF Load
<1> QED
  BY <1>2 DEF Started, Attached

LEMMA StartedStep ==
  ASSUME BootInv, Started, [Next]_vars
  PROVE  Started'
<1>a. channels \in Nat \ {0}
  BY BootAssumption DEF BootInv, TypeOK
<1>b. LinuxTypes /\ RingTypes /\ PruTypes /\ TableFilled /\ Traffic
  BY TypeParts DEF BootInv
<1>c. Len(used) \in Nat /\ seen \in 0 .. Len(used) /\ announced \in 0 .. channels
  BY <1>b DEF LinuxTypes, RingTypes, PruTypes
<1> USE <1>a, <1>c
<1> USE DEF Started, Attached, service, linux, firm
<1>1. CASE Stop
  <2>1. pru' = "halted" /\ used' = <<>> /\ seen' = 0
    BY <1>1 DEF Stop, Unload
  <2> QED
    BY <2>1
<1>2. CASE Start
  BY <1>2, LoadStarted DEF Start, StateUnchanged
<1>3. CASE AutoBoot
  BY <1>3, LoadStarted DEF AutoBoot, StateUnchanged
<1>4. CASE rpmsg_init
  <2>1. used = <<>> /\ announced = 0
    BY <1>4 DEF rpmsg_init
  <2>2. vq'[ToArm] = virtqueue_init(table.da[ToArm], PruVring)
    BY <1>4 DEF rpmsg_init, Queue
  <2>3. vq'[ToArm].sys_event = PruVring /\ vq'[ToArm].last_avail_idx = Len(used)
    BY <2>1, <2>2 DEF virtqueue_init
  <2>4. pru' = "announce" /\ UNCHANGED <<announced, used, seen, irq, devices, channels>>
    BY <1>4 DEF rpmsg_init
  <2> QED
    BY <2>1, <2>3, <2>4
<1>5. CASE Announce
  <2> DEFINE msg == Ns(Port + announced)
  <2>1. msg \in Message /\ rpmsg_send(msg) /\ pru = "announce"
    BY <1>5, MessageTypes DEF Announce, Port
  <2>2. announced' = announced + 1 /\ UNCHANGED <<seen, devices, channels>>
    BY <1>5 DEF Announce
  <2>3. pru' = IF announced' = channels THEN "receive" ELSE "announce"
    BY <1>5, <2>2 DEF Announce, AfterAnnounce
  <2>4. announced = 0 => msg = Ns(Port) /\ Len(used) = 0
    BY <2>1 DEF Port
  <2>5. announced # 0 => 1 \in 1 .. Len(used) /\ used[1] = Ns(Port)
    BY <1>b, <2>1 DEF RingTypes
  <2> HIDE DEF msg
  <2>6. /\ irq' = TRUE
        /\ vq'[ToArm].sys_event = PruVring /\ vq'[ToArm].last_avail_idx = Len(used')
        /\ used' # <<>> /\ used'[Len(used) + 1] = msg
        /\ \A k \in 1 .. Len(used) : used'[k] = used[k]
    BY <2>1, Sending
  <2>7. used'[1] = Ns(Port)
    BY <2>4, <2>5, <2>6
  <2>8. \A k \in 1 .. seen' : used'[k].kind = "ns" => used'[k].port \in devices'
    BY <2>2, <2>6
  <2> QED
    BY <2>2, <2>3, <2>6, <2>7, <2>8
<1>6. CASE Receive
  <2>1. UNCHANGED <<announced, used, seen, irq, devices, channels>> /\ pru = "receive" /\ pru' = "serve"
    BY <1>6 DEF Receive
  <2>2. vq'[ToArm] = vq[ToArm]
    BY <1>6, <1>b, Taken DEF Receive, PruTypes, Queue, ToArm, ToPru
  <2> QED
    BY <2>1, <2>2
<1>7. CASE Reply
  <2>1. pru = "serve" /\ pru' = "receive" /\ UNCHANGED <<announced, seen, devices, channels>>
    BY <1>7 DEF Reply
  <2>2. CASE ~HasBuffer
    BY <1>7, <2>1, <2>2 DEF Reply
  <2>3. CASE HasBuffer
    <3>1. rpmsg_send(command) /\ command \in Message
      BY <1>7, <1>b, <2>3 DEF Reply, PruTypes
    <3>2. announced # 0 /\ used # <<>> /\ used[1] = Ns(Port) /\ 1 \in 1 .. Len(used)
      BY <1>b, <2>1 DEF RingTypes
    <3>3. /\ irq' = TRUE
          /\ vq'[ToArm].sys_event = PruVring /\ vq'[ToArm].last_avail_idx = Len(used')
          /\ used' # <<>> /\ \A k \in 1 .. Len(used) : used'[k] = used[k]
      BY <2>1, <3>1, Sending
    <3>4. \A k \in 1 .. seen' : used'[k].kind = "ns" => used'[k].port \in devices'
      BY <2>1, <3>3
    <3> QED
      BY <2>1, <3>2, <3>3, <3>4
  <2> QED
    BY <2>2, <2>3
<1>8. CASE HostReceive
  <2>1. seen' = seen + 1 /\ irq /\ UNCHANGED <<channels, pru, announced, vq, used, irq>>
    BY <1>8 DEF HostReceive
  <2>2. devices \subseteq devices' /\ (used[seen + 1].kind = "ns" => used[seen + 1].port \in devices')
    BY <1>8 DEF HostReceive
  <2>3. \A k \in 1 .. seen' : k \in 1 .. seen \/ k = seen + 1
    BY <2>1
  <2> QED
    BY <2>1, <2>2, <2>3
<1>9. CASE HostIrqDone
  BY <1>9 DEF HostIrqDone
<1>10. CASE LoadOverlay \/ wait_for \/ Check \/ Sleep \/ Open \/ Read
  BY <1>10 DEF LoadOverlay, wait_for, Check, Sleep, Open, Read
<1>11. CASE WaitDriverOk \/ Probe \/ FillTable \/ DriverOk \/ Post
  BY <1>11 DEF WaitDriverOk, Probe, FillTable, DriverOk, Post
<1>12. CASE Command \/ Restart
  BY <1>12 DEF Command, Restart
<1>13. CASE UNCHANGED vars
  BY <1>13 DEF vars
<1> QED
  BY <1>1, <1>2, <1>3, <1>4, <1>5, <1>6, <1>7, <1>8, <1>9, <1>10, <1>11, <1>12,
     <1>13 DEF Next, Script, Pru, Linux

(* Once nothing is left to come, a PRU that runs has its first device: it  *)
(* has announced it, for there was a buffer, and Linux has read it.        *)
LEMMA AllCame ==
  ASSUME BootInv, Started, rproc = "running", ~StillComing
  PROVE  Port \in devices
<1>0. Firmware \subseteq Nat \ {0} /\ Buffers \in Nat \ {0}
  BY BootAssumption
<1>1. /\ channels \in Nat \ {0} /\ announced \in 0 .. channels /\ Buffers \in Nat \ {0}
      /\ Len(used) \in Nat /\ seen \in 0 .. Len(used) /\ Len(avail[ToArm]) \in Nat
  <2>1. ServiceTypes /\ LinuxTypes /\ RingTypes /\ PruTypes /\ ToArm \in Queue
    BY TypeParts DEF BootInv, Queue
  <2>2. channels \in Nat \ {0} /\ announced \in 0 .. channels
    BY <1>0, <2>1 DEF ServiceTypes, PruTypes
  <2>3. avail[ToArm] \in Seq(Message) /\ used \in Seq(Message)
    BY <2>1 DEF RingTypes
  <2>4. Len(used) \in Nat /\ Len(avail[ToArm]) \in Nat
    BY <2>3
  <2>5. seen \in 0 .. Len(used)
    BY <2>1 DEF LinuxTypes
  <2> QED
    BY <1>0, <2>2, <2>4, <2>5
<1>2. area[ToArm] # 0 /\ Len(avail[ToArm]) >= Buffers + seen /\ ~irq
  BY <1>1 DEF StillComing
<1>3. seen = Len(used)
  BY <1>1, <1>2 DEF Started
<1>4. pru # "announce"
  <2> SUFFICES ASSUME pru = "announce" PROVE FALSE
    OBVIOUS
  <2>1. vq[ToArm].last_avail_idx = Len(avail[ToArm])
    BY DEF StillComing, HasBuffer
  <2>2. vq[ToArm].last_avail_idx = Len(used)
    BY DEF Started, Attached
  <2> QED
    BY <1>1, <1>2, <1>3, <2>1, <2>2
<1>5. pru \in {"receive", "serve"}
  BY <1>4, TypeParts DEF BootInv, PruTypes, TableFilled, StillComing
<1>6. used # <<>> /\ used[1] = Ns(Port)
  BY <1>1, <1>5 DEF Started
<1>7. 1 \in 1 .. seen
  BY <1>1, <1>3, <1>6, TypeParts DEF BootInv, RingTypes
<1>8. used[1].kind = "ns" /\ used[1].port = Port
  BY <1>6, MessageTypes DEF Port
<1> QED
  BY <1>7, <1>8 DEF Started

LEMMA InTimeStep ==
  ASSUME BootInv, Started, InTime, [Next]_vars
  PROVE  InTime'
<1>a. late \in BOOLEAN /\ rproc \in {"absent", "offline", "running"}
  BY TypeParts DEF BootInv, ServiceTypes, LinuxTypes
<1> USE <1>a
<1> USE DEF InTime, service, linux, firm
<1>1. CASE LoadOverlay \/ Check
  BY <1>1 DEF LoadOverlay, Check, Goto
<1>2. CASE wait_for
  BY <1>2 DEF wait_for, Goto
<1>3. CASE Stop
  BY <1>3 DEF Stop, Goto, Unload
<1>4. CASE Start
  BY <1>4 DEF Start, Goto, Load, StateUnchanged
<1>5. CASE Sleep
  <2>1. script = "sleep" /\ script' = "open" /\ UNCHANGED <<rproc, devices>>
    BY <1>5 DEF Sleep, Goto
  <2>2. ~late' => ~late /\ ~StillComing
    BY <1>5 DEF Sleep
  <2> QED
    BY <2>1, <2>2, AllCame
<1>6. CASE Open
  BY <1>6 DEF Open, Goto
<1>7. CASE AutoBoot
  BY <1>7 DEF AutoBoot, Load, StateUnchanged
<1>8. CASE HostReceive
  <2>1. devices \subseteq devices' /\ UNCHANGED <<script, late, rproc>>
    BY <1>8 DEF HostReceive
  <2> QED
    BY <2>1
<1>9. CASE Read \/ WaitDriverOk \/ rpmsg_init \/ Announce \/ Receive \/ Reply
  BY <1>9 DEF Read, WaitDriverOk, rpmsg_init, Announce, Receive, Reply
<1>10. CASE Probe \/ FillTable \/ DriverOk \/ Post \/ HostIrqDone
  BY <1>10 DEF Probe, FillTable, DriverOk, Post, HostIrqDone
<1>11. CASE Command \/ Restart
  BY <1>11 DEF Command, Restart
<1>12. CASE UNCHANGED vars
  BY <1>12 DEF vars
<1> QED
  BY <1>1, <1>2, <1>3, <1>4, <1>5, <1>6, <1>7, <1>8, <1>9, <1>10, <1>11,
     <1>12 DEF Next, Script, Pru, Linux

(* A service that dies because it has no device has not waited long        *)
(* enough: no order of the steps of Linux, of the PRU and of the script    *)
(* leaves it without one for another reason, for every number of restarts, *)
(* channels and buffers.                                                   *)
THEOREM DiesTheorem == Spec => []DiesOnlyIfLate
<1> DEFINE Inv == Started /\ InTime
<1>1. Init => Inv
  BY DEF Init, Started, InTime, Attached
<1>2. BootInv /\ Inv /\ [Next]_vars => Inv'
  BY StartedStep, InTimeStep
<1>3. BootInv /\ Inv => DiesOnlyIfLate
  BY TypeParts DEF BootInv, ServiceTypes, InTime, DiesOnlyIfLate
<1> HIDE DEF Inv
<1> QED
  BY BootInvariance, <1>1, <1>2, <1>3, PTL DEF Spec
=============================================================================
