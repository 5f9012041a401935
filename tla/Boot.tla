-------------------------------- MODULE Boot --------------------------------
(***************************************************************************)
(* From the start of the service to a PRU that answers it, again and       *)
(* again: thermo/start_webserver.sh stops and starts the PRU, Linux loads  *)
(* the firmware and fills in its resource table, main() waits for          *)
(* DRIVER_OK, attaches itself to the vrings and announces its channels,    *)
(* and the web service opens the device that appears.  The service can be  *)
(* killed and started anew at any moment, with messages still under way.   *)
(*                                                                         *)
(* Linux (remoteproc, virtio, rpmsg_pru) is external.  Rpmsg.tla models    *)
(* the rings access by access; here a message is sent in one step.         *)
(***************************************************************************)
EXTENDS Integers, Sequences, FiniteSets, Vring

CONSTANTS
  Firmware,     \* how many channels the firmware announces: DHT22 1, elco 2
  PruVring,     \* INTERRUPT_PRU_VRING
  PruKick,      \* INTERRUPT_PRU_KICK
  Num, Align,   \* of both vrings in the resource table
  Page,         \* Linux allocates vrings in pages, here from ...
  Pages,        \* ... these
  Buffers,      \* bound: receive buffers the host has
  MaxRuns,      \* bound: times the service is started
  MaxCommands   \* bound: commands the service sends in a run

ASSUME BootAssumption ==
  /\ Firmware \subseteq Nat \ {0}
  /\ PruVring \in 16 .. 31 /\ PruKick \in 16 .. 31 /\ PruVring # PruKick
  /\ Num \in Nat \ {0} /\ Align \in Nat \ {0}
  /\ Page \in Nat \ {0} /\ Page % Align = 0
  /\ vring_size(Num, Align) <= Page
  /\ Pages \subseteq Nat \ {0} /\ \E p, r \in Pages : p # r
  /\ Buffers \in Nat \ {0} /\ MaxRuns \in Nat \ {0} /\ MaxCommands \in Nat

VARIABLES
  channels,   \* rigid: which firmware it is
  script,     \* where the start script, and then the service, is
  tries,      \* wait_for: i
  run,        \* starts of the service so far
  late,       \* a fixed wait of this run was over too soon
  sent,       \* commands the service has sent in this run
  got,        \* the runs whose replies the service has read in this run
  overlay,    \* the DHT22-PRU overlay is loaded
  rproc,      \* what RP1_STATE says; "absent" before it exists
  autoboot,   \* Linux will start the PRU by itself
  table,      \* the resource table: device status, da of each vring
  area,       \* where Linux has put the vrings, 0 before
  avail,      \* the buffers of each vring, in the order Linux posted them
  used,       \* what the PRU has sent
  seen,       \* how much of it Linux has read
  irq,        \* the PRU's host interrupt is pending at Linux
  devices,    \* the ports of the rpmsg devices
  fifo,       \* messages that wait in the service's device
  pru,        \* where main() is
  announced,  \* channels announced
  vq,         \* transport: the two virtqueues
  command     \* the command being served

service == <<script, tries, run, late, sent, got, overlay>>
linux   == <<rproc, autoboot, table, area, seen, devices, fifo>>
firm    == <<pru, announced, vq, command>>
vars    == <<channels, service, linux, firm, avail, used, irq>>

ToArm == "pru_to_arm"
ToPru == "arm_to_pru"
Queue == {ToArm, ToPru}

Tries     == 5
DRIVER_OK == "DRIVER_OK"
Port      == 0                    \* /dev/rpmsg_pru0: 10*PRU_NUMBER
Empty     == [kind |-> "empty"]
Ns(port)  == [kind |-> "ns", port |-> port]
Msg(r)    == [kind |-> "data", run |-> r]

\* virtqueue_init; the address comes from the resource table.
virtqueue_init(da, sys_event) ==
  [vring |-> vring_init(Num, da, Align), sys_event |-> sys_event, last_avail_idx |-> 0]

\* The image of the resource table: to be filled in by Linux.
Unfilled == [status |-> "none", da |-> [q \in Queue |-> 0]]

Init ==
  /\ channels \in Firmware
  /\ script = "overlay" /\ tries = Tries /\ run = 1 /\ late = FALSE
  /\ sent = 0 /\ got = {} /\ overlay = FALSE
  /\ rproc = "absent" /\ autoboot \in BOOLEAN
  /\ table = Unfilled
  /\ area = [q \in Queue |-> 0]
  /\ avail = [q \in Queue |-> <<>>] /\ used = <<>> /\ seen = 0
  /\ irq = FALSE /\ devices = {} /\ fifo = <<>>
  /\ pru = "halted" /\ announced = 0 /\ command = Empty
  /\ vq = [q \in Queue |-> virtqueue_init(0, 0)]

-----------------------------------------------------------------------------
(* Linux: remoteproc *)

\* Loading puts a fresh image of the resource table in place and starts the
\* PRU.  Its data memory keeps what the last program left there.
Load ==
  /\ rproc' = "running"
  /\ table' = Unfilled
  /\ pru' = "wait_ok" /\ announced' = 0 /\ command' = Empty
  /\ UNCHANGED <<area, avail, used, seen, irq, devices, fifo, vq>>

Unload ==
  /\ rproc' = "offline"
  /\ pru' = "halted"
  /\ area' = [q \in Queue |-> 0]
  /\ avail' = [q \in Queue |-> <<>>] /\ used' = <<>> /\ seen' = 0
  /\ irq' = FALSE /\ devices' = {} /\ fifo' = <<>>
  /\ UNCHANGED <<table, announced, vq, command>>

StateUnchanged == UNCHANGED <<rproc, table, area, avail, used, seen, irq, devices, fifo, firm>>

Probe ==
  /\ overlay /\ rproc = "absent"
  /\ rproc' = "offline"
  /\ UNCHANGED <<channels, service, autoboot, table, area, seen, devices, fifo, firm, avail, used, irq>>

AutoBoot ==
  /\ autoboot /\ rproc # "absent"
  /\ autoboot' = FALSE
  /\ IF rproc = "offline" THEN Load ELSE StateUnchanged
  /\ UNCHANGED <<channels, service>>

-----------------------------------------------------------------------------
(* Linux: the virtio driver *)

FillTable ==
  /\ rproc = "running" /\ area[ToArm] = 0
  /\ \E p, r \in Pages :
       p # r /\ area' = [q \in Queue |-> Page * (IF q = ToArm THEN p ELSE r)]
  /\ table' = [table EXCEPT !.da = area']
  /\ UNCHANGED <<channels, service, rproc, autoboot, seen, devices, fifo, firm, avail, used, irq>>

DriverOk ==
  /\ rproc = "running" /\ area[ToArm] # 0
  /\ table.status # DRIVER_OK
  /\ table' = [table EXCEPT !.status = DRIVER_OK]
  /\ UNCHANGED <<channels, service, rproc, autoboot, area, seen, devices, fifo, firm, avail, used, irq>>

\* Receive buffers, before or after DRIVER_OK.
Post ==
  /\ area[ToArm] # 0
  /\ Len(avail[ToArm]) < Buffers + seen
  /\ avail' = [avail EXCEPT ![ToArm] = Append(@, Empty)]
  /\ UNCHANGED <<channels, service, linux, firm, used, irq>>

\* One interrupt, everything that is on the used ring: a device for each
\* announcement, and the rest into the device that is open or waits to be.
HostReceive ==
  /\ irq /\ seen < Len(used)
  /\ seen' = seen + 1
  /\ LET msg == used[seen + 1] IN
       IF msg.kind = "ns"
       THEN devices' = devices \cup {msg.port} /\ UNCHANGED fifo
       ELSE fifo' = Append(fifo, msg) /\ UNCHANGED devices
  /\ UNCHANGED <<channels, service, rproc, autoboot, table, area, firm, avail, used, irq>>

HostIrqDone ==
  /\ irq /\ seen = Len(used)
  /\ irq' = FALSE
  /\ UNCHANGED <<channels, service, linux, firm, avail, used>>

Linux == Probe \/ AutoBoot \/ FillTable \/ DriverOk \/ Post \/ HostReceive \/ HostIrqDone

-----------------------------------------------------------------------------
(* The interrupt controller, set up from the resource table.               *)

channel_host == [c \in 0 .. 9 |-> IF c \in {0, 2} THEN c ELSE 255]

\* Mutant: the two events are swapped.
pru_intc_swapped(evt) == IF evt = PruKick THEN 2 ELSE 0

pru_intc_map(evt) == IF evt = PruVring THEN 2 ELSE 0

\* Host interrupts 2 to 9 are the ARM's, 0 and 1 those of the PRUs.
ReachesArm(evt) ==
  /\ evt \in {PruVring, PruKick}
  /\ channel_host[pru_intc_map(evt)] \in 2 .. 9

EventRaised(q) == 16 + ((vq[q].sys_event - 16) % 16)

-----------------------------------------------------------------------------
(* The PRU: main()                                                         *)

\* Mutant: main() does not wait.
WaitDriverOkNot ==
  /\ pru = "wait_ok"
  /\ pru' = "init"
  /\ UNCHANGED <<channels, service, linux, announced, vq, command, avail, used, irq>>

WaitDriverOk ==
  /\ pru = "wait_ok"
  /\ table.status = DRIVER_OK
  /\ pru' = "init"
  /\ UNCHANGED <<channels, service, linux, announced, vq, command, avail, used, irq>>

rpmsg_init ==
  /\ pru = "init"
  /\ vq' = [q \in Queue |-> virtqueue_init(table.da[q], IF q = ToArm THEN PruVring ELSE 0)]
  /\ pru' = "announce"
  /\ UNCHANGED <<channels, service, linux, announced, command, avail, used, irq>>

\* rpmsg_send: fails without having changed anything if no buffer is posted.
HasBuffer == vq[ToArm].last_avail_idx # Len(avail[ToArm])

rpmsg_send(msg) ==
  /\ vq' = [vq EXCEPT ![ToArm].last_avail_idx = @ + 1]
  /\ used' = Append(used, msg)
  /\ irq' = (irq \/ ReachesArm(EventRaised(ToArm)))

AfterAnnounce == IF announced + 1 = channels THEN "receive" ELSE "announce"

\* Mutant: a channel that could not be announced is not tried again.
AnnounceOnce ==
  /\ pru = "announce"
  /\ IF HasBuffer THEN rpmsg_send(Ns(Port + announced)) ELSE UNCHANGED <<vq, used, irq>>
  /\ announced' = announced + 1
  /\ pru' = AfterAnnounce
  /\ UNCHANGED <<channels, service, linux, command, avail>>

\* rpmsg_channel, repeated until it succeeds.
Announce ==
  /\ pru = "announce"
  /\ HasBuffer
  /\ rpmsg_send(Ns(Port + announced))
  /\ announced' = announced + 1
  /\ pru' = AfterAnnounce
  /\ UNCHANGED <<channels, service, linux, command, avail>>

Receive ==
  /\ pru = "receive"
  /\ vq[ToPru].last_avail_idx # Len(avail[ToPru])
  /\ command' = avail[ToPru][vq[ToPru].last_avail_idx + 1]
  /\ vq' = [vq EXCEPT ![ToPru].last_avail_idx = @ + 1]
  /\ pru' = "serve"
  /\ UNCHANGED <<channels, service, linux, announced, avail, used, irq>>

\* The reply to a command; without a buffer it is lost.
Reply ==
  /\ pru = "serve"
  /\ IF HasBuffer THEN rpmsg_send(command) ELSE UNCHANGED <<vq, used, irq>>
  /\ command' = Empty
  /\ pru' = "receive"
  /\ UNCHANGED <<channels, service, linux, announced, avail>>

Pru == WaitDriverOk \/ rpmsg_init \/ Announce \/ Receive \/ Reply

-----------------------------------------------------------------------------
(* start_webserver.sh, which becomes the service in the end                *)

\* Linux or the start of main() has still a step to make by itself.
StillComing ==
  \/ rproc = "absent" /\ overlay
  \/ rproc # "absent" /\ autoboot
  \/ rproc = "running" /\ (area[ToArm] = 0 \/ table.status # DRIVER_OK)
  \/ area[ToArm] # 0 /\ Len(avail[ToArm]) < Buffers + seen
  \/ irq
  \/ pru \in {"wait_ok", "init"}
  \/ pru = "announce" /\ HasBuffer

Goto(s) == script' = s /\ UNCHANGED <<run, sent, got>>

LoadOverlay ==
  /\ script = "overlay"
  /\ overlay' = TRUE
  /\ Goto("wait_for")
  /\ UNCHANGED <<channels, tries, late, linux, firm, avail, used, irq>>

\* Mutant: it waits as long as it takes, and i runs below 0.
wait_for_ever ==
  /\ script = "wait_for"
  /\ IF rproc # "absent"
     THEN Goto("check") /\ UNCHANGED <<tries, late>>
     ELSE tries' = tries - 1 /\ UNCHANGED <<script, run, sent, got, late>>
  /\ UNCHANGED <<channels, overlay, linux, firm, avail, used, irq>>

wait_for ==
  /\ script = "wait_for"
  /\ \/ /\ rproc # "absent" \/ tries = 0
        /\ Goto("check")
        /\ late' = (rproc = "absent")
        /\ UNCHANGED tries
     \/ /\ rproc = "absent" /\ tries > 0
        /\ tries' = tries - 1
        /\ UNCHANGED <<script, run, sent, got, late>>
  /\ UNCHANGED <<channels, overlay, linux, firm, avail, used, irq>>

\* Mutant: a PRU that runs is left alone.
CheckNot ==
  /\ script = "check"
  /\ Goto("start")
  /\ UNCHANGED <<channels, overlay, tries, late, linux, firm, avail, used, irq>>

Check ==
  /\ script = "check"
  /\ Goto(IF rproc = "running" THEN "stop" ELSE "start")
  /\ UNCHANGED <<channels, overlay, tries, late, linux, firm, avail, used, irq>>

Stop ==
  /\ script = "stop"
  /\ Goto("start")
  /\ Unload
  /\ UNCHANGED <<channels, overlay, tries, late, autoboot>>

\* Writing "start" fails, unnoticed, unless the PRU is there and offline.
Start ==
  /\ script = "start"
  /\ Goto("sleep")
  /\ IF rproc = "offline" THEN Load ELSE StateUnchanged
  /\ UNCHANGED <<channels, overlay, tries, late, autoboot>>

Sleep ==
  /\ script = "sleep"
  /\ Goto("open")
  /\ late' = (late \/ StillComing)
  /\ UNCHANGED <<channels, overlay, tries, linux, firm, avail, used, irq>>

\* os.open raises if there is no such device, and nobody catches that.
Open ==
  /\ script = "open"
  /\ Goto(IF Port \in devices THEN "serving" ELSE "dead")
  /\ UNCHANGED <<channels, overlay, tries, late, linux, firm, avail, used, irq>>

Read ==
  /\ script = "serving" /\ fifo # <<>>
  /\ got' = got \cup {Head(fifo).run}
  /\ fifo' = Tail(fifo)
  /\ UNCHANGED <<channels, script, tries, run, late, sent, overlay, rproc, autoboot, table, area,
                 seen, devices, firm, avail, used, irq>>

Script == LoadOverlay \/ wait_for \/ Check \/ Stop \/ Start \/ Sleep \/ Open \/ Read

Command ==
  /\ script = "serving" /\ sent < MaxCommands
  /\ sent' = sent + 1
  /\ avail' = [avail EXCEPT ![ToPru] = Append(@, Msg(run))]
  /\ UNCHANGED <<channels, script, tries, run, late, got, overlay, linux, firm, used, irq>>

\* The service is stopped, wherever it is, and started anew.
Restart ==
  /\ run < MaxRuns
  /\ run' = run + 1
  /\ script' = "overlay" /\ tries' = Tries /\ late' = FALSE /\ sent' = 0 /\ got' = {}
  /\ UNCHANGED <<channels, overlay, linux, firm, avail, used, irq>>

Next == Script \/ Pru \/ Linux \/ Command \/ Restart

Spec == Init /\ [][Next]_vars

(* The script and the PRU run on, Linux does what it has to.  Nobody has   *)
(* to send a command or to restart the service.                            *)
FairSpec ==
  /\ Spec
  /\ WF_vars(Script) /\ WF_vars(Pru)
  /\ WF_vars(Probe) /\ WF_vars(AutoBoot) /\ WF_vars(FillTable) /\ WF_vars(DriverOk)
  /\ WF_vars(Post) /\ WF_vars(HostReceive) /\ WF_vars(HostIrqDone)

-----------------------------------------------------------------------------
Message ==
  {Empty} \cup [kind : {"ns"}, port : Nat] \cup [kind : {"data"}, run : 1 .. MaxRuns]

Virtqueue ==
  [vring : [num : {Num}, desc : Nat, avail : Nat, used : Nat], sys_event : {0, PruVring},
   last_avail_idx : Nat]

(* Type correctness; wait_for gives up after its five tries.               *)
TypeOK ==
  /\ channels \in Firmware
  /\ script \in {"overlay", "wait_for", "check", "stop", "start", "sleep", "open",
                 "serving", "dead"}
  /\ tries \in 0 .. Tries /\ run \in 1 .. MaxRuns /\ sent \in 0 .. MaxCommands
  /\ late \in BOOLEAN /\ overlay \in BOOLEAN /\ autoboot \in BOOLEAN /\ irq \in BOOLEAN
  /\ got \subseteq 1 .. MaxRuns
  /\ rproc \in {"absent", "offline", "running"}
  /\ table \in [status : {"none", DRIVER_OK}, da : [Queue -> Nat]]
  /\ area \in [Queue -> Nat]
  /\ avail \in [Queue -> Seq(Message)] /\ used \in Seq(Message) /\ fifo \in Seq(Message)
  /\ seen \in 0 .. Len(used)
  /\ devices \subseteq Port .. Port + channels - 1
  /\ pru \in {"halted", "wait_ok", "init", "announce", "receive", "serve"}
  /\ announced \in 0 .. channels
  /\ vq \in [Queue -> Virtqueue]
  /\ command \in Message

Attached == pru \in {"announce", "receive", "serve"}

(* Once the PRU uses the vrings they are the ones Linux has allocated this *)
(* time, and it has not taken more from them than was posted: not those of *)
(* the run before, not address 0 of a table that is not filled in yet, and *)
(* not from where the run before left off (main.c:230-239, rpmsg.c:14-24). *)
AttachedToRings ==
  Attached => \A q \in Queue :
    /\ vq[q].vring = vring_init(Num, area[q], Align)
    /\ vq[q].last_avail_idx \in 0 .. Len(avail[q])

(* What the PRU takes for the parts of a vring (virtio_ring.h:139-147) do  *)
(* not overlap, and lie in the memory that was allocated for it.           *)
PartsApart ==
  Attached => \A q \in Queue : WellPlaced(vq[q].vring, area[q], Align)

(* A service never reads the reply to a command of an earlier run: the     *)
(* script stops a PRU that runs (start_webserver.sh:35-40), and with it go *)
(* the rings, the devices and what is queued in them.                      *)
FreshReply == got \subseteq {run}

(* The service finds its device unless one of the fixed waits of the       *)
(* script (5 tries, 2 seconds) was over before the PRU was up: there is no *)
(* order of events that leaves it without, however long it waits.          *)
DiesOnlyIfLate == script = "dead" => late

(* A PRU that runs ends up with a device for each of its channels, or is   *)
(* stopped: no announcement is lost, be the buffers posted before or after *)
(* DRIVER_OK (main.c:241-242, elco/main.c:475-478).                        *)
DeviceAppears ==
  rproc = "running" ~> Cardinality(devices) = channels \/ rproc = "offline"
=============================================================================
