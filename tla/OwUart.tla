------------------------------- MODULE OwUart -------------------------------
(***************************************************************************)
(* The one-wire UART (elco/main.c): several nodes, each a PRU that runs    *)
(* process_tick over and over, on a line that reads 1 as soon as one node  *)
(* drives it.  Nodes that start together are arbitrated: the one that      *)
(* sends a 0 and reads a 1 stops sending and goes on as a receiver.        *)
(*                                                                         *)
(* Time is counted in rounds: in a round every node runs process_tick      *)
(* once, the nodes in any order, and then the clocks advance.  A timer is  *)
(* kept as the rounds left until it (Time.tla is about the clock itself).  *)
(* The rpmsg transport (Rpmsg.tla) appears as an inbox per node and as a   *)
(* send that may find no free buffer.  The counters c_tx, c_rx,            *)
(* c_arbitrated, c_framing_error are only reported and are left out.       *)
(***************************************************************************)
EXTENDS Integers, Sequences, FiniteSets

CONSTANTS
  Node,       \* the nodes on the line
  DataBits,   \* 8
  HalfBit,    \* rounds in CPU_FREQ / BIT_RATE / 2
  MaxMsg,     \* MAX_MSG_SIZE
  Aux,        \* a request for the report, on the AUX channel
  Writes,     \* Writes[n]: what the host of n may write
  MaxWrites,  \* bound on how often each host writes
  Dark,       \* which nodes may be off at first ...
  Late        \* ... and which of them may be started later, at any moment

Bit  == {0, 1}
Byte == [1 .. DataBits -> Bit]

ASSUME OwUartAssumption ==
  /\ DataBits \in Nat \ {0}
  /\ HalfBit \in Nat \ {0, 1, 2, 3}  \* several polls to a half bit
  /\ MaxMsg \in Nat \ {0}
  /\ \A n \in Node : Writes[n] \subseteq {Aux} \cup Seq(Byte)
  /\ MaxWrites \in Nat
  /\ Dark \subseteq SUBSET Node /\ Late \subseteq Node

VARIABLES
  owuart,   \* owuart[n]: the state of process_tick, and what n drives
  inbox,    \* inbox[n]: what the host wrote and n has not received
  written,  \* written[n]: how often the host of n has written
  sent,     \* sent[n]: the messages n has sent to the end
  heard,    \* heard[n]: the messages n has reported to its host
  ticked,   \* the nodes that have run in this round
  dark      \* rigid: the nodes that were off at first

hosts == <<inbox, written>>
vars  == <<owuart, hosts, sent, heard, ticked, dark>>

START_BIT_VALUE == 1
STOP_BIT_VALUE  == 0
FullBit   == 2 * HalfBit
FrameBits == DataBits + 3           \* start, data, parity, one stop bit
MaxLate   == 3                      \* rounds a timer in use is looked at late
parity(b) == Cardinality({i \in DOMAIN b : b[i] = 1}) % 2

\* What is sent for a byte: the second stop bit is the sender's alone.
Frame(b) == <<START_BIT_VALUE>> \o b \o <<parity(b), STOP_BIT_VALUE, STOP_BIT_VALUE>>

TxState ==
  {"TxStart", "TxNextBit", "TxBit", "TxWaitForHalfBit", "TxMonitorBit",
   "TxWaitForFullBit", "TxArbitrated", "TxCompleted"}
RxState == {"RxStartBit", "RxWaitForNextBit", "RxBit", "RxByte"}
State   == {"Off", "StartHoldOff", "HoldOff", "EndOfMessage", "Idle"} \cup TxState \cup RxState

\* tx_bit is a byte number and a position in its frame (0 is the start bit);
\* the lengths the program keeps beside its buffers are those of the sequences.
OwuartState ==
  [state : State, timer : -MaxLate .. FrameBits * FullBit, out : Bit,
   tx_buffer : Seq(Byte), tx_byte : Nat, tx_pos : 0 .. FrameBits, tx_sent : Bit,
   rx_bits : Seq(Bit), rx_buffer : Seq(Byte)]

(* The line: wired-or of what the nodes drive. *)
Read == IF \E m \in Node : owuart[m].out = 1 THEN 1 ELSE 0
time_ge(n) == owuart[n].timer <= 0

Init ==
  /\ dark \in Dark
  /\ owuart = [n \in Node |->
       [state |-> IF n \in dark THEN "Off" ELSE "StartHoldOff", timer |-> 0, out |-> 0, tx_buffer |-> <<>>,
        tx_byte |-> 0, tx_pos |-> 0, tx_sent |-> 0, rx_bits |-> <<>>, rx_buffer |-> <<>>]]
  /\ inbox = [n \in Node |-> <<>>]
  /\ written = [n \in Node |-> 0]
  /\ sent = [n \in Node |-> {}]
  /\ heard = [n \in Node |-> <<>>]
  /\ ticked = {}

(* One call of process_tick by n, in state s. *)
In(n, s) ==
  /\ n \notin ticked
  /\ owuart[n].state = s
  /\ ticked' = ticked \cup {n}

Silent == UNCHANGED <<hosts, sent, heard, dark>>

\* rpmsg_send to the host: the message is lost if no buffer is free.
rpmsg_send(n, msg) ==
  \E kept \in BOOLEAN : heard' = IF kept THEN [heard EXCEPT ![n] = Append(@, msg)] ELSE heard

-----------------------------------------------------------------------------
(* The gap between messages *)

\* Mutant: the wait is a bit, not a character.
HoldOffBit == FullBit

HoldOffTime == FrameBits * FullBit

StartHoldOff(n) ==
  /\ In(n, "StartHoldOff")
  /\ owuart' = [owuart EXCEPT ![n].timer = HoldOffTime, ![n].state = "HoldOff"]
  /\ Silent

HoldOff(n) ==
  /\ In(n, "HoldOff")
  /\ owuart' = [owuart EXCEPT ![n].state =
       IF Read = 1 THEN "RxStartBit" ELSE IF time_ge(n) THEN "EndOfMessage" ELSE @]
  /\ Silent

\* Mutant: the byte counter is not reset.
EndOfMessageKept(n) ==
  /\ In(n, "EndOfMessage")
  /\ owuart' = [owuart EXCEPT ![n].rx_bits = <<>>, ![n].state = "Idle"]
  /\ IF owuart[n].rx_buffer # <<>> THEN rpmsg_send(n, owuart[n].rx_buffer) ELSE UNCHANGED heard
  /\ UNCHANGED <<hosts, sent, dark>>

EndOfMessage(n) ==
  /\ In(n, "EndOfMessage")
  /\ owuart' = [owuart EXCEPT ![n].rx_buffer = <<>>, ![n].rx_bits = <<>>, ![n].state = "Idle"]
  /\ IF owuart[n].rx_buffer # <<>> THEN rpmsg_send(n, owuart[n].rx_buffer) ELSE UNCHANGED heard
  /\ UNCHANGED <<hosts, sent, dark>>

IdleHears(n) ==
  /\ In(n, "Idle")
  /\ Read = 1
  /\ owuart' = [owuart EXCEPT ![n].state = "RxStartBit"]
  /\ Silent

IdleSends(n) ==
  /\ In(n, "Idle")
  /\ Read = 0
  /\ owuart[n].tx_buffer # <<>>
  /\ owuart' = [owuart EXCEPT ![n].state = "TxStart"]
  /\ Silent

IdleReceives(n) ==
  /\ In(n, "Idle")
  /\ Read = 0
  /\ owuart[n].tx_buffer = <<>>
  /\ IF inbox[n] = <<>>
     THEN UNCHANGED <<owuart, inbox>>
     ELSE LET msg == Head(inbox[n]) IN
          /\ inbox' = [inbox EXCEPT ![n] = Tail(@)]
          /\ owuart' = IF msg = Aux \/ Len(msg) > MaxMsg
                       THEN owuart
                       ELSE [owuart EXCEPT ![n].tx_buffer = msg]
  /\ UNCHANGED <<written, sent, heard, dark>>

-----------------------------------------------------------------------------
(* Sending *)

BitToSend(n) == Frame(owuart[n].tx_buffer[owuart[n].tx_byte + 1])[owuart[n].tx_pos + 1]

\* Mutant: the bit is read back at once, before it has settled.
SendBitAtOnce(u, bit) ==
  [u EXCEPT !.out = bit, !.tx_sent = bit, !.state = "TxWaitForHalfBit"]

\* From TxBit: drive the bit and wait for the middle of it.
SendBit(u, bit) ==
  [u EXCEPT !.out = bit, !.tx_sent = bit, !.timer = @ + HalfBit, !.state = "TxWaitForHalfBit"]

\* Falls through into TxBit: the start bit goes out in the same tick.
TxStart(n) ==
  /\ In(n, "TxStart")
  /\ owuart' = [owuart EXCEPT ![n] =
       SendBit([@ EXCEPT !.tx_byte = 0, !.tx_pos = 0, !.timer = 0], START_BIT_VALUE)]
  /\ Silent

TxBit(n) ==
  /\ In(n, "TxBit")
  /\ owuart' = [owuart EXCEPT ![n] = SendBit(@, BitToSend(n))]
  /\ Silent

TxWaitForHalfBit(n) ==
  /\ In(n, "TxWaitForHalfBit")
  /\ owuart' = [owuart EXCEPT ![n].state = IF time_ge(n) THEN "TxMonitorBit" ELSE @]
  /\ Silent

TxMonitorBit(n) ==
  /\ In(n, "TxMonitorBit")
  /\ owuart' = [owuart EXCEPT
       ![n].timer = @ + HalfBit,
       ![n].state = IF Read = owuart[n].tx_sent THEN "TxWaitForFullBit" ELSE "TxArbitrated"]
  /\ Silent

TxWaitForFullBit(n) ==
  /\ In(n, "TxWaitForFullBit")
  /\ owuart' = [owuart EXCEPT ![n].state = IF time_ge(n) THEN "TxNextBit" ELSE @]
  /\ Silent

\* Start, data, parity and two stop bits; then the next byte's start bit.
TxNextBit(n) ==
  LET u    == owuart[n]
      last == u.tx_pos + 1 = FrameBits + 1
      byte == IF last THEN u.tx_byte + 1 ELSE u.tx_byte
  IN
  /\ In(n, "TxNextBit")
  /\ owuart' = [owuart EXCEPT
       ![n].tx_pos = IF last THEN 0 ELSE @ + 1,
       ![n].tx_byte = byte,
       ![n].state = IF byte >= Len(u.tx_buffer) THEN "TxCompleted" ELSE "TxBit"]
  /\ Silent

\* Mutant: the message that lost the line is dropped.
TxArbitratedDrops(n) ==
  LET u == owuart[n] IN
  /\ In(n, "TxArbitrated")
  /\ owuart' = [owuart EXCEPT
       ![n].out = 0,
       ![n].rx_buffer = SubSeq(u.tx_buffer, 1, u.tx_byte),
       ![n].rx_bits = SubSeq(Frame(u.tx_buffer[u.tx_byte + 1]), 1, u.tx_pos),
       ![n].tx_buffer = <<>>,
       ![n].state = "RxBit"]
  /\ Silent

\* The bits sent so far become bits received; RxBit reads this one again.
TxArbitrated(n) ==
  LET u == owuart[n] IN
  /\ In(n, "TxArbitrated")
  /\ owuart' = [owuart EXCEPT
       ![n].out = 0,
       ![n].rx_buffer = SubSeq(u.tx_buffer, 1, u.tx_byte),
       ![n].rx_bits = SubSeq(Frame(u.tx_buffer[u.tx_byte + 1]), 1, u.tx_pos),
       ![n].tx_byte = 0,
       ![n].tx_pos = 0,
       ![n].state = "RxBit"]
  /\ Silent

TxCompleted(n) ==
  /\ In(n, "TxCompleted")
  /\ rpmsg_send(n, owuart[n].tx_buffer)
  /\ sent' = [sent EXCEPT ![n] = @ \cup {owuart[n].tx_buffer}]
  /\ owuart' = [owuart EXCEPT ![n].out = 0, ![n].tx_buffer = <<>>, ![n].state = "StartHoldOff"]
  /\ UNCHANGED <<hosts, dark>>

-----------------------------------------------------------------------------
(* Receiving *)

\* Mutant: the first sample is a whole bit after the edge.
RxStartBitLate(n) ==
  /\ In(n, "RxStartBit")
  /\ owuart' = [owuart EXCEPT ![n].timer = FullBit, ![n].state = "RxWaitForNextBit"]
  /\ Silent

RxStartBit(n) ==
  /\ In(n, "RxStartBit")
  /\ owuart' = [owuart EXCEPT ![n].timer = HalfBit, ![n].state = "RxWaitForNextBit"]
  /\ Silent

RxWaitForNextBit(n) ==
  /\ In(n, "RxWaitForNextBit")
  /\ owuart' = [owuart EXCEPT ![n].state = IF time_ge(n) THEN "RxBit" ELSE @]
  /\ Silent

\* Mutant: off by one, the second stop bit is waited for too.
RxBitOneMore(n) ==
  LET bits == Append(owuart[n].rx_bits, Read)
      full == Len(bits) > FrameBits
  IN
  /\ In(n, "RxBit")
  /\ owuart' = [owuart EXCEPT
       ![n].rx_bits = bits,
       ![n].state = IF full THEN "RxByte" ELSE "RxWaitForNextBit",
       ![n].timer = IF full THEN @ ELSE @ + FullBit]
  /\ Silent

RxBit(n) ==
  LET bits == Append(owuart[n].rx_bits, Read)
      full == Len(bits) >= FrameBits
  IN
  /\ In(n, "RxBit")
  /\ owuart' = [owuart EXCEPT
       ![n].rx_bits = bits,
       ![n].state = IF full THEN "RxByte" ELSE "RxWaitForNextBit",
       ![n].timer = IF full THEN @ ELSE @ + FullBit]
  /\ Silent

\* The data bits of a frame, and whether its start, parity and stop bits fit.
Data(f)   == SubSeq(f, 2, DataBits + 1)
Framed(f) ==
  /\ f[1] = START_BIT_VALUE
  /\ f[DataBits + 2] = parity(Data(f))
  /\ f[DataBits + 3] = STOP_BIT_VALUE

\* A byte is added to the message whatever the room left in rx_buffer.
RxByte(n) ==
  /\ In(n, "RxByte")
  /\ LET bits == owuart[n].rx_bits
         f    == SubSeq(bits, Len(bits) - FrameBits + 1, Len(bits)) IN
     owuart' = [owuart EXCEPT
       ![n].rx_buffer = IF Framed(f) THEN Append(@, Data(f)) ELSE @,
       ![n].rx_bits = <<>>,
       ![n].state = "StartHoldOff"]
  /\ Silent

-----------------------------------------------------------------------------
process_tick(n) ==
  \/ StartHoldOff(n) \/ HoldOff(n) \/ EndOfMessage(n)
  \/ IdleHears(n) \/ IdleSends(n) \/ IdleReceives(n)
  \/ TxStart(n) \/ TxBit(n) \/ TxWaitForHalfBit(n) \/ TxMonitorBit(n)
  \/ TxWaitForFullBit(n) \/ TxNextBit(n) \/ TxArbitrated(n) \/ TxCompleted(n)
  \/ RxStartBit(n) \/ RxWaitForNextBit(n) \/ RxBit(n) \/ RxByte(n)

(* The host of n writes a message between two rounds.  Nothing but n's     *)
(* Idle state looks at the inbox, so a finer moment makes no difference.   *)
HostWrites(n) ==
  /\ ticked = {}
  /\ written[n] < MaxWrites /\ owuart[n].state # "Off"
  /\ \E msg \in Writes[n] : inbox' = [inbox EXCEPT ![n] = Append(@, msg)]
  /\ written' = [written EXCEPT ![n] = @ + 1]
  /\ UNCHANGED <<owuart, sent, heard, ticked, dark>>

(* A node is started between two rounds; it may read the middle of         *)
(* anything then.                                                          *)
PowerOn(n) ==
  /\ ticked = {}
  /\ n \in Late /\ owuart[n].state = "Off"
  /\ owuart' = [owuart EXCEPT ![n].state = "StartHoldOff"]
  /\ Silent /\ UNCHANGED ticked

Later(t) == IF t > -MaxLate THEN t - 1 ELSE t

RoundEnds ==
  /\ ticked = {n \in Node : owuart[n].state # "Off"}
  /\ ticked' = {}
  /\ owuart' = [n \in Node |-> [owuart[n] EXCEPT !.timer = Later(@)]]
  /\ Silent

Runs == RoundEnds \/ \E n \in Node : process_tick(n)
Next == Runs \/ \E n \in Node : HostWrites(n) \/ PowerOn(n)

Spec     == Init /\ [][Next]_vars
FairSpec == Spec /\ WF_vars(Runs)

-----------------------------------------------------------------------------
(* Type correctness.  tx_buffer is kept in bounds by the check in Idle,    *)
(* rx_bits by the count in RxBit and because no node loses in a stop bit.  *)
TypeOK ==
  /\ owuart \in [Node -> OwuartState]
  /\ \A n \in Node :
       /\ Len(owuart[n].tx_buffer) <= MaxMsg /\ owuart[n].tx_byte <= MaxMsg
       /\ Len(owuart[n].rx_bits) <= FrameBits
  /\ inbox \in [Node -> Seq({Aux} \cup Seq(Byte))] /\ written \in [Node -> 0 .. MaxWrites]
  /\ ticked \subseteq Node

(* RxByte stores a byte at its number whatever MAX_MSG_SIZE is (main.c:433 *)
(* against main.c:60): rx_buffer is kept in bounds only by what the nodes  *)
(* send, and by the gap, in which each reports a message before the next.  *)
(* Two contenders keep it so; three may not (MCOwUartCrowd.cfg).           *)
BuffersBounded == \A n \in Node : Len(owuart[n].rx_buffer) <= MaxMsg

(* When a node has sent its message to the end, every node that has        *)
(* nothing to send has that message, and nothing else, in rx_buffer:       *)
(* whoever contended for the line, however late each node polled, and with *)
(* a node started in the middle of it that shared the line with the sender *)
(* only: a listener may take its message for the end of another one        *)
(* (MCOwUartLate.cfg).  (A node that sent the very same bits at the same   *)
(* time did not receive.)  Holds if no message is the beginning of another *)
(* one: of two contenders for which that is so, the shorter one's sender   *)
(* is done while the other still sends (main.c:341-350), and takes the     *)
(* rest for a message of its own.                                          *)
TransmissionIntact ==
  \A n \in Node : \A m \in Node \ (dark \cup {n}) :
    ( /\ owuart[n].state = "TxCompleted"
      /\ owuart[m].tx_buffer = <<>>
      /\ owuart[n].tx_buffer \notin sent[m] )
    => owuart[m].rx_buffer = owuart[n].tx_buffer

(* The hold-off (main.c:98-109) keeps messages apart: a node starts only   *)
(* when no other node is further than the start bit of its first byte,     *)
(* also if it was itself started in the middle of a message.               *)
NoBreakIn ==
  \A n \in Node : \A m \in Node \ {n} :
    owuart[n].state = "TxStart" /\ owuart[m].state \in TxState \ {"TxStart"}
    => owuart[m].tx_byte = 0 /\ owuart[m].tx_pos = 0

(* What TxArbitrated takes for granted (main.c:258-261): the bits a node   *)
(* sent until it lost are the bits of a node that goes on sending, and     *)
(* which is at the same bit.                                               *)
SameBitsSoFar ==
  \A n \in Node : owuart[n].state = "TxArbitrated" =>
    \E m \in Node \ {n} :
      LET u == owuart[n]
          w == owuart[m] IN
      /\ w.state \in TxState \ {"TxArbitrated"}
      /\ w.tx_byte = u.tx_byte /\ w.tx_pos = u.tx_pos
      /\ SubSeq(w.tx_buffer, 1, u.tx_byte) = SubSeq(u.tx_buffer, 1, u.tx_byte)
      /\ SubSeq(Frame(w.tx_buffer[u.tx_byte + 1]), 1, u.tx_pos)
           = SubSeq(Frame(u.tx_buffer[u.tx_byte + 1]), 1, u.tx_pos)

(* A message the host writes, if it fits, is sent to the end at last: a    *)
(* node that lost the line tries again after the winner's message.  (For   *)
(* MaxWrites = 1, so that what is sent is the message it wrote.)           *)
Fit(n) == {msg \in Writes[n] : msg # Aux /\ Len(msg) \in 1 .. MaxMsg}

EventuallySent ==
  \A n \in {n \in Node : Fit(n) # {}} :
    inbox[n] \in {<<msg>> : msg \in Fit(n)} ~> sent[n] \cap Fit(n) # {}

(* What a node reports to its host was sent by some node.  The comment at  *)
(* main.c:258-261 says the arbitrated node re-reads the current bit and    *)
(* so receives the winner's message; see the run owuart_arbitration.       *)
HeardWasSent ==
  \A n \in Node : \A k \in DOMAIN heard[n] : heard[n][k] \in UNION {sent[m] : m \in Node}
=============================================================================
