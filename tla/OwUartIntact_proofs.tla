------------------------ MODULE OwUartIntact_proofs ------------------------
(***************************************************************************)
(* Proof that a transmission of the one-wire UART arrives intact at every  *)
(* node that has nothing to send (TransmissionIntact), for any number of   *)
(* nodes that contend for the line, any bit rate that leaves four polls to *)
(* a half bit, and any messages none of which is the beginning of another, *)
(* as long as no node is started while the others are at work.             *)
(*                                                                         *)
(* The argument.  A node that does not send keeps an estimate of what is   *)
(* left of the byte on the line (Expects): the bits it has still to read   *)
(* and its timer, later what is left of its hold-off.  A sender has its    *)
(* own (Remaining, OwUart_proofs).  Both are counted from deadlines, so    *)
(* their difference (Lag) does not change while both run; it is set when   *)
(* the node hears the start bit, and is then two to five rounds, because   *)
(* each node polls once a round and no timer is started late.  So a sample *)
(* falls into the second half of the bit it is taken for, after the        *)
(* senders have seen who goes on (Heard); the gap after a byte cannot end  *)
(* before the next start bit (Unheard); a node that is a little ahead of   *)
(* the sender hears the start bit of another one that sends the same       *)
(* (Ahead); and a node that has just sent the same message to the end is   *)
(* in its hold-off (Finished).  Between two messages all nodes come to the *)
(* end of the gap within two rounds of each other (Gap), so that nobody    *)
(* starts before those who listen have reported the last message (Before). *)
(*                                                                         *)
(* The same timing keeps the receive buffers in bounds (BuffersBounded).   *)
(* Nodes that lost the line or contend for it are behind the sender by     *)
(* half a bit more at most, so they store a byte only when the sender has  *)
(* sent it, and have no more bytes than it (Room), provided they begin     *)
(* with an empty buffer: each reports before a contender starts (Due,      *)
(* OnTime).  That holds if at most two nodes have something to send.  Of   *)
(* three, one may start while another, half a bit late since it lost the   *)
(* line to the third, has still to report.                                 *)
(***************************************************************************)
EXTENDS OwUart_proofs

-----------------------------------------------------------------------------
(* A node that does not send *)

Hearing == {"RxStartBit", "RxWaitForNextBit"}
Engaged == RxState \cup {"StartHoldOff", "HoldOff"}
Passive == Engaged \cup {"EndOfMessage", "Idle"}

Listens(w) == w.tx_buffer = <<>>

\* What w takes to be left of the byte, in rounds, and less than nothing in
\* the gap; l is 1 until w has run in this round, and 0 afterwards.
Expects(w, l) ==
  IF w.state = "RxStartBit" THEN Left(0) + 2 - l
  ELSE IF w.state \in {"RxWaitForNextBit", "RxBit"}
  THEN Left(Len(w.rx_bits)) + w.timer + 1 - HalfBit
  ELSE 3 * HalfBit -
    (IF w.state = "RxByte" THEN l
     ELSE IF w.state = "StartHoldOff" THEN l + 1
     ELSE HoldOffTime + 2 +
       (IF w.state = "HoldOff" THEN -w.timer
        ELSE IF w.state = "EndOfMessage" THEN l
        ELSE IF w.state = "Idle" THEN l + 1
        ELSE l + 2))

\* How far w is behind u.
Lag(u, w, l) == Expects(w, l) - Remaining(u)

\* What the hosts may write and Idle accepts.
Messages == {msg \in UNION {Writes[n] : n \in Node} : msg # Aux /\ Len(msg) <= MaxMsg}

\* No message is the beginning of another one.
PrefixFree ==
  \A a, b \in Messages \ {<<>>} :
    Len(a) < Len(b) => \E k \in 1 .. Len(a) : a[k] # b[k]

\* What else a node knows by itself: the receive buffer is empty from the
\* report to the next message, the bit before is on the line until TxBit, and
\* a sample is taken when the timer says so, or, of the bit that was lost, at
\* its end.
Own(w, l) ==
  /\ w.state \in TxState \cup {"Idle", "Off"} => w.rx_buffer = <<>>
  /\ w.state \in TxState => w.tx_buffer # <<>>
  /\ w.state \in {"TxBit", "TxCompleted"} /\ w.tx_pos = 0 => w.tx_byte >= 1 /\ w.out = 0
  /\ w.state = "TxBit" /\ w.tx_pos # 0 => w.out = Frame(w.tx_buffer[w.tx_byte + 1])[w.tx_pos]
  /\ w.state = "RxWaitForNextBit" => w.timer >= 1 - l
  /\ w.state = "RxBit" => \/ w.timer = -l
                          \/ /\ w.timer = HalfBit - 2 - l /\ Len(w.rx_bits) <= FrameBits - 2
                             /\ ~Listens(w)
  /\ w.tx_buffer \in Messages \cup {<<>>}

-----------------------------------------------------------------------------
(* A sender u and a node w that does not send *)

\* u has sent a byte and not begun the next.
Between(u) == u.tx_pos = 0 /\ u.state \notin Driving
Number(u)  == IF Between(u) THEN u.tx_byte - 1 ELSE u.tx_byte

\* u is at the last bit of its message, or past it.
Ends(u) ==
  \/ u.tx_pos = FrameBits /\ u.tx_byte + 1 = Len(u.tx_buffer)
  \/ u.state = "TxCompleted"

\* w has heard the start bit of the byte of u.
Heard(u, w, l) ==
  /\ w.state \in Engaged
  /\ Lag(u, w, l) >= IF Number(u) = 0 THEN 1 ELSE 3
  /\ Lag(u, w, l) <= IF ~Listens(w) THEN HalfBit + 2 ELSE IF Number(u) = 0 THEN 4 ELSE 5

\* w has heard the start bit of the next byte already, from another sender.
Ahead(u, w, l) ==
  /\ w.state \in Hearing
  /\ \/ u.state = "TxNextBit" /\ u.tx_pos = FrameBits /\ ~Ends(u)
     \/ u.state = "TxBit" /\ u.tx_pos = 0
  /\ Lag(u, w, l) - Left(0) \in 3 .. 5

\* u drives a start bit that w is still to hear.
Unheard(u, w, l) ==
  /\ u.state \in Driving /\ u.tx_pos = 0
  /\ \/ u.tx_byte # 0 /\ w.state = "HoldOff" /\ Phase(u) <= 2 + l
     \/ /\ u.tx_byte = 0 /\ w.state = "HoldOff" /\ Phase(u) <= l
        /\ Listens(w) => w.rx_buffer = <<>>
     \/ /\ u.tx_byte = 0 /\ w.state = "EndOfMessage" /\ Phase(u) <= l
        /\ Listens(w) /\ w.rx_buffer # <<>> => Phase(u) <= l - 1
     \/ u.tx_byte = 0 /\ w.state = "Idle" /\ Phase(u) <= 1 + l

\* w has sent the message of u itself.
Finished(u, w, l) ==
  /\ w.state \in {"StartHoldOff", "HoldOff"}
  /\ w.rx_buffer = <<>> /\ Listens(w)
  /\ Ends(u)
  /\ Lag(u, w, l) \in 3 * HalfBit .. 3 * HalfBit + 2

Follow(u, w, l) ==
  Heard(u, w, l) \/ Ahead(u, w, l) \/ Unheard(u, w, l) \/ Finished(u, w, l)

\* What w is at when another node is in TxStart, which has lu to run: hearing
\* the start bit of a third one, or at the end of the gap, with its message
\* reported in time.
Before(lu, w, l) ==
  \/ /\ w.state \in Hearing /\ Expects(w, l) - (Left(0) + 1 - lu) \in 1 .. 3
     /\ Listens(w) => w.rx_buffer = <<>> /\ w.rx_bits = <<>>
  \/ /\ w.state \in {"HoldOff", "EndOfMessage", "Idle"}
     /\ Listens(w) /\ w.rx_buffer # <<>> =>
          /\ w.state = "HoldOff" => w.timer + lu <= 0
          /\ w.state = "EndOfMessage" => lu <= l

\* v receives while w has not left the gap: v has only just begun to.
Early(v, lv, w, l) ==
  /\ w.state = "EndOfMessage" => v.state \in Hearing /\ Expects(v, lv) >= Left(0) + 2 - l
  /\ w.state = "Idle" => v.state \in Hearing /\ Expects(v, lv) >= Left(0) + 1 - l

Chases(u, lu, w, l) ==
  /\ u.state \in Sending /\ w.state \in Passive => Follow(u, w, l)
  /\ u.state = "TxStart" /\ w.state \in Passive => Before(lu, w, l)
  /\ u.state \in RxState => Early(u, lu, w, l)

\* Of two nodes that heard the same start bit, one that listens is two rounds
\* behind the other at most.
Sync(u, v, lv, w, l) ==
  u.state \in Sending /\ Heard(u, v, lv) /\ Heard(u, w, l) /\ Listens(w)
  => Expects(w, l) <= Expects(v, lv) + 2

\* In the gap: a node that has a message to report does so at most two rounds
\* after any other node could start.
Gap(v, lv, w, l) ==
  /\ Listens(w) /\ w.rx_buffer # <<>> /\ v.state # "Off" => Expects(w, l) <= Expects(v, lv) + 2
  /\ w.state = "StartHoldOff" /\ v.state # "Off" =>
       \/ v.state = "StartHoldOff"
       \/ v.state = "HoldOff" /\ v.timer >= FullBit + 1 - l

-----------------------------------------------------------------------------
(* The inductive invariant of the timing *)

OwnInv ==
  \A n \in Node :
    /\ Own(owuart[n], Last(n))
    /\ \A k \in DOMAIN inbox[n] : inbox[n][k] \in Writes[n]
    /\ owuart[n].state = "Off" => n \in dark

ChaseInv ==
  \A n \in Node : \A m \in Node \ {n} : Chases(owuart[n], Last(n), owuart[m], Last(m))

SyncInv ==
  \A n \in Node : \A m, k \in Node \ {n} :
    Sync(owuart[n], owuart[m], Last(m), owuart[k], Last(k))

Quiet == \A n \in Node : owuart[n].state \notin Sending

QuietInv ==
  Quiet =>
    /\ \A n \in Node : owuart[n].state \notin RxState
    /\ \A n \in Node : \A m \in Node \ {n} : Gap(owuart[n], Last(n), owuart[m], Last(m))

TimeInv == UartInv /\ OwnInv /\ ChaseInv /\ SyncInv /\ QuietInv

-----------------------------------------------------------------------------
(* Numbers *)

(* The hold-off is four bits at least, and a byte is a bit longer. *)
LEMMA LongSpans ==
  /\ HoldOffTime >= 8 * HalfBit
  /\ Left(0) = HoldOffTime + FullBit
<1>1. HoldOffTime >= 4 * FullBit
  <2>1. FullBit \in Nat
    BY Spans
  <2>2. FrameBits * FullBit = (FrameBits - 4) * FullBit + 4 * FullBit
    BY <2>1, Spans
  <2>3. (FrameBits - 4) * FullBit \in Nat
    BY <2>1, Spans
  <2> QED BY <2>1, <2>2, <2>3, Spans
<1>2. 0 \in 0 .. FrameBits
  BY Spans
<1> QED BY <1>1, <1>2, Spans, LeftFacts

(* Each bit takes a full bit. *)
LEMMA LeftSteps ==
  ASSUME NEW p \in 0 .. FrameBits, NEW q \in 0 .. FrameBits, p < q
  PROVE  /\ Left(p) >= Left(q) + FullBit
         /\ q # p + 1 => Left(p) >= Left(q) + 2 * FullBit
<1>0. FullBit \in Nat /\ FrameBits \in Nat
  BY Spans
<1>1. Left(p) = (FrameBits + 1 - q) * FullBit + (q - p) * FullBit
  BY <1>0 DEF Left
<1>2. (q - p) * FullBit = (q - p - 1) * FullBit + FullBit /\ (q - p - 1) * FullBit \in Nat
  BY <1>0
<1>3. q # p + 1 => (q - p) * FullBit = (q - p - 2) * FullBit + 2 * FullBit /\ (q - p - 2) * FullBit \in Nat
  BY <1>0
<1>4. Left(q) = (FrameBits + 1 - q) * FullBit /\ Left(q) \in Nat
  BY LeftFacts DEF Left
<1> HIDE DEF Left
<1> QED BY <1>0, <1>1, <1>2, <1>3, <1>4

(* The lengths of the last bits. *)
LEMMA LeftLast ==
  ASSUME NEW p \in 0 .. FrameBits
  PROVE  /\ Left(p) \in Nat /\ Left(p) >= FullBit /\ Left(p) <= Left(0)
         /\ p = FrameBits => Left(p) = FullBit
         /\ p = FrameBits - 1 => Left(p) = 2 * FullBit
         /\ p <= FrameBits - 1 => Left(p) >= 2 * FullBit
         /\ p <= FrameBits - 2 => Left(p) >= 3 * FullBit
<1>0. FullBit \in Nat /\ FrameBits \in Nat /\ FrameBits >= 4 /\ 0 \in 0 .. FrameBits
  BY Spans
<1>1. /\ Left(p) \in Nat /\ Left(p) >= FullBit
      /\ p = FrameBits => Left(p) = FullBit
      /\ p # FrameBits => Left(p) = Left(p + 1) + FullBit
  BY LeftFacts
<1>2. Left(0) \in Nat /\ (p # 0 => Left(0) >= Left(p) + FullBit)
  BY <1>0, LeftFacts, LeftSteps
<1>3. p # FrameBits => p + 1 \in 0 .. FrameBits
  BY <1>0
<1>4. ASSUME p # FrameBits
      PROVE  /\ Left(p + 1) \in Nat /\ Left(p + 1) >= FullBit
             /\ p + 1 = FrameBits => Left(p + 1) = FullBit
             /\ p + 1 # FrameBits => Left(p + 1) = Left(p + 1 + 1) + FullBit
  BY <1>3, <1>4, LeftFacts
<1>5. p # FrameBits /\ p + 1 # FrameBits => Left(p + 1 + 1) \in Nat /\ Left(p + 1 + 1) >= FullBit
  <2>1. p # FrameBits /\ p + 1 # FrameBits => p + 1 + 1 \in 0 .. FrameBits
    BY <1>0
  <2> QED BY <2>1, LeftFacts
<1> QED BY <1>0, <1>1, <1>2, <1>4, <1>5

(* What w expects, by its state. *)
LEMMA Expectation ==
  ASSUME NEW w \in OwuartState, NEW l \in {0, 1}, Receives(w)
  PROVE  /\ Expects(w, l) \in Int
         /\ w.state = "RxStartBit" => Expects(w, l) = Left(0) + 2 - l
         /\ w.state \in {"RxWaitForNextBit", "RxBit"} =>
              /\ Len(w.rx_bits) \in 0 .. FrameBits - 1
              /\ Left(Len(w.rx_bits)) \in Nat /\ Left(Len(w.rx_bits)) >= 2 * FullBit
              /\ Left(Len(w.rx_bits)) <= Left(0)
              /\ Expects(w, l) = Left(Len(w.rx_bits)) + w.timer + 1 - HalfBit
         /\ w.state = "RxByte" => Expects(w, l) = 3 * HalfBit - l
         /\ w.state = "StartHoldOff" => Expects(w, l) = 3 * HalfBit - l - 1
         /\ w.state = "HoldOff" => Expects(w, l) = 3 * HalfBit - HoldOffTime - 2 + w.timer
         /\ w.state = "EndOfMessage" => Expects(w, l) = 3 * HalfBit - HoldOffTime - 2 - l
         /\ w.state = "Idle" => Expects(w, l) = 3 * HalfBit - HoldOffTime - 3 - l
         /\ w.state = "TxStart" => Expects(w, l) = 3 * HalfBit - HoldOffTime - 4 - l
<1>1. w.timer \in Int /\ w.rx_bits \in Seq(Bit) /\ Len(w.rx_bits) \in Nat
  BY Fields
<1>2. Left(0) \in Nat
  BY LeftLast, Spans
<1>3. CASE w.state = "RxStartBit"
  BY <1>2, <1>3 DEF Expects
<1>4. CASE w.state \in {"RxWaitForNextBit", "RxBit"}
  <2>1. Len(w.rx_bits) \in 0 .. FrameBits - 1
    BY <1>1, <1>4, Spans DEF Receives
  <2>2. /\ Left(Len(w.rx_bits)) \in Nat /\ Left(Len(w.rx_bits)) >= 2 * FullBit
        /\ Left(Len(w.rx_bits)) <= Left(0)
    BY <2>1, LeftLast, Spans
  <2> QED BY <1>1, <1>4, <2>1, <2>2, Spans DEF Expects
<1>5. CASE w.state \notin {"RxStartBit", "RxWaitForNextBit", "RxBit"}
  BY <1>1, <1>5, Spans DEF Expects
<1> QED BY <1>3, <1>4, <1>5

(* What a sender has left of its byte. *)
LEMMA RemainingIs ==
  ASSUME NEW u \in OwuartState, NEW l \in {0, 1}, Timed(u, l), Own(u, l), u.state \in Sending
  PROVE  /\ Phase(u) \in Int /\ Remaining(u) \in Int
         /\ Remaining(u) >= -2 /\ Remaining(u) <= Left(0)
         /\ u.state \in Driving \/ u.tx_pos # 0 =>
              /\ Remaining(u) = Left(u.tx_pos) - Phase(u)
              /\ Phase(u) >= 0 /\ Phase(u) <= FullBit + l
         /\ Between(u) <=> u.state \in {"TxBit", "TxCompleted"} /\ u.tx_pos = 0
         /\ Between(u) => Remaining(u) = -1 - l /\ u.tx_byte >= 1
         /\ Number(u) \in Nat
<1>1. u.tx_pos \in 0 .. FrameBits /\ u.tx_byte \in Nat
  BY Fields
<1>2. /\ Left(u.tx_pos) \in Nat /\ Left(u.tx_pos) >= FullBit /\ Left(u.tx_pos) <= Left(0)
      /\ Left(0) \in Nat
  BY <1>1, LeftLast, Spans
<1>3. /\ Phase(u) \in Int
      /\ u.state \in Driving => Phase(u) >= 0 /\ Phase(u) <= FullBit + l
      /\ u.state \in {"TxBit", "TxCompleted"} => Phase(u) = 1 + l
  BY Phases
<1>4. u.state \in Driving \/ u.state \in {"TxBit", "TxCompleted"}
  BY DEF Driving
<1>5. Between(u) <=> u.state \in {"TxBit", "TxCompleted"} /\ u.tx_pos = 0
  BY <1>4 DEF Between, Driving
<1>6. Between(u) => Remaining(u) = -1 - l /\ u.tx_byte >= 1
  BY <1>3, <1>5, <1>4 DEF Remaining, Own, Between
<1>7. ~Between(u) => Remaining(u) = Left(u.tx_pos) - Phase(u)
  BY DEF Remaining, Between
<1>8. Number(u) \in Nat
  BY <1>1, <1>6 DEF Number
<1>9. u.state \in Driving \/ u.tx_pos # 0 => ~Between(u) /\ Phase(u) >= 0 /\ Phase(u) <= FullBit + l
  BY <1>3, <1>4, Spans DEF Between
<1>10. ~Between(u) => u.state \in Driving \/ u.tx_pos # 0
  BY DEF Between
<1> QED BY <1>2, <1>3, <1>5, <1>6, <1>7, <1>8, <1>9, <1>10, Spans

(* A sender that drives a 1 has more than the stop bits left of its byte. *)
LEMMA OutTime ==
  ASSUME NEW u \in OwuartState, NEW l \in {0, 1}, Timed(u, l), Own(u, l), Sends(u),
         u.state \in Sending, u.out = 1
  PROVE  /\ Remaining(u) >= 4 * HalfBit - 2 /\ ~Between(u) /\ ~Ends(u)
         /\ u.tx_pos < FrameBits
<1>1. /\ u.tx_pos \in 0 .. FrameBits /\ u.tx_byte \in Nat /\ u.tx_buffer \in Seq(Byte)
      /\ FrameBits >= 4
  BY Fields, Spans
<1>2. ~Between(u) /\ u.state # "TxCompleted"
  BY RemainingIs DEF Own, Sends
<1>3. Remaining(u) = Left(u.tx_pos) - Phase(u) /\ Phase(u) \in Int /\ Phase(u) <= FullBit + 1
  BY <1>2, RemainingIs, Spans DEF Between
<1>4. u.tx_buffer[u.tx_byte + 1] \in Byte
  <2>1. u.tx_byte < Len(u.tx_buffer)
    BY <1>2 DEF Sends, Driving
  <2> QED BY <1>1, <2>1
<1>5. CASE u.state \in Driving
  <2>1. u.tx_pos # FrameBits /\ u.tx_pos # FrameBits - 1
    BY <1>4, <1>5, FrameIs, Spans DEF Sends, CurrentBit
  <2>2. u.tx_pos <= FrameBits - 2
    BY <1>1, <2>1, Spans
  <2>3. Left(u.tx_pos) \in Nat /\ Left(u.tx_pos) >= 3 * FullBit
    BY <1>1, <2>2, LeftLast
  <2> QED BY <1>1, <1>2, <1>3, <2>2, <2>3, Spans DEF Ends
<1>6. CASE u.state = "TxBit"
  <2>1. u.tx_pos # 0
    BY <1>2, <1>6 DEF Between, Driving
  <2>2. u.tx_pos # FrameBits
    BY <1>1, <1>4, <1>6, <2>1, FrameIs DEF Own
  <2>3. u.tx_pos <= FrameBits - 1
    BY <1>1, <2>2, Spans
  <2>4. Left(u.tx_pos) \in Nat /\ Left(u.tx_pos) >= 2 * FullBit
    BY <1>1, <2>3, LeftLast
  <2>5. Phase(u) <= 2
    BY <1>6, Phases
  <2> QED BY <1>1, <1>2, <1>3, <2>3, <2>4, <2>5, Spans DEF Ends
<1> QED BY <1>2, <1>5, <1>6 DEF Driving

\* u drives the start bit after the byte of w, which is about to do the same,
\* or has nothing more to send.
NextByte(u, w) ==
  /\ u.state \in Driving /\ u.tx_pos = 0 /\ Phase(u) \in 2 .. 3
  /\ u.tx_byte = Number(w) + 1
  /\ \/ w.state = "TxNextBit" /\ w.tx_pos = FrameBits
     \/ w.state \in {"TxBit", "TxCompleted"} /\ w.tx_pos = 0
  /\ Remaining(u) - Left(0) - Remaining(w) \in -1 .. 1

(* Two senders in step are at the same byte and have as much left of it, or *)
(* one is at the next byte.                                                 *)
LEMMA Level ==
  ASSUME NEW u \in OwuartState, NEW w \in OwuartState, NEW lu \in {0, 1}, NEW l \in {0, 1},
         Timed(u, lu), Own(u, lu), u.state \in Sending,
         Timed(w, l), Own(w, l), w.state \in Sending, InStep(u, w)
  PROVE  \/ Number(u) = Number(w) /\ Remaining(u) - Remaining(w) \in -1 .. 1
         \/ NextByte(u, w)
         \/ NextByte(w, u)
<1> USE Spans
<1>1. /\ u.tx_pos \in 0 .. FrameBits /\ w.tx_pos \in 0 .. FrameBits
      /\ u.tx_byte \in Nat /\ w.tx_byte \in Nat
  BY Fields
<1>2. /\ Phase(u) \in Int /\ Phase(w) \in Int
      /\ Phase(u) <= FullBit + 1 /\ Phase(w) <= FullBit + 1
      /\ Phase(u) >= 0 /\ Phase(w) >= 0
  BY Phases DEF Sending, TxState, Driving
<1>3. /\ Left(u.tx_pos) \in Nat /\ Left(w.tx_pos) \in Nat /\ Left(0) \in Nat
      /\ Left(FrameBits) = FullBit
  BY <1>1, LeftLast
<1>4. /\ Between(u) <=> u.state \in {"TxBit", "TxCompleted"} /\ u.tx_pos = 0
      /\ Between(w) <=> w.state \in {"TxBit", "TxCompleted"} /\ w.tx_pos = 0
      /\ Between(u) => u.tx_byte >= 1
      /\ Between(w) => w.tx_byte >= 1
  BY RemainingIs
<1>5. /\ Remaining(u) = IF Between(u) THEN -Phase(u) ELSE Left(u.tx_pos) - Phase(u)
      /\ Remaining(w) = IF Between(w) THEN -Phase(w) ELSE Left(w.tx_pos) - Phase(w)
  BY <1>2 DEF Remaining, Between
<1>6. /\ Number(u) = IF Between(u) THEN u.tx_byte - 1 ELSE u.tx_byte
      /\ Number(w) = IF Between(w) THEN w.tx_byte - 1 ELSE w.tx_byte
  BY DEF Number
<1>7. /\ Between(u) => Phase(u) = 1 + lu
      /\ Between(w) => Phase(w) = 1 + l
      /\ u.state \in Driving /\ u.tx_byte # 0 => Phase(u) >= 2
      /\ w.state \in Driving /\ w.tx_byte # 0 => Phase(w) >= 2
  BY <1>4, Phases
<1>8. /\ ~Between(u) /\ u.tx_pos = 0 => u.state \in Driving
      /\ ~Between(w) /\ w.tx_pos = 0 => w.state \in Driving
  BY DEF Between
<1>9. CASE SamePlace(u, w) /\ Phase(u) - Phase(w) \in -1 .. 1
  <2>1. u.tx_pos = w.tx_pos /\ u.tx_byte = w.tx_byte
    BY <1>9 DEF SamePlace
  <2>2. CASE Between(u) <=> Between(w)
    BY <1>1, <1>2, <1>3, <1>5, <1>6, <1>9, <2>1, <2>2
  <2>3. CASE Between(u) /\ ~Between(w)
    <3>1. w.state \in Driving /\ w.tx_pos = 0 /\ w.tx_byte = u.tx_byte /\ u.tx_byte >= 1
      BY <1>4, <1>8, <2>1, <2>3
    <3>2. Phase(w) \in 2 .. 3 /\ Remaining(w) - Left(0) - Remaining(u) \in -1 .. 1
      BY <1>1, <1>2, <1>3, <1>5, <1>7, <1>9, <2>1, <2>3, <3>1
    <3> QED BY <1>1, <1>4, <1>6, <2>3, <3>1, <3>2 DEF NextByte
  <2>4. CASE Between(w) /\ ~Between(u)
    <3>1. u.state \in Driving /\ u.tx_pos = 0 /\ u.tx_byte = w.tx_byte /\ w.tx_byte >= 1
      BY <1>4, <1>8, <2>1, <2>4
    <3>2. Phase(u) \in 2 .. 3 /\ Remaining(u) - Left(0) - Remaining(w) \in -1 .. 1
      BY <1>1, <1>2, <1>3, <1>5, <1>7, <1>9, <2>1, <2>4, <3>1
    <3> QED BY <1>1, <1>4, <1>6, <2>4, <3>1, <3>2 DEF NextByte
  <2> QED BY <2>2, <2>3, <2>4
<1>10. ASSUME NEW a \in OwuartState, NEW b \in OwuartState, NEW la \in {0, 1}, NEW lb \in {0, 1},
              Timed(a, la), Own(a, la), a.state \in Sending,
              Timed(b, lb), Own(b, lb), b.state \in Sending,
              NextPlace(a, b), Phase(a) + FullBit - Phase(b) \in -1 .. 1
       PROVE  \/ Number(a) = Number(b) /\ Remaining(a) - Remaining(b) \in -1 .. 1
              \/ NextByte(a, b)
  <2>1. /\ a.tx_pos \in 0 .. FrameBits /\ b.tx_pos \in 0 .. FrameBits
        /\ a.tx_byte \in Nat /\ b.tx_byte \in Nat
    BY <1>10, Fields
  <2>2. /\ Phase(a) \in Int /\ Phase(b) \in Int /\ Phase(a) >= 0
        /\ Phase(a) <= FullBit + 1 /\ Phase(b) <= FullBit + 1
    BY <1>10, Phases DEF Sending, TxState, Driving
  <2>3. Phase(b) >= FullBit - 1 /\ Phase(a) <= 2
    BY <1>10, <2>2
  <2>4. b.state \notin {"TxBit", "TxCompleted"} /\ b.state \in Driving
    BY <1>10, <2>2, <2>3, Phases DEF Driving, Sending, TxState
  <2>5. ~Between(b) /\ Number(b) = b.tx_byte /\ Remaining(b) = Left(b.tx_pos) - Phase(b)
    BY <2>4 DEF Between, Number, Remaining
  <2>6. CASE b.tx_pos # FrameBits
    <3>1. a.tx_byte = b.tx_byte /\ a.tx_pos = b.tx_pos + 1 /\ a.tx_pos # 0
      BY <1>10, <2>1, <2>6 DEF NextPlace
    <3>2. Number(a) = a.tx_byte /\ Remaining(a) = Left(a.tx_pos) - Phase(a)
      BY <3>1 DEF Number, Remaining, Between
    <3>3. /\ Left(b.tx_pos) = Left(b.tx_pos + 1) + FullBit
          /\ Left(b.tx_pos) \in Nat /\ Left(a.tx_pos) \in Nat
      BY <2>1, <2>6, LeftFacts
    <3> QED BY <1>10, <2>2, <2>5, <3>1, <3>2, <3>3
  <2>7. CASE b.tx_pos = FrameBits
    <3>1. a.tx_byte = b.tx_byte + 1 /\ a.tx_pos = 0
      BY <1>10, <2>7 DEF NextPlace
    <3>2. CASE Between(a)
      <4>1. Number(a) = b.tx_byte /\ Remaining(a) = -Phase(a)
        BY <2>1, <2>2, <3>1, <3>2 DEF Number, Remaining, Between
      <4> QED BY <1>3, <1>10, <2>2, <2>5, <2>7, <4>1
    <3>3. CASE ~Between(a)
      <4>1. a.state \in Driving /\ Remaining(a) = Left(0) - Phase(a)
        BY <3>1, <3>3 DEF Between, Remaining
      <4>2. Phase(a) = 2 /\ Phase(b) = FullBit + 1
        <5>1. Phase(a) >= 2
          BY <1>10, <2>1, <3>1, <4>1, Phases
        <5> QED BY <1>10, <2>2, <2>3, <5>1
      <4>3. b.state = "TxNextBit"
        BY <1>10, <2>4, <4>2, Phases DEF Driving, Sending, TxState
      <4>4. Remaining(a) - Left(0) - Remaining(b) \in -1 .. 1
        BY <1>3, <2>5, <2>7, <4>1, <4>2
      <4> QED BY <2>5, <2>7, <3>1, <4>1, <4>2, <4>3, <4>4 DEF NextByte
    <3> QED BY <3>2, <3>3
  <2> QED BY <2>6, <2>7
<1>11. CASE NextPlace(u, w) /\ Phase(u) + FullBit - Phase(w) \in -1 .. 1
  BY <1>10, <1>11
<1>12. CASE NextPlace(w, u) /\ Phase(w) + FullBit - Phase(u) \in -1 .. 1
  <2>1. \/ Number(w) = Number(u) /\ Remaining(w) - Remaining(u) \in -1 .. 1
        \/ NextByte(w, u)
    BY <1>10, <1>12
  <2>2. Remaining(u) \in Int /\ Remaining(w) \in Int
    BY RemainingIs
  <2> QED BY <2>1, <2>2
<1> QED BY <1>9, <1>11, <1>12 DEF InStep

(* A message that goes on has not the same beginning as one that ends. *)
LEMMA NotTheEnd ==
  ASSUME PrefixFree, NEW u \in OwuartState, NEW w \in OwuartState, NEW lu \in {0, 1}, NEW l \in {0, 1},
         Own(u, lu), Sends(u), Own(w, l), Sends(w), w.state \in Sending,
         NextByte(u, w), AgreeTo(u, w)
  PROVE  ~Ends(w) /\ w.state # "TxCompleted"
<1>1. SUFFICES ASSUME Ends(w) PROVE FALSE
  BY DEF Ends
<1>2. /\ u.tx_buffer \in Seq(Byte) /\ w.tx_buffer \in Seq(Byte)
      /\ u.tx_byte \in Nat /\ w.tx_byte \in Nat
  BY Fields
<1>3. Number(w) + 1 = Len(w.tx_buffer)
  BY <1>1, <1>2, Spans DEF Ends, Number, Between, Driving, Sends
<1>4. u.tx_byte = Len(w.tx_buffer) /\ u.tx_byte < Len(u.tx_buffer)
  BY <1>3 DEF NextByte, Sends
<1>5. \A k \in 1 .. Len(w.tx_buffer) : w.tx_buffer[k] = u.tx_buffer[k]
  BY <1>4 DEF AgreeTo
<1>6. w.tx_buffer \in Messages \ {<<>>} /\ u.tx_buffer \in Messages \ {<<>>}
  BY DEF Own, NextByte, Driving, Sending
<1> QED BY <1>4, <1>5, <1>6 DEF PrefixFree

-----------------------------------------------------------------------------
(* The ticks of one node u, which becomes v, beside another node w *)

\* u goes on with the estimate it has.
Keeps(u, v) ==
  /\ u.state \in Engaged /\ v.state \in Engaged
  /\ v.tx_buffer = u.tx_buffer /\ Expects(v, 0) = Expects(u, 1)
  /\ v.state \in RxState => u.state \in RxState
  /\ u.state \in {"StartHoldOff", "HoldOff"} =>
       /\ v.state = "HoldOff" /\ v.rx_buffer = u.rx_buffer
       /\ v.timer = IF u.state = "HoldOff" THEN u.timer ELSE HoldOffTime
  /\ u.state \in Hearing =>
       /\ v.rx_bits = u.rx_bits /\ v.rx_buffer = u.rx_buffer
       /\ v.state \notin Hearing => Expects(u, 1) <= Left(0) + 1 - HalfBit

(* Nothing changes for the others. *)
LEMMA KeepsChase ==
  ASSUME NEW u \in OwuartState, NEW v \in OwuartState, NEW w \in OwuartState, NEW l \in {0, 1},
         Keeps(u, v), Receives(u), Sends(w), Timed(w, l), Own(w, l),
         u.state = "HoldOff" => w.out = 0,
         Chases(u, 1, w, l), Chases(w, l, u, 1)
  PROVE  Chases(v, 0, w, l) /\ Chases(w, l, v, 0)
<1>1. Left(0) \in Nat /\ HalfBit \in Nat /\ HalfBit >= 4
  BY LeftLast, Spans
<1>2. Expects(u, 1) \in Int /\ Expects(v, 0) = Expects(u, 1)
  BY Expectation DEF Keeps
<1>3. v.state \in Engaged /\ u.state \in Engaged /\ v.state \notin Sending \cup {"TxStart", "EndOfMessage", "Idle"}
  BY DEF Keeps, Engaged, RxState, Sending, TxState
<1>4. ASSUME v.state \in RxState
      PROVE  Early(v, 0, w, l)
  <2>1. Early(u, 1, w, l)
    BY <1>4 DEF Keeps, Chases
  <2>2. u.state \in Hearing /\ Expects(u, 1) >= Left(0) => v.state \in Hearing
    BY <1>1, <1>2 DEF Keeps
  <2> QED BY <1>1, <1>2, <2>1, <2>2 DEF Early
<1>5. ASSUME w.state \in Sending
      PROVE  Follow(w, v, 0)
  <2>1. Follow(w, u, 1)
    BY <1>3, <1>5 DEF Chases, Passive
  <2>2. Remaining(w) \in Int /\ Remaining(w) >= -2
    BY <1>5, RemainingIs
  <2>3. Lag(w, v, 0) = Lag(w, u, 1) /\ (Listens(v) <=> Listens(u))
    BY <1>2 DEF Lag, Keeps, Listens
  <2>4. CASE Heard(w, u, 1)
    BY <1>3, <2>3, <2>4 DEF Heard, Follow
  <2>5. CASE Ahead(w, u, 1)
    <3>1. Expects(u, 1) >= Left(0) + 1
      BY <1>1, <1>2, <2>2, <2>5 DEF Ahead, Lag
    <3>2. v.state \in Hearing
      BY <1>1, <1>2, <2>5, <3>1 DEF Ahead, Keeps
    <3> QED BY <2>3, <2>5, <3>2 DEF Ahead, Follow
  <2>6. CASE Unheard(w, u, 1)
    <3>1. u.state = "HoldOff" /\ w.out = 1
      BY <1>3, <2>6 DEF Unheard, Engaged, RxState, Sends, StartOn
    <3> QED BY <3>1
  <2>7. CASE Finished(w, u, 1)
    BY <2>3, <2>7 DEF Finished, Follow, Keeps
  <2> QED BY <2>1, <2>4, <2>5, <2>6, <2>7 DEF Follow
<1>6. ASSUME w.state = "TxStart"
      PROVE  Before(l, v, 0)
  <2>1. Before(l, u, 1)
    BY <1>3, <1>6 DEF Chases, Passive
  <2>2. CASE u.state \in Hearing
    <3>1. /\ Expects(u, 1) - (Left(0) + 1 - l) \in 1 .. 3
          /\ Listens(u) => u.rx_buffer = <<>> /\ u.rx_bits = <<>>
      BY <2>1, <2>2 DEF Before, Hearing
    <3>2. v.state \in Hearing
      BY <1>1, <1>2, <2>2, <3>1 DEF Keeps
    <3> QED BY <1>2, <2>2, <3>1, <3>2 DEF Before, Keeps, Listens
  <2>3. CASE u.state \notin Hearing
    BY <1>3, <2>1, <2>3 DEF Before, Keeps, Listens, Engaged, RxState
  <2> QED BY <2>2, <2>3
<1>7. Early(w, l, v, 0)
  BY <1>3 DEF Early
<1> QED BY <1>3, <1>4, <1>5, <1>6, <1>7 DEF Chases

(* The same holds in the gap. *)
LEMMA KeepsGap ==
  ASSUME NEW u \in OwuartState, NEW v \in OwuartState, NEW w \in OwuartState, NEW l \in {0, 1},
         Keeps(u, v), u.state \notin RxState, Gap(u, 1, w, l), Gap(w, l, u, 1)
  PROVE  Gap(v, 0, w, l) /\ Gap(w, l, v, 0)
<1>1. /\ u.state \in {"StartHoldOff", "HoldOff"} /\ v.state = "HoldOff"
      /\ v.rx_buffer = u.rx_buffer /\ v.tx_buffer = u.tx_buffer /\ Expects(v, 0) = Expects(u, 1)
      /\ v.timer = IF u.state = "HoldOff" THEN u.timer ELSE HoldOffTime
  BY DEF Keeps, Engaged
<1>2. HoldOffTime \in Nat /\ HoldOffTime >= FullBit + 1 /\ FullBit \in Nat
  BY Spans
<1> QED BY <1>1, <1>2 DEF Gap, Listens

(* The hold-off ends: nobody sends, ... *)
LEMMA ExpiresAlone ==
  ASSUME NEW u \in OwuartState, NEW w \in OwuartState, NEW l \in {0, 1},
         u.state \in {"HoldOff", "Idle"}, u.state = "HoldOff" => u.timer <= 0,
         Sends(w), Timed(w, l), Own(w, l), Receives(u), w.out = 0, Chases(w, l, u, 1)
  PROVE  w.state \notin Sending
<1>1. SUFFICES ASSUME w.state \in Sending PROVE FALSE
  OBVIOUS
<1>2. Follow(w, u, 1)
  BY <1>1 DEF Chases, Passive, Engaged
<1>3. Remaining(w) \in Int /\ Remaining(w) >= -2 /\ Number(w) \in Nat
  BY <1>1, RemainingIs
<1>4. Expects(u, 1) \in Int /\ Expects(u, 1) <= -2
  <2>1. /\ HalfBit \in Nat /\ HoldOffTime \in Nat /\ HoldOffTime >= 8 * HalfBit /\ u.timer \in Int
    BY Spans, LongSpans, Fields
  <2>2. Expects(u, 1) = 3 * HalfBit - HoldOffTime - 2 + IF u.state = "HoldOff" THEN u.timer ELSE -2
    BY <2>1, Expectation
  <2> QED BY <2>1, <2>2
<1>5. Lag(w, u, 1) \in Int /\ Lag(w, u, 1) <= 0
  BY <1>3, <1>4, Spans DEF Lag
<1>6. ~Heard(w, u, 1) /\ ~Finished(w, u, 1)
  BY <1>5, Spans DEF Heard, Finished
<1>7. ~Unheard(w, u, 1)
  BY DEF Unheard, Sends, StartOn
<1>8. ~Ahead(w, u, 1)
  BY DEF Ahead, Hearing
<1> QED BY <1>2, <1>6, <1>7, <1>8 DEF Follow

(* ... and what holds in the gap goes on to hold. *)
LEMMA ExpiresPairs ==
  ASSUME NEW u \in OwuartState, NEW v \in OwuartState, NEW w \in OwuartState, NEW l \in {0, 1},
         u.state = "HoldOff", u.timer <= 0, v.state = "EndOfMessage", Timed(u, 1),
         v.tx_buffer = u.tx_buffer, v.rx_buffer = u.rx_buffer, Receives(u), Receives(v),
         w.state \notin Sending \cup RxState, Gap(u, 1, w, l), Gap(w, l, u, 1),
         Chases(w, l, u, 1)
  PROVE  /\ Chases(v, 0, w, l) /\ Chases(w, l, v, 0)
         /\ Gap(v, 0, w, l) /\ Gap(w, l, v, 0)
<1>1. u.timer = 0
  BY DEF Timed
<1>2. Expects(v, 0) = Expects(u, 1)
  BY <1>1, Expectation, Spans
<1>3. Gap(v, 0, w, l) /\ Gap(w, l, v, 0)
  BY <1>1, <1>2, Spans DEF Gap, Listens
<1>4. ASSUME w.state = "TxStart" PROVE Before(l, v, 0)
  <2>1. Before(l, u, 1)
    BY <1>4 DEF Chases, Passive, Engaged
  <2> QED BY <1>1, <2>1 DEF Before, Hearing, Listens
<1> QED BY <1>3, <1>4 DEF Chases, Sending, TxState, RxState

(* EndOfMessage: the message has been reported. *)
LEMMA ReportPairs ==
  ASSUME NEW u \in OwuartState, NEW v \in OwuartState, NEW w \in OwuartState, NEW l \in {0, 1},
         u.state = "EndOfMessage", v.state = "Idle", v.rx_buffer = <<>>,
         Timed(w, l), Own(w, l), Chases(u, 1, w, l), Chases(w, l, u, 1)
  PROVE  /\ Chases(v, 0, w, l) /\ Chases(w, l, v, 0)
<1>1. ASSUME w.state \in Sending PROVE Follow(w, v, 0)
  <2>1. Follow(w, u, 1)
    BY <1>1 DEF Chases, Passive
  <2>2. Unheard(w, u, 1)
    BY <2>1 DEF Follow, Heard, Ahead, Finished, Engaged, Hearing, RxState
  <2>3. Unheard(w, v, 0)
    BY <2>2 DEF Unheard
  <2> QED BY <2>3 DEF Follow
<1>2. ASSUME w.state = "TxStart" PROVE Before(l, v, 0)
  <2>1. Before(l, u, 1)
    BY <1>2 DEF Chases, Passive
  <2> QED BY <2>1 DEF Before
<1>3. ASSUME w.state \in RxState PROVE Early(w, l, v, 0)
  <2>1. Early(w, l, u, 1)
    BY <1>3 DEF Chases
  <2> QED BY <2>1 DEF Early
<1> QED BY <1>1, <1>2, <1>3 DEF Chases, Sending, TxState, RxState

LEMMA ReportGap ==
  ASSUME NEW u \in OwuartState, NEW v \in OwuartState, NEW w \in OwuartState, NEW l \in {0, 1},
         u.state = "EndOfMessage", v.state = "Idle", v.rx_buffer = <<>>,
         Receives(u), Receives(v), Gap(u, 1, w, l), Gap(w, l, u, 1)
  PROVE  Gap(v, 0, w, l) /\ Gap(w, l, v, 0)
<1>1. Expects(v, 0) = Expects(u, 1)
  BY Expectation, Spans
<1> QED BY <1>1 DEF Gap

(* Idle with the line at 0: nobody sends or receives. *)
LEMMA IdleAlone ==
  ASSUME NEW u \in OwuartState, NEW v \in OwuartState, NEW w \in OwuartState, NEW l \in {0, 1},
         u.state = "Idle", v.state \in {"Idle", "TxStart"}, v.rx_buffer = <<>>,
         Receives(u), Receives(v), Receives(w), w.state \notin Sending \cup RxState,
         Gap(u, 1, w, l), Gap(w, l, u, 1), Chases(w, l, u, 1)
  PROVE  /\ Chases(v, 0, w, l) /\ Chases(w, l, v, 0)
         /\ Gap(v, 0, w, l) /\ Gap(w, l, v, 0)
<1>1. /\ HalfBit \in Nat /\ HoldOffTime \in Nat
      /\ Expects(u, 1) = 3 * HalfBit - HoldOffTime - 4
      /\ Expects(v, 0) = Expects(u, 1) \/ Expects(v, 0) = Expects(u, 1) + 1
  BY Expectation, Spans
<1>2. w.state # "StartHoldOff" /\ w.timer \in Int
  BY Fields DEF Gap
<1>3. Gap(v, 0, w, l) /\ Gap(w, l, v, 0)
  <2>1. Expects(w, l) \in Int
    BY Expectation
  <2> QED BY <1>1, <1>2, <2>1 DEF Gap
<1>4. ASSUME v.state = "TxStart", w.state \in Passive PROVE Before(0, w, l)
  <2>1. w.state \in {"HoldOff", "EndOfMessage", "Idle"}
    BY <1>2, <1>4 DEF Passive, Engaged
  <2>2. ASSUME Listens(w), w.rx_buffer # <<>>, w.state = "HoldOff" PROVE w.timer + 0 <= 0
    <3>1. Expects(w, l) <= Expects(u, 1) + 2
      BY <2>2 DEF Gap
    <3>2. Expects(w, l) = 3 * HalfBit - HoldOffTime - 2 + w.timer
      BY <2>2, Expectation
    <3> QED BY <1>1, <1>2, <3>1, <3>2
  <2> QED BY <2>1, <2>2 DEF Before
<1>5. ASSUME w.state = "TxStart", v.state = "Idle" PROVE Before(l, v, 0)
  BY <1>5 DEF Before
<1> QED BY <1>3, <1>4, <1>5 DEF Chases, Sending, TxState, RxState, Passive, Engaged

(* Who hears a 1 after the hold-off, or in Idle, hears a start bit. *)
LEMMA HearsStart ==
  ASSUME NEW u \in OwuartState, NEW x \in OwuartState, NEW lx \in {0, 1},
         u.state \in {"HoldOff", "Idle"}, Receives(u), Timed(u, 1),
         x.out = 1, Sends(x), Timed(x, lx), Own(x, lx), Chases(x, lx, u, 1)
  PROVE  Unheard(x, u, 1)
<1>1. x.state \in Sending
  BY DEF Sends
<1>2. Follow(x, u, 1)
  BY <1>1 DEF Chases, Passive, Engaged
<1>3. Remaining(x) \in Int /\ Remaining(x) >= 4 * HalfBit - 2 /\ ~Ends(x)
  BY <1>1, OutTime, RemainingIs
<1>4. ~Ahead(x, u, 1) /\ ~Finished(x, u, 1)
  BY <1>3 DEF Ahead, Hearing, Finished
<1>5. ~Heard(x, u, 1)
  <2>1. SUFFICES ASSUME u.state = "HoldOff", Heard(x, u, 1) PROVE FALSE
    BY DEF Heard, Engaged, RxState
  <2>2. u.timer \in Int /\ u.timer <= HoldOffTime - 1 /\ HoldOffTime \in Nat /\ HalfBit \in Nat /\ HalfBit >= 4
    BY <2>1, Fields, Spans DEF Timed
  <2>3. Expects(u, 1) = 3 * HalfBit - HoldOffTime - 2 + u.timer
    BY <2>1, Expectation
  <2> QED BY <1>3, <2>1, <2>2, <2>3 DEF Heard, Lag
<1> QED BY <1>2, <1>4, <1>5 DEF Follow

LEMMA UnheardTime ==
  ASSUME NEW w \in OwuartState, NEW lw \in {0, 1}, NEW u \in OwuartState, NEW l \in {0, 1},
         Timed(w, lw), Own(w, lw), Unheard(w, u, l)
  PROVE  /\ Remaining(w) = Left(0) - Phase(w) /\ Phase(w) \in 0 .. 3
         /\ w.tx_byte # 0 => Phase(w) \in 2 .. 3
         /\ w.tx_byte = 0 => Phase(w) \in 0 .. 2 /\ (u.state = "HoldOff" => Phase(w) <= 1)
         /\ w.state \in Driving /\ w.state \in Sending /\ Number(w) = w.tx_byte
<1>1. w.state \in Driving /\ w.state \in Sending /\ w.tx_pos = 0
  BY DEF Unheard, Driving
<1>2. Phase(w) \in Int /\ Phase(w) >= 0 /\ (w.tx_byte # 0 => Phase(w) >= 2)
  BY <1>1, Phases
<1>3. Remaining(w) = Left(0) - Phase(w) /\ Number(w) = w.tx_byte
  BY <1>1 DEF Remaining, Number, Between
<1> QED BY <1>1, <1>2, <1>3 DEF Unheard

(* HoldOff and Idle with the line at 1.  What was said of a byte that ends is *)
(* true of the next one.                                                      *)
LEMMA HearsPairs ==
  ASSUME PrefixFree,
         NEW u \in OwuartState, NEW v \in OwuartState, NEW w \in OwuartState, NEW x \in OwuartState,
         NEW l \in {0, 1}, NEW lx \in {0, 1},
         u.state \in {"HoldOff", "Idle"}, v.state = "RxStartBit", v.rx_buffer = u.rx_buffer,
         v.tx_buffer = u.tx_buffer, Receives(u), Receives(v), Timed(u, 1), Own(u, 1),
         x.out = 1, Sends(x), Timed(x, lx), Own(x, lx), Chases(x, lx, u, 1),
         Sends(w), Timed(w, l), Own(w, l), Chases(w, l, u, 1),
         x = w \/ Pair(x, w, l)
  PROVE  Chases(v, 0, w, l) /\ Chases(w, l, v, 0)
<1>1. /\ Unheard(x, u, 1) /\ Remaining(x) = Left(0) - Phase(x) /\ Phase(x) \in 0 .. 3
      /\ x.state \in Driving /\ x.state \in Sending
  BY HearsStart, UnheardTime
<1>2. /\ Expects(v, 0) = Left(0) + 2 /\ Left(0) \in Nat /\ HalfBit \in Nat /\ HalfBit >= 4
      /\ Left(0) >= 10 * HalfBit
  <2>1. Expects(v, 0) = Left(0) + 2 - 0
    BY Expectation
  <2>2. 0 \in 0 .. FrameBits
    BY Spans
  <2>3. Left(0) \in Nat
    BY <2>2, LeftLast
  <2> QED BY <2>1, <2>3, Spans, LongSpans
<1>3. ASSUME w.state \in Sending
      PROVE  Follow(w, v, 0)
  <2>1. Follow(w, u, 1)
    BY <1>3 DEF Chases, Passive, Engaged
  <2>2. CASE Unheard(w, u, 1)
    <3>1. /\ Remaining(w) = Left(0) - Phase(w) /\ Phase(w) \in 0 .. 3
          /\ w.tx_byte # 0 => Phase(w) \in 2 .. 3
          /\ w.tx_byte = 0 => Phase(w) \in 0 .. 2
          /\ Number(w) = w.tx_byte
      BY <2>2, UnheardTime
    <3>2. Lag(w, v, 0) = Phase(w) + 2
      BY <1>2, <3>1 DEF Lag
    <3>3. Heard(w, v, 0)
      BY <1>2, <3>1, <3>2 DEF Heard, Engaged, RxState
    <3> QED BY <3>3 DEF Follow
  <2>3. ASSUME Remaining(w) <= 4 * HalfBit - 3
        PROVE  NextByte(x, w) /\ ~Ends(w) /\ w.state # "TxCompleted"
    <3>1. Remaining(w) \in Int
      BY <1>3, RemainingIs
    <3>2. x # w /\ InStep(x, w) /\ AgreeTo(x, w)
      BY <1>1, <1>2, <1>3, <2>3, <3>1 DEF Pair
    <3>3. ~NextByte(w, x)
      <4>1. SUFFICES ASSUME NextByte(w, x) PROVE FALSE
        OBVIOUS
      <4>2. Remaining(w) = Left(0) - Phase(w)
        BY <4>1 DEF NextByte, Remaining
      <4>3. Phase(w) \in 2 .. 3
        BY <4>1 DEF NextByte
      <4> QED BY <1>2, <2>3, <4>2, <4>3
    <3>4. ~(Remaining(x) - Remaining(w) \in -1 .. 1)
      BY <1>1, <1>2, <2>3, <3>1
    <3>5. NextByte(x, w)
      BY <1>1, <1>3, <3>2, <3>3, <3>4, Level
    <3> QED BY <1>3, <3>2, <3>5, NotTheEnd
  <2>4. CASE Heard(w, u, 1)
    <3>1. u.state = "HoldOff"
      BY <2>4 DEF Heard, Engaged, RxState
    <3>2. u.timer \in Int /\ u.timer <= HoldOffTime - 1 /\ HoldOffTime \in Nat
      BY <3>1, Fields, Spans DEF Timed
    <3>3. Expects(u, 1) = 3 * HalfBit - HoldOffTime - 2 + u.timer
      BY <3>1, Expectation
    <3>4. Remaining(w) \in Int /\ Remaining(w) >= -2
      BY <1>3, RemainingIs
    <3>5. Remaining(w) <= 4 * HalfBit - 3
      BY <1>2, <2>4, <3>2, <3>3, <3>4 DEF Heard, Lag
    <3>6. NextByte(x, w) /\ ~Ends(w) /\ w.state # "TxCompleted"
      BY <2>3, <3>5
    <3>7. Phase(x) \in 2 .. 3 /\ Remaining(x) - Left(0) - Remaining(w) \in -1 .. 1
      BY <3>6 DEF NextByte
    <3>8. Remaining(w) <= -1
      BY <1>1, <1>2, <3>4, <3>7
    <3>9. Lag(w, v, 0) - Left(0) \in 3 .. 5
      BY <1>2, <3>4, <3>8 DEF Lag
    <3>10. Ahead(w, v, 0)
      BY <3>6, <3>9 DEF Ahead, Hearing, NextByte
    <3> QED BY <3>10 DEF Follow
  <2>5. CASE Finished(w, u, 1)
    <3>1. Remaining(w) <= 4 * HalfBit - 3
      <4>1. Remaining(w) \in Int /\ w.tx_pos \in 0 .. FrameBits
        BY <1>3, RemainingIs, Fields
      <4>2. CASE w.state = "TxCompleted"
        <5>1. Between(w)
          BY <4>2 DEF Between, Driving, Sends
        <5>2. Remaining(w) = -1 - l
          BY <1>3, <5>1, RemainingIs
        <5> QED BY <1>2, <5>2
      <4>3. CASE w.tx_pos = FrameBits
        <5>1. w.tx_pos # 0
          BY <4>3, Spans
        <5>2. Remaining(w) = Left(FrameBits) - Phase(w) /\ Phase(w) \in Int /\ Phase(w) >= 0
          BY <1>3, <4>3, <5>1, RemainingIs
        <5>3. Left(FrameBits) = FullBit
          BY LeftLast, Spans
        <5> QED BY <1>2, <5>2, <5>3, Spans
      <4> QED BY <2>5, <4>2, <4>3 DEF Finished, Ends
    <3> QED BY <2>3, <2>5, <3>1 DEF Finished
  <2>6. ~Ahead(w, u, 1)
    BY DEF Ahead, Hearing
  <2> QED BY <2>1, <2>2, <2>4, <2>5, <2>6 DEF Follow
<1>4. ASSUME w.state = "TxStart"
      PROVE  Before(l, v, 0)
  <2>1. x # w /\ x.tx_byte = 0
    BY <1>1, <1>4 DEF Pair, Waits, Sending, TxState
  <2>2. Listens(u) => u.rx_buffer = <<>>
    BY <1>1, <2>1 DEF Unheard, Own
  <2>3. v.rx_bits = <<>>
    BY DEF Receives
  <2> QED BY <1>2, <2>2, <2>3 DEF Before, Hearing, Listens
<1>5. Early(v, 0, w, l) /\ Early(w, l, v, 0)
  BY <1>2 DEF Early, Hearing
<1> QED BY <1>3, <1>4, <1>5 DEF Chases, Sending, TxState

\* u goes on sending and is as far from the end of the byte as it was.
Continues(u, v) ==
  /\ u.state \in Sending /\ v.state \in Sending /\ v.tx_buffer = u.tx_buffer
  /\ Remaining(v) = Remaining(u) /\ Number(v) = Number(u) /\ (Ends(u) => Ends(v))
  /\ u.state \in Driving /\ u.tx_pos = 0 =>
       \/ Phase(u) > 3
       \/ /\ v.state \in Driving /\ v.tx_pos = 0 /\ v.tx_byte = u.tx_byte
          /\ Phase(v) = Phase(u)
  /\ u.state = "TxBit" => u.tx_pos # 0
  /\ u.state = "TxNextBit" /\ u.tx_pos = FrameBits /\ ~Ends(u) => v.state = "TxBit" /\ v.tx_pos = 0

(* Nothing changes for the others. *)
LEMMA ContinuesChase ==
  ASSUME NEW u \in OwuartState, NEW v \in OwuartState, NEW w \in OwuartState, NEW l \in {0, 1},
         Continues(u, v), Timed(u, 1), Own(u, 1), Chases(u, 1, w, l)
  PROVE  Chases(v, 0, w, l) /\ Chases(w, l, v, 0)
<1>1. \A k : Lag(v, w, k) = Lag(u, w, k)
  BY DEF Lag, Continues
<1>2. ASSUME w.state \in Passive
      PROVE  Follow(v, w, l)
  <2>1. Follow(u, w, l)
    BY <1>2 DEF Chases, Continues
  <2>2. CASE Heard(u, w, l)
    BY <1>1, <2>2 DEF Heard, Continues, Follow
  <2>3. CASE Ahead(u, w, l)
    <3>1. v.state = "TxBit" /\ v.tx_pos = 0
      BY <2>3 DEF Ahead, Continues
    <3> QED BY <1>1, <2>3, <3>1 DEF Ahead, Follow
  <2>4. CASE Unheard(u, w, l)
    <3>1. Phase(u) <= 3 /\ Phase(u) \in Int /\ u.state \in Driving /\ u.tx_pos = 0
      BY <2>4, Phases DEF Unheard
    <3>2. v.state \in Driving /\ v.tx_pos = 0 /\ v.tx_byte = u.tx_byte /\ Phase(v) = Phase(u)
      BY <3>1 DEF Continues
    <3> QED BY <2>4, <3>2 DEF Unheard, Follow
  <2>5. CASE Finished(u, w, l)
    BY <1>1, <2>5 DEF Finished, Continues, Follow
  <2> QED BY <2>1, <2>2, <2>3, <2>4, <2>5 DEF Follow
<1> QED BY <1>2 DEF Continues, Chases, Sending, TxState, RxState, Passive, Engaged, Early

LEMMA ContinuesHeard ==
  ASSUME NEW u, NEW v, NEW w, NEW l, Continues(u, v)
  PROVE  Heard(v, w, l) <=> Heard(u, w, l)
BY DEF Continues, Heard, Lag

(* At the end of a byte, who has heard all of it is in the gap. *)
LEMMA HeardOut ==
  ASSUME NEW u \in OwuartState, NEW w \in OwuartState, NEW l \in {0, 1},
         Timed(u, 1), Own(u, 1), u.state \in {"TxBit", "TxCompleted"}, u.tx_pos = 0,
         Receives(w), Own(w, l), Heard(u, w, l)
  PROVE  /\ w.state = "HoldOff" /\ Expects(w, l) \in -1 .. HalfBit
<1>1. Between(u) /\ Remaining(u) = -2
  <2>1. Between(u) /\ u.state \in Sending
    BY DEF Between, Driving, Sending, TxState
  <2> QED BY <2>1, RemainingIs
<1>2. HalfBit \in Nat /\ HalfBit >= 4 /\ FullBit = 2 * HalfBit /\ Left(0) \in Nat /\ Left(0) >= 10 * HalfBit
  <2>1. 0 \in 0 .. FrameBits
    BY Spans
  <2> QED BY <2>1, LeftLast, Spans, LongSpans
<1>3. Expects(w, l) \in Int /\ Expects(w, l) <= HalfBit /\ Expects(w, l) >= -1
  <2>1. Expects(w, l) \in Int
    BY Expectation
  <2>2. Lag(u, w, l) = Expects(w, l) + 2
    BY <1>1, <2>1 DEF Lag
  <2> QED BY <1>2, <2>1, <2>2 DEF Heard
<1>4. w.timer \in Int
  BY Fields
<1>5. w.state # "RxStartBit"
  BY <1>2, <1>3, Expectation
<1>6. w.state \notin {"RxWaitForNextBit", "RxBit"}
  <2>1. SUFFICES ASSUME w.state \in {"RxWaitForNextBit", "RxBit"} PROVE FALSE
    OBVIOUS
  <2>2. w.timer >= -1
    BY <1>2, <1>4, <2>1 DEF Own
  <2>3. /\ Left(Len(w.rx_bits)) \in Nat /\ Left(Len(w.rx_bits)) >= 2 * FullBit
        /\ Expects(w, l) = Left(Len(w.rx_bits)) + w.timer + 1 - HalfBit
    BY <2>1, Expectation
  <2> QED BY <1>2, <1>3, <1>4, <2>2, <2>3
<1>7. w.state \notin {"RxByte", "StartHoldOff"}
  BY <1>2, <1>3, Expectation
<1> QED BY <1>3, <1>5, <1>6, <1>7 DEF Heard, Engaged, RxState

(* TxBit at a start bit: who had heard the last byte is still to hear this one. *)
LEMMA NextStartChase ==
  ASSUME NEW u \in OwuartState, NEW v \in OwuartState, NEW w \in OwuartState, NEW l \in {0, 1},
         u.state = "TxBit", u.tx_pos = 0, Timed(u, 1), Own(u, 1),
         v.state = "TxWaitForHalfBit", v.tx_pos = 0, v.tx_byte = u.tx_byte, v.timer = u.timer + HalfBit,
         Receives(w), Own(w, l), Chases(u, 1, w, l)
  PROVE  Chases(v, 0, w, l) /\ Chases(w, l, v, 0)
<1>1. u.timer = -2 /\ u.tx_byte >= 1 /\ u.state \in Sending /\ v.state \in Driving /\ v.state \in Sending
  BY DEF Timed, Own, Driving, Sending, TxState
<1>2. Phase(v) = 2 /\ Remaining(v) = Left(0) - 2 /\ Number(v) = u.tx_byte
  BY <1>1, Spans DEF Phase, Remaining, Number, Between
<1>3. Remaining(u) = -2
  BY <1>1, RemainingIs DEF Between, Driving
<1>4. ASSUME w.state \in Passive
      PROVE  Follow(v, w, l)
  <2>1. Follow(u, w, l)
    BY <1>1, <1>4 DEF Chases
  <2>2. CASE Heard(u, w, l)
    <3>1. w.state = "HoldOff"
      BY <2>2, HeardOut
    <3>2. Unheard(v, w, l)
      BY <1>1, <1>2, <3>1 DEF Unheard
    <3> QED BY <3>2 DEF Follow
  <2>3. CASE Ahead(u, w, l)
    <3>1. Expects(w, l) \in Int /\ Left(0) \in Nat /\ HalfBit \in Nat /\ HalfBit >= 4
      <4>1. 0 \in 0 .. FrameBits
        BY Spans
      <4> QED BY <4>1, Expectation, LeftLast, Spans
    <3>2. Lag(v, w, l) \in 3 .. 5
      BY <1>2, <1>3, <2>3, <3>1 DEF Ahead, Lag
    <3>3. Heard(v, w, l)
      BY <1>1, <1>2, <2>3, <3>1, <3>2 DEF Heard, Ahead, Hearing, Engaged, RxState
    <3> QED BY <3>3 DEF Follow
  <2>4. ~Unheard(u, w, l) /\ ~Finished(u, w, l)
    BY Spans DEF Unheard, Finished, Ends, Driving
  <2> QED BY <2>1, <2>2, <2>3, <2>4 DEF Follow
<1> QED BY <1>1, <1>4 DEF Chases, Sending, TxState, RxState, Passive, Engaged, Early

(* TxStart: who waits for the gap to end has not heard it yet, and nobody has *)
(* a message left to report.                                                   *)
LEMMA StartChase ==
  ASSUME NEW u \in OwuartState, NEW v \in OwuartState, NEW w \in OwuartState, NEW l \in {0, 1},
         u.state = "TxStart", v.state = "TxWaitForHalfBit",
         v.tx_byte = 0, v.tx_pos = 0, v.timer = HalfBit,
         Receives(w), Timed(w, l), Chases(u, 1, w, l)
  PROVE  /\ Chases(v, 0, w, l) /\ Chases(w, l, v, 0)
         /\ Heard(v, w, l) /\ w.state \in Passive => Lag(v, w, l) \in 1 .. 3
<1>1. v.state \in Driving /\ v.state \in Sending
  BY DEF Driving, Sending, TxState
<1>0. Left(0) \in Nat /\ HalfBit \in Nat /\ HalfBit >= 4 /\ Left(0) >= 10 * HalfBit /\ HoldOffTime \in Nat
  <2>1. 0 \in 0 .. FrameBits
    BY Spans
  <2> QED BY <2>1, LeftLast, Spans, LongSpans
<1>2. Phase(v) = 0 /\ Remaining(v) = Left(0) /\ Number(v) = 0
  BY <1>0, <1>1 DEF Phase, Remaining, Number, Between
<1>3. Expects(w, l) \in Int /\ w.timer \in Int
  BY Expectation, Fields
<1>4. ASSUME w.state \in Passive
      PROVE  Follow(v, w, l) /\ (Heard(v, w, l) => Lag(v, w, l) \in 1 .. 3)
  <2>1. Before(1, w, l)
    BY <1>4 DEF Chases
  <2>2. CASE w.state \in Hearing
    <3>1. Lag(v, w, l) \in 1 .. 3
      BY <1>0, <1>2, <1>3, <2>1, <2>2 DEF Before, Lag, Hearing
    <3>2. Heard(v, w, l)
      BY <1>0, <1>2, <2>2, <3>1 DEF Heard, Hearing, Engaged, RxState
    <3> QED BY <3>1, <3>2 DEF Follow
  <2>3. CASE w.state \in {"HoldOff", "EndOfMessage", "Idle"}
    <3>1. Listens(w) /\ w.rx_buffer # <<>> =>
            /\ w.state # "HoldOff"
            /\ w.state = "EndOfMessage" => l = 1
      BY <1>3, <2>1, <2>3 DEF Before, Timed, Hearing
    <3>2. Unheard(v, w, l)
      BY <1>1, <1>2, <2>3, <3>1 DEF Unheard
    <3>3. ~Heard(v, w, l)
      <4>1. SUFFICES ASSUME w.state = "HoldOff", Heard(v, w, l) PROVE FALSE
        BY <2>3 DEF Heard, Engaged, RxState
      <4>2. Expects(w, l) = 3 * HalfBit - HoldOffTime - 2 + w.timer /\ w.timer <= HoldOffTime
        BY <4>1, Expectation, Fields
      <4> QED BY <1>0, <1>2, <1>3, <4>1, <4>2 DEF Heard, Lag
    <3> QED BY <3>2, <3>3 DEF Follow
  <2> QED BY <2>1, <2>2, <2>3 DEF Before
<1> QED BY <1>1, <1>4 DEF Chases, Sending, TxState, RxState, Passive, Engaged, Early

(* TxArbitrated: the loser expects what the winners have left of the byte, and *)
(* will look at the bit it lost once more, at the end of it.                    *)
LEMMA LoserPairs ==
  ASSUME NEW u \in OwuartState, NEW v \in OwuartState, NEW w \in OwuartState, NEW l \in {0, 1},
         u.state = "TxArbitrated", Timed(u, 1), Own(u, 1), u.tx_pos <= FrameBits - 2,
         v.state = "RxBit", Len(v.rx_bits) = u.tx_pos, v.timer = u.timer,
         v.tx_buffer = u.tx_buffer, Timed(w, l), Own(w, l),
         Pair(u, w, l), Chases(u, 1, w, l)
  PROVE  /\ Chases(v, 0, w, l) /\ Chases(w, l, v, 0)
         /\ w.state \in Sending => Lag(w, v, 0) >= 3
<1>0. Left(u.tx_pos) \in Nat /\ HalfBit \in Nat /\ HalfBit >= 4 /\ u.tx_pos \in 0 .. FrameBits
  BY Fields, LeftLast, Spans
<1>1. /\ u.state \in Driving /\ u.state \in Sending /\ v.state \in Engaged
      /\ v.state \notin Sending \cup {"TxStart", "EndOfMessage", "Idle"}
  BY DEF Driving, Sending, TxState, Engaged, RxState
<1>2. u.timer = HalfBit - 2 /\ Phase(u) = HalfBit + 2
  <2>1. u.timer = HalfBit - 2
    BY <1>0 DEF Timed
  <2> QED BY <1>0, <2>1, Spans DEF Phase
<1>3. /\ Remaining(u) = Left(u.tx_pos) - HalfBit - 2
      /\ Expects(v, 0) = Left(u.tx_pos) - 1
      /\ ~Listens(v)
  BY <1>0, <1>1, <1>2 DEF Remaining, Expects, Own, Listens, TxState
<1>4. ASSUME w.state \in Sending
      PROVE  Lag(w, v, 0) \in HalfBit .. HalfBit + 2
  <2>1. InStep(u, w)
    BY <1>1, <1>4 DEF Pair
  <2>2. ~NextByte(u, w) /\ ~NextByte(w, u)
    BY <1>0, <1>2 DEF NextByte
  <2>3. Remaining(u) - Remaining(w) \in -1 .. 1
    BY <1>1, <1>4, <2>1, <2>2, Level
  <2>4. Remaining(w) \in Int
    BY <1>4, RemainingIs
  <2> QED BY <1>0, <1>3, <2>3, <2>4 DEF Lag
<1>5. ASSUME w.state \in Sending PROVE Follow(w, v, 0)
  BY <1>0, <1>1, <1>3, <1>4, <1>5 DEF Follow, Heard
<1>6. w.state # "TxStart"
  BY <1>0, <1>1, <1>2 DEF Pair, Waits, Fresh
<1>7. w.state \notin {"EndOfMessage", "Idle"}
  <2>1. SUFFICES ASSUME w.state \in {"EndOfMessage", "Idle"} PROVE FALSE
    OBVIOUS
  <2>2. Follow(u, w, l)
    BY <1>1, <2>1 DEF Chases, Passive
  <2> QED BY <1>0, <1>2, <2>1, <2>2 DEF Follow, Heard, Ahead, Unheard, Finished, Engaged, Hearing, RxState
<1>8. w.state \in Sending => Lag(w, v, 0) >= 3
  BY <1>0, <1>4
<1> QED BY <1>1, <1>5, <1>6, <1>7, <1>8 DEF Chases, Early

(* TxCompleted: who sends has sent the same message, and is about to end.       *)
LEMMA CompletedPairs ==
  ASSUME PrefixFree,
         NEW u \in OwuartState, NEW v \in OwuartState, NEW w \in OwuartState, NEW l \in {0, 1},
         u.state = "TxCompleted", Timed(u, 1), Own(u, 1), Sends(u),
         v.state = "StartHoldOff", v.tx_buffer = <<>>, v.rx_buffer = u.rx_buffer,
         Receives(v), Timed(w, l), Own(w, l), Sends(w), Pair(u, w, l), Pair(w, u, 1)
  PROVE  /\ Chases(v, 0, w, l) /\ Chases(w, l, v, 0)
         /\ w.state \in Sending => Lag(w, v, 0) >= 3 * HalfBit
         /\ w.state # "TxStart"
<1>0. HalfBit \in Nat /\ HalfBit >= 4 /\ FullBit = 2 * HalfBit /\ FrameBits \in Nat
  BY Spans
<1>1. /\ u.state \in Sending /\ u.state \notin Driving /\ u.tx_pos = 0 /\ u.tx_byte = Len(u.tx_buffer)
      /\ Between(u)
  BY DEF Driving, Sending, TxState, Sends, Between
<1>2. /\ Remaining(u) = -2 /\ Number(u) = u.tx_byte - 1 /\ v.rx_buffer = <<>>
      /\ u.tx_byte \in Nat /\ u.tx_byte >= 1
  <2>1. Remaining(u) = -1 - 1 /\ u.tx_byte >= 1
    BY <1>1, RemainingIs
  <2>2. u.rx_buffer = <<>>
    BY DEF Own, TxState
  <2> QED BY <1>1, <2>1, <2>2, Fields DEF Number
<1>3. Expects(v, 0) = 3 * HalfBit - 1
  BY <1>0, Expectation
<1>4. ASSUME w.state \in Sending
      PROVE  Finished(w, v, 0)
  <2>1. InStep(u, w) /\ AgreeTo(u, w) /\ AgreeTo(w, u)
    BY <1>1, <1>4 DEF Pair
  <2>2. /\ w.tx_byte \in Nat /\ w.tx_pos \in 0 .. FrameBits /\ w.tx_buffer \in Seq(Byte)
        /\ u.tx_buffer \in Seq(Byte)
    BY Fields
  <2>3. /\ Remaining(w) \in Int /\ Remaining(w) >= -2 /\ Phase(w) \in Int
        /\ w.state \in Driving \/ w.tx_pos # 0 =>
             Remaining(w) = Left(w.tx_pos) - Phase(w) /\ Phase(w) <= FullBit + 1
        /\ Between(w) => Remaining(w) = -1 - l /\ w.tx_byte >= 1
        /\ Between(w) <=> w.state \in {"TxBit", "TxCompleted"} /\ w.tx_pos = 0
    BY <1>0, <1>4, RemainingIs
  <2>4. ~NextByte(u, w)
    BY <1>1 DEF NextByte
  <2>5. ~NextByte(w, u)
    BY <1>1, <2>1, NotTheEnd
  <2>6. Number(w) = Number(u) /\ Remaining(u) - Remaining(w) \in -1 .. 1
    BY <1>1, <1>4, <2>1, <2>4, <2>5, Level
  <2>7. Remaining(w) \in -2 .. -1
    BY <1>2, <2>3, <2>6
  <2>8. Len(w.tx_buffer) >= Len(u.tx_buffer)
    <3>1. CASE Between(w)
      BY <1>1, <1>2, <2>2, <2>3, <2>6, <3>1 DEF Number, Sends
    <3>2. CASE ~Between(w)
      <4>1. w.state # "TxCompleted"
        BY <3>2, <2>3 DEF Sends
      <4>2. w.tx_byte < Len(w.tx_buffer) /\ Number(w) = w.tx_byte
        BY <1>4, <3>2, <4>1 DEF Sends, Driving, Number
      <4> QED BY <1>1, <1>2, <2>2, <2>6, <4>2
    <3> QED BY <3>1, <3>2
  <2>9. Len(w.tx_buffer) = Len(u.tx_buffer)
    <3>1. SUFFICES ASSUME Len(u.tx_buffer) < Len(w.tx_buffer) PROVE FALSE
      BY <2>2, <2>8
    <3>2. u.tx_buffer \in Messages \ {<<>>} /\ w.tx_buffer \in Messages \ {<<>>}
      BY <1>1, <1>4 DEF Own, Sending
    <3>3. \A k \in 1 .. Len(u.tx_buffer) : u.tx_buffer[k] = w.tx_buffer[k]
      BY <1>1, <2>1 DEF AgreeTo
    <3> QED BY <3>1, <3>2, <3>3 DEF PrefixFree
  <2>10. Ends(w)
    <3>1. CASE Between(w)
      BY <1>1, <1>2, <2>2, <2>3, <2>6, <2>9, <3>1 DEF Number, Sends, Ends
    <3>2. CASE ~Between(w)
      <4>1. w.state \in Driving \/ w.tx_pos # 0
        BY <3>2 DEF Between
      <4>2. Left(w.tx_pos) <= FullBit
        <5>1. Left(w.tx_pos) \in Nat
          BY <2>2, LeftLast
        <5> QED BY <1>0, <2>3, <2>7, <4>1, <5>1
      <4>3. w.tx_pos = FrameBits
        <5>1. w.tx_pos <= FrameBits - 1 => Left(w.tx_pos) >= 2 * FullBit /\ Left(w.tx_pos) \in Nat
          BY <2>2, LeftLast
        <5> QED BY <1>0, <2>2, <4>2, <5>1
      <4>4. w.tx_byte + 1 = Len(w.tx_buffer)
        BY <1>1, <1>2, <2>2, <2>6, <2>9, <3>2 DEF Number
      <4> QED BY <4>3, <4>4 DEF Ends
    <3> QED BY <3>1, <3>2
  <2>11. Lag(w, v, 0) \in 3 * HalfBit .. 3 * HalfBit + 2
    BY <1>0, <1>3, <2>7 DEF Lag
  <2> QED BY <1>2, <2>10, <2>11 DEF Finished, Listens
<1>5. w.state # "TxStart"
  BY <1>1 DEF Pair, Waits, Fresh
<1>6. w.state \in Sending => Lag(w, v, 0) >= 3 * HalfBit
  BY <1>4 DEF Finished
<1> QED BY <1>4, <1>5, <1>6 DEF Chases, Early, Follow, Sending, TxState, RxState

(* ... or has received or sent it, and is in the gap.                           *)
LEMMA AfterLast ==
  ASSUME NEW u \in OwuartState, NEW w \in OwuartState, NEW l \in {0, 1},
         u.state = "TxCompleted", Timed(u, 1), Own(u, 1), Sends(u),
         Receives(w), Own(w, l), Follow(u, w, l)
  PROVE  /\ w.timer \in Int
         /\ \/ /\ Heard(u, w, l) /\ w.state = "HoldOff" /\ Expects(w, l) \in -1 .. HalfBit
               /\ w.timer >= FullBit + 1
            \/ /\ w.state \in {"StartHoldOff", "HoldOff"} /\ w.rx_buffer = <<>>
               /\ Expects(w, l) \in 3 * HalfBit - 2 .. 3 * HalfBit
               /\ w.state = "HoldOff" => w.timer >= FullBit + 1
<1>0. /\ HalfBit \in Nat /\ HalfBit >= 4 /\ FullBit = 2 * HalfBit /\ FrameBits \in Nat
      /\ HoldOffTime \in Nat /\ HoldOffTime >= 8 * HalfBit /\ w.timer \in Int
      /\ Expects(w, l) \in Int
      /\ w.state = "HoldOff" => Expects(w, l) = 3 * HalfBit - HoldOffTime - 2 + w.timer
  BY Spans, LongSpans, Fields, Expectation
<1>1. /\ u.state \in Sending /\ u.state \notin Driving /\ u.tx_pos = 0 /\ Between(u)
  BY DEF Driving, Sending, TxState, Sends, Between
<1>2. Remaining(u) = -2
  BY <1>1, RemainingIs
<1>3. CASE Heard(u, w, l)
  <2>1. w.state = "HoldOff" /\ Expects(w, l) \in -1 .. HalfBit
    BY <1>1, <1>3, HeardOut
  <2> QED BY <1>0, <1>3, <2>1
<1>4. CASE Finished(u, w, l)
  <2>1. Expects(w, l) \in 3 * HalfBit - 2 .. 3 * HalfBit
    BY <1>0, <1>2, <1>4 DEF Finished, Lag
  <2> QED BY <1>0, <1>4, <2>1 DEF Finished
<1>5. ~Ahead(u, w, l) /\ ~Unheard(u, w, l)
  BY <1>1 DEF Ahead, Unheard
<1> QED BY <1>3, <1>4, <1>5 DEF Follow

\* The states in which a node is neither sending nor receiving nor about to.
LEMMA StateCases ==
  ASSUME NEW w \in OwuartState
  PROVE  \/ w.state = "Off" \/ w.state \in Passive \/ w.state = "TxStart" \/ w.state \in Sending
BY Fields DEF State, Passive, Engaged, Sending, TxState

(* When the last sender has sent its message, the gap begins, for it ...        *)
LEMMA GapBegins ==
  ASSUME NEW u \in OwuartState, NEW v \in OwuartState, NEW w \in OwuartState, NEW l \in {0, 1},
         u.state = "TxCompleted", Timed(u, 1), Own(u, 1), Sends(u),
         v.state = "StartHoldOff", v.rx_buffer = u.rx_buffer, Receives(v),
         Receives(w), Own(w, l), w.state \notin Sending \cup {"TxStart"}, Chases(u, 1, w, l)
  PROVE  /\ w.state \notin RxState
         /\ Gap(v, 0, w, l) /\ Gap(w, l, v, 0)
<1>1. /\ HalfBit \in Nat /\ HalfBit >= 4 /\ Expects(v, 0) = 3 * HalfBit - 1 /\ v.rx_buffer = <<>>
  BY Expectation, Spans DEF Own, TxState
<1>2. CASE w.state = "Off"
  BY <1>1, <1>2 DEF Gap, Own, RxState, TxState
<1>3. CASE w.state \in Passive
  <2>1. Follow(u, w, l)
    BY <1>3 DEF Chases, Sending, TxState
  <2>2. /\ w.timer \in Int
        /\ \/ /\ Heard(u, w, l) /\ w.state = "HoldOff" /\ Expects(w, l) \in -1 .. HalfBit
              /\ w.timer >= FullBit + 1
           \/ /\ w.state \in {"StartHoldOff", "HoldOff"} /\ w.rx_buffer = <<>>
              /\ Expects(w, l) \in 3 * HalfBit - 2 .. 3 * HalfBit
              /\ w.state = "HoldOff" => w.timer >= FullBit + 1
    BY <2>1, AfterLast
  <2>3. Expects(w, l) <= HalfBit \/ w.rx_buffer = <<>>
    BY <1>1, <2>2
  <2>4. Expects(w, l) \in Int
    BY Expectation
  <2>5. Gap(v, 0, w, l)
    BY <1>1, <2>3, <2>4 DEF Gap
  <2>6. Gap(w, l, v, 0)
    BY <1>1, <2>2, Spans DEF Gap
  <2> QED BY <2>2, <2>5, <2>6 DEF RxState
<1> QED BY <1>2, <1>3, StateCases

(* ... and for any two others.                                                  *)
LEMMA GapOfOthers ==
  ASSUME NEW u \in OwuartState, NEW w \in OwuartState, NEW x \in OwuartState,
         NEW l \in {0, 1}, NEW k \in {0, 1},
         u.state = "TxCompleted", Timed(u, 1), Own(u, 1), Sends(u),
         Receives(w), Own(w, l), w.state \notin Sending \cup {"TxStart"}, Chases(u, 1, w, l),
         Receives(x), Own(x, k), x.state \notin Sending \cup {"TxStart"}, Chases(u, 1, x, k),
         Sync(u, w, l, x, k)
  PROVE  Gap(w, l, x, k)
<1>0. u.state \in Sending /\ HalfBit \in Nat /\ HalfBit >= 4 /\ FullBit \in Nat
  BY Spans DEF Sending, TxState
<1>1. CASE w.state = "Off"
  BY <1>1 DEF Gap
<1>2. CASE x.state = "Off"
  BY <1>2 DEF Gap, Own
<1>3. CASE w.state \in Passive /\ x.state \in Passive
  <2>1. Follow(u, w, l) /\ Follow(u, x, k)
    BY <1>0, <1>3 DEF Chases
  <2>2. /\ w.timer \in Int
        /\ \/ /\ Heard(u, w, l) /\ w.state = "HoldOff" /\ Expects(w, l) \in -1 .. HalfBit
              /\ w.timer >= FullBit + 1
           \/ /\ w.state \in {"StartHoldOff", "HoldOff"} /\ w.rx_buffer = <<>>
              /\ Expects(w, l) \in 3 * HalfBit - 2 .. 3 * HalfBit
              /\ w.state = "HoldOff" => w.timer >= FullBit + 1
    BY <2>1, AfterLast
  <2>3. \/ Heard(u, x, k) /\ x.state = "HoldOff" /\ Expects(x, k) \in -1 .. HalfBit
        \/ x.rx_buffer = <<>>
    BY <2>1, AfterLast
  <2>4. Expects(w, l) \in Int /\ Expects(x, k) \in Int
    BY Expectation
  <2>5. Listens(x) /\ x.rx_buffer # <<>> => Expects(x, k) <= Expects(w, l) + 2
    <3>1. CASE Heard(u, w, l)
      BY <1>0, <2>3, <3>1 DEF Sync
    <3>2. CASE ~Heard(u, w, l)
      BY <1>0, <2>2, <2>3, <2>4, <3>2
    <3> QED BY <3>1, <3>2
  <2>6. w.state = "StartHoldOff" \/ (w.state = "HoldOff" /\ w.timer >= FullBit + 1 - k)
    BY <1>0, <2>2
  <2> QED BY <2>5, <2>6 DEF Gap
<1> QED BY <1>1, <1>2, <1>3, StateCases

(* RoundEnds: all estimates are a round shorter. *)
LEMMA RoundExpects ==
  ASSUME NEW w \in OwuartState, NEW x \in OwuartState, x = [w EXCEPT !.timer = Later(@)],
         Timed(w, 0), Own(w, 0), Receives(w), w.state # "Off"
  PROVE  /\ Expects(x, 1) = Expects(w, 0) - 1 /\ Expects(w, 0) \in Int
         /\ x.state = w.state /\ x.tx_buffer = w.tx_buffer /\ x.rx_buffer = w.rx_buffer
         /\ x.rx_bits = w.rx_bits /\ x.out = w.out /\ x.tx_byte = w.tx_byte /\ x.tx_pos = w.tx_pos
         /\ w.state \in Sending \cup {"HoldOff", "RxWaitForNextBit", "RxBit"} => x.timer = w.timer - 1
         /\ w.timer \in Int
<1>1. /\ x.state = w.state /\ x.tx_buffer = w.tx_buffer /\ x.rx_buffer = w.rx_buffer
      /\ x.rx_bits = w.rx_bits /\ x.out = w.out /\ x.tx_byte = w.tx_byte /\ x.tx_pos = w.tx_pos
      /\ x.timer = Later(w.timer)
  BY DEF OwuartState
<1>2. w.timer \in Int /\ HalfBit \in Nat /\ HalfBit >= 4
  BY Fields, Spans
<1>3. w.state \in Sending \cup {"HoldOff"} => x.timer = w.timer - 1
  BY <1>1, LaterTimer DEF Sending
<1>4. w.state \in {"RxWaitForNextBit", "RxBit"} => x.timer = w.timer - 1
  <2>1. w.state \in {"RxWaitForNextBit", "RxBit"} => w.timer >= 0
    BY <1>2 DEF Own
  <2> QED BY <1>1, <1>2, <2>1 DEF Later, MaxLate
<1>5. x \in OwuartState /\ Receives(x)
  BY <1>1 DEF Receives
<1>6. Expects(w, 0) \in Int
  BY Expectation
<1>7. Expects(x, 1) = Expects(w, 0) - 1
  <2>1. CASE w.state \in {"RxWaitForNextBit", "RxBit"}
    <3>1. Left(Len(w.rx_bits)) \in Nat
      BY <2>1, Expectation
    <3> QED BY <1>1, <1>2, <1>4, <2>1, <3>1 DEF Expects
  <2>2. CASE w.state \notin {"RxWaitForNextBit", "RxBit"}
    <3>1. Left(0) \in Nat /\ HoldOffTime \in Nat
      <4>1. 0 \in 0 .. FrameBits
        BY Spans
      <4> QED BY <4>1, LeftLast, Spans
    <3> QED BY <1>1, <1>2, <1>3, <2>2, <3>1 DEF Expects
  <2> QED BY <2>1, <2>2
<1> QED BY <1>1, <1>2, <1>3, <1>4, <1>6, <1>7

LEMMA RoundRemaining ==
  ASSUME NEW u \in OwuartState, NEW v \in OwuartState, v = [u EXCEPT !.timer = Later(@)],
         Timed(u, 0), Own(u, 0), Receives(u), u.state \in Sending
  PROVE  /\ Remaining(v) = Remaining(u) - 1 /\ Remaining(u) \in Int
         /\ Phase(v) = Phase(u) + 1 /\ Phase(u) \in Int
         /\ Number(v) = Number(u) /\ (Ends(v) <=> Ends(u))
<1>1. /\ v.state = u.state /\ v.tx_buffer = u.tx_buffer /\ v.tx_byte = u.tx_byte /\ v.tx_pos = u.tx_pos
      /\ v.timer = u.timer - 1 /\ u.timer \in Int
  BY RoundExpects DEF Sending, TxState
<1>2. Phase(v) = Phase(u) + 1 /\ Phase(u) \in Int
  BY <1>1, Spans DEF Phase
<1>3. Remaining(v) = Remaining(u) - 1 /\ Remaining(u) \in Int
  <2>1. Left(u.tx_pos) \in Nat
    BY LeftLast, Fields
  <2> QED BY <1>1, <1>2, <2>1 DEF Remaining
<1> QED BY <1>1, <1>2, <1>3 DEF Number, Between, Ends

(* ... and their differences the same. *)
LEMMA RoundHeard ==
  ASSUME NEW u \in OwuartState, NEW v \in OwuartState, NEW w \in OwuartState, NEW x \in OwuartState,
         v = [u EXCEPT !.timer = Later(@)], x = [w EXCEPT !.timer = Later(@)],
         Timed(u, 0), Own(u, 0), Receives(u), u.state \in Sending,
         Timed(w, 0), Own(w, 0), Receives(w), w.state # "Off"
  PROVE  /\ Lag(v, x, 1) = Lag(u, w, 0) /\ (Heard(v, x, 1) <=> Heard(u, w, 0))
<1>1. Remaining(v) = Remaining(u) - 1 /\ Remaining(u) \in Int /\ Number(v) = Number(u)
  BY RoundRemaining
<1>2. Expects(x, 1) = Expects(w, 0) - 1 /\ Expects(w, 0) \in Int
  BY RoundExpects
<1>3. x.state = w.state /\ x.tx_buffer = w.tx_buffer
  BY RoundExpects
<1>4. Lag(v, x, 1) = Lag(u, w, 0)
  BY <1>1, <1>2 DEF Lag
<1> QED BY <1>1, <1>3, <1>4 DEF Heard, Listens

LEMMA RoundChases ==
  ASSUME NEW u \in OwuartState, NEW v \in OwuartState, NEW w \in OwuartState, NEW x \in OwuartState,
         v = [u EXCEPT !.timer = Later(@)], x = [w EXCEPT !.timer = Later(@)],
         Timed(u, 0), Own(u, 0), Receives(u), u.state # "Off",
         Timed(w, 0), Own(w, 0), Receives(w), w.state # "Off", Chases(u, 0, w, 0)
  PROVE  Chases(v, 1, x, 1)
<1>0. Left(0) \in Nat
  <2>1. 0 \in 0 .. FrameBits
    BY Spans
  <2> QED BY <2>1, LeftLast
<1>1. /\ Expects(x, 1) = Expects(w, 0) - 1 /\ Expects(w, 0) \in Int
      /\ x.state = w.state /\ x.tx_buffer = w.tx_buffer /\ x.rx_buffer = w.rx_buffer /\ x.rx_bits = w.rx_bits
      /\ w.state = "HoldOff" => x.timer = w.timer - 1
      /\ w.timer \in Int
  BY RoundExpects
<1>2. /\ Expects(v, 1) = Expects(u, 0) - 1 /\ Expects(u, 0) \in Int
      /\ v.state = u.state /\ v.tx_byte = u.tx_byte /\ v.tx_pos = u.tx_pos
  BY RoundExpects
<1>3. ASSUME u.state \in Sending, w.state \in Passive PROVE Follow(v, x, 1)
  <2>1. Follow(u, w, 0)
    BY <1>3 DEF Chases
  <2>2. /\ Lag(v, x, 1) = Lag(u, w, 0) /\ (Heard(v, x, 1) <=> Heard(u, w, 0))
    BY <1>3, RoundHeard
  <2>3. Phase(v) = Phase(u) + 1 /\ Phase(u) \in Int /\ (Ends(v) <=> Ends(u))
    BY <1>3, RoundRemaining
  <2>4. Ahead(u, w, 0) => Ahead(v, x, 1)
    BY <1>1, <1>2, <2>2, <2>3 DEF Ahead
  <2>5. Unheard(u, w, 0) => Unheard(v, x, 1)
    BY <1>1, <1>2, <2>3 DEF Unheard, Listens
  <2>6. Finished(u, w, 0) => Finished(v, x, 1)
    BY <1>1, <2>2, <2>3 DEF Finished, Listens
  <2> QED BY <2>1, <2>2, <2>4, <2>5, <2>6 DEF Follow
<1>4. Before(0, w, 0) => Before(1, x, 1)
  BY <1>0, <1>1 DEF Before, Listens, Hearing
<1>5. Early(u, 0, w, 0) => Early(v, 1, x, 1)
  BY <1>0, <1>1, <1>2 DEF Early, Hearing
<1> QED BY <1>1, <1>2, <1>3, <1>4, <1>5 DEF Chases

LEMMA RoundGap ==
  ASSUME NEW u \in OwuartState, NEW v \in OwuartState, NEW w \in OwuartState, NEW x \in OwuartState,
         v = [u EXCEPT !.timer = Later(@)], x = [w EXCEPT !.timer = Later(@)],
         Timed(u, 0), Own(u, 0), Receives(u), u.state # "Off",
         Timed(w, 0), Own(w, 0), Receives(w), w.state # "Off", Gap(u, 0, w, 0)
  PROVE  Gap(v, 1, x, 1)
<1>1. /\ Expects(x, 1) = Expects(w, 0) - 1 /\ Expects(w, 0) \in Int
      /\ x.state = w.state /\ x.tx_buffer = w.tx_buffer /\ x.rx_buffer = w.rx_buffer
  BY RoundExpects
<1>2. /\ Expects(v, 1) = Expects(u, 0) - 1 /\ Expects(u, 0) \in Int
      /\ v.state = u.state /\ u.timer \in Int
      /\ u.state = "HoldOff" => v.timer = u.timer - 1
  BY RoundExpects
<1> QED BY <1>1, <1>2, Spans DEF Gap, Listens

-----------------------------------------------------------------------------
(* The ticks of process_tick *)

(* What the invariant says of a node that is about to run, and of the others. *)
LEMMA TimeKnown ==
  ASSUME TimeInv, NEW n \in Node, n \notin ticked
  PROVE  /\ owuart[n] \in OwuartState /\ Last(n) = 1
         /\ Sends(owuart[n]) /\ Receives(owuart[n]) /\ Timed(owuart[n], 1) /\ Own(owuart[n], 1)
         /\ \A m \in Node \ {n} :
              /\ owuart[m] \in OwuartState /\ Last(m) \in {0, 1}
              /\ Sends(owuart[m]) /\ Receives(owuart[m]) /\ Timed(owuart[m], Last(m)) /\ Own(owuart[m], Last(m))
              /\ Pair(owuart[n], owuart[m], Last(m)) /\ Pair(owuart[m], owuart[n], 1)
              /\ Chases(owuart[n], 1, owuart[m], Last(m)) /\ Chases(owuart[m], Last(m), owuart[n], 1)
              /\ Quiet => Gap(owuart[n], 1, owuart[m], Last(m)) /\ Gap(owuart[m], Last(m), owuart[n], 1)
<1>1. UartInv /\ Last(n) = 1
  BY DEF TimeInv, Last
<1>2. /\ owuart[n] \in OwuartState /\ Sends(owuart[n]) /\ Receives(owuart[n]) /\ Timed(owuart[n], 1)
      /\ \A m \in Node \ {n} :
           /\ owuart[m] \in OwuartState /\ Last(m) \in {0, 1}
           /\ Sends(owuart[m]) /\ Timed(owuart[m], Last(m))
           /\ Pair(owuart[n], owuart[m], Last(m)) /\ Pair(owuart[m], owuart[n], 1)
  BY <1>1, Known
<1>3. \A m \in Node : Receives(owuart[m])
  BY <1>1 DEF UartInv, LocalInv
<1>4. Own(owuart[n], 1) /\ \A m \in Node : Own(owuart[m], Last(m))
  BY <1>1 DEF TimeInv, OwnInv
<1>5. \A m \in Node \ {n} :
        Chases(owuart[n], 1, owuart[m], Last(m)) /\ Chases(owuart[m], Last(m), owuart[n], 1)
  BY <1>1 DEF TimeInv, ChaseInv
<1>6. \A m \in Node \ {n} :
        Quiet => Gap(owuart[n], 1, owuart[m], Last(m)) /\ Gap(owuart[m], Last(m), owuart[n], 1)
  BY <1>1 DEF TimeInv, QuietInv
<1>7. ASSUME NEW m \in Node \ {n}
      PROVE  /\ owuart[m] \in OwuartState /\ Last(m) \in {0, 1}
             /\ Sends(owuart[m]) /\ Receives(owuart[m]) /\ Timed(owuart[m], Last(m)) /\ Own(owuart[m], Last(m))
             /\ Pair(owuart[n], owuart[m], Last(m)) /\ Pair(owuart[m], owuart[n], 1)
             /\ Chases(owuart[n], 1, owuart[m], Last(m)) /\ Chases(owuart[m], Last(m), owuart[n], 1)
             /\ Quiet => Gap(owuart[n], 1, owuart[m], Last(m)) /\ Gap(owuart[m], Last(m), owuart[n], 1)
  <2>1. m \in Node
    OBVIOUS
  <2>2. Receives(owuart[m]) /\ Own(owuart[m], Last(m))
    BY <1>3, <1>4, <2>1
  <2> QED BY <1>2, <1>5, <1>6, <2>2, Zenon
<1>8. Own(owuart[n], 1)
  BY <1>4
<1> QED BY <1>1, <1>2, <1>7, <1>8, Zenon

(* What the ticks leave alone. *)
LEMMA TickFrame ==
  ASSUME TypeOK, NEW n \in Node, process_tick(n)
  PROVE  /\ n \notin ticked /\ ticked' = ticked \cup {n} /\ dark' = dark
         /\ Last(n) = 1 /\ Last(n)' = 0
         /\ \A m \in Node \ {n} :
              owuart'[m] = owuart[m] /\ Last(m)' = Last(m)
<1>1. n \notin ticked /\ ticked' = ticked \cup {n}
  BY DEF process_tick, In, StartHoldOff, HoldOff, EndOfMessage, IdleHears, IdleSends, IdleReceives,
     TxStart, TxBit, TxWaitForHalfBit, TxMonitorBit, TxWaitForFullBit, TxNextBit, TxArbitrated,
     TxCompleted, RxStartBit, RxWaitForNextBit, RxBit, RxByte
<1>2. dark' = dark
  BY DEF process_tick, Silent, StartHoldOff, HoldOff, EndOfMessage, IdleHears, IdleSends, IdleReceives,
     TxStart, TxBit, TxWaitForHalfBit, TxMonitorBit, TxWaitForFullBit, TxNextBit, TxArbitrated,
     TxCompleted, RxStartBit, RxWaitForNextBit, RxBit, RxByte
<1>3. owuart' = owuart \/ \E v : owuart' = [owuart EXCEPT ![n] = v]
  <2>1. CASE IdleReceives(n)
    BY <2>1 DEF IdleReceives
  <2>2. CASE ~IdleReceives(n)
    BY <2>2 DEF process_tick, StartHoldOff, HoldOff, EndOfMessage, IdleHears, IdleSends,
     TxStart, TxBit, TxWaitForHalfBit, TxMonitorBit, TxWaitForFullBit, TxNextBit, TxArbitrated,
     TxCompleted, RxStartBit, RxWaitForNextBit, RxBit, RxByte
  <2> QED BY <2>1, <2>2
<1>4. \A m \in Node \ {n} : owuart'[m] = owuart[m]
  BY <1>3 DEF TypeOK
<1> QED BY <1>1, <1>2, <1>4 DEF Last

(* StartHoldOff: the deadline is HoldOffTime away. *)
LEMMA StartHoldOffTick ==
  ASSUME TimeInv, NEW n \in Node, StartHoldOff(n)
  PROVE  LET u == owuart[n]
             v == owuart'[n] IN
         /\ u.state = "StartHoldOff" /\ Own(v, 0) /\ v.state # "Off"
         /\ Keeps(u, v)
<1> DEFINE u == owuart[n]
           v == owuart'[n]
<1>1. /\ u \in OwuartState /\ u.state = "StartHoldOff"
      /\ Sends(u) /\ Receives(u) /\ Timed(u, 1) /\ Own(u, 1)
  BY TimeKnown DEF StartHoldOff, In
<1>2. v = [u EXCEPT !.timer = HoldOffTime, !.state = "HoldOff"]
  BY DEF TimeInv, UartInv, TypeOK, StartHoldOff
<1> HIDE DEF u, v
<1>3. /\ v.state = "HoldOff" /\ v.timer = HoldOffTime /\ v.tx_buffer = u.tx_buffer /\ v.rx_buffer = u.rx_buffer
      /\ v.rx_bits = u.rx_bits
  BY <1>1, <1>2 DEF OwuartState
<1>4. Own(v, 0)
  BY <1>1, <1>3 DEF Own, TxState
<1>5. Expects(v, 0) = Expects(u, 1)
  BY <1>1, <1>3, Spans DEF Expects
<1>6. Keeps(u, v)
  BY <1>1, <1>3, <1>5 DEF Keeps, Engaged, Hearing, RxState
<1> QED BY <1>1, <1>3, <1>4, <1>6 DEF u, v

(* HoldOff: it goes on, or ends, or the line is at 1. *)
LEMMA HoldOffTick ==
  ASSUME TimeInv, NEW n \in Node, HoldOff(n)
  PROVE  LET u == owuart[n]
             v == owuart'[n] IN
         /\ u.state = "HoldOff" /\ Own(v, 0) /\ v.state # "Off"
         /\ v.tx_buffer = u.tx_buffer /\ v.rx_buffer = u.rx_buffer
         /\ \/ Read # 1 /\ Keeps(u, v)
            \/ Read # 1 /\ u.timer <= 0 /\ v.state = "EndOfMessage"
            \/ Read = 1 /\ v.state = "RxStartBit"
<1> DEFINE u == owuart[n]
           v == owuart'[n]
<1>1. /\ u \in OwuartState /\ u.state = "HoldOff"
      /\ Sends(u) /\ Receives(u) /\ Timed(u, 1) /\ Own(u, 1)
  BY TimeKnown DEF HoldOff, In
<1>2. v = [u EXCEPT !.state = IF Read = 1 THEN "RxStartBit" ELSE IF u.timer <= 0 THEN "EndOfMessage" ELSE @]
  BY DEF TimeInv, UartInv, TypeOK, HoldOff, time_ge
<1> HIDE DEF u, v
<1>3. /\ v.state = IF Read = 1 THEN "RxStartBit" ELSE IF u.timer <= 0 THEN "EndOfMessage" ELSE "HoldOff"
      /\ v.timer = u.timer /\ v.tx_buffer = u.tx_buffer /\ v.rx_buffer = u.rx_buffer /\ v.rx_bits = u.rx_bits
  BY <1>1, <1>2 DEF OwuartState
<1>4. Own(v, 0)
  BY <1>1, <1>3 DEF Own, TxState
<1>5. v.state = "HoldOff" => Keeps(u, v)
  BY <1>1, <1>3 DEF Keeps, Engaged, Hearing, RxState, Expects
<1> QED BY <1>1, <1>3, <1>4, <1>5 DEF u, v

(* EndOfMessage: what was received is reported. *)
LEMMA EndOfMessageTick ==
  ASSUME TimeInv, NEW n \in Node, EndOfMessage(n)
  PROVE  LET u == owuart[n]
             v == owuart'[n] IN
         /\ u.state = "EndOfMessage" /\ Own(v, 0) /\ v.state # "Off"
         /\ v.state = "Idle" /\ v.rx_buffer = <<>>
<1> DEFINE u == owuart[n]
           v == owuart'[n]
<1>1. /\ u \in OwuartState /\ u.state = "EndOfMessage"
      /\ Sends(u) /\ Receives(u) /\ Timed(u, 1) /\ Own(u, 1)
  BY TimeKnown DEF EndOfMessage, In
<1>2. v = [u EXCEPT !.rx_buffer = <<>>, !.rx_bits = <<>>, !.state = "Idle"]
  BY DEF TimeInv, UartInv, TypeOK, EndOfMessage
<1> HIDE DEF u, v
<1>3. /\ v.state = "Idle" /\ v.rx_buffer = <<>> /\ v.tx_buffer = u.tx_buffer
  BY <1>1, <1>2 DEF OwuartState
<1>4. Own(v, 0)
  BY <1>1, <1>3 DEF Own, TxState
<1> QED BY <1>1, <1>3, <1>4 DEF u, v

(* Idle with the line at 1. *)
LEMMA IdleHearsTick ==
  ASSUME TimeInv, NEW n \in Node, IdleHears(n)
  PROVE  LET u == owuart[n]
             v == owuart'[n] IN
         /\ u.state = "Idle" /\ Own(v, 0) /\ v.state # "Off"
         /\ Read = 1 /\ v.state = "RxStartBit" /\ v.rx_buffer = u.rx_buffer /\ v.tx_buffer = u.tx_buffer
<1> DEFINE u == owuart[n]
           v == owuart'[n]
<1>1. /\ u \in OwuartState /\ u.state = "Idle"
      /\ Sends(u) /\ Receives(u) /\ Timed(u, 1) /\ Own(u, 1)
  BY TimeKnown DEF IdleHears, In
<1>2. v = [u EXCEPT !.state = "RxStartBit"]
  BY DEF TimeInv, UartInv, TypeOK, IdleHears
<1> HIDE DEF u, v
<1>3. /\ v.state = "RxStartBit" /\ v.rx_buffer = u.rx_buffer /\ v.tx_buffer = u.tx_buffer
  BY <1>1, <1>2 DEF OwuartState
<1>4. Own(v, 0)
  BY <1>1, <1>3 DEF Own, TxState
<1> QED BY <1>1, <1>3, <1>4 DEF u, v, IdleHears

(* Idle with a message to send. *)
LEMMA IdleSendsTick ==
  ASSUME TimeInv, NEW n \in Node, IdleSends(n)
  PROVE  LET u == owuart[n]
             v == owuart'[n] IN
         /\ u.state = "Idle" /\ Own(v, 0) /\ v.state # "Off"
         /\ Read = 0 /\ v.state = "TxStart" /\ v.rx_buffer = <<>>
<1> DEFINE u == owuart[n]
           v == owuart'[n]
<1>1. /\ u \in OwuartState /\ u.state = "Idle"
      /\ Sends(u) /\ Receives(u) /\ Timed(u, 1) /\ Own(u, 1)
  BY TimeKnown DEF IdleSends, In
<1>2. v = [u EXCEPT !.state = "TxStart"]
  BY DEF TimeInv, UartInv, TypeOK, IdleSends
<1> HIDE DEF u, v
<1>3. /\ v.state = "TxStart" /\ v.rx_buffer = u.rx_buffer /\ v.tx_buffer = u.tx_buffer /\ u.tx_buffer # <<>>
  BY <1>1, <1>2 DEF OwuartState, IdleSends, u
<1>4. Own(v, 0)
  BY <1>1, <1>3 DEF Own, TxState
<1> QED BY <1>1, <1>3, <1>4 DEF u, v, IdleSends, Own

(* RxStartBit: the first sample is due in half a bit. *)
LEMMA RxStartBitTick ==
  ASSUME TimeInv, NEW n \in Node, RxStartBit(n)
  PROVE  LET u == owuart[n]
             v == owuart'[n] IN
         /\ u.state = "RxStartBit" /\ Own(v, 0) /\ v.state # "Off"
         /\ Keeps(u, v)
<1> DEFINE u == owuart[n]
           v == owuart'[n]
<1>1. /\ u \in OwuartState /\ u.state = "RxStartBit"
      /\ Sends(u) /\ Receives(u) /\ Timed(u, 1) /\ Own(u, 1)
  BY TimeKnown DEF RxStartBit, In
<1>2. v = [u EXCEPT !.timer = HalfBit, !.state = "RxWaitForNextBit"]
  BY DEF TimeInv, UartInv, TypeOK, RxStartBit
<1> HIDE DEF u, v
<1>3. /\ v.state = "RxWaitForNextBit" /\ v.timer = HalfBit /\ v.tx_buffer = u.tx_buffer /\ v.rx_buffer = u.rx_buffer
      /\ v.rx_bits = u.rx_bits
  BY <1>1, <1>2 DEF OwuartState
<1>4. Own(v, 0)
  BY <1>1, <1>3, Spans DEF Own, TxState
<1>5. Expects(v, 0) = Expects(u, 1)
  <2>1. u.rx_bits = <<>> /\ Left(0) \in Nat
    <3>1. 0 \in 0 .. FrameBits
      BY Spans
    <3> QED BY <1>1, <3>1, LeftLast DEF Receives
  <2> QED BY <1>1, <1>3, <2>1, Spans DEF Expects
<1>6. Keeps(u, v)
  BY <1>1, <1>3, <1>5 DEF Keeps, Engaged, Hearing, RxState
<1> QED BY <1>1, <1>3, <1>4, <1>6 DEF u, v

(* RxWaitForNextBit: a sample is due when the timer says so. *)
LEMMA RxWaitForNextBitTick ==
  ASSUME TimeInv, NEW n \in Node, RxWaitForNextBit(n)
  PROVE  LET u == owuart[n]
             v == owuart'[n] IN
         /\ u.state = "RxWaitForNextBit" /\ Own(v, 0) /\ v.state # "Off"
         /\ Keeps(u, v)
<1> DEFINE u == owuart[n]
           v == owuart'[n]
<1>1. /\ u \in OwuartState /\ u.state = "RxWaitForNextBit"
      /\ Sends(u) /\ Receives(u) /\ Timed(u, 1) /\ Own(u, 1)
  BY TimeKnown DEF RxWaitForNextBit, In
<1>2. v = [u EXCEPT !.state = IF u.timer <= 0 THEN "RxBit" ELSE @]
  BY DEF TimeInv, UartInv, TypeOK, RxWaitForNextBit, time_ge
<1> HIDE DEF u, v
<1>3. /\ v.state = IF u.timer <= 0 THEN "RxBit" ELSE "RxWaitForNextBit"
      /\ v.timer = u.timer /\ v.tx_buffer = u.tx_buffer /\ v.rx_buffer = u.rx_buffer /\ v.rx_bits = u.rx_bits
      /\ u.timer \in Int
  BY <1>1, <1>2, Fields DEF OwuartState
<1>4. Own(v, 0)
  BY <1>1, <1>3, Spans DEF Own, TxState
<1>5. Expects(v, 0) = Expects(u, 1)
  BY <1>1, <1>3 DEF Expects
<1>6. v.state = "RxBit" => Expects(u, 1) <= Left(0) + 1 - HalfBit
  <2>1. /\ Left(Len(u.rx_bits)) \in Nat /\ Left(Len(u.rx_bits)) <= Left(0)
        /\ Expects(u, 1) = Left(Len(u.rx_bits)) + u.timer + 1 - HalfBit
    BY <1>1, Expectation
  <2>2. Left(0) \in Nat
    <3>1. 0 \in 0 .. FrameBits
      BY Spans
    <3> QED BY <3>1, LeftLast
  <2> QED BY <1>3, <2>1, <2>2, Spans
<1>7. Keeps(u, v)
  BY <1>1, <1>3, <1>5, <1>6 DEF Keeps, Engaged, Hearing, RxState
<1> QED BY <1>1, <1>3, <1>4, <1>7 DEF u, v

(* RxBit: the next sample is due in a bit. *)
LEMMA RxBitTick ==
  ASSUME TimeInv, NEW n \in Node, RxBit(n)
  PROVE  LET u == owuart[n]
             v == owuart'[n] IN
         /\ u.state = "RxBit" /\ Own(v, 0) /\ v.state # "Off"
         /\ Keeps(u, v)
<1> DEFINE u == owuart[n]
           v == owuart'[n]
<1>1. /\ u \in OwuartState /\ u.state = "RxBit"
      /\ Sends(u) /\ Receives(u) /\ Timed(u, 1) /\ Own(u, 1)
  BY TimeKnown DEF RxBit, In
<1>2. v = [u EXCEPT !.rx_bits = Append(u.rx_bits, Read),
                   !.state = IF Len(Append(u.rx_bits, Read)) >= FrameBits THEN "RxByte" ELSE "RxWaitForNextBit",
                   !.timer = IF Len(Append(u.rx_bits, Read)) >= FrameBits THEN @ ELSE @ + FullBit]
  BY DEF TimeInv, UartInv, TypeOK, RxBit
<1> HIDE DEF u, v
<1>3. /\ v.rx_bits = Append(u.rx_bits, Read) /\ v.rx_buffer = u.rx_buffer /\ v.tx_buffer = u.tx_buffer
      /\ v.state = IF Len(v.rx_bits) >= FrameBits THEN "RxByte" ELSE "RxWaitForNextBit"
      /\ v.timer = IF Len(v.rx_bits) >= FrameBits THEN u.timer ELSE u.timer + FullBit
  BY <1>1, <1>2 DEF OwuartState
<1>a. /\ u.rx_bits \in Seq(Bit) /\ u.timer \in Int /\ Len(u.rx_bits) \in 0 .. FrameBits - 1
      /\ Len(v.rx_bits) = Len(u.rx_bits) + 1
  <2>1. u.rx_bits \in Seq(Bit) /\ Read \in Bit
    BY <1>1, Fields, ReadOf DEF Bit
  <2>2. Len(v.rx_bits) = Len(u.rx_bits) + 1
    BY <1>3, <2>1
  <2> QED BY <1>1, <2>1, <2>2, Fields, Expectation
<1>4. Own(v, 0)
  BY <1>1, <1>3, <1>a, Spans DEF Own, TxState
<1>5. Expects(v, 0) = Expects(u, 1)
  <2>1. Expects(u, 1) = Left(Len(u.rx_bits)) + u.timer + 1 - HalfBit
    BY <1>1, Expectation
  <2>2. CASE Len(v.rx_bits) >= FrameBits
    <3>1. Len(u.rx_bits) = FrameBits - 1 /\ u.timer = -1
      BY <1>1, <1>a, <2>2, Spans DEF Own
    <3>2. Left(Len(u.rx_bits)) = 2 * FullBit
      BY <3>1, <1>a, LeftLast, Spans
    <3> QED BY <1>3, <2>1, <2>2, <3>1, <3>2, Spans DEF Expects
  <2>3. CASE ~(Len(v.rx_bits) >= FrameBits)
    <3>1. Left(Len(u.rx_bits)) = Left(Len(v.rx_bits)) + FullBit /\ Left(Len(v.rx_bits)) \in Nat
      <4>1. /\ Len(u.rx_bits) \in 0 .. FrameBits /\ Len(v.rx_bits) \in 0 .. FrameBits
            /\ Len(u.rx_bits) # FrameBits
        BY <1>a, Spans
      <4> QED BY <1>a, <4>1, LeftFacts
    <3> QED BY <1>3, <1>a, <2>1, <2>3, <3>1, Spans DEF Expects
  <2> QED BY <2>2, <2>3
<1>6. Keeps(u, v)
  BY <1>1, <1>3, <1>5 DEF Keeps, Engaged, Hearing, RxState
<1> QED BY <1>1, <1>3, <1>4, <1>6 DEF u, v

(* RxByte: the gap begins. *)
LEMMA RxByteTick ==
  ASSUME TimeInv, NEW n \in Node, RxByte(n)
  PROVE  LET u == owuart[n]
             v == owuart'[n] IN
         /\ u.state = "RxByte" /\ Own(v, 0) /\ v.state # "Off"
         /\ Keeps(u, v)
<1> DEFINE u == owuart[n]
           v == owuart'[n]
<1>1. /\ u \in OwuartState /\ u.state = "RxByte"
      /\ Sends(u) /\ Receives(u) /\ Timed(u, 1) /\ Own(u, 1)
  BY TimeKnown DEF RxByte, In
<1>2. v = [u EXCEPT !.rx_buffer = v.rx_buffer, !.rx_bits = <<>>, !.state = "StartHoldOff"]
  BY DEF TimeInv, UartInv, TypeOK, RxByte
<1> HIDE DEF u, v
<1>3. /\ v.state = "StartHoldOff" /\ v.tx_buffer = u.tx_buffer
  BY <1>1, <1>2 DEF OwuartState
<1>4. Own(v, 0)
  BY <1>1, <1>3 DEF Own, TxState
<1>5. Expects(v, 0) = Expects(u, 1)
  BY <1>1, <1>3 DEF Expects
<1>6. Keeps(u, v)
  BY <1>1, <1>3, <1>5 DEF Keeps, Engaged, Hearing, RxState
<1> QED BY <1>1, <1>3, <1>4, <1>6 DEF u, v

(* TxStart: the first start bit goes out. *)
LEMMA TxStartTick ==
  ASSUME TimeInv, NEW n \in Node, TxStart(n)
  PROVE  LET u == owuart[n]
             v == owuart'[n] IN
         /\ u.state = "TxStart" /\ Own(v, 0) /\ v.state # "Off"
         /\ v.state = "TxWaitForHalfBit" /\ v.tx_byte = 0 /\ v.tx_pos = 0 /\ v.timer = HalfBit
         /\ v.tx_buffer = u.tx_buffer
<1> DEFINE u == owuart[n]
           v == owuart'[n]
<1>1. /\ u \in OwuartState /\ u.state = "TxStart"
      /\ Sends(u) /\ Receives(u) /\ Timed(u, 1) /\ Own(u, 1)
  BY TimeKnown DEF TxStart, In
<1>2. v = [u EXCEPT !.tx_byte = 0, !.tx_pos = 0, !.timer = 0 + HalfBit, !.out = START_BIT_VALUE,
                   !.tx_sent = START_BIT_VALUE, !.state = "TxWaitForHalfBit"]
  BY DEF TimeInv, UartInv, TypeOK, TxStart, SendBit
<1> HIDE DEF u, v
<1>3. /\ v.state = "TxWaitForHalfBit" /\ v.tx_byte = 0 /\ v.tx_pos = 0 /\ v.timer = HalfBit
      /\ v.tx_buffer = u.tx_buffer /\ v.rx_buffer = u.rx_buffer
  BY <1>1, <1>2, Spans DEF OwuartState
<1>4. Own(v, 0)
  BY <1>1, <1>3 DEF Own, TxState
<1> QED BY <1>1, <1>3, <1>4 DEF u, v

(* TxBit: the next bit goes out. *)
LEMMA TxBitTick ==
  ASSUME TimeInv, NEW n \in Node, TxBit(n)
  PROVE  LET u == owuart[n]
             v == owuart'[n] IN
         /\ u.state = "TxBit" /\ Own(v, 0) /\ v.state # "Off"
         /\ \/ u.tx_pos # 0 /\ Continues(u, v)
            \/ /\ u.tx_pos = 0 /\ v.state = "TxWaitForHalfBit" /\ v.tx_byte = u.tx_byte
               /\ v.tx_pos = u.tx_pos /\ v.timer = u.timer + HalfBit /\ v.tx_buffer = u.tx_buffer
<1> DEFINE u == owuart[n]
           v == owuart'[n]
<1>1. /\ u \in OwuartState /\ u.state = "TxBit"
      /\ Sends(u) /\ Receives(u) /\ Timed(u, 1) /\ Own(u, 1)
  BY TimeKnown DEF TxBit, In
<1>2. v = [u EXCEPT !.out = v.out, !.tx_sent = v.out, !.timer = @ + HalfBit, !.state = "TxWaitForHalfBit"]
  BY DEF TimeInv, UartInv, TypeOK, TxBit, SendBit
<1> HIDE DEF u, v
<1>3. /\ v.state = "TxWaitForHalfBit" /\ v.tx_byte = u.tx_byte /\ v.tx_pos = u.tx_pos /\ v.timer = u.timer + HalfBit
      /\ v.tx_buffer = u.tx_buffer /\ v.rx_buffer = u.rx_buffer /\ u.timer \in Int
  BY <1>1, <1>2, Fields DEF OwuartState
<1>4. Own(v, 0)
  BY <1>1, <1>3 DEF Own, TxState
<1>5. u.tx_pos # 0 => Continues(u, v)
  <2>1. Phase(v) = Phase(u)
    BY <1>1, <1>3, Spans DEF Phase
  <2> QED BY <1>1, <1>3, <2>1 DEF Continues, Sending, TxState, Driving, Remaining, Number, Between, Ends
<1> QED BY <1>1, <1>3, <1>4, <1>5 DEF u, v

(* TxWaitForHalfBit: the bit is on the line. *)
LEMMA TxWaitForHalfBitTick ==
  ASSUME TimeInv, NEW n \in Node, TxWaitForHalfBit(n)
  PROVE  LET u == owuart[n]
             v == owuart'[n] IN
         /\ u.state = "TxWaitForHalfBit" /\ Own(v, 0) /\ v.state # "Off"
         /\ Continues(u, v)
<1> DEFINE u == owuart[n]
           v == owuart'[n]
<1>1. /\ u \in OwuartState /\ u.state = "TxWaitForHalfBit"
      /\ Sends(u) /\ Receives(u) /\ Timed(u, 1) /\ Own(u, 1)
  BY TimeKnown DEF TxWaitForHalfBit, In
<1>2. v = [u EXCEPT !.state = IF u.timer <= 0 THEN "TxMonitorBit" ELSE @]
  BY DEF TimeInv, UartInv, TypeOK, TxWaitForHalfBit, time_ge
<1> HIDE DEF u, v
<1>3. /\ v.state = (IF u.timer <= 0 THEN "TxMonitorBit" ELSE "TxWaitForHalfBit") /\ v.tx_byte = u.tx_byte /\ v.tx_pos = u.tx_pos
      /\ v.timer = u.timer /\ v.tx_buffer = u.tx_buffer /\ v.rx_buffer = u.rx_buffer
  BY <1>1, <1>2 DEF OwuartState
<1>4. Own(v, 0)
  BY <1>1, <1>3 DEF Own, TxState
<1>5. Phase(v) = Phase(u)
  BY <1>1, <1>3, Spans DEF Phase
<1>6. Continues(u, v)
  BY <1>1, <1>3, <1>5 DEF Continues, Sending, TxState, Driving, Remaining, Number, Between, Ends
<1> QED BY <1>1, <1>4, <1>6 DEF u, v, Continues, Sending, TxState

(* TxWaitForFullBit: the bit is held to its end. *)
LEMMA TxWaitForFullBitTick ==
  ASSUME TimeInv, NEW n \in Node, TxWaitForFullBit(n)
  PROVE  LET u == owuart[n]
             v == owuart'[n] IN
         /\ u.state = "TxWaitForFullBit" /\ Own(v, 0) /\ v.state # "Off"
         /\ Continues(u, v)
<1> DEFINE u == owuart[n]
           v == owuart'[n]
<1>1. /\ u \in OwuartState /\ u.state = "TxWaitForFullBit"
      /\ Sends(u) /\ Receives(u) /\ Timed(u, 1) /\ Own(u, 1)
  BY TimeKnown DEF TxWaitForFullBit, In
<1>2. v = [u EXCEPT !.state = IF u.timer <= 0 THEN "TxNextBit" ELSE @]
  BY DEF TimeInv, UartInv, TypeOK, TxWaitForFullBit, time_ge
<1> HIDE DEF u, v
<1>3. /\ v.state = (IF u.timer <= 0 THEN "TxNextBit" ELSE "TxWaitForFullBit") /\ v.tx_byte = u.tx_byte /\ v.tx_pos = u.tx_pos
      /\ v.timer = u.timer /\ v.tx_buffer = u.tx_buffer /\ v.rx_buffer = u.rx_buffer
  BY <1>1, <1>2 DEF OwuartState
<1>4. Own(v, 0)
  BY <1>1, <1>3 DEF Own, TxState
<1>5. Phase(v) = Phase(u)
  BY <1>1, <1>3, Spans DEF Phase
<1>6. Continues(u, v)
  BY <1>1, <1>3, <1>5 DEF Continues, Sending, TxState, Driving, Remaining, Number, Between, Ends
<1> QED BY <1>1, <1>4, <1>6 DEF u, v, Continues, Sending, TxState

(* TxMonitorBit: the bit is read back. *)
LEMMA TxMonitorBitTick ==
  ASSUME TimeInv, NEW n \in Node, TxMonitorBit(n)
  PROVE  LET u == owuart[n]
             v == owuart'[n] IN
         /\ u.state = "TxMonitorBit" /\ Own(v, 0) /\ v.state # "Off"
         /\ Continues(u, v)
<1> DEFINE u == owuart[n]
           v == owuart'[n]
<1>1. /\ u \in OwuartState /\ u.state = "TxMonitorBit"
      /\ Sends(u) /\ Receives(u) /\ Timed(u, 1) /\ Own(u, 1)
  BY TimeKnown DEF TxMonitorBit, In
<1>2. v = [u EXCEPT !.timer = @ + HalfBit, !.state = v.state]
  BY DEF TimeInv, UartInv, TypeOK, TxMonitorBit
<1>b. v.state \in {"TxWaitForFullBit", "TxArbitrated"}
  BY <1>1 DEF TimeInv, UartInv, TypeOK, TxMonitorBit, OwuartState
<1> HIDE DEF u, v
<1>3. /\ v.state \in {"TxWaitForFullBit", "TxArbitrated"} /\ v.tx_byte = u.tx_byte /\ v.tx_pos = u.tx_pos
      /\ v.timer = u.timer + HalfBit /\ v.tx_buffer = u.tx_buffer /\ v.rx_buffer = u.rx_buffer /\ u.timer \in Int
  BY <1>1, <1>2, <1>b, Fields DEF OwuartState
<1>4. Own(v, 0)
  BY <1>1, <1>3 DEF Own, TxState
<1>5. Phase(v) = Phase(u)
  BY <1>1, <1>3, Spans DEF Phase
<1>6. Continues(u, v)
  BY <1>1, <1>3, <1>5 DEF Continues, Sending, TxState, Driving, Remaining, Number, Between, Ends
<1> QED BY <1>1, <1>4, <1>6 DEF u, v, Continues, Sending, TxState

(* TxNextBit: the next bit, of this byte or of the next one, or the end. *)
LEMMA TxNextBitTick ==
  ASSUME TimeInv, NEW n \in Node, TxNextBit(n)
  PROVE  LET u == owuart[n]
             v == owuart'[n] IN
         /\ u.state = "TxNextBit" /\ Own(v, 0) /\ v.state # "Off"
         /\ Continues(u, v)
<1> DEFINE u == owuart[n]
           v == owuart'[n]
<1>1. /\ u \in OwuartState /\ u.state = "TxNextBit"
      /\ Sends(u) /\ Receives(u) /\ Timed(u, 1) /\ Own(u, 1)
  BY TimeKnown DEF TxNextBit, In
<1>2. v = [u EXCEPT !.tx_pos = IF u.tx_pos + 1 = FrameBits + 1 THEN 0 ELSE @ + 1,
                   !.tx_byte = IF u.tx_pos + 1 = FrameBits + 1 THEN u.tx_byte + 1 ELSE u.tx_byte,
                   !.state = IF (IF u.tx_pos + 1 = FrameBits + 1 THEN u.tx_byte + 1 ELSE u.tx_byte) >= Len(u.tx_buffer)
                             THEN "TxCompleted" ELSE "TxBit"]
  BY DEF TimeInv, UartInv, TypeOK, TxNextBit
<1> HIDE DEF u, v
<1>3. /\ v.tx_pos = IF u.tx_pos + 1 = FrameBits + 1 THEN 0 ELSE u.tx_pos + 1
      /\ v.tx_byte = IF u.tx_pos + 1 = FrameBits + 1 THEN u.tx_byte + 1 ELSE u.tx_byte
      /\ v.state = IF v.tx_byte >= Len(u.tx_buffer) THEN "TxCompleted" ELSE "TxBit"
      /\ v.timer = u.timer /\ v.out = u.out /\ v.tx_buffer = u.tx_buffer /\ v.rx_buffer = u.rx_buffer
  BY <1>1, <1>2 DEF OwuartState
<1>a. /\ u.tx_pos \in 0 .. FrameBits /\ u.tx_byte \in Nat /\ u.tx_buffer \in Seq(Byte) /\ u.timer \in Int
      /\ u.tx_byte < Len(u.tx_buffer) /\ u.tx_buffer[u.tx_byte + 1] \in Byte /\ FrameBits \in Nat
      /\ u.out = Frame(u.tx_buffer[u.tx_byte + 1])[u.tx_pos + 1] /\ u.state \in Driving
  BY <1>1, Fields, Spans DEF Sends, CurrentBit, Driving, Sending, TxState
<1>b. CASE u.tx_pos = FrameBits
  <2>1. v.tx_pos = 0 /\ v.tx_byte = u.tx_byte + 1 /\ v.out = 0
    BY <1>3, <1>a, <1>b, FrameIs
  <2>2. v.state \in {"TxBit", "TxCompleted"} /\ (v.state = "TxCompleted" <=> u.tx_byte + 1 = Len(u.tx_buffer))
    BY <1>3, <1>a, <2>1
  <2>3. Own(v, 0)
    BY <1>1, <1>3, <1>a, <2>1, <2>2 DEF Own, TxState
  <2>4. /\ Phase(u) = FullBit + 1 /\ Phase(v) = 1 /\ Remaining(u) = -1 /\ Remaining(v) = -1
    <3>1. u.timer = -1 /\ u.tx_pos # 0 /\ Left(u.tx_pos) = FullBit
      BY <1>1, <1>a, <1>b, LeftLast, Spans DEF Timed
    <3>2. v.timer = -1
      BY <1>3, <3>1
    <3>3. Phase(u) = FullBit + 1 /\ Phase(v) = 1
      BY <1>1, <2>2, <3>1, <3>2, Spans DEF Phase
    <3> QED BY <2>1, <2>2, <3>1, <3>3, Spans DEF Remaining, Driving
  <2>5. Number(v) = Number(u) /\ (Ends(u) => Ends(v))
    BY <1>1, <1>a, <1>b, <2>1, <2>2, Spans DEF Number, Between, Ends, Driving
  <2>6. Continues(u, v)
    BY <1>1, <1>3, <1>b, <2>1, <2>2, <2>4, <2>5, Spans DEF Continues, Sending, TxState, Ends
  <2> QED BY <1>1, <2>2, <2>3, <2>6 DEF u, v
<1>c. CASE u.tx_pos # FrameBits
  <2>1. v.tx_pos = u.tx_pos + 1 /\ v.tx_pos # 0 /\ v.tx_byte = u.tx_byte /\ v.state = "TxBit"
    BY <1>3, <1>a, <1>c
  <2>2. Own(v, 0)
    BY <1>1, <1>3, <1>a, <2>1 DEF Own, TxState
  <2>3. /\ Phase(u) = FullBit + 1 /\ Phase(v) = 1
    <3>1. u.timer = -1
      BY <1>1 DEF Timed
    <3>2. v.timer = -1
      BY <1>3, <3>1
    <3> QED BY <1>1, <2>1, <3>1, <3>2, Spans DEF Phase
  <2>4. Remaining(v) = Remaining(u)
    <3>1. Left(u.tx_pos) = Left(u.tx_pos + 1) + FullBit
      BY <1>a, <1>c, LeftFacts
    <3>2. u.tx_pos + 1 \in 0 .. FrameBits
      BY <1>a, <1>c
    <3>3. Left(u.tx_pos + 1) \in Nat
      BY <3>2, LeftFacts
    <3>4. Remaining(u) = Left(u.tx_pos) - Phase(u) /\ Remaining(v) = Left(v.tx_pos) - Phase(v)
      BY <1>a, <2>1 DEF Remaining
    <3> QED BY <2>1, <2>3, <3>1, <3>3, <3>4, Spans
  <2>5. Number(v) = Number(u) /\ ~Ends(u)
    BY <1>1, <1>a, <1>c, <2>1 DEF Number, Between, Ends
  <2>6. Continues(u, v)
    BY <1>1, <1>3, <1>c, <2>1, <2>3, <2>4, <2>5, Spans DEF Continues, Sending, TxState
  <2> QED BY <1>1, <2>1, <2>2, <2>6 DEF u, v
<1> QED BY <1>b, <1>c

(* TxArbitrated: no stop bit is lost at. *)
LEMMA TxArbitratedTick ==
  ASSUME TimeInv, NEW n \in Node, TxArbitrated(n)
  PROVE  LET u == owuart[n]
             v == owuart'[n] IN
         /\ u.state = "TxArbitrated" /\ Own(v, 0) /\ v.state # "Off"
         /\ u.tx_pos <= FrameBits - 2 /\ v.state = "RxBit" /\ Len(v.rx_bits) = u.tx_pos
         /\ v.timer = u.timer /\ v.tx_buffer = u.tx_buffer
<1> DEFINE u == owuart[n]
           v == owuart'[n]
<1>1. /\ u \in OwuartState /\ u.state = "TxArbitrated"
      /\ Sends(u) /\ Receives(u) /\ Timed(u, 1) /\ Own(u, 1)
  BY TimeKnown DEF TxArbitrated, In
<1>2. v = [u EXCEPT !.out = 0, !.rx_buffer = SubSeq(u.tx_buffer, 1, u.tx_byte),
                   !.rx_bits = SubSeq(Frame(u.tx_buffer[u.tx_byte + 1]), 1, u.tx_pos),
                   !.tx_byte = 0, !.tx_pos = 0, !.state = "RxBit"]
  BY DEF TimeInv, UartInv, TypeOK, TxArbitrated
<1> HIDE DEF u, v
<1>3. /\ v.state = "RxBit" /\ v.rx_bits = SubSeq(Frame(u.tx_buffer[u.tx_byte + 1]), 1, u.tx_pos)
      /\ v.timer = u.timer /\ v.tx_buffer = u.tx_buffer
  BY <1>1, <1>2 DEF OwuartState
<1>a. /\ u.tx_pos \in 0 .. FrameBits /\ u.tx_byte \in Nat /\ u.tx_buffer \in Seq(Byte)
      /\ u.tx_byte < Len(u.tx_buffer) /\ u.tx_buffer[u.tx_byte + 1] \in Byte /\ u.timer = HalfBit - 2
  <2>1. u.tx_byte < Len(u.tx_buffer) /\ u.timer = HalfBit - 1 - 1
    BY <1>1 DEF Sends, Driving, Sending, TxState, Timed
  <2> QED BY <1>1, <2>1, Fields, Spans
<1>b. u.tx_pos <= FrameBits - 2
  <2>1. PICK m \in Node \ {n} : Above(owuart[m], u)
    BY <1>1 DEF TimeInv, UartInv, AboveInv, u
  <2> DEFINE w == owuart[m]
  <2>2. /\ w \in OwuartState /\ w.out = 1 /\ Sends(w) /\ w.state \in Driving
        /\ w.tx_pos = u.tx_pos /\ w.tx_byte = u.tx_byte
    <3>1. n \notin ticked
      BY DEF TxArbitrated, In
    <3> QED BY <2>1, <3>1, TimeKnown DEF Above, SamePlace, Driving, Sending, TxState
  <2>3. w.tx_byte < Len(w.tx_buffer) /\ CurrentBit(w) = 1
    BY <2>2 DEF Sends
  <2>4. w.tx_buffer[w.tx_byte + 1] \in Byte
    <3>1. w.tx_buffer \in Seq(Byte) /\ w.tx_byte \in Nat
      BY <2>2, Fields
    <3> QED BY <2>3, <3>1
  <2>5. w.tx_pos # FrameBits /\ w.tx_pos # FrameBits - 1
    BY <2>3, <2>4, FrameIs, Spans DEF CurrentBit
  <2>6. u.tx_pos # FrameBits /\ u.tx_pos # FrameBits - 1
    BY <2>2, <2>5
  <2>7. u.tx_pos \in 0 .. FrameBits /\ FrameBits \in Nat
    BY <1>a, Spans
  <2> HIDE DEF w
  <2> QED BY <2>6, <2>7
<1>c. Len(v.rx_bits) = u.tx_pos
  <2> DEFINE f == Frame(u.tx_buffer[u.tx_byte + 1])
  <2>1. f \in Seq(Bit) /\ Len(f) = FrameBits + 1
    BY <1>a, FrameIs
  <2>2. v.rx_bits = SubSeq(f, 1, u.tx_pos)
    BY <1>3
  <2> HIDE DEF f
  <2> QED BY <1>a, <2>1, <2>2, Spans
<1>4. Own(v, 0)
  BY <1>1, <1>3, <1>a, <1>b, <1>c, Spans DEF Own, TxState, Listens
<1> QED BY <1>1, <1>3, <1>4, <1>b, <1>c DEF u, v

(* TxCompleted: the line is released. *)
LEMMA TxCompletedTick ==
  ASSUME TimeInv, NEW n \in Node, TxCompleted(n)
  PROVE  LET u == owuart[n]
             v == owuart'[n] IN
         /\ u.state = "TxCompleted" /\ Own(v, 0) /\ v.state # "Off"
         /\ v.state = "StartHoldOff" /\ v.tx_buffer = <<>> /\ v.rx_buffer = u.rx_buffer
<1> DEFINE u == owuart[n]
           v == owuart'[n]
<1>1. /\ u \in OwuartState /\ u.state = "TxCompleted"
      /\ Sends(u) /\ Receives(u) /\ Timed(u, 1) /\ Own(u, 1)
  BY TimeKnown DEF TxCompleted, In
<1>2. v = [u EXCEPT !.out = 0, !.tx_buffer = <<>>, !.state = "StartHoldOff"]
  BY DEF TimeInv, UartInv, TypeOK, TxCompleted
<1> HIDE DEF u, v
<1>3. /\ v.state = "StartHoldOff" /\ v.tx_buffer = <<>> /\ v.rx_buffer = u.rx_buffer
  BY <1>1, <1>2 DEF OwuartState
<1>4. Own(v, 0)
  BY <1>1, <1>3 DEF Own, TxState
<1> QED BY <1>1, <1>3, <1>4 DEF u, v

(* Idle with nothing to send: what the host wrote is taken. *)
LEMMA IdleReceivesTick ==
  ASSUME TimeInv, NEW n \in Node, IdleReceives(n)
  PROVE  LET u == owuart[n]
             v == owuart'[n] IN
         /\ u.state = "Idle" /\ Own(v, 0) /\ v.state # "Off"
         /\ Read = 0 /\ v.state = "Idle" /\ v.rx_buffer = <<>>
<1> DEFINE u == owuart[n]
           v == owuart'[n]
           msg == Head(inbox[n])
<1>1. u \in OwuartState /\ u.state = "Idle" /\ Own(u, 1) /\ Read = 0
  BY TimeKnown DEF IdleReceives, In
<1>2. /\ inbox[n] \in Seq({Aux} \cup Seq(Byte))
      /\ \A k \in DOMAIN inbox[n] : inbox[n][k] \in Writes[n]
  BY DEF TimeInv, UartInv, TypeOK, OwnInv
<1>3. inbox[n] # <<>> => msg \in Writes[n] /\ msg \in {Aux} \cup Seq(Byte)
  BY <1>2
<1>4. v = u \/ (/\ v = [u EXCEPT !.tx_buffer = msg]
                /\ inbox[n] # <<>> /\ msg # Aux /\ ~(Len(msg) > MaxMsg))
  BY DEF TimeInv, UartInv, TypeOK, IdleReceives
<1> HIDE DEF u, v, msg
<1>5. v.tx_buffer \in Messages \cup {<<>>}
  <2>1. CASE v = u
    BY <1>1, <2>1 DEF Own
  <2>2. CASE v # u
    <3>1. msg \in Writes[n] /\ msg \in Seq(Byte) /\ ~(Len(msg) > MaxMsg) /\ v.tx_buffer = msg /\ msg # Aux
      BY <1>1, <1>3, <1>4, <2>2 DEF OwuartState
    <3>2. Len(msg) <= MaxMsg
      BY <3>1, OwUartAssumption
    <3> QED BY <3>1, <3>2 DEF Messages
  <2> QED BY <2>1, <2>2
<1>6. v.state = "Idle" /\ v.rx_buffer = u.rx_buffer /\ u.rx_buffer = <<>>
  BY <1>1, <1>4 DEF OwuartState, Own
<1>7. Own(v, 0)
  BY <1>5, <1>6 DEF Own, TxState
<1> QED BY <1>1, <1>6, <1>7 DEF u, v

-----------------------------------------------------------------------------
(* The steps *)

(* What is in the inboxes was written by the hosts. *)
LEMMA InboxTick ==
  ASSUME TimeInv, NEW n \in Node, process_tick(n)
  PROVE  \A m \in Node : \A k \in DOMAIN inbox'[m] : inbox'[m][k] \in Writes[m]
<1>1. /\ inbox \in [Node -> Seq({Aux} \cup Seq(Byte))]
      /\ \A m \in Node : \A k \in DOMAIN inbox[m] : inbox[m][k] \in Writes[m]
  BY DEF TimeInv, UartInv, TypeOK, OwnInv
<1>2. inbox' = inbox \/ (inbox[n] # <<>> /\ inbox' = [inbox EXCEPT ![n] = Tail(inbox[n])])
  <2>1. CASE IdleReceives(n)
    BY <2>1 DEF IdleReceives
  <2>2. CASE ~IdleReceives(n)
    BY <2>2 DEF process_tick, Silent, hosts, StartHoldOff, HoldOff, EndOfMessage, IdleHears, IdleSends,
     TxStart, TxBit, TxWaitForHalfBit, TxMonitorBit, TxWaitForFullBit, TxNextBit, TxArbitrated,
     TxCompleted, RxStartBit, RxWaitForNextBit, RxBit, RxByte
  <2> QED BY <2>1, <2>2
<1>3. ASSUME inbox[n] # <<>>
      PROVE  \A k \in DOMAIN Tail(inbox[n]) : Tail(inbox[n])[k] \in Writes[n]
  <2>1. inbox[n] \in Seq({Aux} \cup Seq(Byte))
    BY <1>1
  <2>2. \A k \in DOMAIN Tail(inbox[n]) : k + 1 \in DOMAIN inbox[n] /\ Tail(inbox[n])[k] = inbox[n][k + 1]
    BY <1>3, <2>1
  <2> QED BY <1>1, <2>2
<1> QED BY <1>1, <1>2, <1>3

(* A tick of n: what it must satisfy, alone and with the others, for the *)
(* invariant to hold again.                                               *)
LEMMA TimePreserves ==
  ASSUME TimeInv, UartInv', NEW n \in Node, process_tick(n),
         Own(owuart'[n], 0), owuart'[n].state # "Off",
         \A m \in Node \ {n} :
           Chases(owuart'[n], 0, owuart[m], Last(m)) /\ Chases(owuart[m], Last(m), owuart'[n], 0),
         \A m, k \in Node \ {n} : Sync(owuart'[n], owuart[m], Last(m), owuart[k], Last(k)),
         \A m \in Node \ {n} : \A k \in Node \ {m, n} :
           /\ Sync(owuart[m], owuart'[n], 0, owuart[k], Last(k))
           /\ Sync(owuart[m], owuart[k], Last(k), owuart'[n], 0),
         Quiet' =>
           /\ owuart'[n].state \notin RxState
           /\ \A m \in Node \ {n} :
                /\ owuart[m].state \notin RxState
                /\ Gap(owuart'[n], 0, owuart[m], Last(m)) /\ Gap(owuart[m], Last(m), owuart'[n], 0)
                /\ \A k \in Node \ {m, n} : Gap(owuart[m], Last(m), owuart[k], Last(k))
  PROVE  TimeInv'
<1>1. /\ dark' = dark /\ Last(n)' = 0
      /\ \A m \in Node \ {n} : owuart'[m] = owuart[m] /\ Last(m)' = Last(m)
  BY TickFrame DEF TimeInv, UartInv
<1>2. OwnInv'
  <2>1. \A m \in Node : Own(owuart'[m], Last(m)')
    BY <1>1 DEF TimeInv, OwnInv
  <2>2. \A m \in Node : owuart'[m].state = "Off" => m \in dark'
    BY <1>1 DEF TimeInv, OwnInv
  <2> QED BY <2>1, <2>2, InboxTick DEF OwnInv
<1>3. ChaseInv'
  <2>1. ASSUME NEW k \in Node, NEW m \in Node \ {k}
        PROVE  Chases(owuart'[k], Last(k)', owuart'[m], Last(m)')
    BY <1>1 DEF TimeInv, ChaseInv
  <2> QED BY <2>1 DEF ChaseInv
<1>4. SyncInv'
  <2>1. ASSUME NEW s \in Node, NEW m \in Node \ {s}, NEW k \in Node \ {s}
        PROVE  Sync(owuart'[s], owuart'[m], Last(m)', owuart'[k], Last(k)')
    <3>1. CASE s # n /\ m = n /\ k = n
      <4>1. owuart'[n] \in OwuartState /\ Receives(owuart'[n])
        BY DEF UartInv, TypeOK, LocalInv
      <4>2. Expects(owuart'[n], 0) \in Int
        BY <4>1, Expectation
      <4> QED BY <1>1, <3>1, <4>2 DEF Sync
    <3>2. CASE s = n
      BY <1>1, <3>2
    <3>3. CASE s # n /\ m = n /\ k # n
      BY <1>1, <3>3
    <3>4. CASE s # n /\ m # n /\ k = n
      BY <1>1, <3>4
    <3>5. CASE s # n /\ m # n /\ k # n
      BY <1>1, <3>5 DEF TimeInv, SyncInv
    <3> QED BY <3>1, <3>2, <3>3, <3>4, <3>5
  <2> QED BY <2>1 DEF SyncInv
<1>5. QuietInv'
  <2>1. SUFFICES ASSUME Quiet' PROVE /\ \A m \in Node : owuart'[m].state \notin RxState
                                     /\ \A k \in Node : \A m \in Node \ {k} :
                                          Gap(owuart'[k], Last(k)', owuart'[m], Last(m)')
    BY DEF QuietInv
  <2>2. \A m \in Node : owuart'[m].state \notin RxState
    BY <1>1, <2>1
  <2>3. ASSUME NEW k \in Node, NEW m \in Node \ {k}
        PROVE  Gap(owuart'[k], Last(k)', owuart'[m], Last(m)')
    BY <1>1, <2>1
  <2> QED BY <2>2, <2>3
<1> QED BY <1>2, <1>3, <1>4, <1>5 DEF TimeInv

(* Who is not engaged has heard nothing, and who does not send is not heard. *)
LEMMA SyncIdle ==
  /\ \A u, v, lv, w, l : u.state \notin Sending => Sync(u, v, lv, w, l)
  /\ \A u, v, lv, w, l : v.state \notin Engaged \/ w.state \notin Engaged => Sync(u, v, lv, w, l)
BY DEF Sync, Heard

(* After a tick of a node that was not sending, nobody sends only if nobody did. *)
LEMMA QuietBefore ==
  ASSUME TimeInv, NEW n \in Node, process_tick(n), owuart[n].state \notin Sending, Quiet'
  PROVE  /\ Quiet
         /\ \A m \in Node : owuart[m].state \notin RxState
         /\ \A m \in Node \ {n} :
              /\ Gap(owuart[n], 1, owuart[m], Last(m)) /\ Gap(owuart[m], Last(m), owuart[n], 1)
              /\ \A k \in Node \ {m, n} : Gap(owuart[m], Last(m), owuart[k], Last(k))
<1>1. /\ Last(n) = 1 /\ \A m \in Node \ {n} : owuart'[m] = owuart[m]
  BY TickFrame DEF TimeInv, UartInv
<1>2. Quiet
  BY <1>1 DEF Quiet
<1> QED BY <1>1, <1>2 DEF TimeInv, QuietInv

(* ... when it keeps its estimate. *)
LEMMA KeepsStep ==
  ASSUME TimeInv, UartInv', NEW n \in Node, process_tick(n),
         Own(owuart'[n], 0), Keeps(owuart[n], owuart'[n]), owuart[n].state = "HoldOff" => Read # 1
  PROVE  TimeInv'
<1> DEFINE u == owuart[n]
           v == owuart'[n]
<1>0. n \notin ticked
  BY TickFrame DEF TimeInv, UartInv
<1>k. Keeps(u, v)
  OBVIOUS
<1>1. v \in OwuartState /\ u \in OwuartState /\ Receives(u) /\ Receives(v)
  BY <1>0, TimeKnown DEF UartInv, TypeOK, LocalInv
<1>2. /\ v.state \in Engaged /\ v.state \notin Sending /\ v.state # "Off"
      /\ u.state \in Engaged /\ u.state \notin Sending
  BY DEF Keeps, Engaged, RxState, Sending, TxState
<1>3. u.state = "HoldOff" => \A m \in Node : owuart[m].out = 0
  BY ReadOf DEF TimeInv, UartInv
<1>4. \A m \in Node \ {n} : Chases(v, 0, owuart[m], Last(m)) /\ Chases(owuart[m], Last(m), v, 0)
  <2>1. TAKE m \in Node \ {n}
  <2> DEFINE w == owuart[m]
  <2>2. /\ w \in OwuartState /\ Last(m) \in {0, 1} /\ Sends(w) /\ Timed(w, Last(m)) /\ Own(w, Last(m))
        /\ Chases(u, 1, w, Last(m)) /\ Chases(w, Last(m), u, 1)
    BY <1>0, TimeKnown
  <2>3. u.state = "HoldOff" => w.out = 0
    BY <1>3
  <2> HIDE DEF u, v, w
  <2>4. Chases(v, 0, w, Last(m)) /\ Chases(w, Last(m), v, 0)
    BY <1>1, <1>k, <2>2, <2>3, KeepsChase
  <2> QED BY <2>4 DEF w
<1>5. \A m \in Node \ {n} : Heard(owuart[m], v, 0) <=> Heard(owuart[m], u, 1)
  BY <1>2 DEF Heard, Lag, Keeps, Listens
<1>6. \A m \in Node \ {n} : \A k \in Node \ {m, n} :
        /\ Sync(owuart[m], v, 0, owuart[k], Last(k))
        /\ Sync(owuart[m], owuart[k], Last(k), v, 0)
  <2>1. Expects(v, 0) = Expects(u, 1) /\ (Listens(v) <=> Listens(u))
    BY DEF Keeps, Listens
  <2>2. \A m \in Node \ {n} : \A k \in Node \ {m, n} :
        /\ Sync(owuart[m], u, 1, owuart[k], Last(k))
        /\ Sync(owuart[m], owuart[k], Last(k), u, 1)
    BY <1>0, TimeKnown DEF TimeInv, SyncInv
  <2> HIDE DEF u, v
  <2> QED BY <1>5, <2>1, <2>2 DEF Sync
<1>7. ASSUME Quiet'
      PROVE  /\ v.state \notin RxState
             /\ \A m \in Node \ {n} :
                  /\ owuart[m].state \notin RxState
                  /\ Gap(v, 0, owuart[m], Last(m)) /\ Gap(owuart[m], Last(m), v, 0)
                  /\ \A k \in Node \ {m, n} : Gap(owuart[m], Last(m), owuart[k], Last(k))
  <2>1. /\ u.state \notin RxState
        /\ \A m \in Node \ {n} :
              /\ owuart[m].state \notin RxState
              /\ Gap(u, 1, owuart[m], Last(m)) /\ Gap(owuart[m], Last(m), u, 1)
              /\ \A k \in Node \ {m, n} : Gap(owuart[m], Last(m), owuart[k], Last(k))
    BY <1>2, <1>7, QuietBefore
  <2>2. \A m \in Node \ {n} : owuart[m] \in OwuartState /\ Last(m) \in {0, 1}
    BY <1>0, TimeKnown
  <2>3. \A m \in Node \ {n} : Gap(v, 0, owuart[m], Last(m)) /\ Gap(owuart[m], Last(m), v, 0)
    BY <1>1, <2>1, <2>2, KeepsGap
  <2> QED BY <2>1, <2>3 DEF Keeps
<1>8. \A m, k \in Node \ {n} : Sync(v, owuart[m], Last(m), owuart[k], Last(k))
  BY <1>2, SyncIdle
<1> QED BY <1>2, <1>4, <1>6, <1>7, <1>8, TimePreserves

(* Who finds the line silent at the end of its hold-off, or later, is in the *)
(* gap, and so are all.                                                      *)
LEMMA AllInGap ==
  ASSUME TimeInv, NEW n \in Node, n \notin ticked, owuart[n].state \in {"HoldOff", "Idle"},
         owuart[n].state = "HoldOff" => owuart[n].timer <= 0, Read # 1
  PROVE  /\ Quiet
         /\ \A m \in Node : owuart[m].state \notin Sending \cup RxState
         /\ \A m \in Node \ {n} :
              /\ Gap(owuart[n], 1, owuart[m], Last(m)) /\ Gap(owuart[m], Last(m), owuart[n], 1)
              /\ \A k \in Node \ {m, n} : Gap(owuart[m], Last(m), owuart[k], Last(k))
<1>1. \A m \in Node : owuart[m].out = 0
  BY ReadOf DEF TimeInv, UartInv
<1>2. owuart[n] \in OwuartState /\ Receives(owuart[n]) /\ Last(n) = 1
  BY TimeKnown
<1>3. \A m \in Node \ {n} : owuart[m].state \notin Sending
  <2>1. TAKE m \in Node \ {n}
  <2>2. /\ owuart[m] \in OwuartState /\ Last(m) \in {0, 1} /\ Sends(owuart[m])
        /\ Timed(owuart[m], Last(m)) /\ Own(owuart[m], Last(m))
        /\ Chases(owuart[m], Last(m), owuart[n], 1)
    BY TimeKnown
  <2> QED BY <1>1, <1>2, <2>2, ExpiresAlone
<1>4. owuart[n].state \notin Sending
  BY DEF Sending, TxState
<1>5. Quiet
  BY <1>3, <1>4 DEF Quiet
<1> QED BY <1>2, <1>3, <1>4, <1>5 DEF TimeInv, QuietInv

(* ... when its hold-off ends. *)
LEMMA ExpireStep ==
  ASSUME TimeInv, UartInv', NEW n \in Node, process_tick(n), Own(owuart'[n], 0), Read # 1,
         owuart[n].state = "HoldOff", owuart[n].timer <= 0, owuart'[n].state = "EndOfMessage",
         owuart'[n].tx_buffer = owuart[n].tx_buffer, owuart'[n].rx_buffer = owuart[n].rx_buffer
  PROVE  TimeInv'
<1> DEFINE u == owuart[n]
           v == owuart'[n]
<1>0. n \notin ticked
  BY TickFrame DEF TimeInv, UartInv
<1>1. v \in OwuartState /\ u \in OwuartState /\ Receives(u) /\ Receives(v) /\ Timed(u, 1)
  BY <1>0, TimeKnown DEF UartInv, TypeOK, LocalInv
<1>2. /\ v.state \notin Engaged /\ v.state \notin Sending /\ v.state # "Off" /\ v.state \notin RxState
  BY DEF Engaged, RxState, Sending, TxState
<1>3. /\ \A m \in Node : owuart[m].state \notin Sending \cup RxState
      /\ \A m \in Node \ {n} :
              /\ Gap(u, 1, owuart[m], Last(m)) /\ Gap(owuart[m], Last(m), u, 1)
              /\ \A k \in Node \ {m, n} : Gap(owuart[m], Last(m), owuart[k], Last(k))
  BY <1>0, AllInGap
<1>e. /\ u.state = "HoldOff" /\ u.timer <= 0 /\ v.state = "EndOfMessage"
      /\ v.tx_buffer = u.tx_buffer /\ v.rx_buffer = u.rx_buffer
  OBVIOUS
<1>4. \A m \in Node \ {n} :
         /\ Chases(v, 0, owuart[m], Last(m)) /\ Chases(owuart[m], Last(m), v, 0)
         /\ Gap(v, 0, owuart[m], Last(m)) /\ Gap(owuart[m], Last(m), v, 0)
  <2>1. TAKE m \in Node \ {n}
  <2> DEFINE w == owuart[m]
  <2>2. w \in OwuartState /\ Last(m) \in {0, 1} /\ Chases(w, Last(m), u, 1)
    BY <1>0, TimeKnown
  <2>3. w.state \notin Sending \cup RxState /\ Gap(u, 1, w, Last(m)) /\ Gap(w, Last(m), u, 1)
    BY <1>3
  <2> HIDE DEF u, v, w
  <2>4. /\ Chases(v, 0, w, Last(m)) /\ Chases(w, Last(m), v, 0)
        /\ Gap(v, 0, w, Last(m)) /\ Gap(w, Last(m), v, 0)
    BY <1>1, <1>e, <2>2, <2>3, ExpiresPairs
  <2> QED BY <2>4 DEF w
<1> QED BY <1>2, <1>3, <1>4, TimePreserves, SyncIdle

(* ... when it has nothing to hear, and may start. *)
LEMMA IdleStep ==
  ASSUME TimeInv, UartInv', NEW n \in Node, process_tick(n), Own(owuart'[n], 0), Read # 1,
         owuart[n].state = "Idle", owuart'[n].state \in {"Idle", "TxStart"},
         owuart'[n].rx_buffer = <<>>
  PROVE  TimeInv'
<1> DEFINE u == owuart[n]
           v == owuart'[n]
<1>0. n \notin ticked
  BY TickFrame DEF TimeInv, UartInv
<1>1. v \in OwuartState /\ u \in OwuartState /\ Receives(u) /\ Receives(v)
  BY <1>0, TimeKnown DEF UartInv, TypeOK, LocalInv
<1>2. /\ v.state \notin Engaged /\ v.state \notin Sending /\ v.state # "Off" /\ v.state \notin RxState
  BY DEF Engaged, RxState, Sending, TxState
<1>3. /\ \A m \in Node : owuart[m].state \notin Sending \cup RxState
      /\ \A m \in Node \ {n} :
              /\ Gap(u, 1, owuart[m], Last(m)) /\ Gap(owuart[m], Last(m), u, 1)
              /\ \A k \in Node \ {m, n} : Gap(owuart[m], Last(m), owuart[k], Last(k))
  BY <1>0, AllInGap
<1>e. u.state = "Idle" /\ v.state \in {"Idle", "TxStart"} /\ v.rx_buffer = <<>>
  OBVIOUS
<1>4. \A m \in Node \ {n} :
         /\ Chases(v, 0, owuart[m], Last(m)) /\ Chases(owuart[m], Last(m), v, 0)
         /\ Gap(v, 0, owuart[m], Last(m)) /\ Gap(owuart[m], Last(m), v, 0)
  <2>1. TAKE m \in Node \ {n}
  <2> DEFINE w == owuart[m]
  <2>2. w \in OwuartState /\ Last(m) \in {0, 1} /\ Receives(w) /\ Chases(w, Last(m), u, 1)
    BY <1>0, TimeKnown
  <2>3. w.state \notin Sending \cup RxState /\ Gap(u, 1, w, Last(m)) /\ Gap(w, Last(m), u, 1)
    BY <1>3
  <2> HIDE DEF u, v, w
  <2>4. /\ Chases(v, 0, w, Last(m)) /\ Chases(w, Last(m), v, 0)
        /\ Gap(v, 0, w, Last(m)) /\ Gap(w, Last(m), v, 0)
    BY <1>1, <1>e, <2>2, <2>3, IdleAlone
  <2> QED BY <2>4 DEF w
<1> QED BY <1>2, <1>3, <1>4, TimePreserves, SyncIdle

(* ... when it has reported its message, if there was one. *)
LEMMA ReportStep ==
  ASSUME TimeInv, UartInv', NEW n \in Node, process_tick(n), Own(owuart'[n], 0),
         owuart[n].state = "EndOfMessage", owuart'[n].state = "Idle", owuart'[n].rx_buffer = <<>>
  PROVE  TimeInv'
<1> DEFINE u == owuart[n]
           v == owuart'[n]
<1>0. n \notin ticked
  BY TickFrame DEF TimeInv, UartInv
<1>1. v \in OwuartState /\ u \in OwuartState /\ Receives(u) /\ Receives(v)
  BY <1>0, TimeKnown DEF UartInv, TypeOK, LocalInv
<1>2. /\ v.state \notin Engaged /\ v.state \notin Sending /\ v.state # "Off" /\ v.state \notin RxState
      /\ u.state \notin Sending
  BY DEF Engaged, RxState, Sending, TxState
<1>e. u.state = "EndOfMessage" /\ v.state = "Idle" /\ v.rx_buffer = <<>>
  OBVIOUS
<1>4. \A m \in Node \ {n} : Chases(v, 0, owuart[m], Last(m)) /\ Chases(owuart[m], Last(m), v, 0)
  <2>1. TAKE m \in Node \ {n}
  <2> DEFINE w == owuart[m]
  <2>2. /\ w \in OwuartState /\ Last(m) \in {0, 1} /\ Timed(w, Last(m)) /\ Own(w, Last(m))
        /\ Chases(u, 1, w, Last(m)) /\ Chases(w, Last(m), u, 1)
    BY <1>0, TimeKnown
  <2> HIDE DEF u, v, w
  <2>4. Chases(v, 0, w, Last(m)) /\ Chases(w, Last(m), v, 0)
    BY <1>1, <1>e, <2>2, ReportPairs
  <2> QED BY <2>4 DEF w
<1>5. ASSUME Quiet'
      PROVE  \A m \in Node \ {n} :
                  /\ owuart[m].state \notin RxState
                  /\ Gap(v, 0, owuart[m], Last(m)) /\ Gap(owuart[m], Last(m), v, 0)
                  /\ \A k \in Node \ {m, n} : Gap(owuart[m], Last(m), owuart[k], Last(k))
  <2>1. TAKE m \in Node \ {n}
  <2> DEFINE w == owuart[m]
  <2>2. /\ owuart[m].state \notin RxState
        /\ Gap(u, 1, w, Last(m)) /\ Gap(w, Last(m), u, 1)
        /\ \A k \in Node \ {m, n} : Gap(owuart[m], Last(m), owuart[k], Last(k))
    BY <1>2, <1>5, QuietBefore
  <2>3. w \in OwuartState /\ Last(m) \in {0, 1}
    BY <1>0, TimeKnown
  <2> HIDE DEF u, v, w
  <2>4. Gap(v, 0, w, Last(m)) /\ Gap(w, Last(m), v, 0)
    BY <1>1, <1>e, <2>2, <2>3, ReportGap
  <2> QED BY <2>2, <2>4 DEF w
<1> QED BY <1>2, <1>4, <1>5, TimePreserves, SyncIdle

(* ... when it goes on sending. *)
LEMMA ContinueStep ==
  ASSUME TimeInv, UartInv', NEW n \in Node, process_tick(n), Own(owuart'[n], 0),
         Continues(owuart[n], owuart'[n])
  PROVE  TimeInv'
<1> DEFINE u == owuart[n]
           v == owuart'[n]
<1>0. n \notin ticked
  BY TickFrame DEF TimeInv, UartInv
<1>k. Continues(u, v)
  OBVIOUS
<1>1. v \in OwuartState /\ u \in OwuartState /\ Timed(u, 1) /\ Own(u, 1)
  BY <1>0, TimeKnown DEF UartInv, TypeOK, LocalInv
<1>2. /\ v.state \in Sending /\ v.state # "Off" /\ v.state \notin Engaged
  BY DEF Continues, Engaged, RxState, Sending, TxState
<1>3. ~Quiet'
  BY <1>2 DEF Quiet
<1>4. \A m \in Node \ {n} : Chases(v, 0, owuart[m], Last(m)) /\ Chases(owuart[m], Last(m), v, 0)
  <2>1. TAKE m \in Node \ {n}
  <2> DEFINE w == owuart[m]
  <2>2. /\ w \in OwuartState /\ Last(m) \in {0, 1} /\ Chases(u, 1, w, Last(m))
    BY <1>0, TimeKnown
  <2> HIDE DEF u, v, w
  <2>4. Chases(v, 0, w, Last(m)) /\ Chases(w, Last(m), v, 0)
    BY <1>1, <1>k, <2>2, ContinuesChase
  <2> QED BY <2>4 DEF w
<1>5. \A m, k \in Node \ {n} : Sync(v, owuart[m], Last(m), owuart[k], Last(k))
  <2>1. TAKE m, k \in Node \ {n}
  <2>2. Sync(u, owuart[m], Last(m), owuart[k], Last(k))
    BY DEF TimeInv, SyncInv
  <2>3. /\ Heard(v, owuart[m], Last(m)) <=> Heard(u, owuart[m], Last(m))
        /\ Heard(v, owuart[k], Last(k)) <=> Heard(u, owuart[k], Last(k))
    BY ContinuesHeard
  <2>4. u.state \in Sending
    BY DEF Continues
  <2> QED BY <2>2, <2>3, <2>4 DEF Sync
<1> QED BY <1>2, <1>3, <1>4, <1>5, TimePreserves, SyncIdle

(* After the first byte the bounds on the lag are narrow enough by themselves. *)
LEMMA SyncLater ==
  ASSUME NEW u, NEW v \in OwuartState, NEW w \in OwuartState, NEW lv \in {0, 1}, NEW l \in {0, 1},
         Remaining(u) \in Int, Receives(v), Receives(w), Number(u) # 0
  PROVE  Sync(u, v, lv, w, l)
<1>1. Expects(v, lv) \in Int /\ Expects(w, l) \in Int
  BY Expectation
<1> HIDE DEF Remaining, Expects
<1> QED BY <1>1, Spans DEF Sync, Heard, Lag

(* ... when it sends the start bit of another byte. *)
LEMMA NextStartStep ==
  ASSUME TimeInv, UartInv', NEW n \in Node, process_tick(n), Own(owuart'[n], 0),
         owuart[n].state = "TxBit", owuart[n].tx_pos = 0, owuart'[n].state = "TxWaitForHalfBit",
         owuart'[n].tx_pos = 0, owuart'[n].tx_byte = owuart[n].tx_byte,
         owuart'[n].timer = owuart[n].timer + HalfBit
  PROVE  TimeInv'
<1> DEFINE u == owuart[n]
           v == owuart'[n]
<1>0. n \notin ticked
  BY TickFrame DEF TimeInv, UartInv
<1>e. /\ u.state = "TxBit" /\ u.tx_pos = 0 /\ v.state = "TxWaitForHalfBit"
      /\ v.tx_pos = 0 /\ v.tx_byte = u.tx_byte /\ v.timer = u.timer + HalfBit
  OBVIOUS
<1>1. /\ v \in OwuartState /\ u \in OwuartState /\ Timed(u, 1) /\ Own(u, 1)
      /\ Timed(v, 0) /\ Own(v, 0)
  <2>1. Timed(v, Last(n)')
    BY DEF UartInv, LocalInv
  <2> QED BY <1>0, <2>1, TimeKnown, TickFrame DEF UartInv, TypeOK, TimeInv
<1>2. /\ v.state \in Sending /\ v.state # "Off" /\ v.state \notin Engaged
  BY DEF Engaged, RxState, Sending, TxState
<1>3. ~Quiet'
  BY <1>2 DEF Quiet
<1>4. \A m \in Node \ {n} : Chases(v, 0, owuart[m], Last(m)) /\ Chases(owuart[m], Last(m), v, 0)
  <2>1. TAKE m \in Node \ {n}
  <2> DEFINE w == owuart[m]
  <2>2. /\ w \in OwuartState /\ Last(m) \in {0, 1} /\ Chases(u, 1, w, Last(m))
        /\ Receives(w) /\ Own(w, Last(m))
    BY <1>0, TimeKnown
  <2> HIDE DEF u, v, w
  <2>4. Chases(v, 0, w, Last(m)) /\ Chases(w, Last(m), v, 0)
    BY <1>1, <1>e, <2>2, NextStartChase
  <2> QED BY <2>4 DEF w
<1>5. \A m, k \in Node \ {n} : Sync(v, owuart[m], Last(m), owuart[k], Last(k))
  <2>1. TAKE m, k \in Node \ {n}
  <2> DEFINE w == owuart[m]
             x == owuart[k]
  <2>2. /\ w \in OwuartState /\ x \in OwuartState /\ Receives(w) /\ Receives(x)
        /\ Last(m) \in {0, 1} /\ Last(k) \in {0, 1}
    BY <1>0, TimeKnown
  <2> HIDE DEF u, v, w, x
  <2>3. Remaining(v) \in Int
    BY <1>1, <1>2, RemainingIs
  <2>4. Number(v) # 0
    BY <1>e, <1>1 DEF Number, Between, Driving, Sending, TxState, Own
  <2>5. Sync(v, w, Last(m), x, Last(k))
    BY <2>2, <2>3, <2>4, SyncLater
  <2> QED BY <2>5 DEF w, x
<1> QED BY <1>2, <1>3, <1>4, <1>5, TimePreserves, SyncIdle

(* ... when it sends its first start bit. *)
LEMMA StartStep ==
  ASSUME TimeInv, UartInv', NEW n \in Node, process_tick(n), Own(owuart'[n], 0),
         owuart[n].state = "TxStart", owuart'[n].state = "TxWaitForHalfBit",
         owuart'[n].tx_pos = 0, owuart'[n].tx_byte = 0, owuart'[n].timer = HalfBit
  PROVE  TimeInv'
<1> DEFINE u == owuart[n]
           v == owuart'[n]
<1>0. n \notin ticked
  BY TickFrame DEF TimeInv, UartInv
<1>e. /\ u.state = "TxStart" /\ v.state = "TxWaitForHalfBit"
      /\ v.tx_pos = 0 /\ v.tx_byte = 0 /\ v.timer = HalfBit
  OBVIOUS
<1>1. v \in OwuartState /\ u \in OwuartState /\ Timed(v, 0) /\ Own(v, 0)
  <2>1. Timed(v, Last(n)')
    BY DEF UartInv, LocalInv
  <2> QED BY <1>0, <2>1, TimeKnown, TickFrame DEF UartInv, TypeOK, TimeInv
<1>2. /\ v.state \in Sending /\ v.state # "Off" /\ v.state \notin Engaged
  BY DEF Engaged, RxState, Sending, TxState
<1>3. ~Quiet'
  BY <1>2 DEF Quiet
<1>4. \A m \in Node \ {n} : /\ Chases(v, 0, owuart[m], Last(m)) /\ Chases(owuart[m], Last(m), v, 0)
                            /\ Heard(v, owuart[m], Last(m)) => Lag(v, owuart[m], Last(m)) \in 1 .. 3
  <2>1. TAKE m \in Node \ {n}
  <2> DEFINE w == owuart[m]
  <2>2. /\ w \in OwuartState /\ Last(m) \in {0, 1} /\ Chases(u, 1, w, Last(m))
        /\ Receives(w) /\ Timed(w, Last(m))
    BY <1>0, TimeKnown
  <2> HIDE DEF u, v, w
  <2>4. /\ Chases(v, 0, w, Last(m)) /\ Chases(w, Last(m), v, 0)
        /\ Heard(v, w, Last(m)) /\ w.state \in Passive => Lag(v, w, Last(m)) \in 1 .. 3
    BY <1>1, <1>e, <2>2, StartChase
  <2>5. Heard(v, w, Last(m)) => w.state \in Passive
    BY DEF Heard, Passive
  <2> QED BY <2>4, <2>5 DEF w
<1>5. \A m, k \in Node \ {n} : Sync(v, owuart[m], Last(m), owuart[k], Last(k))
  <2>1. TAKE m, k \in Node \ {n}
  <2> DEFINE w == owuart[m]
             x == owuart[k]
  <2>2. /\ w \in OwuartState /\ x \in OwuartState /\ Receives(w) /\ Receives(x)
        /\ Last(m) \in {0, 1} /\ Last(k) \in {0, 1}
    BY <1>0, TimeKnown
  <2>l. /\ Heard(v, w, Last(m)) => Lag(v, w, Last(m)) \in 1 .. 3
        /\ Heard(v, x, Last(k)) => Lag(v, x, Last(k)) \in 1 .. 3
    BY <1>4
  <2> HIDE DEF u, v, w, x
  <2>3. Remaining(v) \in Int
    BY <1>1, <1>2, RemainingIs
  <2>4. Expects(w, Last(m)) \in Int /\ Expects(x, Last(k)) \in Int
    BY <2>2, Expectation
  <2>5. Sync(v, w, Last(m), x, Last(k))
    <3> HIDE DEF Remaining, Expects
    <3> QED BY <2>l, <2>3, <2>4 DEF Sync, Lag
  <2> QED BY <2>5 DEF w, x
<1> QED BY <1>2, <1>3, <1>4, <1>5, TimePreserves, SyncIdle

(* ... when it has lost the line. *)
LEMMA LoserStep ==
  ASSUME TimeInv, UartInv', NEW n \in Node, process_tick(n), Own(owuart'[n], 0),
         owuart[n].state = "TxArbitrated", owuart[n].tx_pos <= FrameBits - 2,
         owuart'[n].state = "RxBit", Len(owuart'[n].rx_bits) = owuart[n].tx_pos,
         owuart'[n].timer = owuart[n].timer, owuart'[n].tx_buffer = owuart[n].tx_buffer
  PROVE  TimeInv'
<1> DEFINE u == owuart[n]
           v == owuart'[n]
<1>0. n \notin ticked
  BY TickFrame DEF TimeInv, UartInv
<1>e. /\ u.state = "TxArbitrated" /\ u.tx_pos <= FrameBits - 2 /\ v.state = "RxBit"
      /\ Len(v.rx_bits) = u.tx_pos /\ v.timer = u.timer /\ v.tx_buffer = u.tx_buffer
  OBVIOUS
<1>1. /\ v \in OwuartState /\ u \in OwuartState /\ Timed(u, 1) /\ Own(u, 1) /\ Receives(v)
  BY <1>0, TimeKnown DEF UartInv, TypeOK, LocalInv
<1>2. v.state \notin Sending /\ v.state # "Off" /\ ~Listens(v)
  BY <1>1, <1>e DEF Sending, TxState, Own, Listens
<1>3. ~Quiet'
  <2>1. PICK m \in Node \ {n} : Above(owuart[m], u)
    BY <1>e DEF TimeInv, UartInv, AboveInv
  <2>2. owuart[m].state \in Sending
    BY <2>1 DEF Above, Sending, TxState
  <2>3. owuart'[m] = owuart[m]
    BY TickFrame DEF TimeInv, UartInv
  <2> QED BY <2>2, <2>3 DEF Quiet
<1>4. \A m \in Node \ {n} :
        /\ Chases(v, 0, owuart[m], Last(m)) /\ Chases(owuart[m], Last(m), v, 0)
        /\ owuart[m].state \in Sending => Lag(owuart[m], v, 0) >= 3 /\ Remaining(owuart[m]) \in Int
  <2>1. TAKE m \in Node \ {n}
  <2> DEFINE w == owuart[m]
  <2>2. /\ w \in OwuartState /\ Last(m) \in {0, 1} /\ Chases(u, 1, w, Last(m))
        /\ Pair(u, w, Last(m)) /\ Timed(w, Last(m)) /\ Own(w, Last(m))
    BY <1>0, TimeKnown
  <2> HIDE DEF u, v, w
  <2>4. /\ Chases(v, 0, w, Last(m)) /\ Chases(w, Last(m), v, 0)
        /\ w.state \in Sending => Lag(w, v, 0) >= 3
    BY <1>1, <1>e, <2>2, LoserPairs
  <2>5. w.state \in Sending => Remaining(w) \in Int
    BY <2>2, RemainingIs
  <2> QED BY <2>4, <2>5 DEF w
<1>6. \A m \in Node \ {n} : \A k \in Node \ {m, n} :
        /\ Sync(owuart[m], v, 0, owuart[k], Last(k))
        /\ Sync(owuart[m], owuart[k], Last(k), v, 0)
  <2>1. TAKE m \in Node \ {n}
  <2>2. TAKE k \in Node \ {m, n}
  <2> DEFINE w == owuart[m]
             x == owuart[k]
  <2>3. x \in OwuartState /\ Receives(x) /\ Last(k) \in {0, 1}
    BY <1>0, TimeKnown
  <2>4. w.state \in Sending => Lag(w, v, 0) >= 3 /\ Remaining(w) \in Int
    BY <1>4
  <2> HIDE DEF u, v, w, x
  <2>5. Expects(v, 0) \in Int /\ Expects(x, Last(k)) \in Int
    BY <1>1, <2>3, Expectation
  <2>6. Sync(w, v, 0, x, Last(k))
    <3> HIDE DEF Remaining, Expects
    <3> QED BY <2>4, <2>5, Spans DEF Sync, Heard, Lag
  <2>7. Sync(w, x, Last(k), v, 0)
    BY <1>2 DEF Sync
  <2> QED BY <2>6, <2>7 DEF w, x
<1> QED BY <1>2, <1>3, <1>4, <1>6, TimePreserves, SyncIdle

(* ... when it has sent its message. *)
LEMMA CompletedStep ==
  ASSUME PrefixFree,
         TimeInv, UartInv', NEW n \in Node, process_tick(n), Own(owuart'[n], 0),
         owuart[n].state = "TxCompleted", owuart'[n].state = "StartHoldOff",
         owuart'[n].tx_buffer = <<>>, owuart'[n].rx_buffer = owuart[n].rx_buffer
  PROVE  TimeInv'
<1> DEFINE u == owuart[n]
           v == owuart'[n]
<1>0. n \notin ticked
  BY TickFrame DEF TimeInv, UartInv
<1>e. /\ u.state = "TxCompleted" /\ v.state = "StartHoldOff"
      /\ v.tx_buffer = <<>> /\ v.rx_buffer = u.rx_buffer
  OBVIOUS
<1>1. /\ v \in OwuartState /\ u \in OwuartState /\ Timed(u, 1) /\ Own(u, 1) /\ Sends(u) /\ Receives(v)
  BY <1>0, TimeKnown DEF UartInv, TypeOK, LocalInv
<1>2. v.state \notin Sending /\ v.state # "Off" /\ v.state \notin RxState
  BY DEF Sending, TxState, RxState
<1>4. \A m \in Node \ {n} :
        /\ Chases(v, 0, owuart[m], Last(m)) /\ Chases(owuart[m], Last(m), v, 0)
        /\ owuart[m].state \in Sending => Lag(owuart[m], v, 0) >= 3 * HalfBit
        /\ owuart[m].state # "TxStart"
        /\ owuart[m].state \in Sending => Remaining(owuart[m]) \in Int
  <2>1. TAKE m \in Node \ {n}
  <2> DEFINE w == owuart[m]
  <2>2. /\ w \in OwuartState /\ Last(m) \in {0, 1} /\ Sends(w)
        /\ Pair(u, w, Last(m)) /\ Pair(w, u, 1) /\ Timed(w, Last(m)) /\ Own(w, Last(m))
    BY <1>0, TimeKnown
  <2> HIDE DEF u, v, w
  <2>4. /\ Chases(v, 0, w, Last(m)) /\ Chases(w, Last(m), v, 0)
        /\ w.state \in Sending => Lag(w, v, 0) >= 3 * HalfBit
        /\ w.state # "TxStart"
    BY <1>1, <1>e, <2>2, CompletedPairs
  <2>5. w.state \in Sending => Remaining(w) \in Int
    BY <2>2, RemainingIs
  <2> QED BY <2>4, <2>5 DEF w
<1>6. \A m \in Node \ {n} : \A k \in Node \ {m, n} :
        /\ Sync(owuart[m], v, 0, owuart[k], Last(k))
        /\ Sync(owuart[m], owuart[k], Last(k), v, 0)
  <2>1. TAKE m \in Node \ {n}
  <2>2. TAKE k \in Node \ {m, n}
  <2> DEFINE w == owuart[m]
             x == owuart[k]
  <2>4. w.state \in Sending => Lag(w, v, 0) >= 3 * HalfBit /\ Remaining(w) \in Int
    BY <1>4
  <2> HIDE DEF u, v, w, x
  <2>5. Expects(v, 0) \in Int
    BY <1>1, Expectation
  <2>6. w.state \in Sending => ~Heard(w, v, 0)
    <3> HIDE DEF Remaining, Expects
    <3> QED BY <1>e, <2>4, <2>5, Spans DEF Heard, Lag, Listens
  <2>7. Sync(w, x, Last(k), v, 0) /\ Sync(w, v, 0, x, Last(k))
    BY <2>6 DEF Sync
  <2> QED BY <2>7 DEF w, x
<1>7. ASSUME Quiet'
      PROVE  \A m \in Node \ {n} :
                  /\ owuart[m].state \notin RxState
                  /\ Gap(v, 0, owuart[m], Last(m)) /\ Gap(owuart[m], Last(m), v, 0)
                  /\ \A k \in Node \ {m, n} : Gap(owuart[m], Last(m), owuart[k], Last(k))
  <2>0. \A m \in Node \ {n} : owuart[m].state \notin Sending \cup {"TxStart"}
    BY <1>4, <1>7, TickFrame DEF Quiet, TimeInv, UartInv
  <2>1. TAKE m \in Node \ {n}
  <2> DEFINE w == owuart[m]
  <2>2. /\ w \in OwuartState /\ Last(m) \in {0, 1} /\ Receives(w) /\ Own(w, Last(m))
        /\ Chases(u, 1, w, Last(m)) /\ w.state \notin Sending \cup {"TxStart"}
    BY <1>0, <2>0, TimeKnown
  <2>3. /\ w.state \notin RxState
        /\ Gap(v, 0, w, Last(m)) /\ Gap(w, Last(m), v, 0)
    <3> HIDE DEF u, v, w
    <3> QED BY <1>1, <1>e, <2>2, GapBegins
  <2>4. ASSUME NEW k \in Node \ {m, n}
        PROVE  Gap(w, Last(m), owuart[k], Last(k))
    <3> DEFINE x == owuart[k]
    <3>1. /\ x \in OwuartState /\ Last(k) \in {0, 1} /\ Receives(x) /\ Own(x, Last(k))
          /\ Chases(u, 1, x, Last(k)) /\ x.state \notin Sending \cup {"TxStart"}
      BY <1>0, <2>0, TimeKnown
    <3>2. Sync(u, w, Last(m), x, Last(k))
      BY DEF TimeInv, SyncInv
    <3> HIDE DEF u, v, w, x
    <3>3. Gap(w, Last(m), x, Last(k))
      BY <1>1, <1>e, <2>2, <3>1, <3>2, GapOfOthers
    <3> QED BY <3>3 DEF x
  <2> QED BY <2>3, <2>4
<1> QED BY <1>2, <1>4, <1>6, <1>7, TimePreserves, SyncIdle

(* Two listeners that hear the same start bit do so within two rounds: who *)
(* is in Idle when the second hears it can have heard only one round old.  *)
LEMMA HearsSync ==
  ASSUME NEW u \in OwuartState, NEW v \in OwuartState, NEW w \in OwuartState, NEW x \in OwuartState,
         NEW l \in {0, 1}, NEW k \in {0, 1},
         u.state \in {"HoldOff", "Idle"}, v.state = "RxStartBit", Receives(u), Receives(v),
         Timed(u, 1), Timed(w, l), Own(w, l), Chases(w, l, u, 1),
         Receives(x), Timed(x, k), Chases(x, k, u, 1)
  PROVE  Sync(w, v, 0, x, k) /\ Sync(w, x, k, v, 0)
<1> USE Spans
<1>1. SUFFICES ASSUME w.state \in Sending, Heard(w, v, 0), Heard(w, x, k)
               PROVE  /\ Listens(x) => Expects(x, k) <= Expects(v, 0) + 2
                      /\ Listens(v) => Expects(v, 0) <= Expects(x, k) + 2
  BY DEF Sync
<1>2. /\ Phase(w) \in Int /\ Remaining(w) \in Int /\ Remaining(w) <= Left(0)
      /\ w.state \in Driving \/ w.tx_pos # 0 =>
           Remaining(w) = Left(w.tx_pos) - Phase(w) /\ Phase(w) >= 0
      /\ ~(w.state \in Driving \/ w.tx_pos # 0) => Remaining(w) < 0
      /\ w.tx_pos \in 0 .. FrameBits
  <2>1. w.tx_pos \in 0 .. FrameBits
    BY Fields
  <2>2. w.state \in Sending \ Driving => w.state \in {"TxBit", "TxCompleted"}
    BY DEF Driving
  <2> QED BY <1>1, <2>1, <2>2, RemainingIs DEF Between
<1>3. Left(0) \in Nat /\ Left(0) = HoldOffTime + FullBit /\ HoldOffTime >= 8 * HalfBit
  BY LongSpans
<1>4. /\ Expects(v, 0) = Left(0) + 2
      /\ Expects(x, k) \in Int
      /\ x.state \in {"RxByte", "StartHoldOff", "HoldOff"} => Expects(x, k) <= 3 * HalfBit
  <2>1. x.timer \in Int /\ (x.state = "HoldOff" => x.timer <= HoldOffTime)
    BY Fields
  <2>2. Expects(v, 0) = Left(0) + 2 - 0
    BY Expectation
  <2>3. /\ Expects(x, k) \in Int
        /\ x.state = "RxByte" => Expects(x, k) = 3 * HalfBit - k
        /\ x.state = "StartHoldOff" => Expects(x, k) = 3 * HalfBit - k - 1
        /\ x.state = "HoldOff" => Expects(x, k) = 3 * HalfBit - HoldOffTime - 2 + x.timer
    BY Expectation
  <2> HIDE DEF Expects
  <2> QED BY <1>3, <2>1, <2>2, <2>3
<1>5. Lag(w, v, 0) = Left(0) + 2 - Remaining(w) /\ Lag(w, x, k) = Expects(x, k) - Remaining(w)
  <2>1. Lag(w, v, 0) = Expects(v, 0) - Remaining(w) /\ Lag(w, x, k) = Expects(x, k) - Remaining(w)
    BY DEF Lag
  <2>2. Expects(v, 0) = Left(0) + 2
    BY <1>4
  <2> HIDE DEF Expects, Remaining, Lag, Left
  <2> QED BY <1>2, <1>3, <1>4, <2>1, <2>2
<1>6. CASE Number(w) # 0
  <2> HIDE DEF Expects, Remaining, Lag
  <2>1. Lag(w, v, 0) >= 3 /\ Lag(w, x, k) >= 3
    BY <1>1, <1>6 DEF Heard
  <2>2. /\ Listens(v) => Lag(w, v, 0) <= 5
        /\ Listens(x) => Lag(w, x, k) <= 5
    BY <1>1, <1>6 DEF Heard
  <2> QED BY <1>2, <1>3, <1>4, <1>5, <2>1, <2>2
<1>7. CASE Number(w) = 0
  <2>1. Lag(w, v, 0) >= 1 /\ Lag(w, x, k) >= 1
    <3> HIDE DEF Expects, Remaining, Lag
    <3> QED BY <1>1, <1>7 DEF Heard
  <2>2. /\ Listens(v) => Lag(w, v, 0) <= 4
        /\ Listens(x) => Lag(w, x, k) <= 4
    <3> HIDE DEF Expects, Remaining, Lag
    <3> QED BY <1>1, <1>7 DEF Heard
  <2>3. Listens(x) => Expects(x, k) <= Expects(v, 0) + 2
    <3> HIDE DEF Expects, Remaining, Lag
    <3> QED BY <1>2, <1>3, <1>4, <1>5, <2>2
  <2>4. ASSUME Listens(v)
        PROVE  Expects(v, 0) <= Expects(x, k) + 2
    <3>1. Remaining(w) >= Left(0) - 2
      <4> HIDE DEF Expects, Remaining, Lag
      <4> QED BY <1>2, <1>3, <1>5, <2>2, <2>4
    <3>2. CASE Remaining(w) >= Left(0) - 1
      <4> HIDE DEF Expects, Remaining, Lag
      <4> QED BY <1>2, <1>3, <1>4, <1>5, <2>1, <3>2
    <3>3. CASE Remaining(w) = Left(0) - 2
      <4>1. w.tx_pos = 0 /\ w.state \in Driving /\ Phase(w) = 2
        <5>1. w.state \in Driving \/ w.tx_pos # 0
          <6> HIDE DEF Expects, Remaining, Lag, Phase
          <6> QED BY <1>2, <1>3, <3>3
        <5>2. w.tx_pos # 0 => Left(0) >= Left(w.tx_pos) + FullBit /\ Left(w.tx_pos) \in Nat
          BY <1>2, LeftSteps, LeftLast
        <5>3. w.tx_pos = 0
          <6> HIDE DEF Expects, Remaining, Lag, Phase, Left
          <6> QED BY <1>2, <1>3, <3>3, <5>1, <5>2
        <5> HIDE DEF Expects, Remaining, Lag, Phase, Left
        <5> QED BY <1>2, <1>3, <3>3, <5>1, <5>3
      <4>2. w.tx_byte = 0
        BY <1>7, <4>1 DEF Number, Between
      <4>3. Follow(w, u, 1)
        BY <1>1 DEF Chases, Passive, Engaged
      <4>4. u.state = "Idle"
        <5>1. SUFFICES ASSUME u.state = "HoldOff" PROVE FALSE
          OBVIOUS
        <5>2. Expects(u, 1) = 3 * HalfBit - HoldOffTime - 2 + u.timer /\ u.timer \in Int /\ u.timer <= HoldOffTime
          BY <5>1, Expectation, Fields
        <5>3. ~Heard(w, u, 1)
          <6> HIDE DEF Expects, Remaining, Phase, Left
          <6> QED BY <1>2, <1>3, <1>7, <3>3, <5>2 DEF Heard, Lag
        <5>4. ~Unheard(w, u, 1)
          <6> HIDE DEF Phase
          <6> QED BY <4>1, <4>2, <5>1 DEF Unheard
        <5>5. ~Ahead(w, u, 1)
          BY <5>1 DEF Ahead, Hearing
        <5>6. ~Finished(w, u, 1)
          <6>1. w.tx_pos # FrameBits
            BY <4>1
          <6> QED BY <4>1, <6>1 DEF Finished, Ends, Driving
        <5> QED BY <4>3, <5>3, <5>4, <5>5, <5>6 DEF Follow
      <4>5. Expects(x, k) >= Left(0) - 1
        <5> HIDE DEF Expects, Remaining, Lag
        <5> QED BY <1>2, <1>3, <1>4, <1>5, <2>1, <3>3
      <4>6. x.state \in RxState
        <5> HIDE DEF Expects, Remaining, Lag
        <5>1. x.state \notin {"RxByte", "StartHoldOff", "HoldOff"}
          BY <1>3, <1>4, <4>5
        <5> QED BY <1>1, <5>1 DEF Heard, Engaged
      <4>7. Expects(x, k) >= Left(0) + 1 - 1
        BY <4>4, <4>6 DEF Chases, Early
      <4> HIDE DEF Expects
      <4> QED BY <1>3, <1>4, <4>7
    <3> HIDE DEF Expects, Remaining, Lag
    <3> QED BY <1>2, <1>3, <3>1, <3>2, <3>3
  <2> QED BY <2>3, <2>4
<1> QED BY <1>6, <1>7

(* ... when it hears a start bit. *)
LEMMA HearStep ==
  ASSUME PrefixFree,
         TimeInv, UartInv', NEW n \in Node, process_tick(n), Own(owuart'[n], 0), Read = 1,
         owuart[n].state \in {"HoldOff", "Idle"}, owuart'[n].state = "RxStartBit",
         owuart'[n].tx_buffer = owuart[n].tx_buffer, owuart'[n].rx_buffer = owuart[n].rx_buffer
  PROVE  TimeInv'
<1> DEFINE u == owuart[n]
           v == owuart'[n]
<1>0. n \notin ticked
  BY TickFrame DEF TimeInv, UartInv
<1>e. /\ u.state \in {"HoldOff", "Idle"} /\ v.state = "RxStartBit"
      /\ v.tx_buffer = u.tx_buffer /\ v.rx_buffer = u.rx_buffer
  OBVIOUS
<1>1. /\ v \in OwuartState /\ u \in OwuartState /\ Timed(u, 1) /\ Own(u, 1) /\ Receives(u) /\ Receives(v)
      /\ Sends(u)
  BY <1>0, TimeKnown DEF UartInv, TypeOK, LocalInv
<1>2. v.state \notin Sending /\ v.state # "Off"
  BY DEF Sending, TxState
<1>3. PICK b \in Node : owuart[b].out = 1
  BY ReadOf
<1>b. b # n
  BY <1>1, <1>3, <1>e DEF Sends, Sending, TxState
<1> DEFINE y == owuart[b]
<1>4. /\ y \in OwuartState /\ Last(b) \in {0, 1} /\ y.out = 1 /\ Sends(y) /\ Timed(y, Last(b))
      /\ Own(y, Last(b)) /\ Chases(y, Last(b), u, 1)
  BY <1>0, <1>3, <1>b, TimeKnown
<1>5. ~Quiet'
  <2>1. y.state \in Sending /\ owuart'[b] = owuart[b]
    BY <1>4, <1>b, TickFrame DEF Sends, TimeInv, UartInv
  <2> QED BY <2>1 DEF Quiet
<1>6. \A m \in Node \ {n} : Chases(v, 0, owuart[m], Last(m)) /\ Chases(owuart[m], Last(m), v, 0)
  <2>1. TAKE m \in Node \ {n}
  <2> DEFINE w == owuart[m]
  <2>2. /\ w \in OwuartState /\ Last(m) \in {0, 1} /\ Chases(w, Last(m), u, 1)
        /\ Sends(w) /\ Timed(w, Last(m)) /\ Own(w, Last(m))
    BY <1>0, TimeKnown
  <2>3. y = w \/ Pair(y, w, Last(m))
    BY <1>3, <1>b DEF TimeInv, UartInv, PairInv
  <2> HIDE DEF u, v, w, y
  <2>4. Chases(v, 0, w, Last(m)) /\ Chases(w, Last(m), v, 0)
    BY <1>1, <1>e, <1>4, <2>2, <2>3, HearsPairs
  <2> QED BY <2>4 DEF w
<1>7. \A m \in Node \ {n} : \A k \in Node \ {m, n} :
        /\ Sync(owuart[m], v, 0, owuart[k], Last(k))
        /\ Sync(owuart[m], owuart[k], Last(k), v, 0)
  <2>1. TAKE m \in Node \ {n}
  <2>2. TAKE k \in Node \ {m, n}
  <2> DEFINE w == owuart[m]
             x == owuart[k]
  <2>3. /\ w \in OwuartState /\ Last(m) \in {0, 1} /\ Chases(w, Last(m), u, 1)
        /\ Timed(w, Last(m)) /\ Own(w, Last(m))
        /\ x \in OwuartState /\ Last(k) \in {0, 1} /\ Chases(x, Last(k), u, 1)
        /\ Timed(x, Last(k)) /\ Receives(x)
    BY <1>0, TimeKnown
  <2> HIDE DEF u, v, w, x
  <2>4. Sync(w, v, 0, x, Last(k)) /\ Sync(w, x, Last(k), v, 0)
    BY <1>1, <1>e, <2>3, HearsSync
  <2> QED BY <2>4 DEF w, x
<1> QED BY <1>2, <1>5, <1>6, <1>7, TimePreserves, SyncIdle

-----------------------------------------------------------------------------
(* The other steps *)

(* One node's own part of the invariant, when the clocks advance. *)
LEMMA RoundOwn ==
  ASSUME NEW w \in OwuartState, NEW x \in OwuartState, x = [w EXCEPT !.timer = Later(@)],
         Timed(w, 0), Own(w, 0), Receives(w), w.state # "Off"
  PROVE  Own(x, 1)
<1> USE Spans
<1>1. /\ x.state = w.state /\ x.tx_buffer = w.tx_buffer /\ x.rx_buffer = w.rx_buffer
      /\ x.rx_bits = w.rx_bits /\ x.out = w.out /\ x.tx_byte = w.tx_byte /\ x.tx_pos = w.tx_pos
      /\ w.state \in {"RxWaitForNextBit", "RxBit"} => x.timer = w.timer - 1
      /\ w.timer \in Int
  BY RoundExpects
<1>2. x.state = "RxWaitForNextBit" => x.timer >= 1 - 1
  BY <1>1 DEF Own
<1>3. x.state = "RxBit" => \/ x.timer = -1
                           \/ /\ x.timer = HalfBit - 2 - 1 /\ Len(x.rx_bits) <= FrameBits - 2
                              /\ ~Listens(x)
  BY <1>1 DEF Own, Listens
<1> QED BY <1>1, <1>2, <1>3 DEF Own

(* Who is off concerns nobody. *)
LEMMA OffPairs ==
  ASSUME NEW u, NEW w, NEW lu, NEW l, u.state = "Off" \/ w.state = "Off"
  PROVE  /\ Chases(u, lu, w, l)
         /\ w.state = "Off" => ~Heard(u, w, l)
         /\ u.state = "Off" \/ w.rx_buffer = <<>> => Gap(u, lu, w, l)
BY DEF Chases, Early, Heard, Gap, Passive, Engaged, RxState, Sending, TxState

(* The clocks advance. *)
LEMMA RoundTime ==
  ASSUME TimeInv, UartInv', RoundEnds
  PROVE  TimeInv'
<1>1. /\ \A n \in Node : owuart'[n] = [owuart[n] EXCEPT !.timer = Later(@)]
      /\ dark' = dark /\ inbox' = inbox
      /\ \A n \in Node : Last(n)' = 1 /\ (owuart[n].state # "Off" => Last(n) = 0)
  BY DEF RoundEnds, Silent, hosts, Last
<1>2. \A n \in Node :
        /\ owuart[n] \in OwuartState /\ owuart'[n] \in OwuartState
        /\ Receives(owuart[n]) /\ Receives(owuart'[n])
        /\ owuart'[n].state = owuart[n].state /\ owuart'[n].rx_buffer = owuart[n].rx_buffer
        /\ owuart'[n].tx_buffer = owuart[n].tx_buffer
        /\ owuart[n].state # "Off" => Timed(owuart[n], 0) /\ Own(owuart[n], 0)
        /\ owuart[n].state = "Off" =>
             owuart[n].rx_buffer = <<>> /\ owuart[n].tx_buffer \in Messages \cup {<<>>}
  <2>1. TAKE n \in Node
  <2>2. /\ owuart[n] \in OwuartState /\ owuart'[n] \in OwuartState
        /\ Receives(owuart[n]) /\ Receives(owuart'[n])
        /\ Timed(owuart[n], Last(n)) /\ Own(owuart[n], Last(n))
    BY DEF TimeInv, UartInv, TypeOK, LocalInv, OwnInv
  <2>3. /\ owuart'[n].state = owuart[n].state /\ owuart'[n].rx_buffer = owuart[n].rx_buffer
        /\ owuart'[n].tx_buffer = owuart[n].tx_buffer
    BY <1>1, <2>2 DEF OwuartState
  <2>4. owuart[n].state = "Off" =>
             owuart[n].rx_buffer = <<>> /\ owuart[n].tx_buffer \in Messages \cup {<<>>}
    BY <2>2 DEF Own
  <2> QED BY <1>1, <2>2, <2>3, <2>4
<1>3. OwnInv'
  <2>1. ASSUME NEW n \in Node
        PROVE  /\ Own(owuart'[n], 1)
               /\ owuart'[n].state = "Off" => n \in dark
    <3>1. CASE owuart[n].state = "Off"
      <4>1. Own(owuart'[n], 1)
        BY <1>2, <3>1 DEF Own, TxState
      <4>2. n \in dark
        BY <3>1 DEF TimeInv, OwnInv
      <4> QED BY <4>1, <4>2
    <3>2. CASE owuart[n].state # "Off"
      <4> DEFINE w == owuart[n]
                 x == owuart'[n]
      <4>1. /\ w \in OwuartState /\ x \in OwuartState /\ x = [w EXCEPT !.timer = Later(@)]
            /\ Timed(w, 0) /\ Own(w, 0) /\ Receives(w) /\ w.state # "Off" /\ x.state = w.state
        BY <1>1, <1>2, <3>2
      <4> HIDE DEF w, x
      <4>2. Own(x, 1)
        BY <4>1, RoundOwn
      <4> QED BY <4>1, <4>2 DEF w, x
    <3> QED BY <3>1, <3>2
  <2> QED BY <1>1, <2>1 DEF TimeInv, OwnInv
<1>4. ChaseInv'
  <2>1. ASSUME NEW n \in Node, NEW m \in Node \ {n}
        PROVE  Chases(owuart'[n], 1, owuart'[m], 1)
    <3> DEFINE u == owuart[n]
               w == owuart[m]
               v == owuart'[n]
               x == owuart'[m]
    <3>1. CASE u.state # "Off" /\ w.state # "Off"
      <4>1. /\ u \in OwuartState /\ w \in OwuartState /\ v \in OwuartState /\ x \in OwuartState
            /\ v = [u EXCEPT !.timer = Later(@)] /\ x = [w EXCEPT !.timer = Later(@)]
            /\ Timed(u, 0) /\ Own(u, 0) /\ Receives(u) /\ Timed(w, 0) /\ Own(w, 0) /\ Receives(w)
        BY <1>1, <1>2, <3>1
      <4>2. Chases(u, 0, w, 0)
        BY <1>1, <3>1 DEF TimeInv, ChaseInv
      <4> HIDE DEF u, v, w, x
      <4>3. Chases(v, 1, x, 1)
        BY <3>1, <4>1, <4>2, RoundChases
      <4> QED BY <4>3 DEF v, x
    <3>2. CASE ~(u.state # "Off" /\ w.state # "Off")
      BY <1>2, <3>2, OffPairs
    <3> QED BY <3>1, <3>2
  <2> QED BY <1>1, <2>1 DEF ChaseInv
<1>5. SyncInv'
  <2>1. ASSUME NEW n \in Node, NEW m \in Node \ {n}, NEW k \in Node \ {n}
        PROVE  Sync(owuart'[n], owuart'[m], 1, owuart'[k], 1)
    <3> DEFINE u == owuart[n]
               w == owuart[m]
               y == owuart[k]
               v == owuart'[n]
               x == owuart'[m]
               z == owuart'[k]
    <3>1. CASE u.state \in Sending /\ w.state # "Off" /\ y.state # "Off"
      <4>1. /\ u \in OwuartState /\ w \in OwuartState /\ v \in OwuartState /\ x \in OwuartState
            /\ y \in OwuartState /\ z \in OwuartState
            /\ v = [u EXCEPT !.timer = Later(@)] /\ x = [w EXCEPT !.timer = Later(@)]
            /\ z = [y EXCEPT !.timer = Later(@)] /\ (Listens(z) <=> Listens(y))
            /\ Timed(w, 0) /\ Own(w, 0) /\ Receives(w)
            /\ Timed(y, 0) /\ Own(y, 0) /\ Receives(y)
        BY <1>1, <1>2, <3>1 DEF Listens
      <4>a. Timed(u, 0) /\ Own(u, 0) /\ Receives(u)
        BY <1>2, <3>1 DEF Sending, TxState
      <4>2. Sync(u, w, 0, y, 0)
        BY <1>1, <3>1 DEF TimeInv, SyncInv
      <4> HIDE DEF u, v, w, x, y, z
      <4>3. /\ Heard(v, x, 1) <=> Heard(u, w, 0)
            /\ Heard(v, z, 1) <=> Heard(u, y, 0)
        BY <3>1, <4>1, <4>a, RoundHeard
      <4>4. /\ Expects(x, 1) = Expects(w, 0) - 1 /\ Expects(w, 0) \in Int
            /\ Expects(z, 1) = Expects(y, 0) - 1 /\ Expects(y, 0) \in Int
        BY <3>1, <4>1, RoundExpects
      <4>5. Sync(v, x, 1, z, 1)
        <5> HIDE DEF Expects, Heard
        <5> QED BY <3>1, <4>1, <4>2, <4>3, <4>4 DEF Sync
      <4> QED BY <4>5 DEF v, x, z
    <3>2. CASE ~(u.state \in Sending /\ w.state # "Off" /\ y.state # "Off")
      <4>1. v.state = u.state /\ x.state = w.state /\ z.state = y.state
        BY <1>2
      <4> HIDE DEF u, v, w, x, y, z
      <4>2. Sync(v, x, 1, z, 1)
        BY <3>2, <4>1, OffPairs DEF Sync
      <4> QED BY <4>2 DEF v, x, z
    <3> QED BY <3>1, <3>2
  <2> QED BY <1>1, <2>1 DEF SyncInv
<1>6. QuietInv'
  <2>1. SUFFICES ASSUME Quiet' PROVE /\ \A m \in Node : owuart'[m].state \notin RxState
                                     /\ \A n \in Node : \A m \in Node \ {n} :
                                          Gap(owuart'[n], 1, owuart'[m], 1)
    BY <1>1 DEF QuietInv
  <2>2. Quiet
    BY <1>2, <2>1 DEF Quiet
  <2>3. \A m \in Node : owuart'[m].state \notin RxState
    BY <1>2, <2>2 DEF TimeInv, QuietInv
  <2>4. ASSUME NEW n \in Node, NEW m \in Node \ {n}
        PROVE  Gap(owuart'[n], 1, owuart'[m], 1)
    <3> DEFINE u == owuart[n]
               w == owuart[m]
               v == owuart'[n]
               x == owuart'[m]
    <3>1. CASE u.state # "Off" /\ w.state # "Off"
      <4>1. /\ u \in OwuartState /\ w \in OwuartState /\ v \in OwuartState /\ x \in OwuartState
            /\ v = [u EXCEPT !.timer = Later(@)] /\ x = [w EXCEPT !.timer = Later(@)]
            /\ Timed(u, 0) /\ Own(u, 0) /\ Receives(u) /\ Timed(w, 0) /\ Own(w, 0) /\ Receives(w)
        BY <1>1, <1>2, <3>1
      <4>2. Gap(u, 0, w, 0)
        BY <1>1, <2>2, <3>1 DEF TimeInv, QuietInv
      <4> HIDE DEF u, v, w, x
      <4>3. Gap(v, 1, x, 1)
        BY <3>1, <4>1, <4>2, RoundGap
      <4> QED BY <4>3 DEF v, x
    <3>2. CASE ~(u.state # "Off" /\ w.state # "Off")
      BY <1>2, <3>2, OffPairs
    <3> QED BY <3>1, <3>2
  <2> QED BY <2>3, <2>4
<1> QED BY <1>3, <1>4, <1>5, <1>6 DEF TimeInv

(* A host writes: the nodes see nothing of it yet. *)
LEMMA HostTime ==
  ASSUME TimeInv, UartInv', NEW n \in Node, HostWrites(n)
  PROVE  TimeInv'
<1>1. /\ owuart' = owuart /\ dark' = dark /\ ticked' = ticked
      /\ \A m \in Node : Last(m)' = Last(m)
  BY DEF HostWrites, Last
<1>2. PICK msg \in Writes[n] : inbox' = [inbox EXCEPT ![n] = Append(@, msg)]
  BY DEF HostWrites
<1>3. \A m \in Node : \A k \in DOMAIN inbox'[m] : inbox'[m][k] \in Writes[m]
  <2>1. TAKE m \in Node
  <2>2. inbox[m] \in Seq({Aux} \cup Seq(Byte)) /\ \A k \in DOMAIN inbox[m] : inbox[m][k] \in Writes[m]
    BY DEF TimeInv, UartInv, TypeOK, OwnInv
  <2>3. CASE m # n
    BY <1>2, <2>2, <2>3 DEF TimeInv, UartInv, TypeOK
  <2>4. CASE m = n
    <3>1. inbox'[n] = Append(inbox[n], msg)
      BY <1>2 DEF TimeInv, UartInv, TypeOK
    <3> QED BY <2>2, <2>4, <3>1
  <2> QED BY <2>3, <2>4
<1>4. OwnInv'
  BY <1>1, <1>3 DEF TimeInv, OwnInv
<1>5. ChaseInv' /\ SyncInv' /\ QuietInv'
  BY <1>1 DEF TimeInv, ChaseInv, SyncInv, QuietInv, Quiet
<1> QED BY <1>4, <1>5 DEF TimeInv

(* Nothing changes. *)
LEMMA StutterTime ==
  ASSUME TimeInv, UartInv', UNCHANGED vars
  PROVE  TimeInv'
<1>1. /\ owuart' = owuart /\ dark' = dark /\ ticked' = ticked /\ inbox' = inbox
      /\ \A m \in Node : Last(m)' = Last(m)
  BY DEF vars, hosts, Last
<1> QED BY <1>1 DEF TimeInv, OwnInv, ChaseInv, SyncInv, QuietInv, Quiet

(* One tick of a node. *)
LEMMA TickTime ==
  ASSUME PrefixFree, TimeInv, UartInv', NEW n \in Node, process_tick(n)
  PROVE  TimeInv'
<1>1. CASE StartHoldOff(n)
  BY <1>1, StartHoldOffTick, KeepsStep
<1>2. CASE HoldOff(n)
  <2>1. CASE Read # 1 /\ Keeps(owuart[n], owuart'[n])
    BY <1>2, <2>1, HoldOffTick, KeepsStep
  <2>2. CASE Read # 1 /\ owuart[n].timer <= 0 /\ owuart'[n].state = "EndOfMessage"
    BY <1>2, <2>2, HoldOffTick, ExpireStep
  <2>3. CASE Read = 1 /\ owuart'[n].state = "RxStartBit"
    BY <1>2, <2>3, HoldOffTick, HearStep
  <2> QED BY <1>2, <2>1, <2>2, <2>3, HoldOffTick
<1>3. CASE EndOfMessage(n)
  BY <1>3, EndOfMessageTick, ReportStep
<1>4. CASE IdleHears(n)
  BY <1>4, IdleHearsTick, HearStep
<1>5. CASE IdleSends(n)
  BY <1>5, IdleSendsTick, IdleStep
<1>6. CASE IdleReceives(n)
  BY <1>6, IdleReceivesTick, IdleStep
<1>7. CASE TxStart(n)
  BY <1>7, TxStartTick, StartStep
<1>8. CASE TxBit(n)
  <2>1. CASE owuart[n].tx_pos # 0
    BY <1>8, <2>1, TxBitTick, ContinueStep
  <2>2. CASE owuart[n].tx_pos = 0
    BY <1>8, <2>2, TxBitTick, NextStartStep
  <2> QED BY <2>1, <2>2
<1>9. CASE TxWaitForHalfBit(n)
  BY <1>9, TxWaitForHalfBitTick, ContinueStep
<1>10. CASE TxMonitorBit(n)
  BY <1>10, TxMonitorBitTick, ContinueStep
<1>11. CASE TxWaitForFullBit(n)
  BY <1>11, TxWaitForFullBitTick, ContinueStep
<1>12. CASE TxNextBit(n)
  BY <1>12, TxNextBitTick, ContinueStep
<1>13. CASE TxArbitrated(n)
  BY <1>13, TxArbitratedTick, LoserStep
<1>14. CASE TxCompleted(n)
  BY <1>14, TxCompletedTick, CompletedStep
<1>15. CASE RxStartBit(n)
  BY <1>15, RxStartBitTick, KeepsStep
<1>16. CASE RxWaitForNextBit(n)
  BY <1>16, RxWaitForNextBitTick, KeepsStep
<1>17. CASE RxBit(n)
  BY <1>17, RxBitTick, KeepsStep
<1>18. CASE RxByte(n)
  BY <1>18, RxByteTick, KeepsStep
<1> QED BY <1>1, <1>2, <1>3, <1>4, <1>5, <1>6, <1>7, <1>8, <1>9, <1>10, <1>11, <1>12, <1>13,
           <1>14, <1>15, <1>16, <1>17, <1>18 DEF process_tick

LEMMA TimeInit == Init => TimeInv
<1> SUFFICES ASSUME Init PROVE TimeInv
  OBVIOUS
<1>1. UartInv
  BY UartInit
<1>2. \A n \in Node :
        /\ owuart[n].state \in {"Off", "StartHoldOff"} /\ owuart[n].tx_buffer = <<>>
        /\ owuart[n].rx_buffer = <<>> /\ inbox[n] = <<>>
        /\ owuart[n].state = "Off" => n \in dark
  BY DEF Init
<1>3. OwnInv
  BY <1>2 DEF OwnInv, Own, TxState
<1>4. ChaseInv
  BY <1>2 DEF ChaseInv, Chases, Follow, Before, Early, Sending, TxState, RxState
<1>5. SyncInv
  BY <1>2 DEF SyncInv, Sync, Sending, TxState
<1>6. QuietInv
  BY <1>2 DEF QuietInv, Gap, RxState
<1> QED BY <1>1, <1>3, <1>4, <1>5, <1>6 DEF TimeInv

(* A step that starts no node keeps the timing. *)
LEMMA TimeStep ==
  ASSUME PrefixFree, TimeInv, [Next]_vars, [\A n \in Node : ~PowerOn(n)]_vars
  PROVE  TimeInv'
<1>1. UartInv'
  BY UartInvStep DEF TimeInv
<1>2. CASE UNCHANGED vars
  BY <1>1, <1>2, StutterTime
<1>3. CASE RoundEnds
  BY <1>1, <1>3, RoundTime
<1>4. ASSUME NEW n \in Node, process_tick(n) PROVE TimeInv'
  BY <1>1, <1>4, TickTime
<1>5. ASSUME NEW n \in Node, HostWrites(n) PROVE TimeInv'
  BY <1>1, <1>5, HostTime
<1> QED BY <1>2, <1>3, <1>4, <1>5 DEF Next, Runs

LEMMA TimeInvariant ==
  ASSUME PrefixFree
  PROVE  Spec /\ [][\A n \in Node : ~PowerOn(n)]_vars => []TimeInv
<1>1. Init => TimeInv
  BY TimeInit
<1>2. TimeInv /\ [Next]_vars /\ [\A n \in Node : ~PowerOn(n)]_vars => TimeInv'
  BY TimeStep
<1> QED BY <1>1, <1>2, PTL DEF Spec

-----------------------------------------------------------------------------
(* What the listeners have got *)

\* n drives a 0, some other node a 1, and n is still to find out, or to stop.
Doomed(n) ==
  LET u == owuart[n] IN
  /\ u.state \in {"TxWaitForHalfBit", "TxMonitorBit", "TxArbitrated"}
  /\ u.out = 0
  /\ \E k \in Node : Above(owuart[k], u)

\* What w, which listens, has of the message of u; done is what w has sent.
Has(u, w, l, done) ==
  /\ Heard(u, w, l) /\ w.state \in RxState =>
       /\ w.rx_buffer = SubSeq(u.tx_buffer, 1, Number(u))
       /\ \A i \in 1 .. Len(w.rx_bits) : w.rx_bits[i] = Frame(u.tx_buffer[Number(u) + 1])[i]
  /\ Heard(u, w, l) /\ w.state \notin RxState =>
       w.rx_buffer = SubSeq(u.tx_buffer, 1, Number(u) + 1)
  /\ Unheard(u, w, l) /\ u.tx_byte # 0 => w.rx_buffer = SubSeq(u.tx_buffer, 1, u.tx_byte)
  /\ Ahead(u, w, l) => w.rx_bits = <<>> /\ w.rx_buffer = SubSeq(u.tx_buffer, 1, Number(u) + 1)
  /\ Finished(u, w, l) => u.tx_buffer \in done

DataInv ==
  /\ DOMAIN sent = Node
  /\ \A n \in Node : owuart[n].state \in Sending /\ ~Doomed(n) =>
       \A m \in Node \ {n} :
         Listens(owuart[m]) => Has(owuart[n], owuart[m], Last(m), sent[m])

IntactInv == TimeInv /\ DataInv

-----------------------------------------------------------------------------
(* A sender and a listener *)

(* The lag tells the ways to follow a sender apart. *)
LEMMA LagClasses ==
  ASSUME NEW u \in OwuartState, NEW w \in OwuartState, NEW lu \in {0, 1}, NEW l \in {0, 1},
         Timed(u, lu), Own(u, lu), u.state \in Sending, Receives(w)
  PROVE  /\ Lag(u, w, l) \in Int
         /\ Heard(u, w, l) =>
              /\ Lag(u, w, l) \in 1 .. HalfBit + 2
              /\ Listens(w) => Lag(u, w, l) \in 1 .. 5
         /\ Ahead(u, w, l) => Lag(u, w, l) >= 10 * HalfBit
         /\ Unheard(u, w, l) => Lag(u, w, l) < 0
         /\ Finished(u, w, l) => Lag(u, w, l) \in 3 * HalfBit .. 3 * HalfBit + 2
<1> USE Spans
<1>1. Expects(w, l) \in Int /\ Remaining(u) \in Int /\ Number(u) \in Nat
  BY Expectation, RemainingIs
<1>2. Left(0) \in Nat /\ Left(0) = HoldOffTime + FullBit /\ HoldOffTime >= 8 * HalfBit
  BY LongSpans
<1>3. Lag(u, w, l) \in Int
  BY <1>1 DEF Lag
<1>4. Heard(u, w, l) =>
        /\ Lag(u, w, l) \in 1 .. HalfBit + 2
        /\ Listens(w) => Lag(u, w, l) \in 1 .. 5
  <2> HIDE DEF Lag, Number
  <2> QED BY <1>1, <1>3 DEF Heard
<1>5. Ahead(u, w, l) => Lag(u, w, l) >= 10 * HalfBit
  <2> HIDE DEF Lag, Left
  <2> QED BY <1>2, <1>3 DEF Ahead
<1>6. Unheard(u, w, l) => Lag(u, w, l) < 0
  <2>1. SUFFICES ASSUME Unheard(u, w, l) PROVE Lag(u, w, l) < 0
    OBVIOUS
  <2>2. Remaining(u) = Left(0) - Phase(u) /\ Phase(u) \in 0 .. 3
    BY <2>1, UnheardTime
  <2>3. w.state \in {"HoldOff", "EndOfMessage", "Idle"}
    BY <2>1 DEF Unheard
  <2>4. Expects(w, l) <= 3 * HalfBit - 2
    <3>1. w.timer \in Int /\ w.timer <= HoldOffTime
      BY Fields
    <3>2. /\ w.state = "HoldOff" => Expects(w, l) = 3 * HalfBit - HoldOffTime - 2 + w.timer
          /\ w.state = "EndOfMessage" => Expects(w, l) = 3 * HalfBit - HoldOffTime - 2 - l
          /\ w.state = "Idle" => Expects(w, l) = 3 * HalfBit - HoldOffTime - 3 - l
      BY Expectation
    <3> HIDE DEF Expects
    <3> QED BY <1>1, <1>2, <2>3, <3>1, <3>2
  <2> HIDE DEF Expects, Remaining, Left, Phase
  <2> QED BY <1>1, <1>2, <2>2, <2>4 DEF Lag
<1>7. Finished(u, w, l) => Lag(u, w, l) \in 3 * HalfBit .. 3 * HalfBit + 2
  BY DEF Finished
<1> QED BY <1>3, <1>4, <1>5, <1>6, <1>7

(* With the same lag, w follows in the same way. *)
LEMMA SameClass ==
  ASSUME NEW u \in OwuartState, NEW w \in OwuartState, NEW v \in OwuartState, NEW x \in OwuartState,
         NEW lu \in {0, 1}, NEW l \in {0, 1}, NEW lv \in {0, 1}, NEW k \in {0, 1},
         Timed(u, lu), Own(u, lu), u.state \in Sending, Receives(w),
         Timed(v, lv), Own(v, lv), v.state \in Sending, Receives(x),
         Lag(v, x, k) = Lag(u, w, l), Follow(u, w, l)
  PROVE  /\ Heard(v, x, k) => Heard(u, w, l)
         /\ Ahead(v, x, k) => Ahead(u, w, l)
         /\ Unheard(v, x, k) => Unheard(u, w, l)
         /\ Finished(v, x, k) => Finished(u, w, l)
<1>1. /\ Lag(u, w, l) \in Int
      /\ Heard(u, w, l) => Lag(u, w, l) \in 1 .. HalfBit + 2
      /\ Ahead(u, w, l) => Lag(u, w, l) >= 10 * HalfBit
      /\ Unheard(u, w, l) => Lag(u, w, l) < 0
      /\ Finished(u, w, l) => Lag(u, w, l) \in 3 * HalfBit .. 3 * HalfBit + 2
  BY LagClasses
<1>2. /\ Heard(v, x, k) => Lag(v, x, k) \in 1 .. HalfBit + 2
      /\ Ahead(v, x, k) => Lag(v, x, k) >= 10 * HalfBit
      /\ Unheard(v, x, k) => Lag(v, x, k) < 0
      /\ Finished(v, x, k) => Lag(v, x, k) \in 3 * HalfBit .. 3 * HalfBit + 2
  BY LagClasses
<1>3. Heard(u, w, l) \/ Ahead(u, w, l) \/ Unheard(u, w, l) \/ Finished(u, w, l)
  BY DEF Follow
<1> HIDE DEF Lag, Heard, Ahead, Unheard, Finished
<1> QED BY <1>1, <1>2, <1>3, Spans

(* What w has stays right when neither moves on. *)
LEMMA HasSame ==
  ASSUME NEW u \in OwuartState, NEW w \in OwuartState, NEW v \in OwuartState, NEW x \in OwuartState,
         NEW lu \in {0, 1}, NEW l \in {0, 1}, NEW lv \in {0, 1}, NEW k \in {0, 1},
         Timed(u, lu), Own(u, lu), u.state \in Sending, Receives(w), Listens(w),
         Timed(v, lv), Own(v, lv), v.state \in Sending, Receives(x), Listens(x),
         Lag(v, x, k) = Lag(u, w, l), Follow(u, w, l),
         Number(v) = Number(u), v.tx_buffer = u.tx_buffer,
         x.rx_buffer = w.rx_buffer, x.rx_bits = w.rx_bits, x.state \in RxState <=> w.state \in RxState,
         NEW done, NEW more, done \subseteq more, Has(u, w, l, done)
  PROVE  Has(v, x, k, more)
<1>1. /\ Heard(v, x, k) => Heard(u, w, l)
      /\ Ahead(v, x, k) => Ahead(u, w, l)
      /\ Unheard(v, x, k) => Unheard(u, w, l)
      /\ Finished(v, x, k) => Finished(u, w, l)
  BY SameClass
<1>2. Unheard(v, x, k) => v.tx_byte = u.tx_byte
  BY <1>1, UnheardTime
<1> HIDE DEF Heard, Ahead, Unheard, Finished, Number
<1> QED BY <1>1, <1>2 DEF Has

(* Nothing is expected of a node that is past the gap. *)
LEMMA HasNothing ==
  ASSUME NEW u, NEW x, NEW k, NEW done, x.state \in {"Off", "EndOfMessage", "Idle"} \cup TxState
  PROVE  Has(u, x, k, done)
BY DEF Has, Heard, Ahead, Unheard, Finished, Engaged, RxState, Hearing, TxState

(* A listener hears a start bit. *)
LEMMA HasHeard ==
  ASSUME NEW u \in OwuartState, NEW w \in OwuartState, NEW x \in OwuartState, NEW lu \in {0, 1},
         Timed(u, lu), Own(u, lu), u.state \in Sending, Receives(w), Own(w, 1), Listens(w),
         w.state \in {"HoldOff", "Idle"}, x.state = "RxStartBit", Receives(x), Listens(x),
         x.rx_buffer = w.rx_buffer, Follow(u, w, 1), NEW done, Has(u, w, 1, done)
  PROVE  Has(u, x, 0, done)
<1> USE Spans
<1>1. /\ Lag(u, w, 1) \in Int /\ Lag(u, x, 0) \in Int
      /\ Heard(u, x, 0) => Lag(u, x, 0) \in 1 .. 5
      /\ Ahead(u, x, 0) => Lag(u, x, 0) >= 10 * HalfBit
      /\ Heard(u, w, 1) => Lag(u, w, 1) \in 1 .. 5
      /\ Finished(u, w, 1) => Lag(u, w, 1) \in 3 * HalfBit .. 3 * HalfBit + 2
  BY LagClasses
<1>2. x.rx_bits = <<>> /\ x.state \in RxState /\ ~Unheard(u, x, 0) /\ ~Finished(u, x, 0)
  BY DEF Receives, RxState, Unheard, Finished
<1>3. Left(0) \in Nat /\ Left(0) = HoldOffTime + FullBit /\ HoldOffTime >= 8 * HalfBit
  BY LongSpans
<1>4. u.tx_byte \in Nat /\ u.tx_buffer \in Seq(Byte) /\ Len(x.rx_bits) = 0
  BY <1>2, Fields
<1>5. ~Ahead(u, w, 1)
  BY DEF Ahead, Hearing
<1>6. CASE Unheard(u, w, 1)
  <2>1. Number(u) = u.tx_byte /\ u.state \in Driving /\ u.tx_pos = 0
    BY <1>6, UnheardTime DEF Unheard
  <2>2. ~Ahead(u, x, 0)
    <3>1. u.tx_pos # FrameBits /\ u.state # "TxBit"
      BY <2>1 DEF Driving
    <3> QED BY <3>1 DEF Ahead
  <2>3. w.rx_buffer = SubSeq(u.tx_buffer, 1, u.tx_byte)
    <3>1. CASE u.tx_byte # 0
      BY <1>6, <3>1 DEF Has
    <3>2. CASE u.tx_byte = 0
      <4>1. w.rx_buffer = <<>>
        BY <1>6, <3>2 DEF Unheard, Own
      <4>2. SubSeq(u.tx_buffer, 1, 0) = <<>>
        BY <1>4
      <4> QED BY <3>2, <4>1, <4>2
    <3> QED BY <3>1, <3>2
  <2> QED BY <1>2, <1>4, <2>1, <2>2, <2>3 DEF Has
<1>7. CASE Heard(u, w, 1) \/ Finished(u, w, 1)
  <2>1. w.state = "HoldOff" /\ w.state \notin RxState
    BY <1>7 DEF Heard, Finished, Engaged, RxState
  <2>2. /\ Expects(w, 1) = 3 * HalfBit - HoldOffTime - 2 + w.timer
        /\ w.timer \in Int /\ w.timer <= HoldOffTime
        /\ Expects(x, 0) = Left(0) + 2 - 0
        /\ Remaining(u) \in Int
    BY <2>1, Expectation, Fields, RemainingIs
  <2>3. ~Heard(u, x, 0)
    <3> HIDE DEF Expects, Remaining, Heard, Finished, Left
    <3>1. Lag(u, w, 1) = Expects(w, 1) - Remaining(u) /\ Lag(u, x, 0) = Expects(x, 0) - Remaining(u)
      BY DEF Lag
    <3> HIDE DEF Lag
    <3> QED BY <1>1, <1>3, <1>7, <2>2, <3>1
  <2>4. Ahead(u, x, 0) => x.rx_buffer = SubSeq(u.tx_buffer, 1, Number(u) + 1)
    <3>1. CASE Heard(u, w, 1)
      BY <2>1, <3>1 DEF Has
    <3>2. CASE Finished(u, w, 1)
      BY <3>2, Spans DEF Finished, Ahead, Ends
    <3> QED BY <1>7, <3>1, <3>2
  <2> QED BY <1>2, <2>3, <2>4 DEF Has
<1> QED BY <1>5, <1>6, <1>7 DEF Follow

(* The sender goes on to its next byte. *)
LEMMA HasNextStart ==
  ASSUME NEW u \in OwuartState, NEW v \in OwuartState, NEW w \in OwuartState, NEW l \in {0, 1},
         u.state = "TxBit", u.tx_pos = 0, Timed(u, 1), Own(u, 1),
         v.state = "TxWaitForHalfBit", v.tx_pos = 0, v.tx_byte = u.tx_byte, v.timer = u.timer + HalfBit,
         v.tx_buffer = u.tx_buffer, Timed(v, 0), Own(v, 0),
         Receives(w), Own(w, l), Listens(w), Follow(u, w, l), NEW done, Has(u, w, l, done)
  PROVE  Has(v, w, l, done)
<1> USE Spans
<1>1. u.state \in Sending /\ v.state \in Sending /\ v.state \in Driving /\ u.state \notin Driving
  BY DEF Sending, Driving, TxState
<1>2. /\ Number(v) = u.tx_byte /\ Number(u) = u.tx_byte - 1 /\ u.tx_byte \in Nat
  BY <1>1, Fields DEF Number, Between
<1>3. ~Ahead(v, w, l) /\ ~Finished(v, w, l) /\ ~Unheard(u, w, l) /\ ~Finished(u, w, l)
  <2>1. v.tx_pos # FrameBits /\ u.tx_pos # FrameBits
    OBVIOUS
  <2> QED BY <1>1, <2>1 DEF Ahead, Finished, Unheard, Ends
<1>4. CASE Heard(u, w, l)
  <2>1. w.state = "HoldOff" /\ Expects(w, l) \in -1 .. HalfBit
    BY <1>4, HeardOut
  <2>2. w.rx_buffer = SubSeq(u.tx_buffer, 1, u.tx_byte)
    <3>1. w.rx_buffer = SubSeq(u.tx_buffer, 1, Number(u) + 1)
      BY <1>4, <2>1 DEF Has, RxState
    <3> HIDE DEF Number
    <3> QED BY <1>2, <3>1
  <2>3. ~Heard(v, w, l)
    <3>1. Remaining(v) = Left(0) - Phase(v) /\ Phase(v) \in Int /\ Phase(v) <= FullBit
      BY <1>1, RemainingIs
    <3>2. Left(0) \in Nat /\ Left(0) = HoldOffTime + FullBit /\ HoldOffTime >= 8 * HalfBit
      BY LongSpans
    <3>3. Lag(v, w, l) = Expects(w, l) - Remaining(v)
      BY DEF Lag
    <3>4. Heard(v, w, l) => Lag(v, w, l) \in 1 .. 5
      BY <1>1, LagClasses
    <3> HIDE DEF Heard, Expects, Remaining, Left, Phase, Lag
    <3> QED BY <2>1, <3>1, <3>2, <3>3, <3>4
  <2> QED BY <1>3, <2>2, <2>3 DEF Has
<1>5. CASE Ahead(u, w, l)
  <2>1. w.state \in RxState /\ w.rx_bits = <<>> /\ w.rx_buffer = SubSeq(u.tx_buffer, 1, Number(u) + 1)
    BY <1>5 DEF Has, Ahead, Hearing, RxState
  <2>2. w.rx_buffer = SubSeq(v.tx_buffer, 1, Number(v))
    <3> HIDE DEF Number
    <3> QED BY <1>2, <2>1
  <2>3. ~Unheard(v, w, l)
    BY <1>5 DEF Ahead, Unheard, Hearing
  <2>4. \A i \in 1 .. Len(w.rx_bits) : w.rx_bits[i] = Frame(v.tx_buffer[Number(v) + 1])[i]
    BY <2>1
  <2> HIDE DEF Number
  <2> QED BY <1>3, <2>1, <2>2, <2>3, <2>4, Zenon DEF Has
<1> QED BY <1>3, <1>4, <1>5 DEF Follow

(* The sender sends its first start bit. *)
LEMMA HasStart ==
  ASSUME NEW u \in OwuartState, NEW v \in OwuartState, NEW w \in OwuartState, NEW l \in {0, 1},
         u.state = "TxStart", v.state = "TxWaitForHalfBit",
         v.tx_byte = 0, v.tx_pos = 0, v.timer = HalfBit, Timed(v, 0), Own(v, 0),
         Receives(w), Timed(w, l), Listens(w), Chases(u, 1, w, l), NEW done
  PROVE  Has(v, w, l, done)
<1> USE Spans
<1>1. v.state \in Sending /\ v.state \in Driving /\ Number(v) = 0
  BY DEF Sending, Driving, TxState, Number, Between
<1>2. ~Ahead(v, w, l) /\ ~Finished(v, w, l)
  <2>1. v.tx_pos # FrameBits
    OBVIOUS
  <2> QED BY <1>1, <2>1 DEF Ahead, Finished, Ends
<1>3. ASSUME Heard(v, w, l)
      PROVE  w.state \in RxState /\ w.rx_bits = <<>> /\ w.rx_buffer = <<>>
  <2>1. w.state \in Passive
    BY <1>3 DEF Heard, Passive
  <2>2. Before(1, w, l)
    BY <2>1 DEF Chases
  <2>3. w.state # "HoldOff"
    <3>1. SUFFICES ASSUME w.state = "HoldOff" PROVE FALSE
      OBVIOUS
    <3>2. /\ Expects(w, l) = 3 * HalfBit - HoldOffTime - 2 + w.timer
          /\ w.timer \in Int /\ w.timer <= HoldOffTime
      BY <3>1, Expectation, Fields
    <3>3. Remaining(v) = Left(0) - Phase(v) /\ Phase(v) \in Int /\ Phase(v) <= FullBit
      BY <1>1, RemainingIs
    <3>4. Left(0) \in Nat /\ Left(0) = HoldOffTime + FullBit /\ HoldOffTime >= 8 * HalfBit
      BY LongSpans
    <3>5. Lag(v, w, l) = Expects(w, l) - Remaining(v)
      BY DEF Lag
    <3>6. Lag(v, w, l) \in 1 .. 5
      BY <1>1, <1>3, LagClasses
    <3> HIDE DEF Expects, Remaining, Left, Phase, Lag
    <3> QED BY <3>2, <3>3, <3>4, <3>5, <3>6
  <2>4. w.state \notin {"EndOfMessage", "Idle"}
    BY <1>3 DEF Heard, Engaged, RxState
  <2> QED BY <2>2, <2>3, <2>4 DEF Before, Hearing, RxState
<1>4. v.tx_buffer \in Seq(Byte) /\ SubSeq(v.tx_buffer, 1, 0) = <<>>
  BY Fields
<1>5. w.rx_bits = <<>> =>
        \A i \in 1 .. Len(w.rx_bits) : w.rx_bits[i] = Frame(v.tx_buffer[Number(v) + 1])[i]
  OBVIOUS
<1>6. Heard(v, w, l) => w.rx_buffer = SubSeq(v.tx_buffer, 1, Number(v))
  BY <1>1, <1>3, <1>4
<1> HIDE DEF Number
<1> QED BY <1>2, <1>3, <1>5, <1>6, Zenon DEF Has

(* A node that has just sent its message to the end, beside one that does. *)
LEMMA HasCompleted ==
  ASSUME PrefixFree,
         NEW u \in OwuartState, NEW v \in OwuartState, NEW w \in OwuartState, NEW l \in {0, 1},
         u.state = "TxCompleted", Timed(u, 1), Own(u, 1), Sends(u),
         v.state = "StartHoldOff", v.tx_buffer = <<>>, v.rx_buffer = u.rx_buffer,
         Receives(v), Timed(w, l), Own(w, l), Sends(w), Pair(u, w, l), Pair(w, u, 1),
         w.state \in Sending, NEW done, u.tx_buffer \in done
  PROVE  Has(w, v, 0, done)
<1> USE Spans
<1>1. Lag(w, v, 0) >= 3 * HalfBit /\ Lag(w, v, 0) \in Int /\ Listens(v)
  <2>1. Listens(v)
    BY DEF Listens
  <2> QED BY <2>1, CompletedPairs, LagClasses
<1>2. ~Heard(w, v, 0)
  <2>1. Heard(w, v, 0) => Lag(w, v, 0) \in 1 .. 5
    BY <1>1, LagClasses
  <2> HIDE DEF Lag, Heard
  <2> QED BY <1>1, <2>1
<1>3. ~Unheard(w, v, 0) /\ ~Ahead(w, v, 0)
  BY DEF Unheard, Ahead, Hearing
<1>4. ASSUME Ends(w) PROVE w.tx_buffer = u.tx_buffer
  <2>1. InStep(u, w) /\ AgreeTo(u, w)
    BY DEF Pair, Sending, TxState
  <2>2. /\ u.tx_buffer \in Seq(Byte) /\ w.tx_buffer \in Seq(Byte)
        /\ u.tx_byte \in Nat /\ w.tx_byte \in Nat
        /\ u.tx_pos = 0 /\ u.tx_byte = Len(u.tx_buffer)
        /\ w.tx_pos \in 0 .. FrameBits
    BY Fields DEF Sends
  <2>3. w.state = "TxCompleted" => w.tx_pos = 0 /\ w.tx_byte = Len(w.tx_buffer)
    BY DEF Sends
  <2>4. Len(w.tx_buffer) = Len(u.tx_buffer)
    <3>1. CASE SamePlace(u, w)
      BY <1>4, <2>2, <2>3, <3>1 DEF SamePlace, Ends
    <3>2. CASE NextPlace(u, w)
      BY <1>4, <2>2, <2>3, <3>2 DEF NextPlace, Ends
    <3>3. CASE NextPlace(w, u)
      BY <1>4, <2>2, <2>3, <3>3 DEF NextPlace, Ends
    <3> QED BY <2>1, <3>1, <3>2, <3>3 DEF InStep
  <2>5. \A k \in 1 .. Len(u.tx_buffer) : w.tx_buffer[k] = u.tx_buffer[k]
    BY <2>1, <2>2 DEF AgreeTo
  <2> QED BY <2>2, <2>4, <2>5, SeqEqual
<1>5. Finished(w, v, 0) => w.tx_buffer \in done
  BY <1>4 DEF Finished
<1> QED BY <1>2, <1>3, <1>5 DEF Has

-----------------------------------------------------------------------------
(* A sample *)

(* When w samples, a sender it follows has the bit on the line that w takes *)
(* it for: it is in the second half of it, or about to leave it.            *)
LEMMA SampledAt ==
  ASSUME NEW u \in OwuartState, NEW w \in OwuartState, NEW lu \in {0, 1},
         Timed(u, lu), Own(u, lu), Sends(u), u.state \in Sending, Receives(w), Listens(w),
         w.state = "RxBit", w.timer = -1, Heard(u, w, 1)
  PROVE  /\ Len(w.rx_bits) \in 0 .. FrameBits - 1 /\ Number(u) = u.tx_byte
         /\ \/ /\ u.state \in Driving /\ u.tx_pos = Len(w.rx_bits)
               /\ Phase(u) >= HalfBit + 1
            \/ u.state = "TxBit" /\ u.tx_pos = Len(w.rx_bits) + 1
<1> USE Spans
<1> DEFINE p == Len(w.rx_bits)
<1>1. /\ p \in 0 .. FrameBits - 1 /\ Left(p) \in Nat /\ Left(p) >= 2 * FullBit
      /\ Expects(w, 1) = Left(p) - HalfBit
  <2>1. /\ p \in 0 .. FrameBits - 1 /\ Left(p) \in Nat /\ Left(p) >= 2 * FullBit
        /\ Expects(w, 1) = Left(p) + w.timer + 1 - HalfBit
    BY Expectation
  <2> HIDE DEF p, Expects, Left
  <2> QED BY <2>1
<1>2. Lag(u, w, 1) \in 1 .. 5
  BY LagClasses
<1>3. Remaining(u) \in Left(p) - HalfBit - 5 .. Left(p) - HalfBit - 1
  <2>1. Remaining(u) \in Int
    BY RemainingIs
  <2>2. Lag(u, w, 1) = Expects(w, 1) - Remaining(u)
    BY DEF Lag
  <2> HIDE DEF p, Expects, Remaining, Lag, Left
  <2> QED BY <1>1, <1>2, <2>1, <2>2
<1>4. /\ Phase(u) \in Int /\ Phase(u) >= 0 /\ Phase(u) <= FullBit + 1
      /\ u.tx_pos \in 0 .. FrameBits /\ Left(u.tx_pos) \in Nat
  <2>1. u.tx_pos \in 0 .. FrameBits
    BY Fields
  <2> QED BY <2>1, LeftLast, Phases DEF Sending, TxState, Driving
<1>5. ~Between(u)
  <2>1. Between(u) => Remaining(u) = -1 - lu
    BY RemainingIs
  <2> HIDE DEF p, Remaining, Left, Between
  <2> QED BY <1>1, <1>3, <2>1
<1>6. Remaining(u) = Left(u.tx_pos) - Phase(u)
  BY <1>5 DEF Remaining, Between
<1>7. u.tx_pos = p \/ u.tx_pos = p + 1
  <2>1. p \in 0 .. FrameBits
    BY <1>1
  <2>2. u.tx_pos < p => Left(u.tx_pos) >= Left(p) + FullBit
    BY <1>4, <2>1, LeftSteps
  <2>3. u.tx_pos > p /\ u.tx_pos # p + 1 => Left(p) >= Left(u.tx_pos) + 2 * FullBit
    BY <1>4, <2>1, LeftSteps
  <2> HIDE DEF p, Remaining, Left, Phase
  <2>4. ~(u.tx_pos < p)
    BY <1>1, <1>3, <1>4, <1>6, <2>2
  <2>5. ~(u.tx_pos > p /\ u.tx_pos # p + 1)
    BY <1>1, <1>3, <1>4, <1>6, <2>3
  <2> QED BY <1>1, <1>4, <2>4, <2>5
<1>8. Number(u) = u.tx_byte
  BY <1>5 DEF Number
<1>9. u.state \in Driving \/ u.state = "TxBit" \/ u.state = "TxCompleted"
  BY DEF Driving
<1>10. u.state # "TxCompleted" \/ u.tx_pos # 0
  BY <1>5 DEF Between, Driving
<1>11. CASE u.tx_pos = p
  <2>1. Phase(u) >= HalfBit + 1
    <3> HIDE DEF p, Remaining, Left, Phase
    <3> QED BY <1>1, <1>3, <1>4, <1>6, <1>11
  <2>2. u.state \notin {"TxBit", "TxCompleted"}
    <3>1. u.state \in {"TxBit", "TxCompleted"} => Phase(u) = 1 + lu
      BY Phases
    <3> HIDE DEF p, Phase
    <3> QED BY <1>4, <2>1, <3>1
  <2> QED BY <1>1, <1>8, <1>9, <1>11, <2>1, <2>2
<1>12. CASE u.tx_pos = p + 1
  <2>1. Left(p) = Left(u.tx_pos) + FullBit
    <3>1. p \in 0 .. FrameBits /\ p # FrameBits
      BY <1>1
    <3> HIDE DEF p, Left
    <3> QED BY <1>12, <3>1, LeftFacts
  <2>2. Phase(u) <= 1
    <3> HIDE DEF p, Remaining, Left, Phase
    <3> QED BY <1>1, <1>3, <1>4, <1>6, <2>1
  <2>3. u.tx_pos # 0
    <3> HIDE DEF p
    <3> QED BY <1>1, <1>12
  <2>4. u.state \notin Driving
    <3>1. u.state \in Driving => Phase(u) >= 2
      BY <2>3, Phases
    <3> HIDE DEF p, Phase
    <3> QED BY <1>4, <2>2, <3>1
  <2>5. u.state # "TxCompleted"
    BY <2>3 DEF Sends
  <2> QED BY <1>1, <1>8, <1>9, <1>12, <2>4, <2>5
<1> QED BY <1>7, <1>11, <1>12

(* The bits of a frame, up to the first stop bit, give the byte back. *)
LEMMA ReceivedFrame ==
  ASSUME NEW b \in Byte, NEW f \in Seq(Bit), Len(f) = FrameBits,
         \A i \in 1 .. FrameBits : f[i] = Frame(b)[i]
  PROVE  Framed(f) /\ Data(f) = b
<1> USE Spans
<1>1. /\ Frame(b)[1] = 1 /\ Frame(b)[FrameBits] = 0
      /\ \A i \in 1 .. DataBits : Frame(b)[i + 1] = b[i]
  BY FrameIs
<1>2. Frame(b)[DataBits + 2] = parity(b)
  BY FrameIs
<1>3. f[1] = 1 /\ f[DataBits + 3] = 0 /\ f[DataBits + 2] = parity(b)
  BY <1>1, <1>2
<1>4. Data(f) = b
  <2>1. Data(f) \in Seq(Bit) /\ Len(Data(f)) = DataBits
    BY DEF Data
  <2>2. \A i \in 1 .. DataBits : Data(f)[i] = f[i + 1]
    BY DEF Data
  <2>3. b \in Seq(Bit) /\ Len(b) = DataBits
    BY DEF Byte
  <2>4. \A i \in 1 .. DataBits : Data(f)[i] = b[i]
    <3>1. \A i \in 1 .. DataBits : i + 1 \in 1 .. FrameBits
      OBVIOUS
    <3> QED BY <1>1, <2>2, <3>1
  <2> QED BY <2>1, <2>3, <2>4, SeqEqual
<1> QED BY <1>3, <1>4 DEF Framed, START_BIT_VALUE, STOP_BIT_VALUE

(* One element more. *)
LEMMA SubSeqGrows ==
  ASSUME NEW S, NEW s \in Seq(S), NEW k \in Nat, k < Len(s)
  PROVE  SubSeq(s, 1, k + 1) = Append(SubSeq(s, 1, k), s[k + 1])
<1>1. /\ SubSeq(s, 1, k) \in Seq(S) /\ Len(SubSeq(s, 1, k)) = k
      /\ \A i \in 1 .. k : SubSeq(s, 1, k)[i] = s[i]
  OBVIOUS
<1>2. /\ SubSeq(s, 1, k + 1) \in Seq(S) /\ Len(SubSeq(s, 1, k + 1)) = k + 1
      /\ \A i \in 1 .. k + 1 : SubSeq(s, 1, k + 1)[i] = s[i]
  OBVIOUS
<1> DEFINE a == Append(SubSeq(s, 1, k), s[k + 1])
<1>3. /\ a \in Seq(S) /\ Len(a) = k + 1 /\ a[k + 1] = s[k + 1]
      /\ \A i \in 1 .. k : a[i] = SubSeq(s, 1, k)[i]
  BY <1>1
<1> HIDE DEF a
<1>4. \A i \in 1 .. k + 1 : SubSeq(s, 1, k + 1)[i] = a[i]
  BY <1>1, <1>2, <1>3
<1> QED BY <1>2, <1>3, <1>4, SeqEqual DEF a

(* A sender that drives a 0 when w samples, beside one that drives a 1, is to *)
(* lose at this bit.                                                          *)
LEMMA SampledPair ==
  ASSUME NEW u \in OwuartState, NEW x \in OwuartState, NEW lu \in {0, 1}, NEW lx \in {0, 1},
         NEW p \in 0 .. FrameBits - 1,
         Timed(u, lu), Own(u, lu), Sends(u), u.state \in Sending,
         Timed(x, lx), Own(x, lx), Sends(x), x.state \in Sending,
         \/ u.state \in Driving /\ u.tx_pos = p /\ Phase(u) >= HalfBit + 1
         \/ u.state = "TxBit" /\ u.tx_pos = p + 1,
         \/ x.state \in Driving /\ x.tx_pos = p /\ Phase(x) >= HalfBit + 1
         \/ x.state = "TxBit" /\ x.tx_pos = p + 1,
         Pair(u, x, lx), Pair(x, u, lu), u.out = 0, x.out = 1
  PROVE  u.state \in {"TxWaitForHalfBit", "TxMonitorBit", "TxArbitrated"} /\ Above(x, u)
<1> USE Spans
<1>1. InStep(u, x) /\ AgreeTo(u, x) /\ AgreeTo(x, u) /\ Held(u, x)
  BY DEF Pair
<1>2. /\ u.tx_pos \in 0 .. FrameBits /\ x.tx_pos \in 0 .. FrameBits
      /\ u.tx_byte \in Nat /\ x.tx_byte \in Nat /\ Phase(u) \in Int /\ Phase(x) \in Int
  BY Fields, Phases
<1>3. u.tx_byte = x.tx_byte
  <2>1. ~(u.tx_pos = 0 /\ x.tx_pos = FrameBits) /\ ~(x.tx_pos = 0 /\ u.tx_pos = FrameBits)
    BY <1>2
  <2> QED BY <1>1, <1>2, <2>1 DEF InStep, SamePlace, NextPlace
<1>4. /\ u.state \in Driving => u.out = Frame(u.tx_buffer[u.tx_byte + 1])[p + 1]
      /\ x.state \in Driving => x.out = Frame(x.tx_buffer[x.tx_byte + 1])[p + 1]
      /\ u.state = "TxBit" => u.out = Frame(u.tx_buffer[u.tx_byte + 1])[p + 1]
      /\ x.state = "TxBit" => x.out = Frame(x.tx_buffer[x.tx_byte + 1])[p + 1]
  <2>1. "TxBit" \notin Driving /\ p + 1 # 0
    BY DEF Driving
  <2> QED BY <2>1 DEF Sends, CurrentBit, Own
<1>5. u.state \in Driving /\ x.state \in Driving
  <2>1. SUFFICES ASSUME u.state = "TxBit" \/ x.state = "TxBit" PROVE FALSE
    OBVIOUS
  <2>2. Frame(x.tx_buffer[u.tx_byte + 1])[p + 1] = Frame(u.tx_buffer[u.tx_byte + 1])[p + 1]
    <3>1. CASE u.state = "TxBit"
      <4>1. u.tx_pos = p + 1
        BY <3>1 DEF Driving
      <4> QED BY <1>1, <1>2, <4>1 DEF AgreeTo
    <3>2. CASE x.state = "TxBit"
      <4>1. x.tx_pos = p + 1
        BY <3>2 DEF Driving
      <4> QED BY <1>1, <1>2, <1>3, <4>1 DEF AgreeTo
    <3> QED BY <2>1, <3>1, <3>2
  <2> QED BY <1>3, <1>4, <2>2
<1>6. u.tx_pos = p /\ x.tx_pos = p
  BY <1>5 DEF Driving
<1>7. SamePlace(u, x) /\ Phase(u) - Phase(x) \in -1 .. 1
  <2>1. SamePlace(u, x)
    BY <1>3, <1>6 DEF SamePlace
  <2>2. ~NextPlace(u, x) /\ ~NextPlace(x, u)
    BY <1>2, <1>3, <1>6 DEF NextPlace
  <2> QED BY <1>1, <2>1, <2>2 DEF InStep
<1>8. x.state # "TxArbitrated"
  BY DEF Sends
<1>9. u.state \notin {"TxWaitForFullBit", "TxNextBit"}
  BY <1>1, <1>5, <1>7, <1>8 DEF Held
<1>10. u.state \in {"TxWaitForHalfBit", "TxMonitorBit", "TxArbitrated"}
  BY <1>5, <1>9 DEF Driving, Sending, TxState
<1>11. x.state # "TxNextBit"
  <2>1. u.state = "TxWaitForHalfBit" => Phase(u) <= HalfBit
    BY Phases
  <2>2. u.state = "TxMonitorBit" => Phase(u) <= HalfBit + 1
    BY Phases
  <2>3. u.state = "TxArbitrated" => Phase(u) <= HalfBit + 2
    BY Phases
  <2>4. x.state = "TxNextBit" => Phase(x) >= FullBit
    BY Phases
  <2> HIDE DEF Phase
  <2> QED BY <1>2, <1>7, <1>10, <2>1, <2>2, <2>3, <2>4
<1>12. x.state \in {"TxWaitForHalfBit", "TxMonitorBit", "TxWaitForFullBit"}
  BY <1>5, <1>8, <1>11 DEF Driving, Sending, TxState
<1> QED BY <1>7, <1>10, <1>12 DEF Above, SamePlace

(* What the sender drives then. *)
LEMMA SampledOut ==
  ASSUME NEW u \in OwuartState, NEW lu \in {0, 1}, NEW p \in 0 .. FrameBits - 1,
         Own(u, lu), Sends(u),
         \/ u.state \in Driving /\ u.tx_pos = p
         \/ u.state = "TxBit" /\ u.tx_pos = p + 1
  PROVE  u.out = Frame(u.tx_buffer[u.tx_byte + 1])[p + 1]
<1>1. p + 1 # 0 /\ "TxBit" \notin Driving
  BY Spans DEF Driving
<1>2. CASE u.state \in Driving /\ u.tx_pos = p
  BY <1>2 DEF Sends, CurrentBit
<1>3. CASE u.state = "TxBit" /\ u.tx_pos = p + 1
  BY <1>1, <1>3 DEF Own
<1> QED BY <1>2, <1>3

(* A listener reads the bit of any sender that is not to lose. *)
LEMMA Sampled ==
  ASSUME TimeInv, NEW n \in Node, n \notin ticked, owuart[n].state = "RxBit", Listens(owuart[n]),
         NEW m \in Node \ {n}, owuart[m].state \in Sending, ~Doomed(m)
  PROVE  Heard(owuart[m], owuart[n], 1) =>
           Read = Frame(owuart[m].tx_buffer[Number(owuart[m]) + 1])[Len(owuart[n].rx_bits) + 1]
<1> DEFINE w == owuart[n]
           u == owuart[m]
           p == Len(w.rx_bits)
<1>1. SUFFICES ASSUME Heard(u, w, 1)
               PROVE  Read = Frame(u.tx_buffer[Number(u) + 1])[p + 1]
  OBVIOUS
<1>2. /\ w \in OwuartState /\ Receives(w) /\ w.timer = -1 /\ w.state = "RxBit" /\ Listens(w)
  BY TimeKnown DEF Own
<1>3. /\ u \in OwuartState /\ Last(m) \in {0, 1} /\ Sends(u) /\ Timed(u, Last(m)) /\ Own(u, Last(m))
      /\ u.state \in Sending
  BY TimeKnown
<1>4. /\ p \in 0 .. FrameBits - 1 /\ Number(u) = u.tx_byte
      /\ \/ u.state \in Driving /\ u.tx_pos = p /\ Phase(u) >= HalfBit + 1
         \/ u.state = "TxBit" /\ u.tx_pos = p + 1
  <2> HIDE DEF u, w
  <2> QED BY <1>1, <1>2, <1>3, SampledAt
<1>5. u.out = Frame(u.tx_buffer[u.tx_byte + 1])[p + 1] /\ u.out \in Bit
  <2> HIDE DEF u, w, p
  <2> QED BY <1>3, <1>4, SampledOut, Fields
<1>6. u.out = 1 => Read = 1
  BY DEF Read
<1>7. ASSUME u.out = 0, Read = 1
      PROVE  FALSE
  <2>1. PICK k \in Node : owuart[k].out = 1
    BY <1>7, ReadOf
  <2> DEFINE x == owuart[k]
  <2>2. k # m /\ k # n
    <3>1. w.out # 1
      BY <1>2, TimeKnown DEF Sends, Sending, TxState
    <3> QED BY <1>7, <2>1, <3>1
  <2>3. /\ x \in OwuartState /\ Last(k) \in {0, 1} /\ Sends(x) /\ Timed(x, Last(k)) /\ Own(x, Last(k))
        /\ Chases(x, Last(k), w, 1) /\ x.out = 1
    BY <2>1, <2>2, TimeKnown
  <2>4. x.state \in Sending
    BY <2>3 DEF Sends
  <2>5. Heard(x, w, 1)
    <3>1. Follow(x, w, 1)
      BY <1>2, <2>3, <2>4 DEF Chases, Passive, Engaged, RxState
    <3> QED BY <1>2, <3>1 DEF Follow, Ahead, Unheard, Finished, Hearing
  <2>6. \/ x.state \in Driving /\ x.tx_pos = p /\ Phase(x) >= HalfBit + 1
        \/ x.state = "TxBit" /\ x.tx_pos = p + 1
    <3> HIDE DEF x, w
    <3> QED BY <1>2, <2>3, <2>4, <2>5, SampledAt
  <2>7. Pair(u, x, Last(k)) /\ Pair(x, u, Last(m))
    BY <2>2 DEF TimeInv, UartInv, PairInv
  <2>8. u.state \in {"TxWaitForHalfBit", "TxMonitorBit", "TxArbitrated"} /\ Above(x, u)
    <3> HIDE DEF u, x, w, p
    <3> QED BY <1>3, <1>4, <1>7, <2>3, <2>4, <2>6, <2>7, SampledPair
  <2> QED BY <1>7, <2>8 DEF Doomed
<1>8. Read = 0 \/ Read = 1
  BY ReadOf
<1> QED BY <1>4, <1>5, <1>6, <1>7, <1>8 DEF Bit

(* The bit is the one that was missing. *)
LEMMA HasSample ==
  ASSUME NEW u \in OwuartState, NEW w \in OwuartState, NEW x \in OwuartState, NEW lu \in {0, 1},
         Timed(u, lu), Own(u, lu), u.state \in Sending, Receives(w), Listens(w), w.state = "RxBit",
         Receives(x), Listens(x), x.state \in RxState, Lag(u, x, 0) = Lag(u, w, 1),
         x.rx_buffer = w.rx_buffer, NEW b, x.rx_bits = Append(w.rx_bits, b),
         Follow(u, w, 1), NEW done, Has(u, w, 1, done),
         Heard(u, w, 1) => b = Frame(u.tx_buffer[Number(u) + 1])[Len(w.rx_bits) + 1]
  PROVE  Has(u, x, 0, done)
<1>1. /\ Heard(u, x, 0) => Heard(u, w, 1)
      /\ Ahead(u, x, 0) => Ahead(u, w, 1)
      /\ Unheard(u, x, 0) => Unheard(u, w, 1)
      /\ Finished(u, x, 0) => Finished(u, w, 1)
  BY SameClass
<1>2. ~Ahead(u, w, 1) /\ ~Unheard(u, w, 1) /\ ~Finished(u, w, 1)
  BY DEF Ahead, Unheard, Finished, Hearing
<1>3. ASSUME Heard(u, w, 1)
      PROVE  /\ x.rx_buffer = SubSeq(u.tx_buffer, 1, Number(u))
             /\ \A i \in 1 .. Len(x.rx_bits) : x.rx_bits[i] = Frame(u.tx_buffer[Number(u) + 1])[i]
  <2> DEFINE f == Frame(u.tx_buffer[Number(u) + 1])
  <2>1. /\ w.rx_buffer = SubSeq(u.tx_buffer, 1, Number(u))
        /\ \A i \in 1 .. Len(w.rx_bits) : w.rx_bits[i] = f[i]
    BY <1>3 DEF Has, RxState
  <2>2. b = f[Len(w.rx_bits) + 1]
    BY <1>3
  <2>3. w.rx_bits \in Seq(Bit)
    BY Fields
  <2>4. /\ Len(x.rx_bits) = Len(w.rx_bits) + 1
        /\ \A i \in 1 .. Len(w.rx_bits) : x.rx_bits[i] = w.rx_bits[i]
        /\ x.rx_bits[Len(w.rx_bits) + 1] = b
    BY <2>3
  <2> HIDE DEF f
  <2>5. \A i \in 1 .. Len(x.rx_bits) : x.rx_bits[i] = f[i]
    BY <2>1, <2>2, <2>3, <2>4
  <2> QED BY <2>1, <2>5 DEF f
<1> QED BY <1>1, <1>2, <1>3 DEF Has

(* The byte is the one that was sent. *)
LEMMA HasByte ==
  ASSUME NEW u \in OwuartState, NEW w \in OwuartState, NEW x \in OwuartState, NEW lu \in {0, 1},
         Timed(u, lu), Own(u, lu), u.state \in Sending, Receives(w), Listens(w), w.state = "RxByte",
         Receives(x), Listens(x), x.state = "StartHoldOff", Lag(u, x, 0) = Lag(u, w, 1),
         Follow(u, w, 1), NEW done, Has(u, w, 1, done), Number(u) < Len(u.tx_buffer),
         x.rx_buffer = LET f == SubSeq(w.rx_bits, Len(w.rx_bits) - FrameBits + 1, Len(w.rx_bits)) IN
                       IF Framed(f) THEN Append(w.rx_buffer, Data(f)) ELSE w.rx_buffer
  PROVE  Has(u, x, 0, done)
<1>1. /\ Heard(u, x, 0) => Heard(u, w, 1)
      /\ Ahead(u, x, 0) => Ahead(u, w, 1)
      /\ Unheard(u, x, 0) => Unheard(u, w, 1)
      /\ Finished(u, x, 0) => Finished(u, w, 1)
  BY SameClass
<1>2. ~Ahead(u, w, 1) /\ ~Unheard(u, w, 1) /\ ~Finished(u, w, 1)
  BY DEF Ahead, Unheard, Finished, Hearing
<1>3. ASSUME Heard(u, w, 1)
      PROVE  x.rx_buffer = SubSeq(u.tx_buffer, 1, Number(u) + 1)
  <2> DEFINE b == u.tx_buffer[Number(u) + 1]
             f == SubSeq(w.rx_bits, Len(w.rx_bits) - FrameBits + 1, Len(w.rx_bits))
  <2>1. /\ w.rx_buffer = SubSeq(u.tx_buffer, 1, Number(u))
        /\ \A i \in 1 .. Len(w.rx_bits) : w.rx_bits[i] = Frame(b)[i]
    BY <1>3 DEF Has, RxState
  <2>2. /\ w.rx_bits \in Seq(Bit) /\ Len(w.rx_bits) = FrameBits
        /\ u.tx_buffer \in Seq(Byte) /\ Number(u) \in Nat
    BY Fields, RemainingIs DEF Receives
  <2>3. b \in Byte
    <3> HIDE DEF Number
    <3> QED BY <2>2
  <2>4. f = w.rx_bits
    BY <2>2, Spans
  <2> HIDE DEF b, f
  <2>5. Framed(f) /\ Data(f) = b
    BY <2>1, <2>2, <2>3, <2>4, ReceivedFrame
  <2>6. x.rx_buffer = Append(w.rx_buffer, b)
    BY <2>5 DEF f
  <2>7. SubSeq(u.tx_buffer, 1, Number(u) + 1) = Append(SubSeq(u.tx_buffer, 1, Number(u)), b)
    <3> HIDE DEF Number
    <3> QED BY <2>2, SubSeqGrows DEF b
  <2> QED BY <2>1, <2>6, <2>7
<1>4. x.state \notin RxState
  BY DEF RxState
<1> QED BY <1>1, <1>2, <1>3, <1>4 DEF Has

-----------------------------------------------------------------------------
(* The steps again *)

(* How a node comes to send, or goes on to. *)
LEMMA SendingTick ==
  ASSUME TimeInv, NEW n \in Node, process_tick(n), owuart'[n].state \in Sending
  PROVE  LET u == owuart[n]
             v == owuart'[n] IN
         \/ Continues(u, v)
         \/ /\ u.state = "TxStart" /\ v.state = "TxWaitForHalfBit"
            /\ v.tx_byte = 0 /\ v.tx_pos = 0 /\ v.timer = HalfBit
         \/ /\ u.state = "TxBit" /\ u.tx_pos = 0 /\ v.state = "TxWaitForHalfBit"
            /\ v.tx_pos = 0 /\ v.tx_byte = u.tx_byte /\ v.timer = u.timer + HalfBit
            /\ v.tx_buffer = u.tx_buffer
<1> DEFINE u == owuart[n]
           v == owuart'[n]
<1>0. /\ \A s \in {"HoldOff", "EndOfMessage", "Idle", "RxStartBit", "TxStart", "RxBit", "StartHoldOff"} :
           v.state # s
      /\ v.state \notin Engaged
  BY DEF Sending, TxState, Engaged, RxState
<1>1. ~StartHoldOff(n) /\ ~RxStartBit(n) /\ ~RxWaitForNextBit(n) /\ ~RxBit(n) /\ ~RxByte(n)
  BY <1>0, StartHoldOffTick, RxStartBitTick, RxWaitForNextBitTick, RxBitTick, RxByteTick DEF Keeps
<1>2. ~HoldOff(n)
  BY <1>0, HoldOffTick DEF Keeps
<1>3. ~EndOfMessage(n) /\ ~IdleHears(n) /\ ~IdleSends(n) /\ ~IdleReceives(n)
  BY <1>0, EndOfMessageTick, IdleHearsTick, IdleSendsTick, IdleReceivesTick
<1>4. ~TxArbitrated(n) /\ ~TxCompleted(n)
  BY <1>0, TxArbitratedTick, TxCompletedTick
<1>5. CASE TxStart(n)
  BY <1>5, TxStartTick
<1>6. CASE TxBit(n)
  BY <1>6, TxBitTick
<1>7. CASE TxWaitForHalfBit(n) \/ TxWaitForFullBit(n) \/ TxMonitorBit(n) \/ TxNextBit(n)
  BY <1>7, TxWaitForHalfBitTick, TxWaitForFullBitTick, TxMonitorBitTick, TxNextBitTick
<1> QED BY <1>1, <1>2, <1>3, <1>4, <1>5, <1>6, <1>7 DEF process_tick

(* How a node comes to wait or to receive, or goes on to. *)
LEMMA EngagedTick ==
  ASSUME TimeInv, NEW n \in Node, process_tick(n)
  PROVE  LET u == owuart[n]
             v == owuart'[n] IN
         \/ /\ u.state \in {"EndOfMessage", "Idle"} /\ v.state \in {"Idle", "TxStart"}
            /\ u.state = "EndOfMessage" => v.state = "Idle"
         \/ v.state \in Sending
         \/ /\ u.state = "HoldOff" /\ u.timer <= 0 /\ v.state = "EndOfMessage"
            /\ v.rx_buffer = u.rx_buffer /\ v.tx_buffer = u.tx_buffer
         \/ /\ Keeps(u, v) /\ v.rx_buffer = u.rx_buffer /\ v.rx_bits = u.rx_bits
            /\ u.state \in RxState <=> v.state \in RxState
         \/ /\ u.state \in {"HoldOff", "Idle"} /\ v.state = "RxStartBit" /\ Read = 1
            /\ v.rx_buffer = u.rx_buffer /\ v.tx_buffer = u.tx_buffer
         \/ /\ u.state = "RxBit" /\ v.state \in RxState /\ Keeps(u, v)
            /\ v.rx_buffer = u.rx_buffer /\ v.rx_bits = Append(u.rx_bits, Read)
         \/ /\ u.state = "RxByte" /\ v.state = "StartHoldOff" /\ Keeps(u, v)
            /\ v.rx_buffer = LET f == SubSeq(u.rx_bits, Len(u.rx_bits) - FrameBits + 1, Len(u.rx_bits)) IN
                             IF Framed(f) THEN Append(u.rx_buffer, Data(f)) ELSE u.rx_buffer
         \/ /\ TxCompleted(n) /\ u.state = "TxCompleted" /\ v.state = "StartHoldOff"
            /\ v.tx_buffer = <<>> /\ v.rx_buffer = u.rx_buffer
         \/ /\ TxArbitrated(n) /\ u.state = "TxArbitrated" /\ v.state = "RxBit"
            /\ v.tx_buffer = u.tx_buffer /\ v.rx_buffer = SubSeq(u.tx_buffer, 1, u.tx_byte)
<1> DEFINE u == owuart[n]
           v == owuart'[n]
<1>1. /\ u \in OwuartState /\ Own(u, 1) /\ Receives(u)
      /\ owuart \in [Node -> OwuartState]
  <2>1. n \notin ticked
    BY TickFrame DEF TimeInv, UartInv
  <2> QED BY <2>1, TimeKnown DEF TimeInv, UartInv, TypeOK
<1>2. CASE StartHoldOff(n)
  <2>1. Keeps(u, v) /\ u.state = "StartHoldOff"
    BY <1>2, StartHoldOffTick
  <2>2. v = [u EXCEPT !.timer = HoldOffTime, !.state = "HoldOff"]
    BY <1>1, <1>2 DEF StartHoldOff
  <2>3. v.rx_buffer = u.rx_buffer /\ v.rx_bits = u.rx_bits /\ v.state = "HoldOff"
    BY <1>1, <2>2 DEF OwuartState
  <2> QED BY <2>1, <2>3 DEF RxState
<1>3. CASE HoldOff(n)
  <2>1. /\ u.state = "HoldOff" /\ v.tx_buffer = u.tx_buffer /\ v.rx_buffer = u.rx_buffer
        /\ \/ Keeps(u, v)
           \/ u.timer <= 0 /\ v.state = "EndOfMessage"
           \/ Read = 1 /\ v.state = "RxStartBit"
    BY <1>3, HoldOffTick
  <2>2. PICK s : v = [u EXCEPT !.state = s]
    BY <1>1, <1>3 DEF HoldOff
  <2>3. v.rx_bits = u.rx_bits
    BY <1>1, <2>2 DEF OwuartState
  <2>4. Keeps(u, v) => v.state = "HoldOff"
    BY <2>1 DEF Keeps
  <2> QED BY <2>1, <2>3, <2>4 DEF RxState
<1>4. CASE EndOfMessage(n)
  BY <1>4, EndOfMessageTick
<1>5. CASE IdleHears(n)
  BY <1>5, IdleHearsTick
<1>6. CASE IdleSends(n)
  BY <1>6, IdleSendsTick
<1>7. CASE IdleReceives(n)
  BY <1>7, IdleReceivesTick
<1>8. CASE TxStart(n)
  BY <1>8, TxStartTick DEF Sending, TxState
<1>9. CASE TxBit(n)
  BY <1>9, TxBitTick DEF Continues, Sending, TxState
<1>10. CASE TxWaitForHalfBit(n) \/ TxWaitForFullBit(n) \/ TxMonitorBit(n) \/ TxNextBit(n)
  BY <1>10, TxWaitForHalfBitTick, TxWaitForFullBitTick, TxMonitorBitTick, TxNextBitTick
     DEF Continues
<1>11. CASE TxArbitrated(n)
  <2>1. u.state = "TxArbitrated" /\ v.tx_buffer = u.tx_buffer /\ v.state = "RxBit"
    BY <1>11, TxArbitratedTick
  <2> DEFINE bits == SubSeq(Frame(u.tx_buffer[u.tx_byte + 1]), 1, u.tx_pos)
  <2>2. v = [u EXCEPT !.out = 0, !.rx_buffer = SubSeq(u.tx_buffer, 1, u.tx_byte),
                     !.rx_bits = bits, !.tx_byte = 0, !.tx_pos = 0, !.state = "RxBit"]
    BY <1>1, <1>11 DEF TxArbitrated
  <2> HIDE DEF bits
  <2>3. v.rx_buffer = SubSeq(u.tx_buffer, 1, u.tx_byte)
    BY <1>1, <2>2 DEF OwuartState
  <2> QED BY <1>11, <2>1, <2>3
<1>12. CASE TxCompleted(n)
  BY <1>12, TxCompletedTick
<1>13. CASE RxStartBit(n)
  <2>1. Keeps(u, v) /\ u.state = "RxStartBit"
    BY <1>13, RxStartBitTick
  <2>2. v = [u EXCEPT !.timer = HalfBit, !.state = "RxWaitForNextBit"]
    BY <1>1, <1>13 DEF RxStartBit
  <2>3. v.rx_buffer = u.rx_buffer /\ v.rx_bits = u.rx_bits /\ v.state = "RxWaitForNextBit"
    BY <1>1, <2>2 DEF OwuartState
  <2> QED BY <2>1, <2>3 DEF RxState
<1>14. CASE RxWaitForNextBit(n)
  <2>1. Keeps(u, v) /\ u.state = "RxWaitForNextBit"
    BY <1>14, RxWaitForNextBitTick
  <2>2. v = [u EXCEPT !.state = IF time_ge(n) THEN "RxBit" ELSE @]
    BY <1>1, <1>14 DEF RxWaitForNextBit
  <2>3. v.rx_buffer = u.rx_buffer /\ v.rx_bits = u.rx_bits /\ v.state \in {"RxWaitForNextBit", "RxBit"}
    BY <1>1, <2>1, <2>2 DEF OwuartState
  <2> QED BY <2>1, <2>3 DEF RxState
<1>15. CASE RxBit(n)
  <2>1. Keeps(u, v) /\ u.state = "RxBit"
    BY <1>15, RxBitTick
  <2> DEFINE full == Len(Append(u.rx_bits, Read)) >= FrameBits
  <2>2. v = [u EXCEPT !.rx_bits = Append(u.rx_bits, Read),
                      !.state = IF full THEN "RxByte" ELSE "RxWaitForNextBit",
                      !.timer = IF full THEN @ ELSE @ + FullBit]
    BY <1>1, <1>15 DEF RxBit
  <2> HIDE DEF full
  <2>3. v.rx_buffer = u.rx_buffer /\ v.rx_bits = Append(u.rx_bits, Read)
        /\ v.state \in {"RxWaitForNextBit", "RxByte"}
    BY <1>1, <2>2 DEF OwuartState
  <2> QED BY <2>1, <2>3 DEF RxState
<1>16. CASE RxByte(n)
  <2>1. Keeps(u, v) /\ u.state = "RxByte"
    BY <1>16, RxByteTick
  <2> DEFINE f == SubSeq(u.rx_bits, Len(u.rx_bits) - FrameBits + 1, Len(u.rx_bits))
  <2>2. v = [u EXCEPT !.rx_buffer = IF Framed(f) THEN Append(u.rx_buffer, Data(f)) ELSE u.rx_buffer,
                      !.rx_bits = <<>>, !.state = "StartHoldOff"]
    BY <1>1, <1>16 DEF RxByte
  <2> HIDE DEF f
  <2>3. v.rx_buffer = (IF Framed(f) THEN Append(u.rx_buffer, Data(f)) ELSE u.rx_buffer)
        /\ v.state = "StartHoldOff"
    BY <1>1, <2>2 DEF OwuartState
  <2> QED BY <2>1, <2>3 DEF f
<1> QED BY <1>2, <1>3, <1>4, <1>5, <1>6, <1>7, <1>8, <1>9, <1>10, <1>11, <1>12, <1>13, <1>14,
           <1>15, <1>16 DEF process_tick

(* What was sent stays so. *)
LEMMA SentTick ==
  ASSUME DOMAIN sent = Node, NEW n \in Node, process_tick(n)
  PROVE  /\ DOMAIN sent' = Node /\ \A m \in Node : sent[m] \subseteq sent'[m]
         /\ TxCompleted(n) => owuart[n].tx_buffer \in sent'[n]
<1>1. CASE TxCompleted(n)
  BY <1>1 DEF TxCompleted
<1>2. CASE ~TxCompleted(n)
  <2>1. sent' = sent
    BY <1>2 DEF process_tick, Silent, hosts, StartHoldOff, HoldOff, EndOfMessage, IdleHears, IdleSends,
     TxStart, TxBit, TxWaitForHalfBit, TxMonitorBit, TxWaitForFullBit, TxNextBit, TxArbitrated,
     IdleReceives, RxStartBit, RxWaitForNextBit, RxBit, RxByte
  <2> QED BY <1>2, <2>1
<1> QED BY <1>1, <1>2

(* A node that drives a 1 stays at its bit until one that drives a 0 there *)
(* has left.                                                               *)
LEMMA StaysDoomed ==
  ASSUME NEW u \in OwuartState, NEW w \in OwuartState, NEW l \in {0, 1},
         u.state = "TxWaitForFullBit", u.timer <= 0, Timed(u, 1), Timed(w, l), Pair(u, w, l),
         w.state \in {"TxWaitForHalfBit", "TxMonitorBit", "TxArbitrated"}
  PROVE  ~SamePlace(w, u)
<1>1. SUFFICES ASSUME SamePlace(w, u) PROVE FALSE
  OBVIOUS
<1>2. InStep(u, w)
  BY DEF Pair, Sending, TxState
<1>3. Phase(w) <= HalfBit + 2 /\ Phase(w) \in Int /\ Phase(u) \in Int
  <2>1. /\ Phase(w) \in Int /\ Phase(u) \in Int
        /\ w.state = "TxWaitForHalfBit" => Phase(w) <= HalfBit - 1 + l
        /\ w.state = "TxMonitorBit" => Phase(w) = HalfBit + l
        /\ w.state = "TxArbitrated" => Phase(w) = HalfBit + 1 + l
    BY Phases
  <2> HIDE DEF Phase
  <2> QED BY <2>1, Spans
<1>4. Phase(u) >= FullBit
  <2>1. u.timer \in Int
    BY Fields
  <2> QED BY <2>1, Spans DEF Phase
<1>5. u.tx_byte \in Nat /\ u.tx_pos \in Nat
  BY Fields, Spans
<1>6. Phase(u) - Phase(w) \in -1 .. 1
  <2>1. ~NextPlace(u, w) /\ ~NextPlace(w, u)
    BY <1>1, <1>5, Spans DEF SamePlace, NextPlace
  <2> QED BY <1>2, <2>1 DEF InStep
<1> QED BY <1>3, <1>4, <1>6, Spans

(* A tick of a node that waits with its bit on the line. *)
LEMMA WaitingTick ==
  ASSUME TimeInv, NEW n \in Node, process_tick(n),
         owuart[n].state \in {"TxWaitForHalfBit", "TxMonitorBit", "TxWaitForFullBit", "TxArbitrated"}
  PROVE  LET u == owuart[n]
             v == owuart'[n] IN
         /\ u.state # "TxArbitrated" => v.out = u.out /\ v.tx_byte = u.tx_byte /\ v.tx_pos = u.tx_pos
         /\ u.state = "TxWaitForHalfBit" => v.state \in {"TxWaitForHalfBit", "TxMonitorBit"}
         /\ u.state = "TxMonitorBit" => v.state = IF Read = u.out THEN "TxWaitForFullBit" ELSE "TxArbitrated"
         /\ u.state = "TxWaitForFullBit" =>
              v.state = "TxWaitForFullBit" \/ (v.state = "TxNextBit" /\ u.timer <= 0)
         /\ u.state = "TxArbitrated" => v.state = "RxBit"
<1> DEFINE u == owuart[n]
           v == owuart'[n]
<1>1. u \in OwuartState /\ owuart \in [Node -> OwuartState] /\ Sends(u)
  BY DEF TimeInv, UartInv, TypeOK, LocalInv
<1>2. /\ u.state = "TxWaitForHalfBit" => TxWaitForHalfBit(n)
      /\ u.state = "TxMonitorBit" => TxMonitorBit(n)
      /\ u.state = "TxWaitForFullBit" => TxWaitForFullBit(n)
      /\ u.state = "TxArbitrated" => TxArbitrated(n)
  BY DEF process_tick, In, StartHoldOff, HoldOff, EndOfMessage, IdleHears, IdleSends,
     TxStart, TxBit, TxWaitForHalfBit, TxMonitorBit, TxWaitForFullBit, TxNextBit, TxArbitrated,
     TxCompleted, IdleReceives, RxStartBit, RxWaitForNextBit, RxBit, RxByte
<1>3. CASE u.state = "TxWaitForHalfBit"
  <2>1. v = [u EXCEPT !.state = IF time_ge(n) THEN "TxMonitorBit" ELSE @]
    BY <1>1, <1>2, <1>3 DEF TxWaitForHalfBit
  <2> HIDE DEF u, v
  <2> QED BY <1>1, <1>3, <2>1 DEF OwuartState, u, v
<1>4. CASE u.state = "TxMonitorBit"
  <2>1. v = [u EXCEPT !.timer = @ + HalfBit,
                      !.state = IF Read = u.tx_sent THEN "TxWaitForFullBit" ELSE "TxArbitrated"]
    BY <1>1, <1>2, <1>4 DEF TxMonitorBit
  <2>2. u.out = u.tx_sent
    BY <1>1, <1>4 DEF Sends, Driving, Sending, TxState
  <2>3. /\ v.out = u.out /\ v.tx_byte = u.tx_byte /\ v.tx_pos = u.tx_pos
        /\ v.state = IF Read = u.tx_sent THEN "TxWaitForFullBit" ELSE "TxArbitrated"
    <3> HIDE DEF u, v
    <3> QED BY <1>1, <2>1 DEF OwuartState
  <2> QED BY <1>4, <2>2, <2>3
<1>5. CASE u.state = "TxWaitForFullBit"
  <2>1. v = [u EXCEPT !.state = IF time_ge(n) THEN "TxNextBit" ELSE @]
    BY <1>1, <1>2, <1>5 DEF TxWaitForFullBit
  <2>2. /\ v.out = u.out /\ v.tx_byte = u.tx_byte /\ v.tx_pos = u.tx_pos
        /\ v.state = IF time_ge(n) THEN "TxNextBit" ELSE "TxWaitForFullBit"
    <3> HIDE DEF u, v
    <3> QED BY <1>1, <1>5, <2>1 DEF OwuartState
  <2>3. time_ge(n) => u.timer <= 0
    BY DEF time_ge
  <2>4. v.state = "TxWaitForFullBit" \/ (v.state = "TxNextBit" /\ u.timer <= 0)
    <3> HIDE DEF u, v
    <3> QED BY <2>2, <2>3
  <2> QED BY <1>5, <2>2, <2>4
<1>6. CASE u.state = "TxArbitrated"
  BY <1>2, <1>6, TxArbitratedTick
<1> QED BY <1>3, <1>4, <1>5, <1>6

(* A node that is to lose goes on so until it has stopped. *)
LEMMA DoomedStays ==
  ASSUME TimeInv, NEW n \in Node, process_tick(n), NEW s \in Node, Doomed(s),
         owuart'[s].state \in Sending
  PROVE  Doomed(s)'
<1> DEFINE u == owuart[s]
           v == owuart'[s]
<1>1. PICK k \in Node : Above(owuart[k], u)
  BY DEF Doomed
<1> DEFINE x == owuart[k]
           y == owuart'[k]
<1>2. /\ u.state \in {"TxWaitForHalfBit", "TxMonitorBit", "TxArbitrated"} /\ u.out = 0
      /\ x.state \in {"TxWaitForHalfBit", "TxMonitorBit", "TxWaitForFullBit"} /\ x.out = 1
      /\ SamePlace(u, x)
  BY <1>1 DEF Doomed, Above, SamePlace
<1>3. k # s /\ Read = 1
  BY <1>2 DEF Read
<1>4. \A m \in Node \ {n} : owuart'[m] = owuart[m]
  BY TickFrame DEF TimeInv, UartInv
<1>5. /\ v.state \in {"TxWaitForHalfBit", "TxMonitorBit", "TxArbitrated"} /\ v.out = 0
      /\ v.tx_byte = u.tx_byte /\ v.tx_pos = u.tx_pos
  <2>1. CASE s # n
    BY <1>2, <1>4, <2>1
  <2>2. CASE s = n
    <3>1. u.state # "TxArbitrated"
      BY <1>2, <2>2, WaitingTick DEF Sending, TxState
    <3>2. /\ v.out = u.out /\ v.tx_byte = u.tx_byte /\ v.tx_pos = u.tx_pos
          /\ u.state = "TxWaitForHalfBit" => v.state \in {"TxWaitForHalfBit", "TxMonitorBit"}
          /\ u.state = "TxMonitorBit" => v.state = IF Read = u.out THEN "TxWaitForFullBit" ELSE "TxArbitrated"
      BY <1>2, <2>2, <3>1, WaitingTick
    <3> QED BY <1>2, <1>3, <3>1, <3>2
  <2> QED BY <2>1, <2>2
<1>6. /\ y.state \in {"TxWaitForHalfBit", "TxMonitorBit", "TxWaitForFullBit"} /\ y.out = 1
      /\ y.tx_byte = x.tx_byte /\ y.tx_pos = x.tx_pos
  <2>1. CASE k # n
    BY <1>2, <1>4, <2>1
  <2>2. CASE k = n
    <3>1. /\ y.out = x.out /\ y.tx_byte = x.tx_byte /\ y.tx_pos = x.tx_pos
          /\ x.state = "TxWaitForHalfBit" => y.state \in {"TxWaitForHalfBit", "TxMonitorBit"}
          /\ x.state = "TxMonitorBit" => y.state = IF Read = x.out THEN "TxWaitForFullBit" ELSE "TxArbitrated"
          /\ x.state = "TxWaitForFullBit" =>
               y.state = "TxWaitForFullBit" \/ (y.state = "TxNextBit" /\ x.timer <= 0)
      BY <1>2, <2>2, WaitingTick
    <3>2. ~(x.state = "TxWaitForFullBit" /\ x.timer <= 0)
      <4>1. n \notin ticked
        BY TickFrame DEF TimeInv, UartInv
      <4>2. /\ x \in OwuartState /\ u \in OwuartState /\ Last(s) \in {0, 1}
            /\ Timed(x, 1) /\ Timed(u, Last(s)) /\ Pair(x, u, Last(s))
        BY <1>3, <2>2, <4>1, TimeKnown
      <4> HIDE DEF x, u
      <4> QED BY <1>2, <4>2, StaysDoomed
    <3> QED BY <1>2, <1>3, <3>1, <3>2
  <2> QED BY <2>1, <2>2
<1>7. Above(y, v)
  BY <1>2, <1>5, <1>6 DEF Above, SamePlace
<1> QED BY <1>5, <1>7 DEF Doomed

(* There is a byte for each number. *)
LEMMA NumberInside ==
  ASSUME NEW u \in OwuartState, NEW l \in {0, 1}, Timed(u, l), Own(u, l), Sends(u), u.state \in Sending
  PROVE  Number(u) < Len(u.tx_buffer)
<1>1. u.tx_byte \in Nat /\ u.tx_buffer \in Seq(Byte)
  BY Fields
<1>2. u.state \in Driving \cup {"TxBit"} \/ u.state = "TxCompleted"
  BY DEF Driving
<1>3. Between(u) => u.tx_byte >= 1
  BY RemainingIs
<1>4. u.state = "TxCompleted" => Between(u)
  BY DEF Sends, Between, Driving
<1> QED BY <1>1, <1>2, <1>3, <1>4 DEF Number, Sends

(* A listener's tick. *)
LEMMA ListenerData ==
  ASSUME PrefixFree, IntactInv, TimeInv', NEW n \in Node, process_tick(n), Listens(owuart'[n]),
         NEW m \in Node \ {n}, owuart[m].state \in Sending, ~Doomed(m)
  PROVE  Has(owuart[m], owuart'[n], 0, sent'[n])
<1> DEFINE w == owuart[n]
           x == owuart'[n]
           u == owuart[m]
           lu == Last(m)
           done == sent[n]
           more == sent'[n]
<1>0. n \notin ticked /\ TimeInv /\ DOMAIN sent = Node
  BY TickFrame DEF IntactInv, TimeInv, UartInv, DataInv
<1>1. /\ w \in OwuartState /\ Receives(w) /\ Timed(w, 1) /\ Own(w, 1) /\ Sends(w) /\ Last(n) = 1
      /\ u \in OwuartState /\ lu \in {0, 1} /\ Timed(u, lu) /\ Own(u, lu) /\ Sends(u)
      /\ Chases(u, lu, w, 1) /\ Pair(w, u, lu) /\ Pair(u, w, 1)
      /\ u.state \in Sending
  BY <1>0, TimeKnown
<1>2. x \in OwuartState /\ Receives(x) /\ Listens(x)
  BY DEF TimeInv, UartInv, TypeOK, LocalInv
<1>3. done \subseteq more
  BY <1>0, SentTick
<1>4. Listens(w) => Has(u, w, 1, done)
  BY <1>1 DEF IntactInv, DataInv
<1>5. w.state \in Passive => Follow(u, w, 1)
  BY <1>1 DEF Chases
<1>6. CASE x.state \in {"EndOfMessage", "Idle"} \cup TxState
  BY <1>6, HasNothing
<1>7. ASSUME Keeps(w, x)
      PROVE  /\ Listens(w) /\ Follow(u, w, 1) /\ Has(u, w, 1, done)
             /\ Lag(u, x, 0) = Lag(u, w, 1)
  <2>1. Listens(w) /\ w.state \in Passive /\ Expects(x, 0) = Expects(w, 1)
    BY <1>2, <1>7 DEF Keeps, Listens, Passive
  <2>2. Lag(u, x, 0) = Lag(u, w, 1)
    BY <2>1 DEF Lag
  <2> QED BY <1>4, <1>5, <2>1, <2>2
<1>8. Has(u, w, 1, done) => Has(u, w, 1, more)
  <2> HIDE DEF u, w, done, more
  <2> QED BY <1>3 DEF Has
<1>9. CASE /\ Keeps(w, x) /\ x.rx_buffer = w.rx_buffer /\ x.rx_bits = w.rx_bits
           /\ w.state \in RxState <=> x.state \in RxState
  <2> HIDE DEF u, w, x, lu, done, more
  <2>1. Has(u, x, 0, more)
    BY <1>1, <1>2, <1>3, <1>7, <1>9, HasSame
  <2> QED BY <2>1 DEF u, x, more
<1>10. CASE /\ w.state \in {"HoldOff", "Idle"} /\ x.state = "RxStartBit"
            /\ x.rx_buffer = w.rx_buffer /\ x.tx_buffer = w.tx_buffer
  <2> HIDE DEF u, w, x, lu, done, more
  <2>1. Listens(w) /\ Follow(u, w, 1)
    BY <1>2, <1>5, <1>10 DEF Listens, Passive, Engaged
  <2>2. Has(u, x, 0, more)
    BY <1>1, <1>2, <1>4, <1>8, <1>10, <2>1, HasHeard
  <2> QED BY <2>2 DEF u, x, more
<1>11. CASE /\ w.state = "RxBit" /\ x.state \in RxState /\ Keeps(w, x)
            /\ x.rx_buffer = w.rx_buffer /\ x.rx_bits = Append(w.rx_bits, Read)
  <2>1. Heard(u, w, 1) => Read = Frame(u.tx_buffer[Number(u) + 1])[Len(w.rx_bits) + 1]
    BY <1>0, <1>1, <1>7, <1>11, Sampled
  <2> HIDE DEF u, w, x, lu, done, more
  <2>2. Has(u, x, 0, more)
    BY <1>1, <1>2, <1>7, <1>8, <1>11, <2>1, HasSample
  <2> QED BY <2>2 DEF u, x, more
<1>12. CASE /\ w.state = "RxByte" /\ x.state = "StartHoldOff" /\ Keeps(w, x)
            /\ x.rx_buffer = LET f == SubSeq(w.rx_bits, Len(w.rx_bits) - FrameBits + 1, Len(w.rx_bits)) IN
                             IF Framed(f) THEN Append(w.rx_buffer, Data(f)) ELSE w.rx_buffer
  <2> HIDE DEF u, w, x, lu, done, more
  <2>1. Number(u) < Len(u.tx_buffer)
    BY <1>1, NumberInside
  <2>2. Has(u, x, 0, more)
    BY <1>1, <1>2, <1>7, <1>8, <1>12, <2>1, HasByte
  <2> QED BY <2>2 DEF u, x, more
<1>13. CASE /\ TxCompleted(n) /\ w.state = "TxCompleted" /\ x.state = "StartHoldOff"
            /\ x.tx_buffer = <<>> /\ x.rx_buffer = w.rx_buffer
  <2>1. w.tx_buffer \in more
    BY <1>0, <1>13, SentTick
  <2> HIDE DEF u, w, x, lu, done, more
  <2>2. Has(u, x, 0, more)
    BY <1>1, <1>2, <1>13, <2>1, HasCompleted
  <2> QED BY <2>2 DEF u, x, more
<1>14. ~TxArbitrated(n)
  <2>1. TxArbitrated(n) => w.state = "TxArbitrated" /\ x.tx_buffer = w.tx_buffer
    BY <1>0, TxArbitratedTick
  <2> QED BY <1>1, <1>2, <2>1 DEF Own, TxState, Listens
<1>15. CASE x.state \in {"Idle", "TxStart", "EndOfMessage"} \/ x.state \in Sending
  BY <1>6, <1>15 DEF Sending, TxState
<1> QED BY <1>0, <1>9, <1>10, <1>11, <1>12, <1>13, <1>14, <1>15, EngagedTick

(* A sender's tick. *)
LEMMA SenderData ==
  ASSUME IntactInv, TimeInv', NEW n \in Node, process_tick(n), owuart'[n].state \in Sending, ~Doomed(n)',
         NEW m \in Node \ {n}, Listens(owuart[m])
  PROVE  Has(owuart'[n], owuart[m], Last(m), sent[m])
<1> DEFINE u == owuart[n]
           v == owuart'[n]
           w == owuart[m]
           l == Last(m)
           done == sent[m]
<1>0. n \notin ticked /\ TimeInv
  BY TickFrame DEF IntactInv, TimeInv, UartInv
<1>1. /\ u \in OwuartState /\ Timed(u, 1) /\ Own(u, 1) /\ Sends(u)
      /\ w \in OwuartState /\ l \in {0, 1} /\ Timed(w, l) /\ Own(w, l) /\ Receives(w) /\ Listens(w)
      /\ Chases(u, 1, w, l)
  BY <1>0, TimeKnown
<1>2. v \in OwuartState /\ Timed(v, 0) /\ Own(v, 0) /\ v.state \in Sending
  <2>1. Last(n)' = 0
    BY <1>0, TickFrame DEF TimeInv, UartInv
  <2> QED BY <2>1 DEF TimeInv, UartInv, TypeOK, LocalInv, OwnInv
<1>3. u.state \in Sending => Has(u, w, l, done)
  <2>1. u.state \in Sending => ~Doomed(n)
    BY <1>0, DoomedStays
  <2> QED BY <2>1, <1>1 DEF IntactInv, DataInv
<1>4. CASE w.state \notin Passive
  <2>1. w.state \in {"Off"} \cup TxState
    BY <1>1, <1>4, StateCases DEF Sending, TxState
  <2> QED BY <2>1, HasNothing
<1>5. CASE w.state \in Passive /\ Continues(u, v)
  <2> HIDE DEF u, v, w, l, done
  <2>1. u.state \in Sending /\ v.tx_buffer = u.tx_buffer /\ Number(v) = Number(u) /\ Lag(v, w, l) = Lag(u, w, l)
    BY <1>5 DEF Continues, Lag
  <2>2. Follow(u, w, l)
    BY <1>1, <1>5, <2>1 DEF Chases
  <2>3. Has(v, w, l, done)
    BY <1>1, <1>2, <1>3, <2>1, <2>2, HasSame
  <2> QED BY <2>3 DEF v, w, l, done
<1>6. CASE /\ w.state \in Passive /\ u.state = "TxStart" /\ v.state = "TxWaitForHalfBit"
           /\ v.tx_byte = 0 /\ v.tx_pos = 0 /\ v.timer = HalfBit
  <2> HIDE DEF u, v, w, l, done
  <2>1. Has(v, w, l, done)
    BY <1>1, <1>2, <1>6, HasStart
  <2> QED BY <2>1 DEF v, w, l, done
<1>7. CASE /\ w.state \in Passive
           /\ u.state = "TxBit" /\ u.tx_pos = 0 /\ v.state = "TxWaitForHalfBit"
           /\ v.tx_pos = 0 /\ v.tx_byte = u.tx_byte /\ v.timer = u.timer + HalfBit
           /\ v.tx_buffer = u.tx_buffer
  <2> HIDE DEF u, v, w, l, done
  <2>1. Follow(u, w, l) /\ Has(u, w, l, done)
    BY <1>1, <1>3, <1>7 DEF Chases, Sending, TxState
  <2>2. Has(v, w, l, done)
    BY <1>1, <1>2, <1>7, <2>1, HasNextStart
  <2> QED BY <2>2 DEF v, w, l, done
<1> QED BY <1>0, <1>4, <1>5, <1>6, <1>7, SendingTick

(* A tick. *)
LEMMA TickData ==
  ASSUME PrefixFree, IntactInv, TimeInv', NEW n \in Node, process_tick(n)
  PROVE  DataInv'
<1>0. TimeInv /\ DOMAIN sent = Node
  BY DEF IntactInv, DataInv
<1>1. /\ Last(n)' = 0
      /\ \A m \in Node \ {n} : owuart'[m] = owuart[m] /\ Last(m)' = Last(m)
  BY <1>0, TickFrame DEF TimeInv, UartInv
<1>2. DOMAIN sent' = Node /\ \A m \in Node : sent[m] \subseteq sent'[m]
  BY <1>0, SentTick
<1>3. ASSUME NEW s \in Node, owuart'[s].state \in Sending, ~Doomed(s)', NEW m \in Node \ {s},
             Listens(owuart'[m])
      PROVE  Has(owuart'[s], owuart'[m], Last(m)', sent'[m])
  <2>1. CASE m = n
    <3>1. owuart[s].state \in Sending /\ ~Doomed(s)
      BY <1>0, <1>1, <1>3, <2>1, DoomedStays
    <3> QED BY <1>1, <1>3, <2>1, <3>1, ListenerData
  <2>2. CASE m # n /\ s = n
    <3>1. Has(owuart'[s], owuart[m], Last(m), sent[m])
      BY <1>1, <1>3, <2>2, SenderData
    <3>2. Has(owuart'[s], owuart[m], Last(m), sent'[m])
      BY <1>2, <3>1 DEF Has
    <3> QED BY <1>1, <2>2, <3>2
  <2>3. CASE m # n /\ s # n
    <3>1. owuart[s].state \in Sending /\ ~Doomed(s)
      BY <1>0, <1>1, <1>3, <2>3, DoomedStays
    <3>2. Has(owuart[s], owuart[m], Last(m), sent[m])
      BY <1>1, <1>3, <2>3, <3>1 DEF IntactInv, DataInv
    <3>3. Has(owuart[s], owuart[m], Last(m), sent'[m])
      BY <1>2, <3>2 DEF Has
    <3> QED BY <1>1, <2>3, <3>3
  <2> QED BY <2>1, <2>2, <2>3
<1> QED BY <1>2, <1>3 DEF DataInv

(* The clocks advance. *)
LEMMA RoundData ==
  ASSUME IntactInv, TimeInv', RoundEnds
  PROVE  DataInv'
<1>1. /\ \A n \in Node : owuart'[n] = [owuart[n] EXCEPT !.timer = Later(@)]
      /\ sent' = sent
      /\ \A n \in Node : Last(n)' = 1 /\ (owuart[n].state # "Off" => Last(n) = 0)
  BY DEF RoundEnds, Silent, Last
<1>2. \A n \in Node :
        /\ owuart[n] \in OwuartState /\ owuart'[n] \in OwuartState
        /\ Receives(owuart[n]) /\ Receives(owuart'[n])
        /\ Timed(owuart'[n], 1) /\ Own(owuart'[n], 1)
        /\ owuart[n].state # "Off" => Timed(owuart[n], 0) /\ Own(owuart[n], 0)
  BY <1>1 DEF IntactInv, TimeInv, UartInv, TypeOK, LocalInv, OwnInv
<1>3. \A n \in Node :
        LET u == owuart[n]
            v == owuart'[n] IN
        /\ v.state = u.state /\ v.out = u.out /\ v.tx_byte = u.tx_byte /\ v.tx_pos = u.tx_pos
        /\ v.tx_buffer = u.tx_buffer /\ v.rx_buffer = u.rx_buffer /\ v.rx_bits = u.rx_bits
  BY <1>1, <1>2 DEF OwuartState
<1>4. \A n \in Node : Doomed(n)' <=> Doomed(n)
  BY <1>3 DEF Doomed, Above, SamePlace
<1>5. ASSUME NEW s \in Node, owuart'[s].state \in Sending, ~Doomed(s)', NEW m \in Node \ {s},
             Listens(owuart'[m])
      PROVE  Has(owuart'[s], owuart'[m], 1, sent[m])
  <2> DEFINE u == owuart[s]
             v == owuart'[s]
             w == owuart[m]
             x == owuart'[m]
             done == sent[m]
  <2>1. /\ u.state \in Sending /\ u.state # "Off" /\ ~Doomed(s) /\ Listens(w)
    BY <1>3, <1>4, <1>5 DEF Listens, Sending, TxState
  <2>2. CASE w.state \notin Passive
    <3>1. w.state \in {"Off"} \cup TxState
      BY <1>2, <2>2, StateCases DEF Sending, TxState
    <3>2. x.state \in {"Off"} \cup TxState
      BY <1>3, <3>1
    <3> QED BY <3>2, HasNothing
  <2>3. CASE w.state \in Passive
    <3>1. w.state # "Off"
      BY <2>3 DEF Passive, Engaged, RxState
    <3>2. Has(u, w, 0, done) /\ Chases(u, 0, w, 0)
      BY <1>1, <2>1, <3>1 DEF IntactInv, TimeInv, DataInv, ChaseInv
    <3>3. /\ u \in OwuartState /\ v \in OwuartState /\ w \in OwuartState /\ x \in OwuartState
          /\ v = [u EXCEPT !.timer = Later(@)] /\ x = [w EXCEPT !.timer = Later(@)]
          /\ Timed(u, 0) /\ Own(u, 0) /\ Receives(u) /\ Timed(w, 0) /\ Own(w, 0) /\ Receives(w)
          /\ Timed(v, 1) /\ Own(v, 1) /\ Receives(x) /\ v.state \in Sending /\ Listens(x)
      BY <1>1, <1>2, <1>5, <2>1, <3>1
    <3>4. /\ v.tx_buffer = u.tx_buffer /\ x.rx_buffer = w.rx_buffer /\ x.rx_bits = w.rx_bits
          /\ x.state = w.state
      BY <1>3
    <3> HIDE DEF u, v, w, x, done
    <3>5. Lag(v, x, 1) = Lag(u, w, 0) /\ Number(v) = Number(u)
      BY <2>1, <3>1, <3>3, RoundHeard, RoundRemaining
    <3>6. Follow(u, w, 0)
      BY <2>1, <2>3, <3>2 DEF Chases
    <3>7. /\ u \in OwuartState /\ v \in OwuartState /\ w \in OwuartState /\ x \in OwuartState
          /\ Timed(u, 0) /\ Own(u, 0) /\ u.state \in Sending /\ Receives(w) /\ Listens(w)
      BY <2>1, <3>3
    <3>8. Timed(v, 1) /\ Own(v, 1) /\ v.state \in Sending /\ Receives(x) /\ Listens(x)
      BY <3>3
    <3>9. Has(u, w, 0, done)
      BY <3>2
    <3>10. x.state \in RxState <=> w.state \in RxState
      BY <3>4
    <3>11. 0 \in {0, 1} /\ 1 \in {0, 1} /\ done \subseteq done
      OBVIOUS
    <3>12. /\ v.tx_buffer = u.tx_buffer /\ x.rx_buffer = w.rx_buffer /\ x.rx_bits = w.rx_bits
      BY <3>4
    <3>13. Has(v, x, 1, done)
      BY <3>5, <3>6, <3>7, <3>8, <3>9, <3>10, <3>11, <3>12, HasSame
    <3> QED BY <3>13 DEF v, x, done
  <2> QED BY <2>2, <2>3
<1>6. DOMAIN sent' = Node
  BY <1>1 DEF IntactInv, DataInv
<1> QED BY <1>1, <1>5, <1>6 DEF DataInv

(* What leaves the nodes alone. *)
LEMMA QuietData ==
  ASSUME IntactInv, UNCHANGED <<owuart, sent, ticked>>
  PROVE  DataInv'
<1>1. owuart' = owuart /\ sent' = sent /\ \A n \in Node : Last(n)' = Last(n)
  BY DEF Last
<1>2. \A n \in Node : Doomed(n)' <=> Doomed(n)
  BY <1>1 DEF Doomed
<1> QED BY <1>1, <1>2 DEF IntactInv, DataInv

LEMMA IntactInit == Init => IntactInv
<1> SUFFICES ASSUME Init PROVE IntactInv
  OBVIOUS
<1>1. TimeInv
  BY TimeInit
<1>2. DataInv
  BY DEF Init, DataInv, Sending, TxState
<1> QED BY <1>1, <1>2 DEF IntactInv

LEMMA IntactStep ==
  ASSUME PrefixFree, IntactInv, [Next]_vars, [\A n \in Node : ~PowerOn(n)]_vars
  PROVE  IntactInv'
<1>1. TimeInv'
  BY TimeStep DEF IntactInv
<1>2. CASE UNCHANGED vars
  BY <1>1, <1>2, QuietData DEF vars, IntactInv
<1>3. CASE RoundEnds
  BY <1>1, <1>3, RoundData DEF IntactInv
<1>4. ASSUME NEW n \in Node, process_tick(n) PROVE IntactInv'
  BY <1>1, <1>4, TickData DEF IntactInv
<1>5. ASSUME NEW n \in Node, HostWrites(n) PROVE IntactInv'
  BY <1>1, <1>5, QuietData DEF HostWrites, IntactInv
<1> QED BY <1>2, <1>3, <1>4, <1>5 DEF Next, Runs

(* A message that has been sent to the end is with all who listen. *)
LEMMA IntactFollows == IntactInv => TransmissionIntact
<1> SUFFICES ASSUME IntactInv, NEW n \in Node, NEW m \in Node \ (dark \cup {n}),
                    owuart[n].state = "TxCompleted", owuart[m].tx_buffer = <<>>,
                    owuart[n].tx_buffer \notin sent[m]
             PROVE  owuart[m].rx_buffer = owuart[n].tx_buffer
  BY DEF TransmissionIntact
<1> USE Spans
<1> DEFINE u == owuart[n]
           w == owuart[m]
           lu == Last(n)
           l == Last(m)
<1>1. /\ u \in OwuartState /\ w \in OwuartState /\ lu \in {0, 1} /\ l \in {0, 1}
      /\ Timed(u, lu) /\ Own(u, lu) /\ Sends(u) /\ Own(w, l) /\ Receives(w)
      /\ Chases(u, lu, w, l) /\ Listens(w)
      /\ w.state = "Off" => m \in dark
  BY DEF IntactInv, TimeInv, UartInv, TypeOK, LocalInv, OwnInv, ChaseInv, Last, Listens
<1>2. u.state \in Sending /\ u.state = "TxCompleted" /\ ~Doomed(n)
  BY DEF Sending, TxState, Doomed
<1>3. Has(u, w, l, sent[m])
  BY <1>1, <1>2 DEF IntactInv, DataInv
<1>4. u.tx_buffer \notin sent[m]
  OBVIOUS
<1> HIDE DEF u, w, lu, l
<1>5. w.state \in Passive
  <2>1. w.state \notin TxState
    BY <1>1 DEF Own, Listens
  <2>2. w.state # "Off"
    BY <1>1
  <2> QED BY <1>1, <2>1, <2>2, StateCases DEF Sending, TxState
<1>6. Follow(u, w, l)
  BY <1>1, <1>2, <1>5 DEF Chases
<1>7. ~Ahead(u, w, l) /\ ~Unheard(u, w, l)
  BY <1>2 DEF Ahead, Unheard, Driving
<1>8. ~Finished(u, w, l)
  BY <1>3, <1>4 DEF Has
<1>9. Heard(u, w, l)
  BY <1>6, <1>7, <1>8 DEF Follow
<1>10. /\ u.tx_pos = 0 /\ u.tx_byte = Len(u.tx_buffer) /\ u.tx_buffer \in Seq(Byte) /\ u.tx_byte \in Nat
  BY <1>1, <1>2, Fields DEF Sends
<1>11. Between(u) /\ Number(u) = u.tx_byte - 1 /\ Remaining(u) = -1 - lu
  <2>1. Between(u)
    BY <1>2, <1>10 DEF Between, Driving
  <2> QED BY <1>1, <1>2, <2>1, RemainingIs DEF Number
<1>12. w.state \notin RxState
  <2>1. Lag(u, w, l) <= 5 /\ Lag(u, w, l) = Expects(w, l) - Remaining(u) /\ Expects(w, l) \in Int
    <3>1. Lag(u, w, l) \in 1 .. 5
      BY <1>1, <1>2, <1>9, LagClasses
    <3> QED BY <1>1, <3>1, Expectation DEF Lag
  <2>2. Expects(w, l) <= 4
    <3> HIDE DEF Lag, Expects, Remaining
    <3> QED BY <1>1, <1>11, <2>1
  <2>3. SUFFICES ASSUME w.state \in RxState PROVE FALSE
    OBVIOUS
  <2>4. /\ w.state = "RxStartBit" => Expects(w, l) = Left(0) + 2 - l
        /\ w.state \in {"RxWaitForNextBit", "RxBit"} =>
             /\ Left(Len(w.rx_bits)) \in Nat /\ Left(Len(w.rx_bits)) >= 2 * FullBit
             /\ Expects(w, l) = Left(Len(w.rx_bits)) + w.timer + 1 - HalfBit
        /\ w.state = "RxByte" => Expects(w, l) = 3 * HalfBit - l
    BY <1>1, Expectation
  <2>5. Left(0) \in Nat /\ Left(0) >= 10 * HalfBit
    BY LongSpans
  <2>6. w.timer \in Int /\ (w.state \in {"RxWaitForNextBit", "RxBit"} => w.timer >= -1)
    <3>1. w.timer \in Int
      BY <1>1, Fields
    <3> QED BY <1>1, <3>1 DEF Own
  <2> HIDE DEF Expects, Left
  <2> QED BY <1>1, <2>2, <2>3, <2>4, <2>5, <2>6 DEF RxState
<1>13. w.rx_buffer = SubSeq(u.tx_buffer, 1, Number(u) + 1)
  BY <1>3, <1>9, <1>12 DEF Has
<1>14. w.rx_buffer = u.tx_buffer
  <2>1. Number(u) + 1 = Len(u.tx_buffer)
    <3> HIDE DEF Number
    <3> QED BY <1>10, <1>11
  <2> HIDE DEF Number
  <2> QED BY <1>10, <1>13, <2>1
<1> QED BY <1>14 DEF u, w

(* When a node has sent its message to the end, every node that has nothing *)
(* to send has that message, and nothing else, in its receive buffer,       *)
(* unless it sent the very same one at the same time (main.c:98-109,        *)
(* 222-269, 388-460): for any number of nodes that contend for the line, in *)
(* any order of their ticks, if no message is the beginning of another one  *)
(* and no node is started while the others are at work.                     *)
THEOREM IntactTheorem ==
  ASSUME PrefixFree
  PROVE  Spec /\ [][\A n \in Node : ~PowerOn(n)]_vars => []TransmissionIntact
<1>1. Init => IntactInv
  BY IntactInit
<1>2. IntactInv /\ [Next]_vars /\ [\A n \in Node : ~PowerOn(n)]_vars => IntactInv'
  BY IntactStep
<1>3. IntactInv => TransmissionIntact
  BY IntactFollows
<1> QED BY <1>1, <1>2, <1>3, PTL DEF Spec

-----------------------------------------------------------------------------
(* The room in the receive buffers *)

\* Who may have something to send, and that no more than two nodes do.
Contender(n)  == Fit(n) # {}
TwoContenders ==
  \A a, b, c \in Node : Contender(a) /\ Contender(b) /\ Contender(c) => a = b \/ b = c \/ a = c

\* w, whether it listens or has lost, has stored no more bytes than u has sent.
Room(u, w, l) ==
  /\ Heard(u, w, l) /\ w.state \in RxState => Len(w.rx_buffer) <= Number(u)
  /\ Heard(u, w, l) \/ Ahead(u, w, l) => Len(w.rx_buffer) <= Number(u) + 1
  /\ Unheard(u, w, l) /\ w.state = "HoldOff" => Len(w.rx_buffer) <= u.tx_byte

\* w, which has a message to report, does so before a node that is in TxStart
\* and has lu to run starts, ...
Due(lu, w, l) ==
  w.rx_buffer # <<>> => \/ w.state = "HoldOff" /\ w.timer + lu <= 0
                        \/ w.state = "EndOfMessage" /\ lu <= l

\* ... and in the gap it is on time for that.
OnTime(v, lv, w, l) ==
  v.state # "Off" /\ w.rx_buffer # <<>> => Expects(w, l) <= Expects(v, lv) + 2

ContenderInv == \A n \in Node : owuart[n].tx_buffer # <<>> => Contender(n)

StoreInv ==
  \A n \in Node : \A m \in Node \ {n} :
    /\ owuart[n].state \in Sending => Room(owuart[n], owuart[m], Last(m))
    /\ owuart[n].state = "TxStart" => Due(Last(n), owuart[m], Last(m))
    /\ Quiet /\ Contender(n) => OnTime(owuart[n], Last(n), owuart[m], Last(m))

RoomInv == TimeInv /\ ContenderInv /\ StoreInv /\ BuffersBounded

(* Neither moves on, or a byte that was received is stored. *)
LEMMA RoomSame ==
  ASSUME NEW u \in OwuartState, NEW w \in OwuartState, NEW v \in OwuartState, NEW x \in OwuartState,
         NEW lu \in {0, 1}, NEW l \in {0, 1}, NEW lv \in {0, 1}, NEW k \in {0, 1},
         Timed(u, lu), Own(u, lu), u.state \in Sending, Receives(w),
         Timed(v, lv), Own(v, lv), v.state \in Sending, Receives(x),
         Lag(v, x, k) = Lag(u, w, l), Follow(u, w, l), Number(v) = Number(u),
         \/ x.rx_buffer = w.rx_buffer /\ (x.state \in RxState => w.state \in RxState)
         \/ /\ w.state \in RxState /\ x.state = "StartHoldOff"
            /\ Len(x.rx_buffer) <= Len(w.rx_buffer) + 1,
         x.state = "HoldOff" => w.state \in Engaged,
         Room(u, w, l)
  PROVE  Room(v, x, k)
<1>1. /\ Heard(v, x, k) => Heard(u, w, l)
      /\ Ahead(v, x, k) => Ahead(u, w, l)
      /\ Unheard(v, x, k) => Unheard(u, w, l)
  BY SameClass
<1>2. Unheard(v, x, k) => v.tx_byte = u.tx_byte
  BY <1>1, UnheardTime
<1>3. /\ Number(u) \in Nat /\ Len(w.rx_buffer) \in Nat /\ Len(x.rx_buffer) \in Nat
      /\ u.tx_byte \in Nat /\ v.tx_byte \in Nat
  BY RemainingIs, Fields
<1>4. Unheard(v, x, k) /\ x.state = "HoldOff" => w.state = "HoldOff"
  BY <1>1 DEF Unheard, Engaged, RxState
<1>5. /\ Ahead(v, x, k) => x.state \in RxState
      /\ Unheard(v, x, k) /\ x.state = "HoldOff" => x.state # "StartHoldOff"
      /\ "StartHoldOff" \notin RxState
  BY DEF Ahead, Hearing, RxState
<1> HIDE DEF Heard, Ahead, Unheard, Number
<1>6. CASE x.rx_buffer = w.rx_buffer /\ (x.state \in RxState => w.state \in RxState)
  BY <1>1, <1>2, <1>3, <1>4, <1>6 DEF Room
<1>7. CASE /\ w.state \in RxState /\ x.state = "StartHoldOff"
           /\ Len(x.rx_buffer) <= Len(w.rx_buffer) + 1
  BY <1>1, <1>3, <1>5, <1>7 DEF Room
<1> QED BY <1>6, <1>7

\* Who has stored nothing has room.
LEMMA RoomEmpty ==
  ASSUME NEW u \in OwuartState, NEW w, NEW l, NEW lu \in {0, 1}, Timed(u, lu), Own(u, lu),
         u.state \in Sending, w.state \in Engaged => w.rx_buffer = <<>>
  PROVE  Room(u, w, l)
<1>1. Number(u) \in Nat /\ u.tx_byte \in Nat
  BY RemainingIs, Fields
<1>2. Heard(u, w, l) \/ Ahead(u, w, l) \/ w.state = "HoldOff" => Len(w.rx_buffer) = 0
  BY DEF Heard, Ahead, Engaged, Hearing, RxState
<1> HIDE DEF Heard, Ahead, Unheard, Number
<1> QED BY <1>1, <1>2 DEF Room

(* A node hears a start bit. *)
LEMMA RoomHears ==
  ASSUME NEW u \in OwuartState, NEW w \in OwuartState, NEW x \in OwuartState, NEW lu \in {0, 1},
         Timed(u, lu), Own(u, lu), u.state \in Sending, Receives(w), Own(w, 1),
         w.state \in {"HoldOff", "Idle"}, x.state = "RxStartBit", Receives(x),
         x.rx_buffer = w.rx_buffer, Follow(u, w, 1), Room(u, w, 1)
  PROVE  Room(u, x, 0)
<1> USE Spans
<1>1. /\ Lag(u, w, 1) \in Int /\ Lag(u, x, 0) \in Int
      /\ Heard(u, x, 0) => Lag(u, x, 0) \in 1 .. HalfBit + 2
      /\ Heard(u, w, 1) => Lag(u, w, 1) \in 1 .. HalfBit + 2
      /\ Finished(u, w, 1) => Lag(u, w, 1) \in 3 * HalfBit .. 3 * HalfBit + 2
  BY LagClasses
<1>2. /\ Number(u) \in Nat /\ Len(w.rx_buffer) \in Nat /\ u.tx_byte \in Nat
      /\ ~Unheard(u, x, 0) /\ ~Ahead(u, w, 1)
  BY RemainingIs, Fields DEF Unheard, Ahead, Hearing
<1>3. Left(0) \in Nat /\ Left(0) = HoldOffTime + FullBit /\ HoldOffTime >= 8 * HalfBit
  BY LongSpans
<1>4. CASE Unheard(u, w, 1)
  <2>1. Number(u) = u.tx_byte
    BY <1>4, UnheardTime
  <2>2. w.state = "Idle" => Len(w.rx_buffer) = 0
    BY DEF Own
  <2> HIDE DEF Heard, Ahead, Unheard, Number
  <2> QED BY <1>2, <1>4, <2>1, <2>2 DEF Room
<1>5. CASE Heard(u, w, 1) \/ Finished(u, w, 1)
  <2>1. w.state = "HoldOff"
    BY <1>5 DEF Heard, Finished, Engaged, RxState
  <2>2. /\ Expects(w, 1) = 3 * HalfBit - HoldOffTime - 2 + w.timer
        /\ w.timer \in Int /\ w.timer <= HoldOffTime
        /\ Expects(x, 0) = Left(0) + 2 - 0
        /\ Remaining(u) \in Int
    BY <2>1, Expectation, Fields, RemainingIs
  <2>3. ~Heard(u, x, 0)
    <3> HIDE DEF Expects, Remaining, Heard, Finished, Left
    <3>1. Lag(u, w, 1) = Expects(w, 1) - Remaining(u) /\ Lag(u, x, 0) = Expects(x, 0) - Remaining(u)
      BY DEF Lag
    <3> HIDE DEF Lag
    <3> QED BY <1>1, <1>3, <1>5, <2>2, <3>1
  <2>4. Len(w.rx_buffer) <= Number(u) + 1
    <3>1. Finished(u, w, 1) => Len(w.rx_buffer) = 0
      BY DEF Finished
    <3> HIDE DEF Heard, Finished, Number, Ahead, Unheard
    <3> QED BY <1>2, <1>5, <3>1 DEF Room
  <2> HIDE DEF Heard, Number, Ahead, Unheard
  <2> QED BY <1>2, <2>3, <2>4 DEF Room
<1> QED BY <1>2, <1>4, <1>5 DEF Follow

(* A node loses the line: it has as many bytes as those who go on. *)
LEMMA RoomLoses ==
  ASSUME NEW w \in OwuartState, NEW x \in OwuartState, NEW u \in OwuartState, NEW lu \in {0, 1},
         w.state = "TxArbitrated", Timed(w, 1), Own(w, 1), Sends(w), w.tx_pos <= FrameBits - 2,
         x.state = "RxBit", x.rx_buffer = SubSeq(w.tx_buffer, 1, w.tx_byte),
         Timed(u, lu), Own(u, lu), u.state \in Sending, Pair(w, u, lu)
  PROVE  Room(u, x, 0)
<1> USE Spans
<1>1. w.state \in Sending /\ w.state \in Driving /\ w.tx_buffer \in Seq(Byte) /\ w.tx_byte \in Nat
  BY Fields DEF Sending, Driving, TxState
<1>2. w.tx_byte < Len(w.tx_buffer) /\ w.tx_pos < FrameBits
  BY <1>1, Fields DEF Sends
<1>3. InStep(w, u) /\ Number(w) = w.tx_byte /\ Phase(w) = HalfBit + 2
  <2>1. Phase(w) = HalfBit + 1 + 1
    BY Phases
  <2> QED BY <1>1, <2>1 DEF Pair, Number, Between
<1>4. ~NextByte(w, u)
  <2>1. ~(Phase(w) \in 2 .. 3)
    BY <1>3
  <2> QED BY <2>1 DEF NextByte
<1>5. ~NextByte(u, w)
  <2>1. w.tx_pos # FrameBits
    BY <1>2, Fields
  <2> QED BY <2>1 DEF NextByte
<1>6. Number(u) = w.tx_byte
  BY <1>1, <1>3, <1>4, <1>5, Level
<1>7. Len(x.rx_buffer) = w.tx_byte
  BY <1>1, <1>2
<1>8. ~Unheard(u, x, 0) /\ ~Ahead(u, x, 0)
  BY DEF Unheard, Ahead, Hearing
<1> HIDE DEF Heard, Ahead, Unheard, Number
<1> QED BY <1>1, <1>6, <1>7, <1>8 DEF Room

(* The sender goes on to its next byte. *)
LEMMA RoomNext ==
  ASSUME NEW u \in OwuartState, NEW v \in OwuartState, NEW w \in OwuartState, NEW l \in {0, 1},
         u.state = "TxBit", u.tx_pos = 0, Timed(u, 1), Own(u, 1),
         v.state = "TxWaitForHalfBit", v.tx_pos = 0, v.tx_byte = u.tx_byte,
         Receives(w), Own(w, l), w.state \in Passive => Follow(u, w, l), Room(u, w, l)
  PROVE  Room(v, w, l)
<1> USE Spans
<1>1. u.state \in Sending /\ v.state \in Sending /\ v.state \in Driving /\ u.state \notin Driving
  BY DEF Sending, Driving, TxState
<1>2. /\ Number(v) = u.tx_byte /\ Number(u) = u.tx_byte - 1 /\ u.tx_byte \in Nat
      /\ Len(w.rx_buffer) \in Nat
  BY <1>1, Fields DEF Number, Between
<1>3. ~Unheard(u, w, l) /\ ~Finished(u, w, l)
  BY <1>1 DEF Finished, Unheard, Ends
<1>4. w.state \in Passive => Len(w.rx_buffer) <= u.tx_byte
  <2> HIDE DEF Heard, Ahead, Unheard, Finished, Number
  <2> QED BY <1>2, <1>3 DEF Follow, Room
<1>5. Heard(v, w, l) \/ Ahead(v, w, l) \/ Unheard(v, w, l) => w.state \in Passive
  BY DEF Heard, Ahead, Unheard, Passive, Engaged, Hearing, RxState
<1> HIDE DEF Heard, Ahead, Unheard, Number
<1> QED BY <1>2, <1>4, <1>5 DEF Room

-----------------------------------------------------------------------------
(* The room after a tick *)

\* Beside a sender, of the node that ticks.
LEMMA RoomTick ==
  ASSUME RoomInv, TimeInv', NEW n \in Node, process_tick(n),
         NEW m \in Node \ {n}, owuart[m].state \in Sending
  PROVE  Room(owuart[m], owuart'[n], 0)
<1> DEFINE w == owuart[n]
           x == owuart'[n]
           u == owuart[m]
           lu == Last(m)
<1>0. n \notin ticked /\ TimeInv
  BY TickFrame DEF RoomInv, TimeInv, UartInv
<1>1. /\ w \in OwuartState /\ Receives(w) /\ Timed(w, 1) /\ Own(w, 1) /\ Sends(w) /\ Last(n) = 1
      /\ u \in OwuartState /\ lu \in {0, 1} /\ Timed(u, lu) /\ Own(u, lu) /\ Sends(u)
      /\ Chases(u, lu, w, 1) /\ Pair(w, u, lu)
      /\ u.state \in Sending
  BY <1>0, TimeKnown
<1>2. x \in OwuartState /\ Receives(x)
  BY DEF TimeInv, UartInv, TypeOK, LocalInv
<1>3. Room(u, w, 1)
  BY <1>1 DEF RoomInv, StoreInv
<1>4. w.state \in Passive => Follow(u, w, 1)
  BY <1>1 DEF Chases
<1>5. CASE x.state \in {"Idle", "TxStart", "EndOfMessage"} \/ x.state \in Sending
  <2> HIDE DEF u, w, x, lu
  <2>1. x.state \notin Engaged
    BY <1>5 DEF Engaged, RxState, Sending, TxState
  <2>2. Room(u, x, 0)
    BY <1>1, <2>1, RoomEmpty
  <2> QED BY <2>2 DEF u, x
<1>6. ASSUME Keeps(w, x)
      PROVE  /\ Follow(u, w, 1) /\ Lag(u, x, 0) = Lag(u, w, 1)
             /\ w.state \in Engaged /\ (x.state \in RxState => w.state \in RxState)
  <2>1. w.state \in Passive /\ Expects(x, 0) = Expects(w, 1)
    BY <1>6 DEF Keeps, Passive
  <2>2. Lag(u, x, 0) = Lag(u, w, 1)
    BY <2>1 DEF Lag
  <2> QED BY <1>4, <1>6, <2>1, <2>2 DEF Keeps
<1>7. CASE Keeps(w, x) /\ x.rx_buffer = w.rx_buffer
  <2> HIDE DEF u, w, x, lu
  <2>1. Room(u, x, 0)
    BY <1>1, <1>2, <1>3, <1>6, <1>7, RoomSame
  <2> QED BY <2>1 DEF u, x
<1>8. CASE /\ w.state = "RxByte" /\ x.state = "StartHoldOff" /\ Keeps(w, x)
           /\ x.rx_buffer = LET f == SubSeq(w.rx_bits, Len(w.rx_bits) - FrameBits + 1, Len(w.rx_bits)) IN
                            IF Framed(f) THEN Append(w.rx_buffer, Data(f)) ELSE w.rx_buffer
  <2> HIDE DEF u, w, x, lu
  <2>1. PICK d : x.rx_buffer \in {w.rx_buffer, Append(w.rx_buffer, d)}
    BY <1>8
  <2>2. Len(x.rx_buffer) <= Len(w.rx_buffer) + 1 /\ w.state \in RxState
    BY <1>1, <1>8, <2>1, Fields DEF RxState
  <2>3. Room(u, x, 0)
    BY <1>1, <1>2, <1>3, <1>6, <1>8, <2>2, RoomSame
  <2> QED BY <2>3 DEF u, x
<1>9. CASE w.state \in {"HoldOff", "Idle"} /\ x.state = "RxStartBit" /\ x.rx_buffer = w.rx_buffer
  <2> HIDE DEF u, w, x, lu
  <2>1. Follow(u, w, 1)
    BY <1>4, <1>9 DEF Passive, Engaged
  <2>2. Room(u, x, 0)
    BY <1>1, <1>2, <1>3, <1>9, <2>1, RoomHears
  <2> QED BY <2>2 DEF u, x
<1>10. CASE w.state = "TxCompleted" /\ x.rx_buffer = w.rx_buffer
  <2> HIDE DEF u, w, x, lu
  <2>1. x.rx_buffer = <<>>
    BY <1>1, <1>10 DEF Own, TxState
  <2>2. Room(u, x, 0)
    BY <1>1, <2>1, RoomEmpty
  <2> QED BY <2>2 DEF u, x
<1>11. CASE /\ TxArbitrated(n) /\ w.state = "TxArbitrated" /\ x.state = "RxBit"
            /\ x.rx_buffer = SubSeq(w.tx_buffer, 1, w.tx_byte)
  <2>1. w.tx_pos <= FrameBits - 2
    BY <1>0, <1>11, TxArbitratedTick
  <2> HIDE DEF u, w, x, lu
  <2>2. Room(u, x, 0)
    BY <1>1, <1>2, <1>11, <2>1, RoomLoses
  <2> QED BY <2>2 DEF u, x
<1> QED BY <1>0, <1>5, <1>7, <1>8, <1>9, <1>10, <1>11, EngagedTick

\* Of the others, beside the sender that ticks.
LEMMA SenderTick ==
  ASSUME RoomInv, TimeInv', NEW n \in Node, process_tick(n), owuart'[n].state \in Sending,
         NEW m \in Node \ {n}
  PROVE  Room(owuart'[n], owuart[m], Last(m))
<1> DEFINE u == owuart[n]
           v == owuart'[n]
           w == owuart[m]
           l == Last(m)
<1>0. n \notin ticked /\ TimeInv
  BY TickFrame DEF RoomInv, TimeInv, UartInv
<1>1. /\ u \in OwuartState /\ Timed(u, 1) /\ Own(u, 1) /\ Last(n) = 1
      /\ w \in OwuartState /\ l \in {0, 1} /\ Timed(w, l) /\ Own(w, l) /\ Receives(w)
      /\ Chases(u, 1, w, l)
  BY <1>0, TimeKnown
<1>2. v \in OwuartState /\ Timed(v, 0) /\ Own(v, 0) /\ v.state \in Sending
  <2>1. Last(n)' = 0
    BY <1>0, TickFrame DEF TimeInv, UartInv
  <2> QED BY <2>1 DEF TimeInv, UartInv, TypeOK, LocalInv, OwnInv
<1>3. u.state \in Sending => Room(u, w, l)
  BY DEF RoomInv, StoreInv
<1>4. u.state \in Sending /\ w.state \in Passive => Follow(u, w, l)
  BY <1>1 DEF Chases
<1>5. CASE Continues(u, v)
  <2> HIDE DEF u, v, w, l
  <2>1. u.state \in Sending /\ Number(v) = Number(u) /\ Lag(v, w, l) = Lag(u, w, l)
    BY <1>5 DEF Continues, Lag
  <2>2. ASSUME w.state \notin Engaged PROVE Room(v, w, l)
    BY <1>1, <1>2, <2>2, RoomEmpty
  <2>3. ASSUME w.state \in Engaged PROVE Room(v, w, l)
    BY <1>1, <1>2, <1>3, <1>4, <2>1, <2>3, RoomSame DEF Passive
  <2>4. Room(v, w, l)
    BY <2>2, <2>3
  <2> QED BY <2>4 DEF v, w, l
<1>6. CASE u.state = "TxStart"
  <2>1. Due(1, w, l)
    BY <1>1, <1>6 DEF RoomInv, StoreInv
  <2>2. w.state \in Engaged => w.rx_buffer = <<>>
    <3>1. w.state = "HoldOff" => w.timer \in Int /\ w.timer >= 0
      BY <1>1, Fields DEF Timed
    <3> HIDE DEF w, l
    <3>2. "EndOfMessage" \notin Engaged
      BY DEF Engaged, RxState
    <3> QED BY <1>1, <2>1, <3>1, <3>2 DEF Due
  <2> HIDE DEF u, v, w, l
  <2>3. Room(v, w, l)
    BY <1>2, <2>2, RoomEmpty
  <2> QED BY <2>3 DEF v, w, l
<1>7. CASE /\ u.state = "TxBit" /\ u.tx_pos = 0 /\ v.state = "TxWaitForHalfBit"
           /\ v.tx_pos = 0 /\ v.tx_byte = u.tx_byte
  <2>1. u.state \in Sending
    BY <1>7 DEF Sending, TxState
  <2> HIDE DEF u, v, w, l
  <2>2. Room(v, w, l)
    BY <1>1, <1>2, <1>3, <1>4, <1>7, <2>1, RoomNext
  <2> QED BY <2>2 DEF v, w, l
<1> QED BY <1>0, <1>5, <1>6, <1>7, SendingTick

\* Whoever has something to send is a contender.
LEMMA ContenderTick ==
  ASSUME RoomInv, TimeInv', NEW n \in Node, process_tick(n)
  PROVE  ContenderInv'
<1> DEFINE u == owuart[n]
           v == owuart'[n]
           msg == Head(inbox[n])
<1>0. n \notin ticked /\ TimeInv /\ \A m \in Node \ {n} : owuart'[m] = owuart[m]
  BY TickFrame DEF RoomInv, TimeInv, UartInv
<1>1. u \in OwuartState /\ u.tx_buffer \in Seq(Byte) /\ (u.tx_buffer # <<>> => Contender(n))
  BY <1>0, TimeKnown, Fields DEF RoomInv, ContenderInv
<1>2. v.tx_buffer # <<>> => v.tx_buffer = u.tx_buffer \/ Contender(n)
  <2>1. CASE IdleReceives(n)
    <3>1. /\ inbox[n] \in Seq({Aux} \cup Seq(Byte))
          /\ \A k \in DOMAIN inbox[n] : inbox[n][k] \in Writes[n]
      BY <1>0 DEF TimeInv, UartInv, TypeOK, OwnInv
    <3>2. inbox[n] # <<>> => msg \in Writes[n] /\ msg \in {Aux} \cup Seq(Byte)
      BY <3>1
    <3>3. v = u \/ (/\ v = [u EXCEPT !.tx_buffer = msg]
                    /\ inbox[n] # <<>> /\ msg # Aux /\ ~(Len(msg) > MaxMsg))
      BY <1>0, <2>1 DEF TimeInv, UartInv, TypeOK, IdleReceives
    <3> HIDE DEF u, v, msg
    <3>4. CASE v = u
      BY <3>4
    <3>5. CASE v # u /\ v.tx_buffer # <<>>
      <4>1. msg \in Writes[n] /\ msg \in Seq(Byte) /\ ~(Len(msg) > MaxMsg) /\ v.tx_buffer = msg /\ msg # Aux
        BY <1>1, <3>2, <3>3, <3>5 DEF OwuartState
      <4>2. Len(msg) \in 1 .. MaxMsg
        BY <3>5, <4>1, OwUartAssumption
      <4> QED BY <4>1, <4>2 DEF Contender, Fit
    <3> QED BY <3>4, <3>5
  <2>2. CASE StartHoldOff(n) \/ HoldOff(n) \/ EndOfMessage(n) \/ IdleHears(n) \/ IdleSends(n)
    BY <1>0, <1>1, <2>2 DEF StartHoldOff, HoldOff, EndOfMessage, IdleHears, IdleSends, TimeInv, UartInv, TypeOK,
       OwuartState
  <2>3. CASE TxStart(n) \/ TxBit(n) \/ TxWaitForHalfBit(n) \/ TxMonitorBit(n) \/ TxWaitForFullBit(n)
    BY <1>0, <1>1, <2>3 DEF TxStart, TxBit, TxWaitForHalfBit, TxMonitorBit, TxWaitForFullBit, SendBit,
       TimeInv, UartInv, TypeOK, OwuartState
  <2>4. CASE TxNextBit(n) \/ TxArbitrated(n) \/ TxCompleted(n)
    BY <1>0, <1>1, <2>4 DEF TxNextBit, TxArbitrated, TxCompleted, TimeInv, UartInv, TypeOK, OwuartState
  <2>5. CASE RxStartBit(n) \/ RxWaitForNextBit(n)
    BY <1>0, <1>1, <2>5 DEF RxStartBit, RxWaitForNextBit, TimeInv, UartInv, TypeOK, OwuartState
  <2>6. CASE RxBit(n)
    BY <1>0, <2>6, RxBitTick DEF Keeps
  <2>7. CASE RxByte(n)
    BY <1>0, <2>7, RxByteTick DEF Keeps
  <2> QED BY <2>1, <2>2, <2>3, <2>4, <2>5, <2>6, <2>7 DEF process_tick
<1> QED BY <1>0, <1>1, <1>2 DEF RoomInv, ContenderInv

\* Three nodes never have something to send.
LEMMA NoThird ==
  ASSUME TwoContenders, ContenderInv, NEW a \in Node, NEW b \in Node, NEW c \in Node,
         a # b, a # c, b # c, owuart[a].tx_buffer # <<>>, owuart[b].tx_buffer # <<>>
  PROVE  ~Contender(c) /\ owuart[c].tx_buffer = <<>>
BY DEF ContenderInv, TwoContenders

\* The report of the node that ticks, beside a node in TxStart.
LEMMA DueTick ==
  ASSUME TwoContenders, RoomInv, TimeInv', NEW n \in Node, process_tick(n),
         NEW m \in Node \ {n}, owuart[m].state = "TxStart"
  PROVE  Due(Last(m), owuart'[n], 0)
<1> DEFINE w == owuart[n]
           x == owuart'[n]
           y == owuart[m]
           ly == Last(m)
<1>0. /\ n \notin ticked /\ TimeInv
      /\ owuart'[m] = owuart[m] /\ Last(m)' = Last(m) /\ Last(n)' = 0
  BY TickFrame DEF RoomInv, TimeInv, UartInv
<1>1. /\ w \in OwuartState /\ Receives(w) /\ Timed(w, 1) /\ Own(w, 1) /\ Sends(w) /\ Last(n) = 1
      /\ y \in OwuartState /\ ly \in {0, 1} /\ Own(y, ly) /\ y.state = "TxStart"
      /\ Chases(y, ly, w, 1) /\ Pair(w, y, ly)
  BY <1>0, TimeKnown
<1>2. x \in OwuartState /\ Receives(x) /\ Own(x, 0) /\ Chases(y, ly, x, 0)
  BY <1>0 DEF TimeInv, UartInv, TypeOK, LocalInv, OwnInv, ChaseInv
<1>3. Due(ly, w, 1)
  BY <1>1 DEF RoomInv, StoreInv
<1>4. y.tx_buffer # <<>>
  BY <1>1 DEF Own, TxState
<1>5. "EndOfMessage" \notin Engaged /\ "RxBit" \notin {"HoldOff", "EndOfMessage"}
  BY DEF Engaged, RxState
<1>6. CASE x.state \in {"Idle", "TxStart"} \/ x.state \in Sending
  <2>1. x.rx_buffer = <<>>
    BY <1>2, <1>6 DEF Own, Sending, TxState
  <2> QED BY <2>1 DEF Due
<1>7. CASE w.state = "HoldOff" /\ w.timer <= 0 /\ x.state = "EndOfMessage" /\ x.rx_buffer = w.rx_buffer
  <2>1. w.timer \in Int /\ w.timer >= 0
    BY <1>1, <1>7, Fields DEF Timed
  <2> HIDE DEF w, x, y, ly
  <2>2. Due(ly, x, 0)
    BY <1>1, <1>3, <1>7, <2>1 DEF Due
  <2> QED BY <2>2 DEF x, ly
<1>8. CASE Keeps(w, x) /\ x.rx_buffer = w.rx_buffer
  <2> HIDE DEF w, x, y, ly
  <2>1. Due(ly, x, 0)
    BY <1>3, <1>5, <1>8 DEF Due, Keeps
  <2> QED BY <2>1 DEF x, ly
<1>9. CASE /\ w.state \in {"HoldOff", "Idle"} /\ x.state = "RxStartBit" /\ Read = 1
           /\ x.rx_buffer = w.rx_buffer /\ x.tx_buffer = w.tx_buffer
  <2>1. PICK b \in Node : owuart[b].out = 1
    BY <1>9, ReadOf
  <2>2. owuart[b].state \in Sending /\ Own(owuart[b], Last(b))
    BY <1>0, <2>1 DEF TimeInv, UartInv, LocalInv, OwnInv, Sends
  <2>3. owuart[b].tx_buffer # <<>> /\ b # n /\ b # m
    BY <1>1, <1>9, <2>2 DEF Own, Sending, TxState
  <2>4. ContenderInv
    BY DEF RoomInv
  <2>5. w.tx_buffer = <<>>
    BY <1>4, <2>3, <2>4, NoThird
  <2> HIDE DEF w, x, y, ly
  <2>6. Listens(x) /\ x.state \in Passive /\ x.state \in Hearing /\ x.state \notin {"HoldOff", "EndOfMessage", "Idle"}
    BY <1>9, <2>5 DEF Listens, Passive, Engaged, RxState, Hearing
  <2>7. x.rx_buffer = <<>>
    BY <1>1, <1>2, <2>6 DEF Chases, Before
  <2>8. Due(ly, x, 0)
    BY <2>7 DEF Due
  <2> QED BY <2>8 DEF x, ly
<1>10. ~(w.state = "RxByte" /\ Keeps(w, x))
  <2> HIDE DEF w, x, y, ly
  <2> QED BY <1>1 DEF Chases, Before, Passive, Engaged, RxState, Hearing
<1>11. CASE w.state = "TxCompleted" /\ x.rx_buffer = w.rx_buffer
  <2>1. x.rx_buffer = <<>>
    BY <1>1, <1>11 DEF Own, TxState
  <2> QED BY <2>1 DEF Due
<1>12. CASE w.state = "TxArbitrated" /\ x.rx_buffer = SubSeq(w.tx_buffer, 1, w.tx_byte)
  <2> HIDE DEF w, x, y, ly
  <2>1. w.tx_byte = 0 /\ w.tx_buffer \in Seq(Byte)
    BY <1>1, <1>12, Fields DEF Pair, Waits, Sending, TxState
  <2>2. x.rx_buffer = <<>>
    BY <1>12, <2>1
  <2>3. Due(ly, x, 0)
    BY <2>2 DEF Due
  <2> QED BY <2>3 DEF x, ly
<1> QED BY <1>0, <1>6, <1>7, <1>8, <1>9, <1>10, <1>11, <1>12, EngagedTick

\* The reports of the others, when a node goes to TxStart.
LEMMA StartDue ==
  ASSUME RoomInv, TimeInv', NEW n \in Node, process_tick(n), owuart'[n].state = "TxStart",
         NEW m \in Node \ {n}
  PROVE  Due(0, owuart[m], Last(m))
<1> USE Spans
<1> DEFINE u == owuart[n]
           v == owuart'[n]
           w == owuart[m]
           l == Last(m)
<1>0. n \notin ticked /\ TimeInv /\ Last(n)' = 0
  BY TickFrame DEF RoomInv, TimeInv, UartInv
<1>1. /\ u \in OwuartState /\ Receives(u)
      /\ w \in OwuartState /\ l \in {0, 1} /\ Own(w, l) /\ Receives(w) /\ Last(n) = 1
  BY <1>0, TimeKnown
<1>2. u.state = "Idle"
  BY <1>0, EngagedTick DEF Keeps, Engaged, RxState, Sending, TxState
<1>3. Read = 0
  BY <1>0, <1>2, IdleHearsTick, IdleReceivesTick DEF process_tick, In, StartHoldOff, HoldOff, EndOfMessage,
     IdleSends, TxStart, TxBit, TxWaitForHalfBit, TxMonitorBit, TxWaitForFullBit, TxNextBit, TxArbitrated,
     TxCompleted, RxStartBit, RxWaitForNextBit, RxBit, RxByte
<1>4. Quiet /\ w.state \notin Sending \cup RxState
  BY <1>0, <1>2, <1>3, AllInGap
<1>5. Contender(n)
  <2>1. v.tx_buffer # <<>>
    BY <1>0 DEF TimeInv, OwnInv, Own, TxState
  <2> QED BY <2>1, ContenderTick DEF ContenderInv
<1>6. OnTime(u, 1, w, l)
  BY <1>1, <1>4, <1>5 DEF RoomInv, StoreInv
<1>7. /\ Expects(u, 1) = 3 * HalfBit - HoldOffTime - 4
      /\ w.state = "StartHoldOff" => Expects(w, l) = 3 * HalfBit - l - 1
      /\ w.state = "HoldOff" => Expects(w, l) = 3 * HalfBit - HoldOffTime - 2 + w.timer
  BY <1>1, <1>2, Expectation
<1>8. SUFFICES ASSUME w.rx_buffer # <<>> PROVE Due(0, w, l)
  BY DEF Due
<1>9. w.timer \in Int /\ HoldOffTime >= 8 * HalfBit
  BY <1>1, Fields, LongSpans
<1> HIDE DEF u, v, w, l
<1>10. w.state \in {"StartHoldOff", "HoldOff", "EndOfMessage"}
  BY <1>1, <1>4, <1>8, StateCases DEF Own, TxState, Passive, Engaged
<1>11. Expects(w, l) <= Expects(u, 1) + 2
  BY <1>2, <1>6, <1>8 DEF OnTime
<1> HIDE DEF Expects
<1>12. w.state # "StartHoldOff" /\ (w.state = "HoldOff" => w.timer <= 0)
  BY <1>1, <1>7, <1>9, <1>11
<1> QED BY <1>1, <1>9, <1>10, <1>12 DEF Due

\* In the gap: a node's tick takes nothing from what it expects, and adds
\* nothing while it has a message to report.
LEMMA QuietTick ==
  ASSUME RoomInv, TimeInv', NEW n \in Node, process_tick(n), owuart[n].state \notin Sending, Quiet'
  PROVE  LET u == owuart[n]
             v == owuart'[n] IN
         /\ u.state # "Off" /\ Expects(u, 1) \in Int /\ Expects(v, 0) \in Int
         /\ Expects(v, 0) >= Expects(u, 1)
         /\ v.rx_buffer # <<>> => u.rx_buffer = v.rx_buffer /\ Expects(v, 0) = Expects(u, 1)
<1> USE Spans
<1> DEFINE u == owuart[n]
           v == owuart'[n]
<1>0. n \notin ticked /\ TimeInv /\ Last(n)' = 0
  BY TickFrame DEF RoomInv, TimeInv, UartInv
<1>1. /\ u \in OwuartState /\ Receives(u) /\ Timed(u, 1) /\ u.state \notin Sending
      /\ v \in OwuartState /\ Receives(v) /\ Own(v, 0) /\ v.state \notin Sending
  BY <1>0, TimeKnown DEF TimeInv, UartInv, TypeOK, LocalInv, OwnInv, Quiet
<1>2. Quiet /\ \A m \in Node : owuart[m].state \notin RxState
  BY <1>0, QuietBefore
<1>3. Read # 1
  <2>1. \A m \in Node : owuart[m].out # 1
    BY <1>0, <1>2 DEF TimeInv, UartInv, LocalInv, Sends, Quiet
  <2> QED BY <2>1, ReadOf
<1>4. u.state \notin RxState /\ u.state \notin {"TxCompleted", "TxArbitrated", "RxBit", "RxByte"}
  BY <1>1, <1>2 DEF Sending, TxState, RxState
<1>5. \/ /\ u.state \in {"EndOfMessage", "Idle"} /\ v.state \in {"Idle", "TxStart"}
         /\ u.state = "EndOfMessage" => v.state = "Idle"
      \/ /\ u.state = "HoldOff" /\ u.timer <= 0 /\ v.state = "EndOfMessage"
         /\ v.rx_buffer = u.rx_buffer
      \/ Keeps(u, v) /\ v.rx_buffer = u.rx_buffer
  BY <1>0, <1>1, <1>3, <1>4, EngagedTick
<1> HIDE DEF u, v
<1>6. /\ Expects(u, 1) \in Int /\ Expects(v, 0) \in Int
      /\ u.state = "HoldOff" => Expects(u, 1) = 3 * HalfBit - HoldOffTime - 2 + u.timer
      /\ u.state = "EndOfMessage" => Expects(u, 1) = 3 * HalfBit - HoldOffTime - 3
      /\ u.state = "Idle" => Expects(u, 1) = 3 * HalfBit - HoldOffTime - 4
      /\ v.state = "EndOfMessage" => Expects(v, 0) = 3 * HalfBit - HoldOffTime - 2
      /\ v.state = "Idle" => Expects(v, 0) = 3 * HalfBit - HoldOffTime - 3
      /\ v.state = "TxStart" => Expects(v, 0) = 3 * HalfBit - HoldOffTime - 4
  BY <1>1, Expectation
<1>7. u.timer \in Int /\ (u.state = "HoldOff" => u.timer >= 0)
  BY <1>1, Fields DEF Timed
<1>8. v.state \in {"Idle", "TxStart"} => v.rx_buffer = <<>>
  BY <1>1 DEF Own, TxState
<1>9. Keeps(u, v) => Expects(v, 0) = Expects(u, 1) /\ u.state # "Off"
  BY DEF Keeps, Engaged, RxState
<1> HIDE DEF Expects
<1>10. /\ u.state # "Off" /\ Expects(v, 0) >= Expects(u, 1)
       /\ v.rx_buffer # <<>> => u.rx_buffer = v.rx_buffer /\ Expects(v, 0) = Expects(u, 1)
  BY <1>5, <1>6, <1>7, <1>8, <1>9
<1> QED BY <1>6, <1>10 DEF u, v

\* In the gap: contenders stay on time.
LEMMA OnTimeTick ==
  ASSUME TwoContenders, RoomInv, TimeInv', NEW n \in Node, process_tick(n), Quiet',
         NEW a \in Node, NEW b \in Node \ {a}, Contender(a)
  PROVE  OnTime(owuart'[a], Last(a)', owuart'[b], Last(b)')
<1> USE Spans
<1> DEFINE u == owuart[n]
           v == owuart'[n]
           w == owuart[b]
           l == Last(b)
<1>0. /\ n \notin ticked /\ TimeInv /\ Last(n)' = 0 /\ Last(n) = 1
      /\ \A m \in Node \ {n} : owuart'[m] = owuart[m] /\ Last(m)' = Last(m)
  BY TickFrame DEF RoomInv, TimeInv, UartInv
<1>1. /\ u \in OwuartState /\ Own(u, 1) /\ Timed(u, 1) /\ Sends(u)
      /\ v \in OwuartState /\ Receives(v) /\ v.state \notin Sending
  BY <1>0, TimeKnown DEF TimeInv, UartInv, TypeOK, LocalInv, Quiet
<1>2. CASE u.state \notin Sending
  <2>1. Quiet
    BY <1>0, <1>2, QuietBefore
  <2>2. OnTime(owuart[a], Last(a), w, l)
    BY <2>1 DEF RoomInv, StoreInv
  <2>3. /\ u.state # "Off" /\ Expects(u, 1) \in Int /\ Expects(v, 0) \in Int
        /\ Expects(v, 0) >= Expects(u, 1)
        /\ v.rx_buffer # <<>> => u.rx_buffer = v.rx_buffer /\ Expects(v, 0) = Expects(u, 1)
    BY <1>2, QuietTick
  <2>4. CASE n # a /\ n # b
    BY <1>0, <2>2, <2>4
  <2>5. CASE n = b
    BY <1>0, <2>2, <2>3, <2>5 DEF OnTime
  <2>6. CASE n = a
    <3>1. w \in OwuartState /\ Receives(w) /\ l \in {0, 1}
      BY <1>0, <2>6, TimeKnown
    <3>2. Expects(w, l) \in Int /\ OnTime(u, 1, w, l)
      BY <1>0, <2>2, <2>6, <3>1, Expectation
    <3> HIDE DEF u, v, w, l, Expects
    <3>3. OnTime(v, 0, w, l)
      BY <2>3, <3>2 DEF OnTime
    <3> QED BY <1>0, <2>6, <3>3 DEF v, w, l
  <2> QED BY <2>4, <2>5, <2>6
<1>3. CASE u.state \in Sending
  <2>1. u.state = "TxCompleted" /\ v.state = "StartHoldOff" /\ v.rx_buffer = u.rx_buffer
    <3>1. u.state # "TxArbitrated"
      <4> SUFFICES ASSUME u.state = "TxArbitrated" PROVE FALSE
        OBVIOUS
      <4>1. PICK m \in Node \ {n} : Above(owuart[m], u)
        BY <1>0 DEF TimeInv, UartInv, AboveInv
      <4>2. owuart'[m].state \in Sending
        BY <1>0, <4>1 DEF Above, Sending, TxState
      <4> QED BY <4>2 DEF Quiet
    <3>2. u.state \notin {"EndOfMessage", "Idle", "HoldOff", "RxBit", "RxByte"} /\ u.state \notin Engaged
      BY <1>3 DEF Sending, TxState, Engaged, RxState
    <3>3. ~Keeps(u, v)
      BY <3>2 DEF Keeps
    <3> QED BY <1>0, <1>1, <3>1, <3>2, <3>3, EngagedTick
  <2>2. v.rx_buffer = <<>> /\ u.tx_buffer # <<>>
    BY <1>1, <2>1 DEF Own, TxState
  <2>3. CASE n = b
    BY <2>2, <2>3 DEF OnTime
  <2>4. ASSUME n # b, w.rx_buffer # <<>>
        PROVE  owuart'[a].state # "Off" => Expects(w, l) <= Expects(owuart'[a], Last(a)') + 2
    <3>1. /\ w \in OwuartState /\ Receives(w) /\ l \in {0, 1} /\ Own(w, l)
          /\ Chases(u, 1, w, l) /\ owuart'[b] = w /\ Last(b)' = l
      BY <1>0, <2>4, TimeKnown
    <3>2. CASE n = a
      <4>1. w.state \notin Sending
        BY <3>1 DEF Quiet
      <4>2. Expects(v, 0) = 3 * HalfBit - 1 /\ Expects(w, l) \in Int
        BY <1>1, <2>1, <3>1, Expectation
      <4> HIDE DEF u, v, w, l
      <4>3. w.state \in Passive
        BY <2>4, <3>1, <4>1, StateCases DEF Own, TxState
      <4>4. Follow(u, w, l)
        BY <1>3, <3>1, <4>3 DEF Chases
      <4>5. Expects(w, l) <= HalfBit
        <5>1. Expects(w, l) \in -1 .. HalfBit
          BY <1>1, <2>1, <2>4, <3>1, <4>4, AfterLast
        <5> QED BY <5>1
      <4> HIDE DEF Expects
      <4>6. Expects(w, l) <= Expects(v, 0) + 2
        BY <4>2, <4>5
      <4> QED BY <1>0, <3>2, <4>6 DEF v
    <3>3. CASE n # a
      <4>1. ContenderInv /\ Contender(n)
        BY <2>2 DEF RoomInv, ContenderInv
      <4>2. Listens(w)
        BY <1>0, <2>4, <3>3, <4>1 DEF Listens, ContenderInv, TwoContenders
      <4>3. Gap(owuart'[a], Last(a)', w, l)
        BY <3>1 DEF TimeInv, QuietInv
      <4> HIDE DEF w, l
      <4> QED BY <2>4, <4>2, <4>3 DEF Gap
    <3> QED BY <3>2, <3>3
  <2> QED BY <1>0, <2>3, <2>4 DEF OnTime
<1> QED BY <1>2, <1>3

\* The buffer is not full when a byte is stored.
LEMMA BoundedTick ==
  ASSUME RoomInv, TimeInv', NEW n \in Node, process_tick(n)
  PROVE  BuffersBounded'
<1> DEFINE w == owuart[n]
           x == owuart'[n]
<1>0. /\ n \notin ticked /\ TimeInv /\ Last(n)' = 0 /\ MaxMsg \in Nat
      /\ \A m \in Node \ {n} : owuart'[m] = owuart[m]
  BY TickFrame, OwUartAssumption DEF RoomInv, TimeInv, UartInv
<1>1. /\ w \in OwuartState /\ Receives(w) /\ Sends(w) /\ Own(w, 1) /\ Last(n) = 1
      /\ Len(w.rx_buffer) <= MaxMsg /\ Len(w.tx_buffer) <= MaxMsg /\ w.tx_byte <= MaxMsg
      /\ Own(x, 0)
  BY <1>0, TimeKnown DEF RoomInv, BuffersBounded, TimeInv, UartInv, TypeOK, OwnInv
<1>2. w.rx_buffer \in Seq(Byte) /\ w.tx_buffer \in Seq(Byte) /\ w.tx_byte \in Nat
  BY <1>1, Fields
<1> SUFFICES Len(x.rx_buffer) <= MaxMsg
  BY <1>0 DEF RoomInv, BuffersBounded
<1>3. CASE x.rx_buffer = w.rx_buffer
  BY <1>1, <1>3
<1>4. CASE x.state \in {"Idle", "TxStart"} \/ x.state \in Sending
  <2>1. x.rx_buffer = <<>>
    BY <1>1, <1>4 DEF Own, Sending, TxState
  <2> QED BY <1>0, <2>1
<1>5. CASE /\ w.state = "RxByte"
           /\ x.rx_buffer = LET f == SubSeq(w.rx_bits, Len(w.rx_bits) - FrameBits + 1, Len(w.rx_bits)) IN
                            IF Framed(f) THEN Append(w.rx_buffer, Data(f)) ELSE w.rx_buffer
  <2>1. PICK s \in Node \ {n} : owuart[s].state \in Sending
    <3>1. ~Quiet
      BY <1>0, <1>5 DEF TimeInv, QuietInv, RxState
    <3> QED BY <1>5, <3>1 DEF Quiet, Sending, TxState
  <2> DEFINE u == owuart[s]
             lu == Last(s)
  <2>2. /\ u \in OwuartState /\ lu \in {0, 1} /\ Timed(u, lu) /\ Own(u, lu) /\ Sends(u)
        /\ Chases(u, lu, w, 1) /\ u.state \in Sending
        /\ Len(u.tx_buffer) <= MaxMsg
    BY <1>0, <2>1, TimeKnown DEF TimeInv, UartInv, TypeOK
  <2>3. Room(u, w, 1)
    BY <1>1, <2>2 DEF RoomInv, StoreInv
  <2>4. PICK d : x.rx_buffer \in {w.rx_buffer, Append(w.rx_buffer, d)}
    BY <1>5
  <2> HIDE DEF u, w, x, lu
  <2>5. Heard(u, w, 1)
    BY <1>5, <2>2 DEF Chases, Follow, Ahead, Unheard, Finished, Passive, Engaged, RxState, Hearing
  <2>6. Number(u) < Len(u.tx_buffer) /\ Number(u) \in Nat /\ u.tx_buffer \in Seq(Byte)
    BY <2>2, NumberInside, RemainingIs, Fields
  <2>7. Len(w.rx_buffer) <= Number(u)
    BY <1>5, <2>3, <2>5 DEF Room, RxState
  <2>8. Len(x.rx_buffer) <= MaxMsg
    <3> HIDE DEF Number
    <3>1. Len(w.rx_buffer) + 1 <= MaxMsg
      BY <1>0, <1>2, <2>2, <2>6, <2>7
    <3> QED BY <1>1, <1>2, <2>4, <3>1
  <2> QED BY <2>8 DEF x
<1>6. CASE w.state = "TxArbitrated" /\ x.rx_buffer = SubSeq(w.tx_buffer, 1, w.tx_byte)
  <2>1. w.tx_byte < Len(w.tx_buffer)
    BY <1>1, <1>6 DEF Sends, Driving, Sending, TxState
  <2>2. Len(x.rx_buffer) = w.tx_byte
    BY <1>2, <1>6, <2>1
  <2> QED BY <1>1, <2>2
<1> QED BY <1>0, <1>3, <1>4, <1>5, <1>6, EngagedTick

LEMMA RoomTickStep ==
  ASSUME TwoContenders, RoomInv, TimeInv', NEW n \in Node, process_tick(n)
  PROVE  RoomInv'
<1>0. /\ Last(n)' = 0 /\ Last(n) = 1
      /\ \A m \in Node \ {n} : owuart'[m] = owuart[m] /\ Last(m)' = Last(m)
  BY TickFrame DEF RoomInv, TimeInv, UartInv
<1>1. ASSUME NEW a \in Node, NEW b \in Node \ {a}, owuart'[a].state \in Sending
      PROVE  Room(owuart'[a], owuart'[b], Last(b)')
  <2>1. CASE b = n
    <3>1. owuart'[a] = owuart[a] /\ a \in Node \ {n}
      BY <1>0, <2>1
    <3>2. Room(owuart[a], owuart'[n], 0)
      BY <1>1, <3>1, RoomTick
    <3> QED BY <1>0, <2>1, <3>1, <3>2
  <2>2. CASE a = n
    BY <1>0, <1>1, <2>2, SenderTick
  <2>3. CASE a # n /\ b # n
    BY <1>0, <1>1, <2>3 DEF RoomInv, StoreInv
  <2> QED BY <2>1, <2>2, <2>3
<1>2. ASSUME NEW a \in Node, NEW b \in Node \ {a}, owuart'[a].state = "TxStart"
      PROVE  Due(Last(a)', owuart'[b], Last(b)')
  <2>1. CASE b = n
    <3>1. owuart'[a] = owuart[a] /\ Last(a)' = Last(a) /\ a \in Node \ {n}
      BY <1>0, <2>1
    <3>2. Due(Last(a), owuart'[n], 0)
      BY <1>2, <3>1, DueTick
    <3> QED BY <1>0, <2>1, <3>1, <3>2
  <2>2. CASE a = n
    BY <1>0, <1>2, <2>2, StartDue
  <2>3. CASE a # n /\ b # n
    BY <1>0, <1>2, <2>3 DEF RoomInv, StoreInv
  <2> QED BY <2>1, <2>2, <2>3
<1>3. \A a \in Node : \A b \in Node \ {a} :
        Quiet' /\ Contender(a) => OnTime(owuart'[a], Last(a)', owuart'[b], Last(b)')
  BY OnTimeTick
<1>4. StoreInv'
  BY <1>1, <1>2, <1>3 DEF StoreInv
<1> QED BY <1>4, ContenderTick, BoundedTick DEF RoomInv

(* The clocks advance. *)
LEMMA RoomRound ==
  ASSUME RoomInv, TimeInv', RoundEnds
  PROVE  RoomInv'
<1>1. /\ \A n \in Node : owuart'[n] = [owuart[n] EXCEPT !.timer = Later(@)]
      /\ \A n \in Node : Last(n)' = 1 /\ (owuart[n].state # "Off" => Last(n) = 0)
  BY DEF RoundEnds, Last
<1>2. \A n \in Node :
        /\ owuart[n] \in OwuartState /\ owuart'[n] \in OwuartState
        /\ Receives(owuart[n]) /\ Receives(owuart'[n])
        /\ Timed(owuart'[n], 1) /\ Own(owuart'[n], 1)
        /\ owuart[n].state # "Off" => Timed(owuart[n], 0) /\ Own(owuart[n], 0)
  BY <1>1 DEF RoomInv, TimeInv, UartInv, TypeOK, LocalInv, OwnInv
<1>3. \A n \in Node :
        LET u == owuart[n]
            v == owuart'[n] IN
        v.state = u.state /\ v.tx_buffer = u.tx_buffer /\ v.rx_buffer = u.rx_buffer
  BY <1>1, <1>2 DEF OwuartState
<1>4. \A n \in Node : owuart'[n].state = "Off" => owuart'[n].rx_buffer = <<>>
  BY <1>2 DEF Own
<1>5. ASSUME NEW s \in Node, NEW m \in Node \ {s}, owuart'[s].state \in Sending
      PROVE  Room(owuart'[s], owuart'[m], 1)
  <2> DEFINE u == owuart[s]
             v == owuart'[s]
             w == owuart[m]
             x == owuart'[m]
  <2>1. u.state \in Sending /\ u.state # "Off" /\ x.state = w.state /\ x.rx_buffer = w.rx_buffer
    BY <1>3, <1>5 DEF Sending, TxState
  <2>2. v \in OwuartState /\ x \in OwuartState /\ Timed(v, 1) /\ Own(v, 1) /\ v.state \in Sending /\ Receives(x)
    BY <1>2, <1>5
  <2>3. CASE x.state \notin Engaged
    <3> HIDE DEF u, v, w, x
    <3>1. Room(v, x, 1)
      BY <2>2, <2>3, RoomEmpty
    <3> QED BY <3>1 DEF v, x
  <2>4. CASE x.state \in Engaged
    <3>1. w.state # "Off" /\ w.state \in Passive
      BY <2>1, <2>4 DEF Passive, Engaged, RxState
    <3>2. Room(u, w, 0) /\ Chases(u, 0, w, 0)
      BY <1>1, <2>1, <3>1 DEF RoomInv, TimeInv, StoreInv, ChaseInv
    <3>3. /\ u \in OwuartState /\ w \in OwuartState
          /\ v = [u EXCEPT !.timer = Later(@)] /\ x = [w EXCEPT !.timer = Later(@)]
          /\ Timed(u, 0) /\ Own(u, 0) /\ Receives(u) /\ Timed(w, 0) /\ Own(w, 0) /\ Receives(w)
      BY <1>1, <1>2, <2>1, <3>1
    <3> HIDE DEF u, v, w, x
    <3>4. Lag(v, x, 1) = Lag(u, w, 0) /\ Number(v) = Number(u)
      BY <2>1, <2>2, <3>1, <3>3, RoundHeard, RoundRemaining
    <3>5. Follow(u, w, 0)
      BY <2>1, <3>1, <3>2 DEF Chases
    <3>6. Room(v, x, 1)
      BY <2>1, <2>2, <2>4, <3>2, <3>3, <3>4, <3>5, RoomSame
    <3> QED BY <3>6 DEF v, x
  <2> QED BY <2>3, <2>4
<1>6. ASSUME NEW s \in Node, NEW m \in Node \ {s}, owuart'[s].state = "TxStart"
      PROVE  Due(1, owuart'[m], 1)
  <2> DEFINE w == owuart[m]
             x == owuart'[m]
  <2>1. SUFFICES ASSUME x.rx_buffer # <<>> PROVE Due(1, x, 1)
    BY DEF Due
  <2>2. w.state # "Off" /\ x.state = w.state /\ x.rx_buffer = w.rx_buffer /\ owuart[s].state = "TxStart"
    BY <1>3, <1>4, <1>6, <2>1
  <2>3. Due(0, w, 0)
    BY <1>1, <2>2 DEF RoomInv, StoreInv
  <2>4. w.state = "HoldOff" => x.timer = w.timer - 1 /\ w.timer \in Int
    BY <1>1, <1>2, <2>2, RoundExpects
  <2> HIDE DEF w, x
  <2> QED BY <2>1, <2>2, <2>3, <2>4 DEF Due
<1>7. ASSUME NEW a \in Node, NEW m \in Node \ {a}, Quiet', Contender(a)
      PROVE  OnTime(owuart'[a], 1, owuart'[m], 1)
  <2> DEFINE v == owuart'[a]
             w == owuart[m]
             x == owuart'[m]
  <2>1. SUFFICES ASSUME v.state # "Off", x.rx_buffer # <<>>
                 PROVE  Expects(x, 1) <= Expects(v, 1) + 2
    BY DEF OnTime
  <2>2. w.state # "Off" /\ owuart[a].state # "Off" /\ w.rx_buffer # <<>> /\ Quiet
    BY <1>3, <1>4, <1>7, <2>1 DEF Quiet
  <2>3. Expects(w, 0) <= Expects(owuart[a], 0) + 2
    BY <1>1, <1>7, <2>2 DEF RoomInv, StoreInv, OnTime
  <2>4. /\ Expects(x, 1) = Expects(w, 0) - 1 /\ Expects(w, 0) \in Int
        /\ Expects(v, 1) = Expects(owuart[a], 0) - 1 /\ Expects(owuart[a], 0) \in Int
    BY <1>1, <1>2, <2>2, RoundExpects
  <2> HIDE DEF v, w, x, Expects
  <2> QED BY <2>3, <2>4
<1>8. StoreInv'
  BY <1>1, <1>5, <1>6, <1>7 DEF StoreInv
<1>9. ContenderInv' /\ BuffersBounded'
  BY <1>3 DEF RoomInv, ContenderInv, BuffersBounded
<1> QED BY <1>8, <1>9 DEF RoomInv

(* What leaves the nodes alone. *)
LEMMA RoomQuiet ==
  ASSUME RoomInv, TimeInv', UNCHANGED <<owuart, ticked>>
  PROVE  RoomInv'
<1>1. owuart' = owuart /\ (Quiet' <=> Quiet) /\ \A n \in Node : Last(n)' = Last(n)
  BY DEF Last, Quiet
<1> QED BY <1>1 DEF RoomInv, ContenderInv, StoreInv, BuffersBounded

LEMMA RoomInit == Init => RoomInv
<1> SUFFICES ASSUME Init PROVE RoomInv
  OBVIOUS
<1>1. TimeInv /\ MaxMsg \in Nat
  BY TimeInit, OwUartAssumption
<1>2. \A n \in Node :
        /\ owuart[n].state \in {"Off", "StartHoldOff"}
        /\ owuart[n].tx_buffer = <<>> /\ owuart[n].rx_buffer = <<>>
  BY DEF Init
<1>3. ContenderInv /\ StoreInv
  BY <1>2 DEF ContenderInv, StoreInv, OnTime, Sending, TxState
<1>4. BuffersBounded
  BY <1>1, <1>2 DEF BuffersBounded
<1> QED BY <1>1, <1>3, <1>4 DEF RoomInv

LEMMA RoomStep ==
  ASSUME PrefixFree, TwoContenders, RoomInv, [Next]_vars, [\A n \in Node : ~PowerOn(n)]_vars
  PROVE  RoomInv'
<1>1. TimeInv'
  BY TimeStep DEF RoomInv
<1>2. CASE UNCHANGED vars
  BY <1>1, <1>2, RoomQuiet DEF vars
<1>3. CASE RoundEnds
  BY <1>1, <1>3, RoomRound
<1>4. ASSUME NEW n \in Node, process_tick(n) PROVE RoomInv'
  BY <1>1, <1>4, RoomTickStep
<1>5. ASSUME NEW n \in Node, HostWrites(n) PROVE RoomInv'
  BY <1>1, <1>5, RoomQuiet DEF HostWrites
<1> QED BY <1>2, <1>3, <1>4, <1>5 DEF Next, Runs

(* No message overflows rx_buffer, although RxByte never looks how much    *)
(* room is left (main.c:433): a node has reported the last message before  *)
(* the next one begins.  For any number of nodes in any order of their     *)
(* ticks, if at most two of them have something to send, no message is the *)
(* beginning of another one and no node is started while the others are at *)
(* work.                                                                   *)
THEOREM BuffersTheorem ==
  ASSUME PrefixFree, TwoContenders
  PROVE  Spec /\ [][\A n \in Node : ~PowerOn(n)]_vars => []BuffersBounded
<1>1. Init => RoomInv
  BY RoomInit
<1>2. RoomInv /\ [Next]_vars /\ [\A n \in Node : ~PowerOn(n)]_vars => RoomInv'
  BY RoomStep
<1>3. RoomInv => BuffersBounded
  BY DEF RoomInv
<1> QED BY <1>1, <1>2, <1>3, PTL DEF Spec
=============================================================================
