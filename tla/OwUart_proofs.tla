--------------------------- MODULE OwUart_proofs ---------------------------
(***************************************************************************)
(* Proofs about the one-wire UART, for any number of nodes, any bit rate   *)
(* that leaves at least four polls to a half bit, any messages of the      *)
(* hosts, and nodes started at any moment.                                 *)
(*                                                                         *)
(* The argument.  A sender's phase is the number of rounds since the       *)
(* nominal start of the bit it is at.  Two nodes that send at the same     *)
(* time never differ by more than a round in phase (InStep), because they  *)
(* started within a round of each other and every wait, being late by a    *)
(* poll for both, is counted from the deadline and not from the poll.  A   *)
(* node that waits for the line keeps a timer that exceeds what any sender *)
(* has left of its byte (Waits): that is what the length of the hold-off   *)
(* is for.  So a node starts only beside nodes that are at their first     *)
(* start bit, and nodes that send at the same time have sent the same bits *)
(* so far (AgreeTo): after each bit that both went on from, the one that   *)
(* drove a 0 had seen that the other did not drive a 1 (Held).             *)
(***************************************************************************)
EXTENDS OwUart, Lemmas, FiniteSetTheorems, SequenceTheorems

-----------------------------------------------------------------------------
(* One node *)

Sending == TxState \ {"TxStart"}
Driving == Sending \ {"TxBit", "TxCompleted"}  \* the current bit is on the line

\* Rounds since the nominal start of the current bit, from which the timer
\* counts down: TxBit and TxMonitorBit add half a bit to the deadline each.
Phase(u) ==
  (IF u.state \in {"TxBit", "TxCompleted"} THEN 0
   ELSE IF u.state \in {"TxWaitForHalfBit", "TxMonitorBit"} THEN HalfBit ELSE FullBit) - u.timer

\* Rounds from the start of the bit at position p to the end of the byte, and
\* the rounds u has left of the byte it is sending.
Left(p) == (FrameBits + 1 - p) * FullBit
Remaining(u) == (IF u.tx_pos = 0 /\ u.state \notin Driving THEN 0 ELSE Left(u.tx_pos)) - Phase(u)

\* u drives a start bit, a 1.
StartOn(u) ==
  \/ u.state \in Driving /\ u.tx_pos = 0
  \/ u.state = "TxBit" /\ u.tx_pos = 1
CurrentBit(u) == Frame(u.tx_buffer[u.tx_byte + 1])[u.tx_pos + 1]

\* What u drives is the bit it is at, and there is a byte to send.
Sends(u) ==
  /\ u.out = 1 => u.state \in Sending
  /\ u.state \in Driving => u.out = u.tx_sent /\ u.out = CurrentBit(u)
  /\ StartOn(u) => u.out = 1
  /\ u.state = "TxStart" => u.tx_buffer # <<>>
  /\ u.state \in Driving \cup {"TxBit"} => u.tx_byte < Len(u.tx_buffer)
  /\ u.state = "TxCompleted" => u.tx_pos = 0 /\ u.tx_byte = Len(u.tx_buffer)
  /\ u.state = "TxArbitrated" => u.out = 0

\* rx_bits is a part of one frame.
Receives(u) ==
  /\ u.state \notin RxState => u.rx_bits = <<>>
  /\ u.state = "RxStartBit" => u.rx_bits = <<>>
  /\ u.state \in {"RxWaitForNextBit", "RxBit"} => Len(u.rx_bits) < FrameBits
  /\ u.state = "RxByte" => Len(u.rx_bits) = FrameBits

\* How far the timer can be in each state; l is 1 until u has run in this
\* round, and 0 afterwards.
Timed(u, l) ==
  /\ u.state = "HoldOff" => u.timer \in 1 - l .. HoldOffTime - l
  /\ u.state = "TxWaitForHalfBit" =>
       /\ u.timer \in 1 - l .. HalfBit
       /\ u.tx_byte # 0 \/ u.tx_pos # 0 => u.timer <= HalfBit - 2
  /\ u.state = "TxMonitorBit" => u.timer = -l
  /\ u.state = "TxWaitForFullBit" => u.timer \in 1 - l .. HalfBit - 1
  /\ u.state = "TxArbitrated" => u.timer = HalfBit - 1 - l
  /\ u.state = "TxNextBit" => u.timer = -l
  /\ u.state \in {"TxBit", "TxCompleted"} => u.timer = -1 - l
  /\ u.state = "RxWaitForNextBit" => u.timer <= HalfBit + FullBit
  /\ u.state = "RxBit" => u.timer <= HalfBit

-----------------------------------------------------------------------------
(* Two nodes *)

\* u drives its first start bit, since at most k rounds.
Fresh(u, k) == u.state \in Driving /\ u.tx_pos = 0 /\ Phase(u) <= k

SamePlace(u, w) == u.tx_byte = w.tx_byte /\ u.tx_pos = w.tx_pos
NextPlace(u, w) ==
  IF w.tx_pos = FrameBits
  THEN u.tx_byte = w.tx_byte + 1 /\ u.tx_pos = 0
  ELSE u.tx_byte = w.tx_byte /\ u.tx_pos = w.tx_pos + 1

\* u and w are at the same bit, or at two bits in a row, and differ by at most
\* a round.
InStep(u, w) ==
  \/ SamePlace(u, w) /\ Phase(u) - Phase(w) \in -1 .. 1
  \/ NextPlace(u, w) /\ Phase(u) + FullBit - Phase(w) \in -1 .. 1
  \/ NextPlace(w, u) /\ Phase(w) + FullBit - Phase(u) \in -1 .. 1

\* All that u has sent up to its current bit, w has in its message too.
AgreeTo(u, w) ==
  /\ \A k \in 1 .. u.tx_byte : w.tx_buffer[k] = u.tx_buffer[k]
  /\ \A p \in 1 .. u.tx_pos : Frame(w.tx_buffer[u.tx_byte + 1])[p] = Frame(u.tx_buffer[u.tx_byte + 1])[p]

\* If u drove a 0 and went on, w drives no 1 at that bit.
Held(u, w) ==
  /\ SamePlace(u, w) /\ u.out = 0
  /\ u.state \in {"TxWaitForFullBit", "TxNextBit"} /\ w.state \in Driving \ {"TxArbitrated"}
  => w.out = 0

\* w, which does not send yet, waits long enough for the byte of u: the margin
\* shrinks by a round with each state between HoldOff and TxStart.  Or else u
\* drives a start bit that w is still to read, or to start beside.
Waits(u, w, l) ==
  /\ w.state = "HoldOff" =>
       \/ Remaining(u) <= w.timer - 1
       \/ Fresh(u, 2 + l)
       \/ StartOn(u) /\ w.timer >= HoldOffTime - l
  /\ w.state = "EndOfMessage" => Remaining(u) <= -1 - l \/ Fresh(u, 2 + l)
  /\ w.state = "Idle" => Remaining(u) <= -2 - l \/ Fresh(u, 3 + l)
  /\ w.state = "TxStart" => Fresh(u, l) /\ u.tx_byte = 0

\* What a sender u has to do with another node w, l as above for w.
Pair(u, w, l) ==
  u.state \in Sending =>
    /\ Waits(u, w, l)
    /\ w.state \in Sending => InStep(u, w) /\ AgreeTo(u, w) /\ Held(u, w)

\* w drives a 1 at the bit at which u lost.
Above(w, u) ==
  /\ w.state \in {"TxWaitForHalfBit", "TxMonitorBit", "TxWaitForFullBit"}
  /\ w.out = 1 /\ SamePlace(u, w)

-----------------------------------------------------------------------------
(* The inductive invariant.  Last(n): the rounds n may still run in. *)
Last(n) == IF n \in ticked THEN 0 ELSE 1

LocalInv == \A n \in Node : Sends(owuart[n]) /\ Receives(owuart[n]) /\ Timed(owuart[n], Last(n))
PairInv  == \A n \in Node : \A m \in Node \ {n} : Pair(owuart[n], owuart[m], Last(m))
AboveInv ==
  \A n \in Node : owuart[n].state = "TxArbitrated" =>
    \E m \in Node \ {n} : Above(owuart[m], owuart[n])

UartInv == TypeOK /\ LocalInv /\ PairInv /\ AboveInv
-----------------------------------------------------------------------------
(* Numbers and frames *)

(* The lengths of time, as numbers: a byte and the hold-off are longer than *)
(* one and a half bits.                                                     *)
LEMMA Spans ==
  /\ HalfBit \in Nat /\ HalfBit >= 4
  /\ FullBit = HalfBit + HalfBit
  /\ DataBits \in Nat /\ DataBits >= 1 /\ FrameBits \in Nat /\ FrameBits = DataBits + 3
  /\ HoldOffTime \in Nat /\ HoldOffTime >= 3 * HalfBit + 3
  /\ HoldOffTime = FrameBits * FullBit
<1>1. /\ HalfBit \in Nat /\ HalfBit >= 4
      /\ FullBit = HalfBit + HalfBit
      /\ DataBits \in Nat /\ DataBits >= 1 /\ FrameBits \in Nat /\ FrameBits = DataBits + 3
  BY OwUartAssumption DEF FullBit, FrameBits
<1>2. HoldOffTime = FrameBits * FullBit
  BY DEF HoldOffTime
<1>3. /\ HoldOffTime \in Nat /\ HoldOffTime >= 3 * HalfBit + 3
  <2>1. FullBit \in Nat
    BY <1>1
  <2>2. FrameBits * FullBit = (FrameBits - 4) * FullBit + 4 * FullBit
    BY <1>1, <2>1
  <2>3. (FrameBits - 4) * FullBit \in Nat
    BY <1>1, <2>1
  <2> QED BY <1>1, <1>2, <2>1, <2>2, <2>3
<1> QED BY <1>1, <1>2, <1>3

(* A bit takes a full bit, and after the start bit a byte fits in the hold-off. *)
LEMMA LeftFacts ==
  ASSUME NEW p \in 0 .. FrameBits
  PROVE  /\ Left(p) \in Nat /\ Left(p) >= FullBit
         /\ p = FrameBits => Left(p) = FullBit
         /\ p # FrameBits => Left(p) = Left(p + 1) + FullBit
         /\ p >= 1 => Left(p) <= HoldOffTime
         /\ p = 1 => Left(p) = HoldOffTime
         /\ p = 0 => Left(p) = HoldOffTime + FullBit
<1> USE Spans
<1>0. FullBit \in Nat
  OBVIOUS
<1>a. \A k \in Nat : /\ (k + 1) * FullBit = k * FullBit + FullBit
                       /\ k * FullBit \in Nat
  BY <1>0
<1>1. Left(p) = (FrameBits - p) * FullBit + FullBit /\ (FrameBits - p) * FullBit \in Nat
  <2>1. FrameBits - p \in Nat /\ FrameBits + 1 - p = (FrameBits - p) + 1
    OBVIOUS
  <2> HIDE Spans
  <2> QED BY <1>a, <2>1 DEF Left
<1>2. p = FrameBits => (FrameBits - p) * FullBit = 0
  BY <1>0
<1>3. p # FrameBits => Left(p) = Left(p + 1) + FullBit
  <2>1. FrameBits + 1 - (p + 1) = FrameBits - p
    OBVIOUS
  <2> QED BY <1>1, <2>1 DEF Left
<1>4. p >= 1 => Left(p) <= HoldOffTime
  <2>1. SUFFICES ASSUME p >= 1 PROVE Left(p) <= HoldOffTime
    OBVIOUS
  <2>2. /\ FrameBits * FullBit = (FrameBits + 1 - p) * FullBit + (p - 1) * FullBit
        /\ (p - 1) * FullBit \in Nat
    BY <1>0, <2>1
  <2> QED BY <1>0, <1>1, <2>2 DEF Left
<1>5. p = 1 => Left(p) = HoldOffTime
  BY DEF Left
<1>6. p = 0 => Left(p) = HoldOffTime + FullBit
  BY <1>1
<1> QED BY <1>0, <1>1, <1>2, <1>3, <1>4, <1>5, <1>6

(* The parity of a byte is a bit. *)
LEMMA ParityIsBit == ASSUME NEW b \in Byte PROVE parity(b) \in Bit
<1>1. {i \in DOMAIN b : b[i] = 1} \subseteq 1 .. DataBits
  BY DEF Byte
<1>2. IsFiniteSet(1 .. DataBits)
  BY Spans, FS_Interval
<1>3. Cardinality({i \in DOMAIN b : b[i] = 1}) \in Nat
  BY <1>1, <1>2, FS_Subset, FS_CardinalityType
<1> QED BY <1>3 DEF parity, Bit

(* A frame starts with a 1, then has the data bits, and ends with two 0s. *)
LEMMA FrameIs ==
  ASSUME NEW b \in Byte
  PROVE  /\ Frame(b) \in Seq(Bit) /\ Len(Frame(b)) = FrameBits + 1
         /\ Frame(b)[1] = 1
         /\ \A i \in 1 .. DataBits : Frame(b)[i + 1] = b[i]
         /\ Frame(b)[DataBits + 2] = parity(b)
         /\ Frame(b)[FrameBits] = 0 /\ Frame(b)[FrameBits + 1] = 0
<1> DEFINE c == <<START_BIT_VALUE>>
           e == <<parity(b), STOP_BIT_VALUE, STOP_BIT_VALUE>>
           cb == c \o b
<1>0. DataBits \in Nat /\ FrameBits = DataBits + 3
  BY Spans
<1>1. c \in Seq(Bit) /\ Len(c) = 1 /\ c[1] = 1
  BY DEF START_BIT_VALUE, Bit
<1>2. e \in Seq(Bit) /\ Len(e) = 3 /\ e[1] = parity(b) /\ e[2] = 0 /\ e[3] = 0
  BY ParityIsBit DEF STOP_BIT_VALUE, Bit
<1>3. b \in Seq(Bit) /\ Len(b) = DataBits
  BY <1>0 DEF Byte
<1>4. Frame(b) = cb \o e
  BY DEF Frame
<1> HIDE DEF c, e
<1>5. /\ cb \in Seq(Bit) /\ Len(cb) = DataBits + 1
      /\ \A i \in 1 .. DataBits + 1 : cb[i] = IF i <= 1 THEN c[i] ELSE b[i - 1]
  <2>1. /\ cb \in Seq(Bit) /\ Len(cb) = Len(c) + Len(b)
        /\ \A i \in 1 .. Len(c) + Len(b) : cb[i] = IF i <= Len(c) THEN c[i] ELSE b[i - Len(c)]
    BY <1>1, <1>3, ConcatProperties, Zenon
  <2> HIDE DEF cb
  <2> QED BY <1>0, <1>1, <1>3, <2>1
<1> HIDE DEF cb
<1>6. /\ Frame(b) \in Seq(Bit) /\ Len(Frame(b)) = DataBits + 1 + 3
      /\ \A i \in 1 .. DataBits + 1 + 3 :
            Frame(b)[i] = IF i <= DataBits + 1 THEN cb[i] ELSE e[i - (DataBits + 1)]
  <2>1. /\ cb \o e \in Seq(Bit) /\ Len(cb \o e) = Len(cb) + Len(e)
        /\ \A i \in 1 .. Len(cb) + Len(e) :
             (cb \o e)[i] = IF i <= Len(cb) THEN cb[i] ELSE e[i - Len(cb)]
    BY <1>2, <1>5, ConcatProperties, Zenon
  <2> QED BY <1>0, <1>2, <1>4, <1>5, <2>1
<1>7. cb[1] = 1 /\ \A i \in 1 .. DataBits : cb[i + 1] = b[i]
  BY <1>0, <1>1, <1>5
<1>8. Frame(b)[1] = 1 /\ \A i \in 1 .. DataBits : Frame(b)[i + 1] = b[i]
  BY <1>0, <1>6, <1>7
<1>9. Frame(b)[DataBits + 2] = parity(b) /\ Frame(b)[FrameBits] = 0 /\ Frame(b)[FrameBits + 1] = 0
  BY <1>0, <1>2, <1>6
<1> QED BY <1>0, <1>6, <1>8, <1>9

(* What a frame has at a position is a bit. *)
LEMMA FrameBitIsBit ==
  ASSUME NEW b \in Byte, NEW i \in 1 .. FrameBits + 1
  PROVE  Frame(b)[i] \in Bit
BY FrameIs, Spans

(* Two bytes with the same frame are the same byte. *)
LEMMA SameFrame ==
  ASSUME NEW a \in Byte, NEW b \in Byte,
         \A p \in 1 .. FrameBits + 1 : Frame(a)[p] = Frame(b)[p]
  PROVE  a = b
<1>1. \A i \in 1 .. DataBits : a[i] = b[i]
  <2>1. TAKE i \in 1 .. DataBits
  <2>2. i + 1 \in 1 .. FrameBits + 1
    BY Spans
  <2>3. Frame(a)[i + 1] = Frame(b)[i + 1]
    BY <2>2
  <2>4. Frame(a)[i + 1] = a[i]
    BY FrameIs
  <2>5. Frame(b)[i + 1] = b[i]
    BY FrameIs
  <2> QED BY <2>3, <2>4, <2>5
<1>2. a \in [1 .. DataBits -> Bit] /\ b \in [1 .. DataBits -> Bit]
  BY DEF Byte
<1>3. a = [i \in 1 .. DataBits |-> a[i]] /\ b = [i \in 1 .. DataBits |-> b[i]]
  BY <1>2, Zenon
<1>4. [i \in 1 .. DataBits |-> a[i]] = [i \in 1 .. DataBits |-> b[i]]
  BY <1>1, Zenon
<1> QED BY <1>3, <1>4, Zenon

(* Sequences that agree up to k have the same prefix of length k. *)
LEMMA SamePrefix ==
  ASSUME NEW S, NEW a \in Seq(S), NEW b \in Seq(S), NEW k \in Nat, k <= Len(a), k <= Len(b),
         \A i \in 1 .. k : a[i] = b[i]
  PROVE  SubSeq(a, 1, k) = SubSeq(b, 1, k)
<1> DEFINE c == SubSeq(a, 1, k)
           d == SubSeq(b, 1, k)
<1>1. /\ c \in Seq(S) /\ d \in Seq(S) /\ Len(c) = k /\ Len(d) = k
      /\ \A i \in 1 .. k : c[i] = a[i] /\ d[i] = b[i]
  OBVIOUS
<1> HIDE DEF c, d
<1>2. \A i \in 1 .. Len(c) : c[i] = d[i]
  BY <1>1
<1>3. c = d
  BY <1>1, <1>2, SeqEqual
<1> QED BY <1>3 DEF c, d

(* The types of the fields of a node. *)
LEMMA Fields ==
  ASSUME NEW u \in OwuartState
  PROVE  /\ u.state \in State /\ u.timer \in Int /\ u.timer >= -3 /\ u.timer <= HoldOffTime
         /\ u.out \in Bit /\ u.tx_sent \in Bit /\ u.tx_buffer \in Seq(Byte)
         /\ u.tx_byte \in Nat /\ u.tx_pos \in 0 .. FrameBits
         /\ u.rx_bits \in Seq(Bit) /\ u.rx_buffer \in Seq(Byte)
BY Spans DEF OwuartState, MaxLate

(* The range of a timer. *)
LEMMA Timers ==
  ASSUME NEW t \in Int, t >= -3, t <= HoldOffTime
  PROVE  t \in -MaxLate .. FrameBits * FullBit
BY Spans DEF MaxLate

(* The states, as members of State. *)
LEMMA States ==
  /\ {"StartHoldOff", "HoldOff", "EndOfMessage", "Idle"} \subseteq State
  /\ {"TxStart", "TxNextBit", "TxBit", "TxWaitForHalfBit", "TxMonitorBit"} \subseteq State
  /\ {"TxWaitForFullBit", "TxArbitrated", "TxCompleted"} \subseteq State
  /\ {"RxStartBit", "RxWaitForNextBit", "RxBit", "RxByte"} \subseteq State
BY DEF State, TxState, RxState

(* The phase in each sending state. *)
LEMMA Phases ==
  ASSUME NEW u \in OwuartState, NEW l \in {0, 1}, Timed(u, l)
  PROVE  /\ Phase(u) \in Int
         /\ u.state \in {"TxBit", "TxCompleted"} => Phase(u) = 1 + l
         /\ u.state = "TxWaitForHalfBit" => Phase(u) <= HalfBit - 1 + l
         /\ u.state = "TxMonitorBit" => Phase(u) = HalfBit + l
         /\ u.state = "TxWaitForFullBit" =>
              Phase(u) >= HalfBit + 1 /\ Phase(u) <= FullBit - 1 + l
         /\ u.state = "TxArbitrated" => Phase(u) = HalfBit + 1 + l
         /\ u.state = "TxNextBit" => Phase(u) = FullBit + l
         /\ u.state \in Driving =>
              /\ Phase(u) >= 0 /\ Phase(u) <= FullBit + l
              /\ u.tx_byte # 0 \/ u.tx_pos # 0 => Phase(u) >= 2
<1>1. u.timer \in Int
  BY Fields
<1> QED BY <1>1, Spans DEF Timed, Phase, Driving, Sending, TxState

(* A sender that stays at its bit and keeps its phase keeps its relations. *)
LEMMA KeepsPlace ==
  ASSUME NEW u \in OwuartState, NEW v \in OwuartState, NEW w \in OwuartState, NEW l \in {0, 1},
         u.state \in Driving, v.state \in Driving, v.tx_byte = u.tx_byte, v.tx_pos = u.tx_pos,
         v.tx_buffer = u.tx_buffer, Phase(v) = Phase(u),
         Pair(u, w, l), Pair(w, u, 1), Held(v, w), Held(w, v)
  PROVE  Pair(v, w, l) /\ Pair(w, v, 0)
<1>1. u.state \in Sending /\ v.state \in Sending
  BY DEF Driving
<1>2. Remaining(v) = Remaining(u) /\ (StartOn(v) <=> StartOn(u)) /\ \A k : Fresh(v, k) <=> Fresh(u, k)
  BY DEF Remaining, StartOn, Fresh, Driving
<1>3. Waits(v, w, l)
  BY <1>1, <1>2 DEF Pair, Waits
<1>4. Waits(w, v, 0)
  BY <1>1 DEF Waits, Sending, TxState
<1>5. w.state \in Sending =>
        /\ InStep(v, w) /\ AgreeTo(v, w)
        /\ InStep(w, v) /\ AgreeTo(w, v)
  BY <1>1 DEF Pair, InStep, AgreeTo, SamePlace, NextPlace
<1> QED BY <1>3, <1>4, <1>5 DEF Pair

(* TxWaitForHalfBit and TxWaitForFullBit. *)
LEMMA WaitPairs ==
  ASSUME NEW u \in OwuartState, NEW v \in OwuartState, NEW w \in OwuartState, NEW l \in {0, 1},
         \/ u.state = "TxWaitForHalfBit" /\ v.state \in {"TxWaitForHalfBit", "TxMonitorBit"}
         \/ u.state = "TxWaitForFullBit" /\ v.state \in {"TxWaitForFullBit", "TxNextBit"},
         v.tx_byte = u.tx_byte, v.tx_pos = u.tx_pos, v.out = u.out,
         v.tx_buffer = u.tx_buffer, v.timer = u.timer,
         Pair(u, w, l), Pair(w, u, 1)
  PROVE  Pair(v, w, l) /\ Pair(w, v, 0)
<1>1. u.state \in Driving /\ v.state \in Driving /\ u.state \in Sending
  BY DEF Driving, Sending, TxState
<1>2. Phase(v) = Phase(u)
  BY DEF Phase
<1>3. Held(v, w)
  <2>1. SUFFICES ASSUME v.state \in {"TxWaitForFullBit", "TxNextBit"}, w.state \in Driving
                 PROVE  Held(v, w)
    BY DEF Held
  <2>2. u.state = "TxWaitForFullBit" /\ w.state \in Sending
    BY <2>1 DEF Driving
  <2>3. Held(u, w)
    BY <1>1, <2>2 DEF Pair
  <2> QED BY <2>2, <2>3 DEF Held, SamePlace
<1>4. Held(w, v)
  <2>1. SUFFICES ASSUME w.state \in {"TxWaitForFullBit", "TxNextBit"}
                 PROVE  Held(w, v)
    BY DEF Held
  <2>2. w.state \in Sending
    BY <2>1 DEF Sending, TxState
  <2>3. Held(w, u)
    BY <1>1, <2>2 DEF Pair
  <2> QED BY <1>1, <2>3 DEF Held, SamePlace
<1> QED BY <1>1, <1>2, <1>3, <1>4, KeepsPlace

(* TxMonitorBit: whoever goes on after a 0 has seen that nobody drives a 1. *)
LEMMA MonitorPairs ==
  ASSUME NEW u \in OwuartState, NEW v \in OwuartState, NEW w \in OwuartState, NEW l \in {0, 1},
         u.state = "TxMonitorBit", v.state \in {"TxWaitForFullBit", "TxArbitrated"},
         v.tx_byte = u.tx_byte, v.tx_pos = u.tx_pos, v.out = u.out,
         v.tx_buffer = u.tx_buffer, v.timer = u.timer + HalfBit,
         v.state = "TxWaitForFullBit" /\ v.out = 0 => w.out = 0,
         Pair(u, w, l), Pair(w, u, 1)
  PROVE  Pair(v, w, l) /\ Pair(w, v, 0)
<1>1. u.state \in Driving /\ v.state \in Driving /\ u.state \in Sending
  BY DEF Driving, Sending, TxState
<1>2. Phase(v) = Phase(u)
  <2>1. u.timer \in Int
    BY Fields
  <2> QED BY <2>1, Spans DEF Phase
<1>3. Held(v, w)
  BY DEF Held
<1>4. Held(w, v)
  <2>1. SUFFICES ASSUME w.state \in {"TxWaitForFullBit", "TxNextBit"}
                 PROVE  Held(w, v)
    BY DEF Held
  <2>2. w.state \in Sending
    BY <2>1 DEF Sending, TxState
  <2>3. Held(w, u)
    BY <1>1, <2>2 DEF Pair
  <2> QED BY <1>1, <2>3 DEF Held, SamePlace
<1> QED BY <1>1, <1>2, <1>3, <1>4, KeepsPlace

(* TxBit: the next bit goes onto the line. *)
LEMMA BitPairs ==
  ASSUME NEW u \in OwuartState, NEW v \in OwuartState, NEW w \in OwuartState, NEW l \in {0, 1},
         u.state = "TxBit", v.state = "TxWaitForHalfBit",
         v.tx_byte = u.tx_byte, v.tx_pos = u.tx_pos,
         v.tx_buffer = u.tx_buffer, v.timer = u.timer + HalfBit,
         Timed(u, 1), Timed(w, l), Pair(u, w, l), Pair(w, u, 1)
  PROVE  Pair(v, w, l) /\ Pair(w, v, 0)
<1>1. v.state \in Driving /\ v.state \in Sending /\ u.state \in Sending /\ u.state \notin Driving
  BY DEF Driving, Sending, TxState
<1>2. Phase(v) = 2 /\ Phase(u) = 2
  <2>1. u.timer \in Int
    BY Fields
  <2> QED BY <2>1, Spans DEF Phase, Timed
<1>3. u.tx_pos \in 0 .. FrameBits
  BY Fields
<1>4. Waits(v, w, l)
  <2>1. ~Fresh(u, 0) /\ ~Fresh(u, 1) /\ ~Fresh(u, 2) /\ ~Fresh(u, 3) /\ ~Fresh(u, 4)
    BY <1>1 DEF Fresh
  <2>2. w.timer \in Int
    BY Fields
  <2>3. CASE u.tx_pos = 0
    <3>1. Fresh(v, 2) /\ Fresh(v, 3) /\ Fresh(v, 4)
      BY <1>1, <1>2, <2>3 DEF Fresh
    <3>2. w.state # "TxStart"
      BY <1>1, <2>1 DEF Pair, Waits
    <3> QED BY <3>1, <3>2 DEF Waits
  <2>4. CASE u.tx_pos # 0
    <3>1. Remaining(v) = Left(u.tx_pos) - 2 /\ Remaining(u) = Left(u.tx_pos) - 2
      BY <1>2, <2>4 DEF Remaining
    <3>2. Left(u.tx_pos) \in Nat /\ (u.tx_pos = 1 => Left(u.tx_pos) = HoldOffTime)
      BY <1>3, LeftFacts
    <3>3. StartOn(u) => u.tx_pos = 1
      BY <1>1 DEF StartOn
    <3>4. Waits(u, w, l)
      BY <1>1 DEF Pair
    <3> QED BY <2>1, <2>2, <3>1, <3>2, <3>3, <3>4, Spans DEF Waits
  <2> QED BY <2>3, <2>4
<1>5. Waits(w, v, 0)
  BY <1>1 DEF Waits, Sending, TxState
<1>6. ASSUME w.state \in Sending
      PROVE  /\ InStep(v, w) /\ AgreeTo(v, w) /\ Held(v, w)
             /\ InStep(w, v) /\ AgreeTo(w, v) /\ Held(w, v)
  <2>1. InStep(u, w) /\ AgreeTo(u, w) /\ InStep(w, u) /\ AgreeTo(w, u)
    BY <1>1, <1>6 DEF Pair
  <2>2. InStep(v, w) /\ AgreeTo(v, w) /\ InStep(w, v) /\ AgreeTo(w, v)
    BY <1>2, <2>1 DEF InStep, AgreeTo, SamePlace, NextPlace
  <2>3. Held(v, w)
    BY DEF Held
  <2>4. Held(w, v)
    <3>1. SUFFICES ASSUME SamePlace(w, v), w.state \in {"TxWaitForFullBit", "TxNextBit"}
                   PROVE  FALSE
      BY DEF Held
    <3>2. Phase(w) \in Int /\ Phase(w) >= HalfBit + 1
      BY <3>1, Phases, Spans
    <3>3. w.tx_byte \in Nat /\ w.tx_pos \in Nat /\ v.tx_byte = w.tx_byte /\ v.tx_pos = w.tx_pos
      BY <3>1, Fields, Spans DEF SamePlace
    <3> QED BY <1>2, <2>2, <3>2, <3>3, Spans DEF InStep, NextPlace
  <2> QED BY <2>2, <2>3, <2>4
<1> QED BY <1>4, <1>5, <1>6 DEF Pair

(* TxStart: whoever sends already has driven its start bit at most a round ago. *)
LEMMA StartPairs ==
  ASSUME NEW u \in OwuartState, NEW v \in OwuartState, NEW w \in OwuartState, NEW l \in {0, 1},
         u.state = "TxStart", v.state = "TxWaitForHalfBit",
         v.tx_byte = 0, v.tx_pos = 0, v.timer = HalfBit,
         Timed(w, l), Pair(w, u, 1)
  PROVE  Pair(v, w, l) /\ Pair(w, v, 0)
<1>1. v.state \in Driving /\ v.state \in Sending
  BY DEF Driving, Sending, TxState
<1>2. Phase(v) = 0
  BY Spans DEF Phase
<1>3. Waits(v, w, l)
  <2>1. \A k \in 0 .. 4 : Fresh(v, k)
    BY <1>1, <1>2 DEF Fresh
  <2> QED BY <2>1, l \in 0 .. 1, 2 + l \in 0 .. 4, 3 + l \in 0 .. 4 DEF Waits
<1>4. Waits(w, v, 0)
  BY <1>1 DEF Waits, Sending, TxState
<1>5. ASSUME w.state \in Sending
      PROVE  /\ InStep(v, w) /\ AgreeTo(v, w) /\ Held(v, w)
             /\ InStep(w, v) /\ AgreeTo(w, v) /\ Held(w, v)
  <2>1. Fresh(w, 1) /\ w.tx_byte = 0
    BY <1>5 DEF Pair, Waits
  <2>2. Phase(w) \in 0 .. 1 /\ w.tx_pos = 0 /\ w.state \in Driving
    BY <2>1, Phases DEF Fresh
  <2>3. InStep(v, w) /\ InStep(w, v)
    BY <1>2, <2>1, <2>2 DEF InStep, SamePlace
  <2>4. AgreeTo(v, w) /\ AgreeTo(w, v)
    BY <2>1, <2>2 DEF AgreeTo
  <2>5. Held(v, w)
    BY DEF Held
  <2>6. Held(w, v)
    BY <2>2, Phases, Spans DEF Held
  <2> QED BY <2>3, <2>4, <2>5, <2>6
<1> QED BY <1>3, <1>4, <1>5 DEF Pair

(* TxNextBit: a bit that two nodes both went on after was the same bit.    *)
LEMMA NextBitPairs ==
  ASSUME NEW u \in OwuartState, NEW v \in OwuartState, NEW w \in OwuartState, NEW l \in {0, 1},
         u.state = "TxNextBit", v.state \in {"TxBit", "TxCompleted"}, NextPlace(v, u),
         v.state = "TxCompleted" => v.tx_pos = 0,
         v.tx_buffer = u.tx_buffer, v.timer = u.timer,
         Sends(u), Sends(w), Timed(u, 1), Timed(w, l), Pair(u, w, l), Pair(w, u, 1)
  PROVE  Pair(v, w, l) /\ Pair(w, v, 0)
<1>1. /\ v.state \notin Driving /\ v.state \in Sending
      /\ u.state \in Driving /\ u.state \in Sending
  BY DEF Driving, Sending, TxState
<1>2. Phase(u) = FullBit + 1 /\ Phase(v) = 1
  <2>1. u.timer \in Int
    BY Fields
  <2> QED BY <2>1, Spans DEF Phase, Timed
<1>3. /\ u.tx_pos \in 0 .. FrameBits /\ v.tx_pos \in 0 .. FrameBits /\ w.tx_pos \in 0 .. FrameBits
      /\ u.tx_byte \in Nat /\ v.tx_byte \in Nat /\ w.tx_byte \in Nat
  BY Fields
<1>4. Waits(v, w, l)
  <2>1. ~Fresh(u, 0) /\ ~Fresh(u, 1) /\ ~Fresh(u, 2) /\ ~Fresh(u, 3) /\ ~Fresh(u, 4)
    BY <1>2, Spans DEF Fresh
  <2>2. Remaining(v) = Remaining(u)
    <3>1. CASE u.tx_pos = FrameBits
      BY <1>1, <1>2, <1>3, <3>1, LeftFacts, Spans DEF Remaining, NextPlace
    <3>2. CASE u.tx_pos # FrameBits
      <4>1. v.tx_pos = u.tx_pos + 1 /\ v.tx_pos # 0
        BY <1>3, <3>2, Spans DEF NextPlace
      <4>2. Left(u.tx_pos) = Left(u.tx_pos + 1) + FullBit
        BY <1>3, <3>2, LeftFacts
      <4>3. Left(v.tx_pos) \in Nat
        BY <1>3, LeftFacts
      <4> QED BY <1>1, <1>2, <4>1, <4>2, <4>3, Spans DEF Remaining
    <3> QED BY <3>1, <3>2
  <2>3. StartOn(u) => StartOn(v)
    BY <1>1, <1>3, Spans DEF StartOn, NextPlace
  <2>4. Waits(u, w, l)
    BY <1>1 DEF Pair
  <2> QED BY <2>1, <2>2, <2>3, <2>4 DEF Waits
<1>5. Waits(w, v, 0)
  BY <1>1 DEF Waits, Sending, TxState
<1>6. ASSUME w.state \in Sending
      PROVE  /\ InStep(v, w) /\ AgreeTo(v, w) /\ Held(v, w)
             /\ InStep(w, v) /\ AgreeTo(w, v) /\ Held(w, v)
  <2>1. /\ InStep(u, w) /\ AgreeTo(u, w) /\ InStep(w, u) /\ AgreeTo(w, u)
        /\ Held(u, w) /\ Held(w, u)
    BY <1>1, <1>6 DEF Pair
  <2>2. Held(v, w) /\ Held(w, v)
    BY <1>1 DEF Held
  <2>3. Phase(w) \in Int /\ Phase(w) <= FullBit + 1
    BY <1>6, Phases, Spans DEF Sending, TxState
  <2>4. CASE SamePlace(u, w)
    <3>1. Phase(u) - Phase(w) \in -1 .. 1
      BY <1>2, <1>3, <2>1, <2>3, <2>4, Spans DEF InStep, NextPlace, SamePlace
    <3>2. InStep(v, w) /\ InStep(w, v)
      BY <1>2, <2>3, <2>4, <3>1, Spans DEF InStep, NextPlace, SamePlace
    <3>3. w.state \in {"TxWaitForFullBit", "TxNextBit"}
      BY <1>2, <1>6, <2>3, <3>1, Phases, Spans DEF Sending, TxState
    <3>4. u.out = w.out
      <4>1. u.out \in Bit /\ w.out \in Bit
        BY Fields
      <4> QED BY <2>1, <2>4, <3>3, <4>1 DEF Held, SamePlace, Driving, Sending, TxState, Bit
    <3> DEFINE a == u.tx_buffer[u.tx_byte + 1]
               b == w.tx_buffer[u.tx_byte + 1]
    <3>5. Frame(a)[u.tx_pos + 1] = Frame(b)[u.tx_pos + 1]
      BY <1>1, <2>4, <3>3, <3>4 DEF Sends, CurrentBit, SamePlace, Driving, Sending, TxState
    <3>6. \A p \in 1 .. u.tx_pos + 1 : Frame(a)[p] = Frame(b)[p]
      BY <1>3, <2>1, <3>5 DEF AgreeTo
    <3>7. AgreeTo(v, w)
      <4>1. CASE u.tx_pos # FrameBits
        BY <2>1, <3>6, <4>1 DEF AgreeTo, NextPlace
      <4>2. CASE u.tx_pos = FrameBits
        <5>1. u.tx_byte < Len(u.tx_buffer) /\ u.tx_byte < Len(w.tx_buffer)
          BY <1>1, <2>4, <3>3 DEF Sends, SamePlace, Driving, Sending, TxState
        <5>2. u.tx_buffer \in Seq(Byte) /\ w.tx_buffer \in Seq(Byte)
          BY Fields
        <5>3. a \in Byte /\ b \in Byte
          BY <1>3, <5>1, <5>2
        <5> HIDE DEF a, b
        <5>4. a = b
          BY <3>6, <4>2, <5>3, SameFrame
        <5>5. \A k \in 1 .. u.tx_byte + 1 : w.tx_buffer[k] = u.tx_buffer[k]
          BY <1>3, <2>1, <5>4 DEF AgreeTo, a, b
        <5> QED BY <1>3, <4>2, <5>5 DEF AgreeTo, NextPlace
      <4> QED BY <4>1, <4>2
    <3>8. AgreeTo(w, v)
      BY <2>1 DEF AgreeTo
    <3> QED BY <2>2, <3>2, <3>7, <3>8
  <2>5. CASE NextPlace(w, u)
    <3>1. SamePlace(v, w) /\ SamePlace(w, v) /\ ~SamePlace(u, w) /\ ~NextPlace(u, w)
      BY <1>3, <2>5, Spans DEF SamePlace, NextPlace
    <3>2. Phase(w) + FullBit - Phase(u) \in -1 .. 1
      BY <2>1, <3>1 DEF InStep
    <3>3. InStep(v, w) /\ InStep(w, v)
      BY <1>2, <2>3, <3>1, <3>2, Spans DEF InStep
    <3>4. AgreeTo(v, w) /\ AgreeTo(w, v)
      BY <2>1, <3>1 DEF AgreeTo, SamePlace
    <3> QED BY <2>2, <3>3, <3>4
  <2>6. CASE NextPlace(u, w) /\ Phase(u) + FullBit - Phase(w) \in -1 .. 1
    BY <1>2, <2>3, <2>6, Spans
  <2> QED BY <2>1, <2>4, <2>5, <2>6 DEF InStep
<1> QED BY <1>4, <1>5, <1>6 DEF Pair

(* A node that is in none of the sending states relates to senders only by  *)
(* how long it still waits.                                                 *)
LEMMA OnlyWaits ==
  ASSUME NEW v, NEW w, NEW l, v.state \notin Sending, w.state \in Sending => Waits(w, v, 0)
  PROVE  Pair(v, w, l) /\ Pair(w, v, 0)
BY DEF Pair

(* A node that neither sends nor waits has no relation to keep. *)
LEMMA NothingToWaitFor ==
  ASSUME NEW v, NEW w, NEW l,
         v.state \notin Sending \cup {"HoldOff", "EndOfMessage", "Idle", "TxStart"}
  PROVE  Pair(v, w, l) /\ Pair(w, v, 0)
BY DEF Pair, Waits

(* StartHoldOff: the gap is as long as what is left of a byte after its    *)
(* start bit, and if the start bit is still on, it will be heard.          *)
LEMMA StartHoldOffPairs ==
  ASSUME NEW v \in OwuartState, NEW w \in OwuartState, NEW l \in {0, 1},
         v.state = "HoldOff", v.timer = HoldOffTime, Timed(w, l)
  PROVE  Pair(v, w, l) /\ Pair(w, v, 0)
<1>1. SUFFICES ASSUME w.state \in Sending PROVE Waits(w, v, 0)
  BY OnlyWaits DEF Sending, TxState
<1>2. w.tx_pos \in 0 .. FrameBits /\ w.tx_byte \in Nat
  BY Fields
<1>3. Phase(w) \in Int
  BY Phases
<1>4. CASE StartOn(w)
  BY <1>4, Spans DEF Waits
<1>5. CASE ~StartOn(w)
  <2>1. CASE w.tx_pos = 0
    <3>1. w.state \in {"TxBit", "TxCompleted"}
      BY <1>1, <1>5, <2>1 DEF StartOn, Driving
    <3>2. Remaining(w) <= HoldOffTime - 1
      BY <1>3, <2>1, <3>1, Phases, Spans DEF Remaining, Driving
    <3> QED BY <3>2 DEF Waits
  <2>2. CASE w.tx_pos # 0
    <3>1. Left(w.tx_pos) \in Nat /\ Left(w.tx_pos) <= HoldOffTime
      BY <1>2, <2>2, LeftFacts, Spans
    <3>2. Phase(w) >= 1
      BY <1>1, <1>2, <2>2, Phases DEF Driving
    <3>3. Remaining(w) <= HoldOffTime - 1
      BY <1>3, <2>2, <3>1, <3>2, Spans DEF Remaining
    <3> QED BY <3>3 DEF Waits
  <2> QED BY <2>1, <2>2
<1> QED BY <1>4, <1>5

(* HoldOff with the line at 0. *)
LEMMA HoldOffPairs ==
  ASSUME NEW u \in OwuartState, NEW v \in OwuartState, NEW w \in OwuartState, NEW l \in {0, 1},
         u.state = "HoldOff", w.out = 0, Sends(w), Timed(w, l), Timed(u, 1), Pair(w, u, 1),
         v.timer = u.timer,
         \/ v.state = "HoldOff"
         \/ v.state = "EndOfMessage" /\ u.timer <= 0
  PROVE  Pair(v, w, l) /\ Pair(w, v, 0)
<1>1. SUFFICES ASSUME w.state \in Sending PROVE Waits(w, v, 0)
  BY OnlyWaits DEF Sending, TxState
<1>2. ~StartOn(w) /\ ~Fresh(w, 3)
  BY DEF Sends, StartOn, Fresh
<1>3. Remaining(w) <= u.timer - 1
  BY <1>1, <1>2 DEF Pair, Waits
<1>4. u.timer = 0 \/ v.state = "HoldOff"
  BY DEF Timed
<1> QED BY <1>3, <1>4 DEF Waits

(* EndOfMessage does not look at the line. *)
LEMMA EndOfMessagePairs ==
  ASSUME NEW u \in OwuartState, NEW v \in OwuartState, NEW w \in OwuartState, NEW l \in {0, 1},
         u.state = "EndOfMessage", v.state = "Idle", Pair(w, u, 1)
  PROVE  Pair(v, w, l) /\ Pair(w, v, 0)
<1>1. SUFFICES ASSUME w.state \in Sending PROVE Waits(w, v, 0)
  BY OnlyWaits DEF Sending, TxState
<1> QED BY <1>1 DEF Pair, Waits

(* Idle with the line at 0: nobody sends. *)
LEMMA IdlePairs ==
  ASSUME NEW u \in OwuartState, NEW v \in OwuartState, NEW w \in OwuartState, NEW l \in {0, 1},
         u.state = "Idle", w.out = 0, Sends(w), Timed(w, l), Pair(w, u, 1),
         v.state \in {"Idle", "TxStart"}
  PROVE  Pair(v, w, l) /\ Pair(w, v, 0)
<1>1. SUFFICES ASSUME w.state \in Sending PROVE FALSE
  BY OnlyWaits DEF Sending, TxState
<1>2. ~Fresh(w, 4)
  BY DEF Sends, StartOn, Fresh
<1>3. Remaining(w) <= -3
  BY <1>1, <1>2 DEF Pair, Waits
<1>4. w.tx_pos \in 0 .. FrameBits /\ Phase(w) \in Int
  BY Fields, Phases
<1>5. Left(w.tx_pos) \in Nat /\ Left(w.tx_pos) >= FullBit
  BY <1>4, LeftFacts
<1>6. Phase(w) <= FullBit + 1 /\ (w.state \notin Driving => Phase(w) <= 2)
  BY <1>1, Phases, Spans DEF Driving, Sending, TxState
<1> QED BY <1>3, <1>4, <1>5, <1>6, Spans DEF Remaining

(* The winner at a bit: who sees a 1 after sending a 0 is one round, at    *)
(* most, off a node that sends the 1, in the middle of the same bit.       *)
LEMMA Beaten ==
  ASSUME NEW u \in OwuartState, NEW w \in OwuartState, NEW l \in {0, 1},
         u.state = "TxMonitorBit", w.out = 1, Sends(w), Timed(u, 1), Timed(w, l), Pair(u, w, l)
  PROVE  /\ SamePlace(u, w)
         /\ w.state \in {"TxWaitForHalfBit", "TxMonitorBit", "TxWaitForFullBit"}
<1>1. w.state \in Sending /\ w.state # "TxArbitrated"
  BY DEF Sends
<1>2. InStep(u, w)
  BY <1>1 DEF Pair, Sending, TxState
<1>3. Phase(u) = HalfBit + 1 /\ Phase(w) \in Int
  BY Phases
<1>4. Phase(w) >= 0 /\ Phase(w) <= FullBit + 1
  BY <1>1, <1>3, Phases, Spans DEF Driving, Sending, TxState
<1>5. SamePlace(u, w) /\ Phase(u) - Phase(w) \in -1 .. 1
  BY <1>2, <1>3, <1>4, Spans DEF InStep
<1>6. w.state \notin {"TxBit", "TxCompleted", "TxNextBit"}
  BY <1>3, <1>5, Phases, Spans
<1> QED BY <1>1, <1>5, <1>6 DEF Sending, TxState

(* ... and stays there until the loser has left.                           *)
LEMMA StaysAbove ==
  ASSUME NEW u \in OwuartState, NEW w \in OwuartState, NEW l \in {0, 1},
         u.state = "TxWaitForFullBit", u.timer <= 0, Timed(u, 1), Timed(w, l), Pair(u, w, l),
         w.state = "TxArbitrated"
  PROVE  ~Above(u, w)
<1>1. SUFFICES ASSUME SamePlace(u, w) PROVE FALSE
  BY DEF Above, SamePlace
<1>2. InStep(u, w)
  BY DEF Pair, Sending, TxState
<1>3. Phase(w) = HalfBit + 1 + l /\ Phase(u) \in Int
  BY Phases
<1>4. Phase(u) >= FullBit
  <2>1. u.timer \in Int
    BY Fields
  <2> QED BY <2>1, Spans DEF Phase
<1>5. u.tx_byte \in Nat /\ u.tx_pos \in Nat
  BY Fields, Spans
<1>6. Phase(u) - Phase(w) \in -1 .. 1
  BY <1>1, <1>2, <1>5, Spans DEF InStep, SamePlace, NextPlace
<1> QED BY <1>3, <1>4, <1>6, Spans
-----------------------------------------------------------------------------
(* One node's tick *)

(* What the invariant says of a node that is about to run. *)
LEMMA Known ==
  ASSUME UartInv, NEW n \in Node, n \notin ticked
  PROVE  /\ owuart[n] \in OwuartState
         /\ Len(owuart[n].tx_buffer) <= MaxMsg /\ owuart[n].tx_byte <= MaxMsg
         /\ Sends(owuart[n]) /\ Receives(owuart[n]) /\ Timed(owuart[n], 1)
         /\ \A m \in Node \ {n} :
              /\ owuart[m] \in OwuartState /\ Last(m) \in {0, 1}
              /\ Sends(owuart[m]) /\ Timed(owuart[m], Last(m))
              /\ Pair(owuart[n], owuart[m], Last(m)) /\ Pair(owuart[m], owuart[n], 1)
<1>1. owuart \in [Node -> OwuartState]
  BY DEF UartInv, TypeOK
<1>2. Last(n) = 1 /\ \A m \in Node : Last(m) \in {0, 1}
  BY DEF Last
<1>3. Len(owuart[n].tx_buffer) <= MaxMsg /\ owuart[n].tx_byte <= MaxMsg
  BY DEF UartInv, TypeOK
<1>4. Sends(owuart[n]) /\ Receives(owuart[n]) /\ Timed(owuart[n], 1)
  BY <1>2 DEF UartInv, LocalInv
<1>5. ASSUME NEW m \in Node \ {n}
      PROVE  /\ owuart[m] \in OwuartState /\ Last(m) \in {0, 1}
             /\ Sends(owuart[m]) /\ Timed(owuart[m], Last(m))
             /\ Pair(owuart[n], owuart[m], Last(m)) /\ Pair(owuart[m], owuart[n], 1)
  <2>1. Sends(owuart[m]) /\ Timed(owuart[m], Last(m))
    BY DEF UartInv, LocalInv
  <2>2. Pair(owuart[n], owuart[m], Last(m)) /\ Pair(owuart[m], owuart[n], 1)
    BY <1>2 DEF UartInv, PairInv
  <2> QED BY <1>1, <1>2, <2>1, <2>2
<1> QED BY <1>1, <1>3, <1>4, <1>5

\* The part of TypeOK that is about the hosts.
HostTypes == inbox \in [Node -> Seq({Aux} \cup Seq(Byte))] /\ written \in [Node -> 0 .. MaxWrites]

(* A tick of n turns its state into v: what v must satisfy, alone and with  *)
(* each other node, for the invariant to hold again.                        *)
LEMMA TickPreserves ==
  ASSUME UartInv, NEW n \in Node, n \notin ticked, NEW v \in OwuartState,
         owuart' = [owuart EXCEPT ![n] = v], ticked' = ticked \cup {n}, HostTypes',
         Len(v.tx_buffer) <= MaxMsg, v.tx_byte <= MaxMsg,
         Sends(v), Receives(v), Timed(v, 0),
         \A m \in Node \ {n} : Pair(v, owuart[m], Last(m)) /\ Pair(owuart[m], v, 0),
         \A m \in Node \ {n} :
           owuart[m].state = "TxArbitrated" /\ Above(owuart[n], owuart[m]) => Above(v, owuart[m]),
         v.state = "TxArbitrated" => \E m \in Node \ {n} : Above(owuart[m], v)
  PROVE  UartInv'
<1>1. owuart \in [Node -> OwuartState] /\ ticked \subseteq Node
  BY DEF UartInv, TypeOK
<1>2. owuart'[n] = v /\ \A m \in Node \ {n} : owuart'[m] = owuart[m]
  BY <1>1
<1>3. Last(n)' = 0 /\ \A m \in Node \ {n} : Last(m)' = Last(m)
  BY DEF Last
<1>4. TypeOK'
  <2>1. owuart' \in [Node -> OwuartState] /\ ticked' \subseteq Node
    BY <1>1
  <2>2. Len(v.rx_bits) <= FrameBits
    <3>1. v.rx_bits \in Seq(Bit)
      BY Fields
    <3>2. v.rx_bits = <<>> => Len(v.rx_bits) = 0
      OBVIOUS
    <3> QED BY <3>1, <3>2, Spans DEF Receives, RxState
  <2>3. ASSUME NEW m \in Node
        PROVE  /\ Len(owuart'[m].tx_buffer) <= MaxMsg /\ owuart'[m].tx_byte <= MaxMsg
               /\ Len(owuart'[m].rx_bits) <= FrameBits
    BY <1>2, <2>2 DEF UartInv, TypeOK
  <2> QED BY <2>1, <2>3 DEF TypeOK, HostTypes
<1>5. LocalInv'
  <2>1. ASSUME NEW m \in Node
        PROVE  Sends(owuart'[m]) /\ Receives(owuart'[m]) /\ Timed(owuart'[m], Last(m)')
    BY <1>2, <1>3 DEF UartInv, LocalInv
  <2> QED BY <2>1 DEF LocalInv
<1>6. PairInv'
  <2>1. ASSUME NEW k \in Node, NEW m \in Node \ {k}
        PROVE  Pair(owuart'[k], owuart'[m], Last(m)')
    BY <1>2, <1>3 DEF UartInv, PairInv
  <2> QED BY <2>1 DEF PairInv
<1>7. AboveInv'
  <2>1. ASSUME NEW k \in Node, owuart'[k].state = "TxArbitrated"
        PROVE  \E m \in Node \ {k} : Above(owuart'[m], owuart'[k])
    <3>1. CASE k = n
      BY <1>2, <2>1, <3>1
    <3>2. CASE k # n
      <4>1. PICK m \in Node \ {k} : Above(owuart[m], owuart[k])
        BY <1>2, <2>1, <3>2 DEF UartInv, AboveInv
      <4>2. Above(owuart'[m], owuart'[k])
        BY <1>2, <2>1, <3>2, <4>1
      <4> QED BY <4>2
    <3> QED BY <3>1, <3>2
  <2> QED BY <2>1 DEF AboveInv
<1> QED BY <1>4, <1>5, <1>6, <1>7 DEF UartInv

(* The line is the wired-or of what the nodes drive. *)
LEMMA ReadOf ==
  /\ Read = 0 \/ Read = 1
  /\ TypeOK /\ Read = 0 => \A m \in Node : owuart[m].out = 0
  /\ Read = 1 => \E m \in Node : owuart[m].out = 1
<1>1. TypeOK => \A m \in Node : owuart[m].out = 0 \/ owuart[m].out = 1
  BY DEF TypeOK, OwuartState, Bit
<1> QED BY <1>1 DEF Read

(* StartHoldOff: the hold-off is at least what is left of any byte. *)
LEMMA StartHoldOffStep ==
  ASSUME UartInv, NEW n \in Node, StartHoldOff(n)
  PROVE  UartInv'
<1> DEFINE u == owuart[n]
           v == [u EXCEPT !.timer = HoldOffTime, !.state = "HoldOff"]
<1>1. /\ n \notin ticked /\ u.state = "StartHoldOff" /\ ticked' = ticked \cup {n}
      /\ owuart' = [owuart EXCEPT ![n] = v]
  BY DEF StartHoldOff, In
<1>2. HostTypes'
  BY DEF StartHoldOff, Silent, hosts, HostTypes, UartInv, TypeOK
<1>3. u \in OwuartState
  BY <1>1, Known
<1>4. v \in OwuartState
  <2>1. HoldOffTime \in -MaxLate .. FrameBits * FullBit /\ "HoldOff" \in State
    BY Timers, Spans, States
  <2> QED BY <1>3, <2>1 DEF OwuartState
<1>5. /\ v.state = "HoldOff" /\ v.timer = HoldOffTime
      /\ v.out = u.out /\ v.tx_buffer = u.tx_buffer /\ v.tx_byte = u.tx_byte
      /\ v.rx_bits = u.rx_bits
  BY <1>3 DEF OwuartState
<1> HIDE DEF v
<1>6. Sends(v) /\ Receives(v) /\ Timed(v, 0)
  BY <1>1, <1>5, Known, Spans DEF Sends, Receives, Timed, Driving, Sending, TxState, RxState, StartOn
<1>7. \A m \in Node \ {n} : Pair(v, owuart[m], Last(m)) /\ Pair(owuart[m], v, 0)
  BY <1>1, <1>4, <1>5, Known, StartHoldOffPairs
<1>8. \A m \in Node \ {n} : ~Above(u, owuart[m])
  BY <1>1 DEF Above
<1>9. Len(v.tx_buffer) <= MaxMsg /\ v.tx_byte <= MaxMsg
  BY <1>1, <1>5, Known
<1> QED BY <1>1, <1>2, <1>4, <1>5, <1>6, <1>7, <1>8, <1>9, TickPreserves

(* HoldOff: it ends when the line stayed at 0 as long as a byte can. *)
LEMMA HoldOffStep ==
  ASSUME UartInv, NEW n \in Node, HoldOff(n)
  PROVE  UartInv'
<1> DEFINE u == owuart[n]
           v == [u EXCEPT !.state =
             IF Read = 1 THEN "RxStartBit" ELSE IF u.timer <= 0 THEN "EndOfMessage" ELSE @]
<1>1. /\ n \notin ticked /\ u.state = "HoldOff" /\ ticked' = ticked \cup {n}
      /\ owuart' = [owuart EXCEPT ![n] = v]
  BY DEF HoldOff, time_ge, In
<1>2. HostTypes'
  BY DEF HoldOff, Silent, hosts, HostTypes, UartInv, TypeOK
<1>3. u \in OwuartState
  BY <1>1, Known
<1>4. v \in OwuartState
  <2>1. (IF Read = 1 THEN "RxStartBit" ELSE IF u.timer <= 0 THEN "EndOfMessage" ELSE u.state) \in State
    BY <1>1, States
  <2> QED BY <1>3, <2>1 DEF OwuartState
<1>5. /\ v.state = IF Read = 1 THEN "RxStartBit" ELSE IF u.timer <= 0 THEN "EndOfMessage" ELSE u.state
      /\ v.timer = u.timer /\ v.out = u.out /\ v.tx_buffer = u.tx_buffer /\ v.tx_byte = u.tx_byte /\ v.rx_bits = u.rx_bits
  BY <1>3 DEF OwuartState
<1> HIDE DEF v
<1>6. Sends(v) /\ Receives(v) /\ Timed(v, 0)
  BY <1>1, <1>5, Known, Spans DEF Sends, Receives, Timed, Driving, Sending, TxState, RxState, StartOn
<1>7. \A m \in Node \ {n} : Pair(v, owuart[m], Last(m)) /\ Pair(owuart[m], v, 0)
  <2>1. TAKE m \in Node \ {n}
  <2>2. CASE Read = 1
    BY <1>5, <2>2, NothingToWaitFor DEF Sending, TxState
  <2>3. CASE Read # 1
    <3>1. owuart[m].out = 0
      BY <2>3, ReadOf DEF UartInv
    <3> QED BY <1>1, <1>4, <1>5, <2>3, <3>1, Known, HoldOffPairs
  <2> QED BY <2>2, <2>3
<1>8. \A m \in Node \ {n} :
        owuart[m].state = "TxArbitrated" /\ Above(u, owuart[m]) => Above(v, owuart[m])
  BY <1>1 DEF Above
<1>9. Len(v.tx_buffer) <= MaxMsg /\ v.tx_byte <= MaxMsg
  BY <1>1, <1>5, Known
<1> QED BY <1>1, <1>2, <1>4, <1>5, <1>6, <1>7, <1>8, <1>9, TickPreserves

(* EndOfMessage: the line is not read. *)
LEMMA EndOfMessageStep ==
  ASSUME UartInv, NEW n \in Node, EndOfMessage(n)
  PROVE  UartInv'
<1> DEFINE u == owuart[n]
           v == [u EXCEPT !.rx_buffer = <<>>, !.rx_bits = <<>>, !.state = "Idle"]
<1>1. /\ n \notin ticked /\ u.state = "EndOfMessage" /\ ticked' = ticked \cup {n}
      /\ owuart' = [owuart EXCEPT ![n] = v]
  BY DEF EndOfMessage, In
<1>2. HostTypes'
  BY DEF EndOfMessage, hosts, HostTypes, UartInv, TypeOK
<1>3. u \in OwuartState
  BY <1>1, Known
<1>4. v \in OwuartState
  <2>1. "Idle" \in State /\ <<>> \in Seq(Byte) /\ <<>> \in Seq(Bit)
    BY States
  <2> QED BY <1>3, <2>1 DEF OwuartState
<1>5. /\ v.state = "Idle" /\ v.rx_bits = <<>>
      /\ v.timer = u.timer /\ v.out = u.out /\ v.tx_buffer = u.tx_buffer /\ v.tx_byte = u.tx_byte
  BY <1>3 DEF OwuartState
<1> HIDE DEF v
<1>6. Sends(v) /\ Receives(v) /\ Timed(v, 0)
  BY <1>1, <1>5, Known DEF Sends, Receives, Timed, Driving, Sending, TxState, RxState, StartOn
<1>7. \A m \in Node \ {n} : Pair(v, owuart[m], Last(m)) /\ Pair(owuart[m], v, 0)
  BY <1>1, <1>4, <1>5, Known, EndOfMessagePairs
<1>8. \A m \in Node \ {n} :
        owuart[m].state = "TxArbitrated" /\ Above(u, owuart[m]) => Above(v, owuart[m])
  BY <1>1 DEF Above
<1>9. Len(v.tx_buffer) <= MaxMsg /\ v.tx_byte <= MaxMsg
  BY <1>1, <1>5, Known
<1> QED BY <1>1, <1>2, <1>4, <1>5, <1>6, <1>7, <1>8, <1>9, TickPreserves

(* IdleHears: the node turns to receiving. *)
LEMMA IdleHearsStep ==
  ASSUME UartInv, NEW n \in Node, IdleHears(n)
  PROVE  UartInv'
<1> DEFINE u == owuart[n]
           v == [u EXCEPT !.state = "RxStartBit"]
<1>1. /\ n \notin ticked /\ u.state = "Idle" /\ ticked' = ticked \cup {n}
      /\ owuart' = [owuart EXCEPT ![n] = v]
  BY DEF IdleHears, In
<1>2. HostTypes'
  BY DEF IdleHears, Silent, hosts, HostTypes, UartInv, TypeOK
<1>3. u \in OwuartState
  BY <1>1, Known
<1>4. v \in OwuartState
  <2>1. "RxStartBit" \in State
    BY States
  <2> QED BY <1>3, <2>1 DEF OwuartState
<1>5. /\ v.state = "RxStartBit"
      /\ v.timer = u.timer /\ v.out = u.out /\ v.tx_buffer = u.tx_buffer /\ v.tx_byte = u.tx_byte /\ v.rx_bits = u.rx_bits
  BY <1>3 DEF OwuartState
<1> HIDE DEF v
<1>6. Sends(v) /\ Receives(v) /\ Timed(v, 0)
  BY <1>1, <1>5, Known DEF Sends, Receives, Timed, Driving, Sending, TxState, RxState, StartOn
<1>7. \A m \in Node \ {n} : Pair(v, owuart[m], Last(m)) /\ Pair(owuart[m], v, 0)
  BY <1>5, NothingToWaitFor DEF Sending, TxState
<1>8. \A m \in Node \ {n} :
        owuart[m].state = "TxArbitrated" /\ Above(u, owuart[m]) => Above(v, owuart[m])
  BY <1>1 DEF Above
<1>9. Len(v.tx_buffer) <= MaxMsg /\ v.tx_byte <= MaxMsg
  BY <1>1, <1>5, Known
<1> QED BY <1>1, <1>2, <1>4, <1>5, <1>6, <1>7, <1>8, <1>9, TickPreserves

(* IdleSends: the line is at 0, so nobody is sending. *)
LEMMA IdleSendsStep ==
  ASSUME UartInv, NEW n \in Node, IdleSends(n)
  PROVE  UartInv'
<1> DEFINE u == owuart[n]
           v == [u EXCEPT !.state = "TxStart"]
<1>1. /\ n \notin ticked /\ u.state = "Idle" /\ ticked' = ticked \cup {n}
      /\ owuart' = [owuart EXCEPT ![n] = v]
  BY DEF IdleSends, In
<1>2. HostTypes'
  BY DEF IdleSends, Silent, hosts, HostTypes, UartInv, TypeOK
<1>3. u \in OwuartState
  BY <1>1, Known
<1>4. v \in OwuartState
  <2>1. "TxStart" \in State
    BY States
  <2> QED BY <1>3, <2>1 DEF OwuartState
<1>5. /\ v.state = "TxStart" /\ v.tx_buffer # <<>>
      /\ v.timer = u.timer /\ v.out = u.out /\ v.tx_buffer = u.tx_buffer /\ v.tx_byte = u.tx_byte /\ v.rx_bits = u.rx_bits
  BY <1>3 DEF OwuartState, IdleSends
<1> HIDE DEF v
<1>6. Sends(v) /\ Receives(v) /\ Timed(v, 0)
  BY <1>1, <1>5, Known DEF Sends, Receives, Timed, Driving, Sending, TxState, RxState, StartOn
<1>7. \A m \in Node \ {n} : Pair(v, owuart[m], Last(m)) /\ Pair(owuart[m], v, 0)
  <2>1. \A m \in Node : owuart[m].out = 0
    BY ReadOf DEF UartInv, IdleSends
  <2> QED BY <1>1, <1>4, <1>5, <2>1, Known, IdlePairs
<1>8. \A m \in Node \ {n} :
        owuart[m].state = "TxArbitrated" /\ Above(u, owuart[m]) => Above(v, owuart[m])
  BY <1>1 DEF Above
<1>9. Len(v.tx_buffer) <= MaxMsg /\ v.tx_byte <= MaxMsg
  BY <1>1, <1>5, Known
<1> QED BY <1>1, <1>2, <1>4, <1>5, <1>6, <1>7, <1>8, <1>9, TickPreserves

(* TxStart: the start bit goes out beside start bits only. *)
LEMMA TxStartStep ==
  ASSUME UartInv, NEW n \in Node, TxStart(n)
  PROVE  UartInv'
<1> DEFINE u == owuart[n]
           v == [u EXCEPT !.tx_byte = 0, !.tx_pos = 0, !.timer = 0 + HalfBit,
                        !.out = START_BIT_VALUE, !.tx_sent = START_BIT_VALUE, !.state = "TxWaitForHalfBit"]
<1>1. /\ n \notin ticked /\ u.state = "TxStart" /\ ticked' = ticked \cup {n}
      /\ owuart' = [owuart EXCEPT ![n] = v]
  BY DEF TxStart, In, SendBit
<1>2. HostTypes'
  BY DEF TxStart, Silent, hosts, HostTypes, UartInv, TypeOK
<1>3. u \in OwuartState
  BY <1>1, Known
<1>4. v \in OwuartState
  <2>1. /\ 0 \in Nat /\ 0 \in 0 .. FrameBits /\ START_BIT_VALUE \in Bit
        /\ 0 + HalfBit \in -MaxLate .. FrameBits * FullBit /\ "TxWaitForHalfBit" \in State
    BY Timers, Spans, States DEF START_BIT_VALUE, Bit
  <2> QED BY <1>3, <2>1 DEF OwuartState
<1>5. /\ v.state = "TxWaitForHalfBit" /\ v.tx_byte = 0 /\ v.tx_pos = 0 /\ v.timer = HalfBit
      /\ v.out = 1 /\ v.tx_sent = 1 /\ v.tx_buffer = u.tx_buffer /\ v.rx_bits = u.rx_bits
  BY <1>3, Spans DEF OwuartState, START_BIT_VALUE
<1> HIDE DEF v
<1>6. Sends(v) /\ Receives(v) /\ Timed(v, 0)
  <2>1. u.tx_buffer # <<>> /\ u.tx_buffer \in Seq(Byte)
    BY <1>1, <1>3, Known, Fields DEF Sends
  <2>2. 0 < Len(v.tx_buffer) /\ v.tx_buffer[1] \in Byte
    BY <1>5, <2>1
  <2>3. CurrentBit(v) = 1
    BY <1>5, <2>2, FrameIs DEF CurrentBit
  <2> QED BY <1>1, <1>5, <2>2, <2>3, Known, Spans DEF Sends, Receives, Timed, Driving, Sending, TxState, RxState, StartOn
<1>7. \A m \in Node \ {n} : Pair(v, owuart[m], Last(m)) /\ Pair(owuart[m], v, 0)
  BY <1>1, <1>4, <1>5, Known, StartPairs
<1>8. \A m \in Node \ {n} :
        owuart[m].state = "TxArbitrated" /\ Above(u, owuart[m]) => Above(v, owuart[m])
  BY <1>1 DEF Above
<1>9. Len(v.tx_buffer) <= MaxMsg /\ v.tx_byte <= MaxMsg
  BY <1>1, <1>5, Known, OwUartAssumption
<1> QED BY <1>1, <1>2, <1>4, <1>5, <1>6, <1>7, <1>8, <1>9, TickPreserves

(* TxBit: the bit that is driven is the bit of the frame. *)
LEMMA TxBitStep ==
  ASSUME UartInv, NEW n \in Node, TxBit(n)
  PROVE  UartInv'
<1> DEFINE u == owuart[n]
           v == [u EXCEPT !.out = BitToSend(n), !.tx_sent = BitToSend(n), !.timer = @ + HalfBit,
                        !.state = "TxWaitForHalfBit"]
<1>1. /\ n \notin ticked /\ u.state = "TxBit" /\ ticked' = ticked \cup {n}
      /\ owuart' = [owuart EXCEPT ![n] = v]
  BY DEF TxBit, In, SendBit
<1>2. HostTypes'
  BY DEF TxBit, Silent, hosts, HostTypes, UartInv, TypeOK
<1>3. u \in OwuartState
  BY <1>1, Known
<1>0. u.timer = -2 /\ u.tx_byte < Len(u.tx_buffer)
  BY <1>1, Known DEF Timed, Sends
<1>a. u.tx_buffer[u.tx_byte + 1] \in Byte
  BY <1>0, <1>3, Fields
<1>b. BitToSend(n) \in Bit
  <2>1. u.tx_pos + 1 \in 1 .. FrameBits + 1
    BY <1>3, Fields, Spans
  <2> QED BY <1>a, <2>1, FrameBitIsBit DEF BitToSend
<1>4. v \in OwuartState
  <2>1. u.timer + HalfBit \in -MaxLate .. FrameBits * FullBit /\ "TxWaitForHalfBit" \in State
    BY <1>0, Timers, Spans, States
  <2> QED BY <1>3, <1>b, <2>1 DEF OwuartState
<1>5. /\ v.state = "TxWaitForHalfBit" /\ v.timer = u.timer + HalfBit /\ v.out = BitToSend(n) /\ v.tx_sent = BitToSend(n)
      /\ v.tx_buffer = u.tx_buffer /\ v.tx_byte = u.tx_byte /\ v.tx_pos = u.tx_pos /\ v.rx_bits = u.rx_bits
  BY <1>3 DEF OwuartState
<1> HIDE DEF v
<1>6. Sends(v) /\ Receives(v) /\ Timed(v, 0)
  <2>1. CurrentBit(v) = BitToSend(n)
    BY <1>5 DEF CurrentBit, BitToSend
  <2>2. v.tx_pos = 0 => BitToSend(n) = 1
    BY <1>a, <1>5, FrameIs DEF BitToSend
  <2> QED BY <1>0, <1>1, <1>5, <2>1, <2>2, Known, Spans DEF Sends, Receives, Timed, Driving, Sending, TxState, RxState, StartOn
<1>7. \A m \in Node \ {n} : Pair(v, owuart[m], Last(m)) /\ Pair(owuart[m], v, 0)
  BY <1>1, <1>4, <1>5, Known, BitPairs
<1>8. \A m \in Node \ {n} :
        owuart[m].state = "TxArbitrated" /\ Above(u, owuart[m]) => Above(v, owuart[m])
  BY <1>1 DEF Above
<1>9. Len(v.tx_buffer) <= MaxMsg /\ v.tx_byte <= MaxMsg
  BY <1>1, <1>5, Known
<1> QED BY <1>1, <1>2, <1>4, <1>5, <1>6, <1>7, <1>8, <1>9, TickPreserves

(* TxWaitForHalfBit: nothing but the state changes. *)
LEMMA TxWaitForHalfBitStep ==
  ASSUME UartInv, NEW n \in Node, TxWaitForHalfBit(n)
  PROVE  UartInv'
<1> DEFINE u == owuart[n]
           v == [u EXCEPT !.state = IF u.timer <= 0 THEN "TxMonitorBit" ELSE @]
<1>1. /\ n \notin ticked /\ u.state = "TxWaitForHalfBit" /\ ticked' = ticked \cup {n}
      /\ owuart' = [owuart EXCEPT ![n] = v]
  BY DEF TxWaitForHalfBit, time_ge, In
<1>2. HostTypes'
  BY DEF TxWaitForHalfBit, Silent, hosts, HostTypes, UartInv, TypeOK
<1>3. u \in OwuartState
  BY <1>1, Known
<1>4. v \in OwuartState
  <2>1. (IF u.timer <= 0 THEN "TxMonitorBit" ELSE u.state) \in State
    BY <1>1, States
  <2> QED BY <1>3, <2>1 DEF OwuartState
<1>5. /\ v.state = IF u.timer <= 0 THEN "TxMonitorBit" ELSE u.state
      /\ v.timer = u.timer /\ v.out = u.out /\ v.tx_sent = u.tx_sent /\ v.tx_buffer = u.tx_buffer /\ v.tx_byte = u.tx_byte /\ v.tx_pos = u.tx_pos /\ v.rx_bits = u.rx_bits
  BY <1>3 DEF OwuartState
<1> HIDE DEF v
<1>6. Sends(v) /\ Receives(v) /\ Timed(v, 0)
  BY <1>1, <1>5, Known, Spans DEF Sends, Receives, Timed, Driving, Sending, TxState, RxState, StartOn, CurrentBit
<1>7. \A m \in Node \ {n} : Pair(v, owuart[m], Last(m)) /\ Pair(owuart[m], v, 0)
  BY <1>1, <1>3, <1>4, <1>5, Known, WaitPairs
<1>8. \A m \in Node \ {n} :
        owuart[m].state = "TxArbitrated" /\ Above(u, owuart[m]) => Above(v, owuart[m])
  BY <1>1, <1>5 DEF Above, SamePlace
<1>9. Len(v.tx_buffer) <= MaxMsg /\ v.tx_byte <= MaxMsg
  BY <1>1, <1>5, Known
<1> QED BY <1>1, <1>2, <1>4, <1>5, <1>6, <1>7, <1>8, <1>9, TickPreserves

(* TxWaitForFullBit: nothing but the state changes; a winner is not in it any more. *)
LEMMA TxWaitForFullBitStep ==
  ASSUME UartInv, NEW n \in Node, TxWaitForFullBit(n)
  PROVE  UartInv'
<1> DEFINE u == owuart[n]
           v == [u EXCEPT !.state = IF u.timer <= 0 THEN "TxNextBit" ELSE @]
<1>1. /\ n \notin ticked /\ u.state = "TxWaitForFullBit" /\ ticked' = ticked \cup {n}
      /\ owuart' = [owuart EXCEPT ![n] = v]
  BY DEF TxWaitForFullBit, time_ge, In
<1>2. HostTypes'
  BY DEF TxWaitForFullBit, Silent, hosts, HostTypes, UartInv, TypeOK
<1>3. u \in OwuartState
  BY <1>1, Known
<1>4. v \in OwuartState
  <2>1. (IF u.timer <= 0 THEN "TxNextBit" ELSE u.state) \in State
    BY <1>1, States
  <2> QED BY <1>3, <2>1 DEF OwuartState
<1>5. /\ v.state = IF u.timer <= 0 THEN "TxNextBit" ELSE u.state
      /\ v.timer = u.timer /\ v.out = u.out /\ v.tx_sent = u.tx_sent /\ v.tx_buffer = u.tx_buffer /\ v.tx_byte = u.tx_byte /\ v.tx_pos = u.tx_pos /\ v.rx_bits = u.rx_bits
  BY <1>3 DEF OwuartState
<1> HIDE DEF v
<1>6. Sends(v) /\ Receives(v) /\ Timed(v, 0)
  BY <1>1, <1>5, Known, Spans DEF Sends, Receives, Timed, Driving, Sending, TxState, RxState, StartOn, CurrentBit
<1>7. \A m \in Node \ {n} : Pair(v, owuart[m], Last(m)) /\ Pair(owuart[m], v, 0)
  BY <1>1, <1>3, <1>4, <1>5, Known, WaitPairs
<1>8. \A m \in Node \ {n} :
        owuart[m].state = "TxArbitrated" /\ Above(u, owuart[m]) => Above(v, owuart[m])
  <2>1. TAKE m \in Node \ {n}
  <2>2. CASE u.timer <= 0
    BY <1>1, <1>3, <2>2, Known, StaysAbove
  <2>3. CASE ~(u.timer <= 0)
    BY <1>1, <1>5, <2>3 DEF Above, SamePlace
  <2> QED BY <2>2, <2>3
<1>9. Len(v.tx_buffer) <= MaxMsg /\ v.tx_byte <= MaxMsg
  BY <1>1, <1>5, Known
<1> QED BY <1>1, <1>2, <1>4, <1>5, <1>6, <1>7, <1>8, <1>9, TickPreserves

(* TxMonitorBit: a node that lost has a winner above it, a node that goes on with a 0 has none. *)
LEMMA TxMonitorBitStep ==
  ASSUME UartInv, NEW n \in Node, TxMonitorBit(n)
  PROVE  UartInv'
<1> DEFINE u == owuart[n]
           v == [u EXCEPT !.timer = @ + HalfBit,
                        !.state = IF Read = u.tx_sent THEN "TxWaitForFullBit" ELSE "TxArbitrated"]
<1>1. /\ n \notin ticked /\ u.state = "TxMonitorBit" /\ ticked' = ticked \cup {n}
      /\ owuart' = [owuart EXCEPT ![n] = v]
  BY DEF TxMonitorBit, In
<1>2. HostTypes'
  BY DEF TxMonitorBit, Silent, hosts, HostTypes, UartInv, TypeOK
<1>3. u \in OwuartState
  BY <1>1, Known
<1>0. u.timer = -1 /\ u.out = u.tx_sent /\ u.out \in Bit
  BY <1>1, <1>3, Known, Fields DEF Timed, Sends, Driving, Sending, TxState
<1>a. Read # u.tx_sent => Read = 1 /\ u.out = 0
  BY <1>0, ReadOf DEF Read, Bit
<1>4. v \in OwuartState
  <2>1. /\ u.timer + HalfBit \in -MaxLate .. FrameBits * FullBit
        /\ (IF Read = u.tx_sent THEN "TxWaitForFullBit" ELSE "TxArbitrated") \in State
    BY <1>0, Timers, Spans, States
  <2> QED BY <1>3, <2>1 DEF OwuartState
<1>5. /\ v.state = IF Read = u.tx_sent THEN "TxWaitForFullBit" ELSE "TxArbitrated"
      /\ v.timer = u.timer + HalfBit
      /\ v.out = u.out /\ v.tx_sent = u.tx_sent /\ v.tx_buffer = u.tx_buffer /\ v.tx_byte = u.tx_byte /\ v.tx_pos = u.tx_pos /\ v.rx_bits = u.rx_bits
  BY <1>3 DEF OwuartState
<1> HIDE DEF v
<1>b. ASSUME v.state = "TxArbitrated" PROVE \E m \in Node \ {n} : Above(owuart[m], v)
  <2>1. PICK m \in Node : owuart[m].out = 1
    BY <1>5, <1>a, <1>b, ReadOf
  <2>2. m # n
    BY <1>5, <1>a, <1>b, <2>1
  <2>3. /\ SamePlace(u, owuart[m])
        /\ owuart[m].state \in {"TxWaitForHalfBit", "TxMonitorBit", "TxWaitForFullBit"}
    BY <1>1, <1>3, <2>1, <2>2, Known, Beaten
  <2> QED BY <1>5, <2>1, <2>2, <2>3 DEF Above, SamePlace
<1>6. Sends(v) /\ Receives(v) /\ Timed(v, 0)
  BY <1>0, <1>a, <1>1, <1>5, Known, Spans DEF Sends, Receives, Timed, Driving, Sending, TxState, RxState, StartOn, CurrentBit
<1>7. \A m \in Node \ {n} : Pair(v, owuart[m], Last(m)) /\ Pair(owuart[m], v, 0)
  <2>1. TAKE m \in Node \ {n}
  <2>2. v.state = "TxWaitForFullBit" /\ v.out = 0 => owuart[m].out = 0
    BY <1>0, <1>5, ReadOf DEF UartInv
  <2> QED BY <1>1, <1>3, <1>4, <1>5, <2>2, Known, MonitorPairs
<1>8. \A m \in Node \ {n} :
        owuart[m].state = "TxArbitrated" /\ Above(u, owuart[m]) => Above(v, owuart[m])
  BY <1>0, <1>a, <1>1, <1>5 DEF Above, SamePlace
<1>9. Len(v.tx_buffer) <= MaxMsg /\ v.tx_byte <= MaxMsg
  BY <1>1, <1>5, Known
<1> QED BY <1>b, <1>1, <1>2, <1>4, <1>5, <1>6, <1>7, <1>8, <1>9, TickPreserves

(* TxNextBit: who goes on from the same bit sent the same bit. *)
LEMMA TxNextBitStep ==
  ASSUME UartInv, NEW n \in Node, TxNextBit(n)
  PROVE  UartInv'
<1> DEFINE u == owuart[n]
           last == u.tx_pos + 1 = FrameBits + 1
           byte == IF last THEN u.tx_byte + 1 ELSE u.tx_byte
           pos  == IF last THEN 0 ELSE u.tx_pos + 1
           next == IF byte >= Len(u.tx_buffer) THEN "TxCompleted" ELSE "TxBit"
           v == [u EXCEPT !.tx_pos = pos, !.tx_byte = byte, !.state = next]
<1>1. /\ n \notin ticked /\ u.state = "TxNextBit" /\ ticked' = ticked \cup {n}
      /\ owuart' = [owuart EXCEPT ![n] = v]
  BY DEF TxNextBit, In
<1>2. HostTypes'
  BY DEF TxNextBit, Silent, hosts, HostTypes, UartInv, TypeOK
<1>3. u \in OwuartState
  BY <1>1, Known
<1>0. /\ u.tx_pos \in 0 .. FrameBits /\ u.tx_byte \in Nat /\ u.tx_byte < Len(u.tx_buffer)
      /\ Len(u.tx_buffer) \in Nat
  BY <1>1, <1>3, Known, Fields DEF Sends, Driving, Sending, TxState
<1>a. /\ pos \in 0 .. FrameBits /\ byte \in Nat /\ byte <= Len(u.tx_buffer)
      /\ next \in {"TxBit", "TxCompleted"} /\ (next = "TxBit" => byte < Len(u.tx_buffer))
      /\ next = "TxCompleted" => pos = 0 /\ byte = Len(u.tx_buffer)
  <2>1. CASE last
    BY <1>0, <2>1, Spans
  <2>2. CASE ~last
    <3>1. pos = u.tx_pos + 1 /\ byte = u.tx_byte /\ next = "TxBit"
      BY <1>0, <2>2
    <3> QED BY <1>0, <2>2, <3>1, Spans
  <2> QED BY <2>1, <2>2
<1>b. pos = 1 => u.tx_pos = 0
  BY <1>0, Spans
<1>c. pos = 1 => u.out = 1
  BY <1>1, <1>b, Known DEF Sends, StartOn, Driving, Sending, TxState
<1>4. v \in OwuartState
  <2>1. /\ pos \in 0 .. FrameBits /\ byte \in Nat /\ next \in State
    BY <1>0, <1>a, Spans, States
  <2> QED BY <1>3, <2>1 DEF OwuartState
<1>5. /\ v.state = next /\ v.tx_pos = pos /\ v.tx_byte = byte
      /\ v.timer = u.timer /\ v.out = u.out /\ v.tx_sent = u.tx_sent /\ v.tx_buffer = u.tx_buffer /\ v.rx_bits = u.rx_bits
  BY <1>3 DEF OwuartState
<1> HIDE DEF v, pos, byte, next
<1>6. Sends(v) /\ Receives(v) /\ Timed(v, 0)
  BY <1>0, <1>a, <1>c, <1>1, <1>5, Known, Spans DEF Sends, Receives, Timed, Driving, Sending, TxState, RxState, StartOn
<1>7. \A m \in Node \ {n} : Pair(v, owuart[m], Last(m)) /\ Pair(owuart[m], v, 0)
  <2>1. NextPlace(v, u)
    BY <1>0, <1>5, Spans DEF NextPlace, pos, byte
  <2>2. v.state \in {"TxBit", "TxCompleted"} /\ (v.state = "TxCompleted" => v.tx_pos = 0)
    BY <1>0, <1>a, <1>5
  <2> QED BY <1>1, <1>3, <1>4, <1>5, <2>1, <2>2, Known, NextBitPairs
<1>8. \A m \in Node \ {n} :
        owuart[m].state = "TxArbitrated" /\ Above(u, owuart[m]) => Above(v, owuart[m])
  BY <1>1 DEF Above
<1>9. Len(v.tx_buffer) <= MaxMsg /\ v.tx_byte <= MaxMsg
  BY <1>0, <1>1, <1>5, <1>a, Known, OwUartAssumption
<1> QED BY <1>a, <1>1, <1>2, <1>4, <1>5, <1>6, <1>7, <1>8, <1>9, TickPreserves

(* TxArbitrated: no stop bit is lost at, so rx_bits is short of a frame. *)
LEMMA TxArbitratedStep ==
  ASSUME UartInv, NEW n \in Node, TxArbitrated(n)
  PROVE  UartInv'
<1> DEFINE u == owuart[n]
           frame == Frame(u.tx_buffer[u.tx_byte + 1])
           v == [u EXCEPT !.out = 0, !.rx_buffer = SubSeq(u.tx_buffer, 1, u.tx_byte),
                        !.rx_bits = SubSeq(frame, 1, u.tx_pos), !.tx_byte = 0, !.tx_pos = 0,
                        !.state = "RxBit"]
<1>1. /\ n \notin ticked /\ u.state = "TxArbitrated" /\ ticked' = ticked \cup {n}
      /\ owuart' = [owuart EXCEPT ![n] = v]
  BY DEF TxArbitrated, In
<1>2. HostTypes'
  BY DEF TxArbitrated, Silent, hosts, HostTypes, UartInv, TypeOK
<1>3. u \in OwuartState
  BY <1>1, Known
<1>0. /\ u.tx_buffer \in Seq(Byte) /\ u.tx_byte \in Nat /\ u.tx_byte < Len(u.tx_buffer)
      /\ u.tx_pos \in 0 .. FrameBits /\ u.timer = HalfBit - 2
  <2>1. u.tx_buffer \in Seq(Byte) /\ u.tx_byte \in Nat /\ u.tx_pos \in 0 .. FrameBits
    BY <1>3, Fields
  <2>2. u.tx_byte < Len(u.tx_buffer)
    BY <1>1, Known DEF Sends, Driving, Sending, TxState
  <2>3. u.timer = HalfBit - 1 - 1
    BY <1>1, Known DEF Timed
  <2> QED BY <2>1, <2>2, <2>3, Spans
<1>a. frame \in Seq(Bit) /\ Len(frame) = FrameBits + 1
  <2>1. u.tx_buffer[u.tx_byte + 1] \in Byte
    BY <1>0
  <2> QED BY <2>1, FrameIs
<1>b. SubSeq(frame, 1, u.tx_pos) \in Seq(Bit) /\ Len(SubSeq(frame, 1, u.tx_pos)) = u.tx_pos
  <2> HIDE DEF frame
  <2> QED BY <1>0, <1>a, Spans
<1>c. u.tx_pos < FrameBits
  <2>1. PICK m \in Node \ {n} : Above(owuart[m], u)
    BY <1>1 DEF UartInv, AboveInv
  <2> DEFINE w == owuart[m]
  <2>2. /\ w \in OwuartState /\ w.out = 1 /\ Sends(w) /\ w.state \in Driving
        /\ w.tx_pos = u.tx_pos /\ w.tx_byte = u.tx_byte
    BY <1>1, <2>1, Known DEF Above, SamePlace, Driving, Sending, TxState
  <2>3. w.tx_byte < Len(w.tx_buffer) /\ CurrentBit(w) = 1
    BY <2>2 DEF Sends
  <2>4. w.tx_buffer[w.tx_byte + 1] \in Byte
    <3>1. w.tx_buffer \in Seq(Byte) /\ w.tx_byte \in Nat
      BY <2>2, Fields
    <3> QED BY <2>3, <3>1
  <2>5. w.tx_pos # FrameBits
    BY <2>3, <2>4, FrameIs DEF CurrentBit
  <2> QED BY <1>0, <2>2, <2>5, Spans
<1>d. SubSeq(u.tx_buffer, 1, u.tx_byte) \in Seq(Byte)
  BY <1>0
<1>4. v \in OwuartState
  <2>1. /\ 0 \in Bit /\ 0 \in Nat /\ 0 \in 0 .. FrameBits /\ "RxBit" \in State
    BY Spans, States DEF Bit
  <2> QED BY <1>3, <1>b, <1>d, <2>1 DEF OwuartState
<1>5. /\ v.state = "RxBit" /\ v.out = 0 /\ v.tx_byte = 0 /\ v.rx_bits = SubSeq(frame, 1, u.tx_pos)
      /\ v.timer = u.timer /\ v.tx_buffer = u.tx_buffer
  BY <1>3 DEF OwuartState
<1> HIDE DEF v
<1>6. Sends(v) /\ Receives(v) /\ Timed(v, 0)
  <2>1. Len(v.rx_bits) = u.tx_pos /\ u.tx_pos < FrameBits
    BY <1>5, <1>b, <1>c
  <2> QED BY <1>0, <1>1, <1>5, <2>1, Known, Spans DEF Sends, Receives, Timed, Driving, Sending, TxState, RxState, StartOn
<1>7. \A m \in Node \ {n} : Pair(v, owuart[m], Last(m)) /\ Pair(owuart[m], v, 0)
  BY <1>5, NothingToWaitFor DEF Sending, TxState
<1>8. \A m \in Node \ {n} :
        owuart[m].state = "TxArbitrated" /\ Above(u, owuart[m]) => Above(v, owuart[m])
  BY <1>1 DEF Above
<1>9. Len(v.tx_buffer) <= MaxMsg /\ v.tx_byte <= MaxMsg
  BY <1>1, <1>5, Known, OwUartAssumption
<1> QED BY <1>1, <1>2, <1>4, <1>5, <1>6, <1>7, <1>8, <1>9, TickPreserves

(* TxCompleted: the line is released. *)
LEMMA TxCompletedStep ==
  ASSUME UartInv, NEW n \in Node, TxCompleted(n)
  PROVE  UartInv'
<1> DEFINE u == owuart[n]
           v == [u EXCEPT !.out = 0, !.tx_buffer = <<>>, !.state = "StartHoldOff"]
<1>1. /\ n \notin ticked /\ u.state = "TxCompleted" /\ ticked' = ticked \cup {n}
      /\ owuart' = [owuart EXCEPT ![n] = v]
  BY DEF TxCompleted, In
<1>2. HostTypes'
  BY DEF TxCompleted, hosts, HostTypes, UartInv, TypeOK
<1>3. u \in OwuartState
  BY <1>1, Known
<1>4. v \in OwuartState
  <2>1. 0 \in Bit /\ <<>> \in Seq(Byte) /\ "StartHoldOff" \in State
    BY States DEF Bit
  <2> QED BY <1>3, <2>1 DEF OwuartState
<1>5. /\ v.state = "StartHoldOff" /\ v.out = 0 /\ v.tx_buffer = <<>>
      /\ v.timer = u.timer /\ v.tx_byte = u.tx_byte /\ v.rx_bits = u.rx_bits
  BY <1>3 DEF OwuartState
<1> HIDE DEF v
<1>6. Sends(v) /\ Receives(v) /\ Timed(v, 0)
  BY <1>1, <1>5, Known DEF Sends, Receives, Timed, Driving, Sending, TxState, RxState, StartOn
<1>7. \A m \in Node \ {n} : Pair(v, owuart[m], Last(m)) /\ Pair(owuart[m], v, 0)
  BY <1>5, NothingToWaitFor DEF Sending, TxState
<1>8. \A m \in Node \ {n} :
        owuart[m].state = "TxArbitrated" /\ Above(u, owuart[m]) => Above(v, owuart[m])
  BY <1>1 DEF Above
<1>9. Len(v.tx_buffer) <= MaxMsg /\ v.tx_byte <= MaxMsg
  BY <1>1, <1>5, Known, OwUartAssumption
<1> QED BY <1>1, <1>2, <1>4, <1>5, <1>6, <1>7, <1>8, <1>9, TickPreserves

(* RxStartBit: the first sample is taken half a bit after the edge. *)
LEMMA RxStartBitStep ==
  ASSUME UartInv, NEW n \in Node, RxStartBit(n)
  PROVE  UartInv'
<1> DEFINE u == owuart[n]
           v == [u EXCEPT !.timer = HalfBit, !.state = "RxWaitForNextBit"]
<1>1. /\ n \notin ticked /\ u.state = "RxStartBit" /\ ticked' = ticked \cup {n}
      /\ owuart' = [owuart EXCEPT ![n] = v]
  BY DEF RxStartBit, In
<1>2. HostTypes'
  BY DEF RxStartBit, Silent, hosts, HostTypes, UartInv, TypeOK
<1>3. u \in OwuartState
  BY <1>1, Known
<1>4. v \in OwuartState
  <2>1. HalfBit \in -MaxLate .. FrameBits * FullBit /\ "RxWaitForNextBit" \in State
    BY Timers, Spans, States
  <2> QED BY <1>3, <2>1 DEF OwuartState
<1>5. /\ v.state = "RxWaitForNextBit" /\ v.timer = HalfBit
      /\ v.out = u.out /\ v.tx_buffer = u.tx_buffer /\ v.tx_byte = u.tx_byte /\ v.rx_bits = u.rx_bits
  BY <1>3 DEF OwuartState
<1> HIDE DEF v
<1>6. Sends(v) /\ Receives(v) /\ Timed(v, 0)
  <2>1. Len(u.rx_bits) = 0
    BY <1>1, Known DEF Receives
  <2> QED BY <1>1, <1>5, <2>1, Known, Spans DEF Sends, Receives, Timed, Driving, Sending, TxState, RxState, StartOn
<1>7. \A m \in Node \ {n} : Pair(v, owuart[m], Last(m)) /\ Pair(owuart[m], v, 0)
  BY <1>5, NothingToWaitFor DEF Sending, TxState
<1>8. \A m \in Node \ {n} :
        owuart[m].state = "TxArbitrated" /\ Above(u, owuart[m]) => Above(v, owuart[m])
  BY <1>1 DEF Above
<1>9. Len(v.tx_buffer) <= MaxMsg /\ v.tx_byte <= MaxMsg
  BY <1>1, <1>5, Known
<1> QED BY <1>1, <1>2, <1>4, <1>5, <1>6, <1>7, <1>8, <1>9, TickPreserves

(* RxWaitForNextBit: nothing but the state changes. *)
LEMMA RxWaitForNextBitStep ==
  ASSUME UartInv, NEW n \in Node, RxWaitForNextBit(n)
  PROVE  UartInv'
<1> DEFINE u == owuart[n]
           v == [u EXCEPT !.state = IF u.timer <= 0 THEN "RxBit" ELSE @]
<1>1. /\ n \notin ticked /\ u.state = "RxWaitForNextBit" /\ ticked' = ticked \cup {n}
      /\ owuart' = [owuart EXCEPT ![n] = v]
  BY DEF RxWaitForNextBit, time_ge, In
<1>2. HostTypes'
  BY DEF RxWaitForNextBit, Silent, hosts, HostTypes, UartInv, TypeOK
<1>3. u \in OwuartState
  BY <1>1, Known
<1>4. v \in OwuartState
  <2>1. (IF u.timer <= 0 THEN "RxBit" ELSE u.state) \in State
    BY <1>1, States
  <2> QED BY <1>3, <2>1 DEF OwuartState
<1>5. /\ v.state = IF u.timer <= 0 THEN "RxBit" ELSE u.state
      /\ v.timer = u.timer /\ v.out = u.out /\ v.tx_buffer = u.tx_buffer /\ v.tx_byte = u.tx_byte /\ v.rx_bits = u.rx_bits
  BY <1>3 DEF OwuartState
<1> HIDE DEF v
<1>6. Sends(v) /\ Receives(v) /\ Timed(v, 0)
  BY <1>1, <1>5, <1>3, Known, Fields, Spans DEF Sends, Receives, Timed, Driving, Sending, TxState, RxState, StartOn
<1>7. \A m \in Node \ {n} : Pair(v, owuart[m], Last(m)) /\ Pair(owuart[m], v, 0)
  BY <1>1, <1>5, NothingToWaitFor DEF Sending, TxState
<1>8. \A m \in Node \ {n} :
        owuart[m].state = "TxArbitrated" /\ Above(u, owuart[m]) => Above(v, owuart[m])
  BY <1>1 DEF Above
<1>9. Len(v.tx_buffer) <= MaxMsg /\ v.tx_byte <= MaxMsg
  BY <1>1, <1>5, Known
<1> QED BY <1>1, <1>2, <1>4, <1>5, <1>6, <1>7, <1>8, <1>9, TickPreserves

(* RxBit: a bit is added to what is short of a frame. *)
LEMMA RxBitStep ==
  ASSUME UartInv, NEW n \in Node, RxBit(n)
  PROVE  UartInv'
<1> DEFINE u == owuart[n]
           bits == Append(u.rx_bits, Read)
           full == Len(bits) >= FrameBits
           v == [u EXCEPT !.rx_bits = bits, !.state = IF full THEN "RxByte" ELSE "RxWaitForNextBit",
                        !.timer = IF full THEN @ ELSE @ + FullBit]
<1>1. /\ n \notin ticked /\ u.state = "RxBit" /\ ticked' = ticked \cup {n}
      /\ owuart' = [owuart EXCEPT ![n] = v]
  BY DEF RxBit, In
<1>2. HostTypes'
  BY DEF RxBit, Silent, hosts, HostTypes, UartInv, TypeOK
<1>3. u \in OwuartState
  BY <1>1, Known
<1>0. /\ u.timer \in Int /\ u.timer >= -3 /\ u.timer <= HalfBit
      /\ u.rx_bits \in Seq(Bit) /\ Len(u.rx_bits) < FrameBits
  BY <1>1, <1>3, Known, Fields DEF Timed, Receives
<1>a. bits \in Seq(Bit) /\ Len(bits) = Len(u.rx_bits) + 1
  <2>1. Read \in Bit
    BY ReadOf DEF Bit
  <2> QED BY <1>0, <2>1
<1> HIDE DEF bits
<1>4. v \in OwuartState
  <2>1. u.timer + FullBit \in -MaxLate .. FrameBits * FullBit /\ {"RxByte", "RxWaitForNextBit"} \subseteq State
    BY <1>0, Timers, Spans, States
  <2> QED BY <1>3, <1>a, <2>1 DEF OwuartState
<1>5. /\ v.state = IF full THEN "RxByte" ELSE "RxWaitForNextBit"
      /\ v.timer = IF full THEN u.timer ELSE u.timer + FullBit
      /\ v.rx_bits = bits
      /\ v.out = u.out /\ v.tx_buffer = u.tx_buffer /\ v.tx_byte = u.tx_byte
  BY <1>3 DEF OwuartState
<1> HIDE DEF v
<1>6. Sends(v) /\ Receives(v) /\ Timed(v, 0)
  BY <1>0, <1>a, <1>1, <1>5, Known, Spans DEF Sends, Receives, Timed, Driving, Sending, TxState, RxState, StartOn
<1>7. \A m \in Node \ {n} : Pair(v, owuart[m], Last(m)) /\ Pair(owuart[m], v, 0)
  BY <1>5, NothingToWaitFor DEF Sending, TxState
<1>8. \A m \in Node \ {n} :
        owuart[m].state = "TxArbitrated" /\ Above(u, owuart[m]) => Above(v, owuart[m])
  BY <1>1 DEF Above
<1>9. Len(v.tx_buffer) <= MaxMsg /\ v.tx_byte <= MaxMsg
  BY <1>1, <1>5, Known
<1> QED BY <1>1, <1>2, <1>4, <1>5, <1>6, <1>7, <1>8, <1>9, TickPreserves

(* RxByte: the data bits of a frame are a byte. *)
LEMMA RxByteStep ==
  ASSUME UartInv, NEW n \in Node, RxByte(n)
  PROVE  UartInv'
<1> DEFINE u == owuart[n]
           f == SubSeq(u.rx_bits, Len(u.rx_bits) - FrameBits + 1, Len(u.rx_bits))
           v == [u EXCEPT !.rx_buffer = IF Framed(f) THEN Append(@, Data(f)) ELSE @,
                        !.rx_bits = <<>>, !.state = "StartHoldOff"]
<1>1. /\ n \notin ticked /\ u.state = "RxByte" /\ ticked' = ticked \cup {n}
      /\ owuart' = [owuart EXCEPT ![n] = v]
  BY DEF RxByte, In
<1>2. HostTypes'
  BY DEF RxByte, Silent, hosts, HostTypes, UartInv, TypeOK
<1>3. u \in OwuartState
  BY <1>1, Known
<1>0. u.rx_bits \in Seq(Bit) /\ Len(u.rx_bits) = FrameBits
  BY <1>1, <1>3, Known, Fields DEF Receives
<1>a. Data(f) \in Byte
  <2>1. f \in Seq(Bit) /\ Len(f) = FrameBits
    BY <1>0, Spans
  <2> HIDE DEF f
  <2>2. SubSeq(f, 2, DataBits + 1) \in Seq(Bit) /\ Len(SubSeq(f, 2, DataBits + 1)) = DataBits
    BY <2>1, Spans
  <2>3. SubSeq(f, 2, DataBits + 1) \in [1 .. DataBits -> Bit]
    BY <2>2, LenProperties
  <2> QED BY <2>3 DEF Data, Byte
<1> HIDE DEF f
<1>4. v \in OwuartState
  <2>1. /\ (IF Framed(f) THEN Append(u.rx_buffer, Data(f)) ELSE u.rx_buffer) \in Seq(Byte)
        /\ <<>> \in Seq(Bit) /\ "StartHoldOff" \in State
    BY <1>a, <1>3, Fields, States
  <2> QED BY <1>3, <2>1 DEF OwuartState
<1>5. /\ v.state = "StartHoldOff" /\ v.rx_bits = <<>>
      /\ v.timer = u.timer /\ v.out = u.out /\ v.tx_buffer = u.tx_buffer /\ v.tx_byte = u.tx_byte
  BY <1>3 DEF OwuartState
<1> HIDE DEF v
<1>6. Sends(v) /\ Receives(v) /\ Timed(v, 0)
  BY <1>1, <1>5, Known DEF Sends, Receives, Timed, Driving, Sending, TxState, RxState, StartOn
<1>7. \A m \in Node \ {n} : Pair(v, owuart[m], Last(m)) /\ Pair(owuart[m], v, 0)
  BY <1>5, NothingToWaitFor DEF Sending, TxState
<1>8. \A m \in Node \ {n} :
        owuart[m].state = "TxArbitrated" /\ Above(u, owuart[m]) => Above(v, owuart[m])
  BY <1>1 DEF Above
<1>9. Len(v.tx_buffer) <= MaxMsg /\ v.tx_byte <= MaxMsg
  BY <1>1, <1>5, Known
<1> QED BY <1>1, <1>2, <1>4, <1>5, <1>6, <1>7, <1>8, <1>9, TickPreserves

(* IdleReceives: what is taken from the inbox fits in tx_buffer. *)
LEMMA IdleReceivesStep ==
  ASSUME UartInv, NEW n \in Node, IdleReceives(n)
  PROVE  UartInv'
<1> DEFINE u == owuart[n]
           msg == Head(inbox[n])
           v == IF inbox[n] = <<>> \/ msg = Aux \/ Len(msg) > MaxMsg
                THEN u ELSE [u EXCEPT !.tx_buffer = msg]
<1>1. n \notin ticked /\ u.state = "Idle" /\ ticked' = ticked \cup {n}
  BY DEF IdleReceives, In
<1>3. u \in OwuartState /\ owuart \in [Node -> OwuartState]
  BY <1>1, Known DEF UartInv, TypeOK
<1>0. /\ inbox \in [Node -> Seq({Aux} \cup Seq(Byte))] /\ inbox[n] \in Seq({Aux} \cup Seq(Byte))
      /\ inbox[n] # <<>> => msg \in {Aux} \cup Seq(Byte) /\ Tail(inbox[n]) \in Seq({Aux} \cup Seq(Byte))
  BY DEF UartInv, TypeOK
<1>2. HostTypes'
  <2>1. inbox' = inbox \/ (inbox[n] # <<>> /\ inbox' = [inbox EXCEPT ![n] = Tail(inbox[n])])
    BY DEF IdleReceives
  <2>2. inbox' \in [Node -> Seq({Aux} \cup Seq(Byte))]
    BY <1>0, <2>1
  <2>3. written' \in [Node -> 0 .. MaxWrites]
    BY DEF IdleReceives, UartInv, TypeOK
  <2> QED BY <2>2, <2>3 DEF HostTypes
<1>a. owuart' = [owuart EXCEPT ![n] = v]
  <2>1. CASE inbox[n] = <<>> \/ msg = Aux \/ Len(msg) > MaxMsg
    <3>1. owuart' = owuart /\ v = u
      BY <2>1 DEF IdleReceives
    <3> QED BY <1>3, <3>1
  <2>2. CASE ~(inbox[n] = <<>> \/ msg = Aux \/ Len(msg) > MaxMsg)
    BY <2>2 DEF IdleReceives
  <2> QED BY <2>1, <2>2
<1>b. /\ v \in OwuartState /\ v.state = "Idle"
      /\ v.timer = u.timer /\ v.out = u.out /\ v.tx_byte = u.tx_byte /\ v.rx_bits = u.rx_bits
      /\ Len(v.tx_buffer) <= MaxMsg
  <2>1. CASE inbox[n] = <<>> \/ msg = Aux \/ Len(msg) > MaxMsg
    BY <1>1, <1>3, <2>1, Known
  <2>2. CASE ~(inbox[n] = <<>> \/ msg = Aux \/ Len(msg) > MaxMsg)
    <3>1. msg \in Seq(Byte) /\ Len(msg) \in Nat /\ ~(Len(msg) > MaxMsg) /\ MaxMsg \in Nat
      BY <1>0, <2>2, OwUartAssumption
    <3>2. Len(msg) <= MaxMsg /\ v = [u EXCEPT !.tx_buffer = msg]
      BY <2>2, <3>1
    <3> HIDE DEF msg, v
    <3> QED BY <1>1, <1>3, <3>1, <3>2 DEF OwuartState
  <2> QED BY <2>1, <2>2
<1> HIDE DEF v, msg
<1>6. Sends(v) /\ Receives(v) /\ Timed(v, 0)
  BY <1>1, <1>b, Known DEF Sends, Receives, Timed, Driving, Sending, TxState, RxState, StartOn
<1>7. \A m \in Node \ {n} : Pair(v, owuart[m], Last(m)) /\ Pair(owuart[m], v, 0)
  <2>1. \A m \in Node : owuart[m].out = 0
    BY ReadOf DEF UartInv, IdleReceives
  <2> QED BY <1>1, <1>b, <2>1, Known, IdlePairs
<1>8. \A m \in Node \ {n} :
        owuart[m].state = "TxArbitrated" /\ Above(u, owuart[m]) => Above(v, owuart[m])
  BY <1>1 DEF Above
<1>9. v.tx_byte <= MaxMsg
  BY <1>1, <1>b, Known
<1> QED BY <1>1, <1>2, <1>a, <1>b, <1>6, <1>7, <1>8, <1>9, TickPreserves
-----------------------------------------------------------------------------
(* Between rounds *)

(* The host of a node writes: no node is touched. *)
LEMMA HostWritesStep ==
  ASSUME UartInv, NEW n \in Node, HostWrites(n)
  PROVE  UartInv'
<1>1. UNCHANGED <<owuart, ticked>>
  BY DEF HostWrites
<1>2. HostTypes'
  <2>1. /\ inbox \in [Node -> Seq({Aux} \cup Seq(Byte))] /\ written \in [Node -> 0 .. MaxWrites]
        /\ written[n] < MaxWrites /\ written' = [written EXCEPT ![n] = @ + 1]
    BY DEF UartInv, TypeOK, HostWrites
  <2>2. PICK msg \in Writes[n] : inbox' = [inbox EXCEPT ![n] = Append(@, msg)]
    BY DEF HostWrites
  <2>3. msg \in {Aux} \cup Seq(Byte)
    BY <2>2, OwUartAssumption
  <2>4. Append(inbox[n], msg) \in Seq({Aux} \cup Seq(Byte))
    <3>1. inbox[n] \in Seq({Aux} \cup Seq(Byte))
      BY <2>1
    <3> QED BY <2>3, <3>1
  <2>5. inbox' \in [Node -> Seq({Aux} \cup Seq(Byte))]
    BY <2>1, <2>2, <2>4
  <2>6. written[n] + 1 \in 0 .. MaxWrites
    BY <2>1, OwUartAssumption
  <2>7. written' \in [Node -> 0 .. MaxWrites]
    BY <2>1, <2>6
  <2> QED BY <2>5, <2>7 DEF HostTypes
<1>3. TypeOK'
  BY <1>1, <1>2 DEF UartInv, TypeOK, HostTypes
<1>4. \A m \in Node : Last(m)' = Last(m)
  BY <1>1 DEF Last
<1>5. LocalInv' /\ PairInv' /\ AboveInv'
  BY <1>1, <1>4 DEF UartInv, LocalInv, PairInv, AboveInv
<1> QED BY <1>3, <1>5 DEF UartInv

(* A node that is started holds off first, so it has nothing to wait for yet. *)
LEMMA PowerOnStep ==
  ASSUME UartInv, NEW n \in Node, PowerOn(n)
  PROVE  UartInv'
<1> DEFINE u == owuart[n]
           v == [u EXCEPT !.state = "StartHoldOff"]
<1>1. /\ ticked = {} /\ u.state = "Off" /\ owuart' = [owuart EXCEPT ![n] = v]
      /\ UNCHANGED <<hosts, ticked>>
  BY DEF PowerOn, Silent
<1>2. n \notin ticked
  BY <1>1
<1>3. u \in OwuartState /\ owuart \in [Node -> OwuartState]
  BY <1>2, Known DEF UartInv, TypeOK
<1>4. v \in OwuartState
  BY <1>3, States DEF OwuartState
<1>5. /\ v.state = "StartHoldOff" /\ v.timer = u.timer /\ v.out = u.out /\ v.tx_buffer = u.tx_buffer
      /\ v.tx_byte = u.tx_byte /\ v.rx_bits = u.rx_bits
  BY <1>3 DEF OwuartState
<1> HIDE DEF v
<1>6. Sends(v) /\ Receives(v) /\ Timed(v, 1)
  BY <1>1, <1>2, <1>5, Known DEF Sends, Receives, Timed, Driving, Sending, TxState, RxState, StartOn
<1>7. owuart'[n] = v /\ \A m \in Node \ {n} : owuart'[m] = owuart[m]
  BY <1>1, <1>3
<1>8. \A m \in Node : Last(m)' = Last(m) /\ Last(m) = 1
  BY <1>1 DEF Last
<1>9. TypeOK'
  <2>1. owuart' \in [Node -> OwuartState]
    BY <1>1, <1>3, <1>4
  <2>2. ASSUME NEW m \in Node
        PROVE  /\ Len(owuart'[m].tx_buffer) <= MaxMsg /\ owuart'[m].tx_byte <= MaxMsg
               /\ Len(owuart'[m].rx_bits) <= FrameBits
    BY <1>5, <1>7 DEF UartInv, TypeOK
  <2> QED BY <1>1, <2>1, <2>2 DEF TypeOK, UartInv, hosts
<1>10. LocalInv'
  <2>1. ASSUME NEW m \in Node
        PROVE  Sends(owuart'[m]) /\ Receives(owuart'[m]) /\ Timed(owuart'[m], Last(m)')
    BY <1>6, <1>7, <1>8 DEF UartInv, LocalInv
  <2> QED BY <2>1 DEF LocalInv
<1>11. PairInv'
  <2>1. ASSUME NEW k \in Node, NEW m \in Node \ {k}
        PROVE  Pair(owuart'[k], owuart'[m], Last(m)')
    <3>1. CASE k = n \/ m = n
      BY <1>5, <1>7, <3>1 DEF Pair, Waits, Sending, TxState
    <3>2. CASE k # n /\ m # n
      BY <1>7, <1>8, <3>2 DEF UartInv, PairInv
    <3> QED BY <3>1, <3>2
  <2> QED BY <2>1 DEF PairInv
<1>12. AboveInv'
  <2>1. ASSUME NEW k \in Node, owuart'[k].state = "TxArbitrated"
        PROVE  \E m \in Node \ {k} : Above(owuart'[m], owuart'[k])
    <3>1. k # n
      BY <1>5, <1>7, <2>1
    <3>2. PICK m \in Node \ {k} : Above(owuart[m], owuart[k])
      BY <1>7, <2>1, <3>1 DEF UartInv, AboveInv
    <3>3. m # n
      BY <1>1, <3>2 DEF Above
    <3> QED BY <1>7, <3>1, <3>2, <3>3
  <2> QED BY <2>1 DEF AboveInv
<1> QED BY <1>9, <1>10, <1>11, <1>12 DEF UartInv

(* The clocks advance: a timer in use has not come to its bound -MaxLate,  *)
(* so all of them change together, ...                                     *)
LEMMA LaterTimer ==
  ASSUME NEW u \in OwuartState
  PROVE  /\ [u EXCEPT !.timer = Later(@)] \in OwuartState
         /\ Timed(u, 0) /\ u.state \in TxState \cup {"HoldOff"} =>
              u.state = "TxStart" \/ Later(u.timer) = u.timer - 1
         /\ Later(u.timer) \in Int /\ Later(u.timer) <= u.timer
<1>1. u.timer \in Int /\ u.timer >= -3 /\ u.timer <= HoldOffTime
  BY Fields
<1>2. /\ Later(u.timer) \in Int /\ Later(u.timer) >= -3 /\ Later(u.timer) <= u.timer
      /\ u.timer >= -2 => Later(u.timer) = u.timer - 1
  BY <1>1 DEF Later, MaxLate
<1>3. [u EXCEPT !.timer = Later(@)] \in OwuartState
  <2> DEFINE t == Later(u.timer)
  <2>1. t \in -MaxLate .. FrameBits * FullBit
    <3>1. t \in Int /\ t >= -3 /\ t <= HoldOffTime
      BY <1>1, <1>2, Spans
    <3> HIDE DEF t
    <3> QED BY <3>1, Timers
  <2> QED BY <2>1 DEF OwuartState
<1>4. Timed(u, 0) /\ u.state \in TxState \cup {"HoldOff"} => u.state = "TxStart" \/ u.timer >= -2
  BY <1>1, Spans DEF Timed, TxState
<1> QED BY <1>2, <1>3, <1>4

(* ... so that the relation of two nodes is the same after the round. *)
LEMMA RoundPairs ==
  ASSUME NEW u \in OwuartState, NEW w \in OwuartState, NEW v \in OwuartState, NEW x \in OwuartState,
         v = [u EXCEPT !.timer = Later(@)], x = [w EXCEPT !.timer = Later(@)],
         u.state # "Off" => Timed(u, 0),
         w.state # "Off" => Timed(w, 0) /\ Pair(u, w, 0)
  PROVE  Pair(v, x, 1)
<1>1. /\ v.state = u.state /\ v.out = u.out /\ v.tx_buffer = u.tx_buffer /\ v.timer = Later(u.timer)
      /\ v.tx_byte = u.tx_byte /\ v.tx_pos = u.tx_pos
      /\ x.state = w.state /\ x.out = w.out /\ x.tx_buffer = w.tx_buffer /\ x.timer = Later(w.timer)
      /\ x.tx_byte = w.tx_byte /\ x.tx_pos = w.tx_pos
  BY DEF OwuartState
<1>2. SUFFICES ASSUME u.state \in Sending, w.state # "Off"
               PROVE  Pair(v, x, 1)
  BY <1>1 DEF Pair, Waits, Sending, TxState
<1>3. /\ u.timer \in Int /\ w.timer \in Int /\ v.timer = u.timer - 1
      /\ w.state \in Sending \cup {"HoldOff"} => x.timer = w.timer - 1
  BY <1>1, <1>2, LaterTimer, Fields DEF Sending, TxState
<1>4. /\ Phase(v) = Phase(u) + 1 /\ Phase(u) \in Int
      /\ w.state \in Sending => Phase(x) = Phase(w) + 1 /\ Phase(w) \in Int
  BY <1>1, <1>2, <1>3, Spans DEF Phase
<1>5. Remaining(v) = Remaining(u) - 1 /\ Remaining(u) \in Int
  <2>1. Left(u.tx_pos) \in Nat
    BY Fields, LeftFacts
  <2> QED BY <1>1, <1>4, <2>1 DEF Remaining
<1>6. /\ StartOn(v) <=> StartOn(u)
      /\ \A k \in Int : Fresh(u, k) => Fresh(v, k + 1)
  BY <1>1, <1>4 DEF StartOn, Fresh
<1>7. Waits(v, x, 1)
  <2>1. Waits(u, w, 0)
    BY <1>2 DEF Pair
  <2>2. /\ Fresh(u, 2) => Fresh(v, 3)
        /\ Fresh(u, 3) => Fresh(v, 4)
        /\ Fresh(u, 0) => Fresh(v, 1)
    BY <1>6
  <2> QED BY <1>1, <1>3, <1>5, <1>6, <2>1, <2>2, Spans DEF Waits
<1>8. ASSUME w.state \in Sending PROVE InStep(v, x) /\ AgreeTo(v, x) /\ Held(v, x)
  <2>1. InStep(u, w) /\ AgreeTo(u, w) /\ Held(u, w)
    BY <1>2, <1>8 DEF Pair
  <2>2. InStep(v, x)
    BY <1>1, <1>4, <1>8, <2>1, Spans DEF InStep, SamePlace, NextPlace
  <2>3. AgreeTo(v, x) /\ Held(v, x)
    BY <1>1, <2>1 DEF AgreeTo, Held, SamePlace
  <2> QED BY <2>2, <2>3
<1> QED BY <1>1, <1>7, <1>8 DEF Pair

(* RoundEnds: every node that is on has run, and a new round begins. *)
LEMMA RoundEndsStep ==
  ASSUME UartInv, RoundEnds
  PROVE  UartInv'
<1>1. /\ owuart \in [Node -> OwuartState]
      /\ owuart' = [n \in Node |-> [owuart[n] EXCEPT !.timer = Later(@)]]
      /\ ticked' = {} /\ UNCHANGED hosts
  BY DEF RoundEnds, Silent, UartInv, TypeOK
<1>2. \A n \in Node : owuart'[n] = [owuart[n] EXCEPT !.timer = Later(@)] /\ owuart'[n] \in OwuartState
  BY <1>1, LaterTimer
<1>3. \A n \in Node : /\ owuart'[n].state = owuart[n].state /\ owuart'[n].out = owuart[n].out
                      /\ owuart'[n].tx_sent = owuart[n].tx_sent
                      /\ owuart'[n].tx_buffer = owuart[n].tx_buffer
                      /\ owuart'[n].tx_byte = owuart[n].tx_byte /\ owuart'[n].tx_pos = owuart[n].tx_pos
                      /\ owuart'[n].rx_bits = owuart[n].rx_bits
                      /\ owuart'[n].timer = Later(owuart[n].timer)
  BY <1>1, <1>2 DEF OwuartState
<1>4. \A n \in Node : Last(n)' = 1 /\ (owuart[n].state # "Off" => Last(n) = 0)
  BY <1>1 DEF RoundEnds, Last
<1>5. TypeOK'
  <2>1. owuart' \in [Node -> OwuartState]
    BY <1>1, <1>2
  <2>2. \A n \in Node : /\ Len(owuart'[n].tx_buffer) <= MaxMsg /\ owuart'[n].tx_byte <= MaxMsg
                        /\ Len(owuart'[n].rx_bits) <= FrameBits
    BY <1>3 DEF UartInv, TypeOK
  <2> QED BY <1>1, <2>1, <2>2 DEF UartInv, TypeOK, hosts
<1>6. LocalInv'
  <2>1. ASSUME NEW n \in Node
        PROVE  Sends(owuart'[n]) /\ Receives(owuart'[n]) /\ Timed(owuart'[n], 1)
    <3>1. Sends(owuart[n]) /\ Receives(owuart[n]) /\ Timed(owuart[n], Last(n))
      BY DEF UartInv, LocalInv
    <3>2. Sends(owuart'[n])
      <4>1. CurrentBit(owuart'[n]) = CurrentBit(owuart[n]) /\ (StartOn(owuart'[n]) <=> StartOn(owuart[n]))
        BY <1>3 DEF CurrentBit, StartOn
      <4> QED BY <1>3, <3>1, <4>1 DEF Sends
    <3>3. Receives(owuart'[n])
      BY <1>3, <3>1 DEF Receives
    <3>4. Timed(owuart'[n], 1)
      <4>1. CASE owuart[n].state = "Off"
        BY <1>3, <4>1 DEF Timed
      <4>2. CASE owuart[n].state # "Off"
        <5>1. Timed(owuart[n], 0)
          BY <1>4, <3>1, <4>2
        <5>2. /\ owuart[n].timer \in Int /\ Later(owuart[n].timer) \in Int
              /\ Later(owuart[n].timer) <= owuart[n].timer
              /\ owuart[n].state \in TxState \cup {"HoldOff"} =>
                   owuart[n].state = "TxStart" \/ Later(owuart[n].timer) = owuart[n].timer - 1
          BY <1>1, <5>1, LaterTimer, Fields
        <5> QED BY <1>3, <5>1, <5>2, Spans DEF Timed, TxState
      <4> QED BY <4>1, <4>2
    <3> QED BY <3>2, <3>3, <3>4
  <2> QED BY <1>4, <2>1 DEF LocalInv
<1>7. PairInv'
  <2>1. ASSUME NEW n \in Node, NEW m \in Node \ {n}
        PROVE  Pair(owuart'[n], owuart'[m], 1)
    <3>1. owuart[n].state # "Off" => Timed(owuart[n], 0)
      BY <1>4 DEF UartInv, LocalInv
    <3>2. owuart[m].state # "Off" => Timed(owuart[m], 0) /\ Pair(owuart[n], owuart[m], 0)
      BY <1>4 DEF UartInv, LocalInv, PairInv
    <3>3. /\ owuart[n] \in OwuartState /\ owuart[m] \in OwuartState
          /\ owuart'[n] \in OwuartState /\ owuart'[m] \in OwuartState
          /\ owuart'[n] = [owuart[n] EXCEPT !.timer = Later(@)]
          /\ owuart'[m] = [owuart[m] EXCEPT !.timer = Later(@)]
      BY <1>1, <1>2
    <3> QED BY <3>1, <3>2, <3>3, RoundPairs
  <2> QED BY <1>4, <2>1 DEF PairInv
<1>8. AboveInv'
  <2>1. \A n, m \in Node : Above(owuart[m], owuart[n]) => Above(owuart'[m], owuart'[n])
    BY <1>3 DEF Above, SamePlace
  <2> QED BY <1>3, <2>1 DEF UartInv, AboveInv
<1> QED BY <1>5, <1>6, <1>7, <1>8 DEF UartInv
-----------------------------------------------------------------------------
(* The invariant, and what follows from it *)

(* The invariant holds at first, ... *)
LEMMA UartInit == Init => UartInv
<1> SUFFICES ASSUME Init PROVE UartInv
  OBVIOUS
<1>1. \A n \in Node : \E s \in {"Off", "StartHoldOff"} :
        owuart[n] = [state |-> s, timer |-> 0, out |-> 0, tx_buffer |-> <<>>,
                     tx_byte |-> 0, tx_pos |-> 0, tx_sent |-> 0, rx_bits |-> <<>>, rx_buffer |-> <<>>]
  BY DEF Init
<1>2. \A n \in Node : /\ owuart[n].state \in {"Off", "StartHoldOff"} /\ owuart[n].out = 0
                      /\ owuart[n].tx_byte = 0 /\ owuart[n].tx_buffer = <<>> /\ owuart[n].rx_bits = <<>>
  BY <1>1
<1>3. TypeOK
  <2>1. \A s \in {"Off", "StartHoldOff"} :
          [state |-> s, timer |-> 0, out |-> 0, tx_buffer |-> <<>>, tx_byte |-> 0, tx_pos |-> 0,
           tx_sent |-> 0, rx_bits |-> <<>>, rx_buffer |-> <<>>] \in OwuartState
    <3>1. /\ {"Off", "StartHoldOff"} \subseteq State /\ 0 \in -MaxLate .. FrameBits * FullBit
          /\ 0 \in Bit /\ 0 \in Nat /\ 0 \in 0 .. FrameBits
          /\ <<>> \in Seq(Byte) /\ <<>> \in Seq(Bit)
      BY Timers, Spans DEF State, Bit
    <3> QED BY <3>1 DEF OwuartState
  <2>2. owuart \in [Node -> OwuartState]
    <3>1. \A n \in Node : owuart[n] \in OwuartState
      BY <1>1, <2>1
    <3> QED BY <3>1 DEF Init
  <2>3. \A n \in Node : /\ Len(owuart[n].tx_buffer) <= MaxMsg /\ owuart[n].tx_byte <= MaxMsg
                        /\ Len(owuart[n].rx_bits) <= FrameBits
    BY <1>2, OwUartAssumption, Spans
  <2>4. /\ inbox \in [Node -> Seq({Aux} \cup Seq(Byte))] /\ written \in [Node -> 0 .. MaxWrites]
        /\ ticked \subseteq Node
    BY OwUartAssumption DEF Init
  <2> QED BY <2>2, <2>3, <2>4 DEF TypeOK
<1>4. LocalInv
  BY <1>2 DEF LocalInv, Sends, Receives, Timed, Driving, Sending, TxState, RxState, StartOn
<1>5. PairInv /\ AboveInv
  BY <1>2 DEF PairInv, AboveInv, Pair, Sending, TxState
<1> QED BY <1>3, <1>4, <1>5 DEF UartInv

(* ... every step preserves it, ... *)
LEMMA UartInvStep == UartInv /\ [Next]_vars => UartInv'
<1> SUFFICES ASSUME UartInv, [Next]_vars PROVE UartInv'
  OBVIOUS
<1>1. ASSUME NEW n \in Node, process_tick(n) PROVE UartInv'
  BY <1>1, StartHoldOffStep, HoldOffStep, EndOfMessageStep, IdleHearsStep, IdleSendsStep,
     IdleReceivesStep, TxStartStep, TxBitStep, TxWaitForHalfBitStep, TxMonitorBitStep,
     TxWaitForFullBitStep, TxNextBitStep, TxArbitratedStep, TxCompletedStep, RxStartBitStep,
     RxWaitForNextBitStep, RxBitStep, RxByteStep DEF process_tick
<1>2. CASE UNCHANGED vars
  <2>1. UNCHANGED <<owuart, ticked, inbox, written>>
    BY <1>2 DEF vars, hosts
  <2> QED BY <2>1 DEF UartInv, TypeOK, LocalInv, PairInv, AboveInv, Last
<1> QED BY <1>1, <1>2, RoundEndsStep, HostWritesStep, PowerOnStep DEF Next, Runs

(* ... and so it always holds. *)
LEMMA UartInvariant == Spec => []UartInv
BY UartInit, UartInvStep, PTL DEF Spec

(* Types: a message fits in tx_buffer, the byte number never passes        *)
(* MAX_MSG_SIZE, rx_bits never holds more than a frame although            *)
(* TxArbitrated fills it from a count of the sender, and a timer in use is *)
(* never looked at more than MaxLate rounds late.                          *)
THEOREM UartTypes == Spec => []TypeOK
<1>1. UartInv => TypeOK
  BY DEF UartInv
<1> QED BY <1>1, UartInvariant, PTL

(* The hold-off keeps messages apart: a node that starts (TxStart) finds   *)
(* every other sender at its first start bit, however many nodes there are *)
(* and whenever they were started.                                         *)
THEOREM BreakInTheorem == Spec => []NoBreakIn
<1>1. UartInv => NoBreakIn
  <2>1. SUFFICES ASSUME UartInv, NEW n \in Node, NEW m \in Node \ {n}, owuart[n].state = "TxStart",
                        owuart[m].state \in TxState \ {"TxStart"}
                 PROVE  owuart[m].tx_byte = 0 /\ owuart[m].tx_pos = 0
    BY DEF NoBreakIn
  <2>2. Pair(owuart[m], owuart[n], Last(n))
    BY <2>1 DEF UartInv, PairInv
  <2> QED BY <2>1, <2>2 DEF Pair, Waits, Sending, Fresh
<1> QED BY <1>1, UartInvariant, PTL

(* Arbitration: a node that lost (TxArbitrated) copies into its receive    *)
(* buffers what it sent; these are the bits of a node that goes on, at the *)
(* same bit.                                                               *)
THEOREM SameBitsTheorem == Spec => []SameBitsSoFar
<1>1. UartInv => SameBitsSoFar
  <2>1. SUFFICES ASSUME UartInv, NEW n \in Node, owuart[n].state = "TxArbitrated"
                 PROVE  \E m \in Node \ {n} :
                   LET u == owuart[n]
                       w == owuart[m] IN
                   /\ w.state \in TxState \ {"TxArbitrated"}
                   /\ w.tx_byte = u.tx_byte /\ w.tx_pos = u.tx_pos
                   /\ SubSeq(w.tx_buffer, 1, u.tx_byte) = SubSeq(u.tx_buffer, 1, u.tx_byte)
                   /\ SubSeq(Frame(w.tx_buffer[u.tx_byte + 1]), 1, u.tx_pos)
                        = SubSeq(Frame(u.tx_buffer[u.tx_byte + 1]), 1, u.tx_pos)
    BY DEF SameBitsSoFar
  <2>2. PICK m \in Node \ {n} : Above(owuart[m], owuart[n])
    BY <2>1 DEF UartInv, AboveInv
  <2> DEFINE u == owuart[n]
             w == owuart[m]
  <2>3. /\ w.state \in TxState \ {"TxArbitrated"} /\ w.state \in Driving /\ u.state \in Driving
        /\ u.state \in Sending /\ w.state \in Sending
        /\ w.tx_byte = u.tx_byte /\ w.tx_pos = u.tx_pos
    BY <2>1, <2>2 DEF Above, SamePlace, Driving, Sending, TxState
  <2>4. AgreeTo(u, w)
    BY <2>1, <2>3 DEF UartInv, PairInv, Pair
  <2>5. u \in OwuartState /\ w \in OwuartState
    BY <2>1 DEF UartInv, TypeOK
  <2>6. /\ u.tx_buffer \in Seq(Byte) /\ w.tx_buffer \in Seq(Byte) /\ u.tx_byte \in Nat
        /\ u.tx_pos \in 0 .. FrameBits
    BY <2>5, Fields
  <2>7. u.tx_byte < Len(u.tx_buffer) /\ u.tx_byte < Len(w.tx_buffer)
    BY <2>1, <2>3 DEF UartInv, LocalInv, Sends
  <2> HIDE DEF u, w
  <2>8. SubSeq(w.tx_buffer, 1, u.tx_byte) = SubSeq(u.tx_buffer, 1, u.tx_byte)
    BY <2>4, <2>6, <2>7, SamePrefix DEF AgreeTo
  <2>9. SubSeq(Frame(w.tx_buffer[u.tx_byte + 1]), 1, u.tx_pos)
          = SubSeq(Frame(u.tx_buffer[u.tx_byte + 1]), 1, u.tx_pos)
    <3> DEFINE a == Frame(w.tx_buffer[u.tx_byte + 1])
               b == Frame(u.tx_buffer[u.tx_byte + 1])
    <3>1. w.tx_buffer[u.tx_byte + 1] \in Byte /\ u.tx_buffer[u.tx_byte + 1] \in Byte
      BY <2>6, <2>7
    <3>2. /\ a \in Seq(Bit) /\ b \in Seq(Bit)
          /\ Len(a) = FrameBits + 1 /\ Len(b) = FrameBits + 1
      BY <3>1, FrameIs
    <3>3. \A p \in 1 .. u.tx_pos : a[p] = b[p]
      BY <2>4 DEF AgreeTo
    <3>4. u.tx_pos \in Nat /\ u.tx_pos <= Len(a) /\ u.tx_pos <= Len(b)
      BY <2>6, <3>2, Spans
    <3> HIDE DEF a, b
    <3>5. SubSeq(a, 1, u.tx_pos) = SubSeq(b, 1, u.tx_pos)
      BY <3>2, <3>3, <3>4, SamePrefix
    <3> QED BY <3>5 DEF a, b
  <2> QED BY <2>3, <2>8, <2>9 DEF u, w
<1> QED BY <1>1, UartInvariant, PTL
=============================================================================
