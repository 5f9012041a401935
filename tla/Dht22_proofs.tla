---------------------------- MODULE Dht22_proofs ----------------------------
(***************************************************************************)
(* For any number of sensors, any timing and any size of a record: bits    *)
(* are only stored where there is room for them, a reply holds complete    *)
(* records and failures, and a failure is never taken for a record.        *)
(* Nothing is assumed of what the sensors do, but for the last part: a     *)
(* good sensor, one that keeps to its data sheet, is read right whatever   *)
(* the others do, and no line is held when the measurement is over.        *)
(***************************************************************************)
EXTENDS Dht22, Lemmas

(* A record is open until its sensor is done, and complete then.           *)
Recording ==
  \A i \in Sensor :
    /\ state[i] # "Done" => payload[i] \in Record
    /\ state[i] \in {"ReadBit0", "ReadBit1"} => rx_bit[i] < Bits
    /\ state[i] = "Done" => payload[i].kind = "failure" \/ rx_bit[i] = Bits

(* While done is set, the sensors polled so far in this pass are done.     *)
PolledDone ==
  /\ main = "measure" /\ done => \A k \in Sensor : k < cur => state[k] = "Done"
  /\ main = "reply" => \A k \in Sensor : state[k] = "Done"

DhtInv == TypeOK /\ Recording /\ PolledDone

-----------------------------------------------------------------------------
(* The states by name, and by number.                                      *)
LEMMA States ==
  /\ State = {"SendStart", "WaitForStartEnd", "WaitForSensorResponse", "WaitForSensorResponseEnd",
              "WaitForBit", "BitStart", "WaitForBitRelease", "ReadBit0", "ReadBit1", "Done"}
  /\ \A s \in State : Number(s) \in 0 .. 9
<1>1. \A n \in 1 .. 10 : dht22_state[n] = CASE n = 1 -> "SendStart" [] n = 2 -> "WaitForStartEnd"
        [] n = 3 -> "WaitForSensorResponse" [] n = 4 -> "WaitForSensorResponseEnd"
        [] n = 5 -> "WaitForBit" [] n = 6 -> "BitStart" [] n = 7 -> "WaitForBitRelease"
        [] n = 8 -> "ReadBit0" [] n = 9 -> "ReadBit1" [] n = 10 -> "Done"
  BY DEF dht22_state
<1>2. ASSUME NEW s \in State
      PROVE  Number(s) \in 0 .. 9
  <2>1. PICK n \in 1 .. 10 : dht22_state[n] = s
    BY DEF State
  <2>2. n - 1 \in 0 .. 9 /\ dht22_state[(n - 1) + 1] = s
    BY <2>1
  <2> QED
    BY <2>2 DEF Number
<1> QED
  BY <1>1, <1>2 DEF State, dht22_state

(* A bit counter is a byte number and a bit number.                        *)
LEMMA ByteAndBit ==
  ASSUME NEW rx \in 0 .. Bits
  PROVE  rx % BitsPerByte \in 0 .. BitsPerByte-1 /\ rx \div BitsPerByte \in 0 .. Bytes
<1>1. BitsPerByte \in 1 .. 8 /\ Bytes \in 1 .. 5
  BY DhtAssumption
<1>2. rx \in 0 .. BitsPerByte * Bytes
  BY DEF Bits
<1> QED
  BY <1>1, <1>2

(* What ReportFailure leaves in the record.                                *)
LEMMA FailureType ==
  ASSUME NEW s \in State, NEW rx \in 0 .. Bits
  PROVE  [kind |-> "failure", bytes |-> FailureBytes(s, rx)] \in Failure
  BY States, ByteAndBit DEF Failure, FailureBytes

(* The bytes of a failure never add up.                                    *)
LEMMA FailureSum ==
  ASSUME NEW f \in Failure
  PROVE  ~Accepted(f.bytes)
<1>1. PICK a \in 128 .. 137, b \in 0 .. BitsPerByte-1, c \in 0 .. Bytes :
        f.bytes = <<255, a, b, c, 254>>
  BY DEF Failure
<1>2. b \in 0 .. 7 /\ c \in 0 .. 5
  BY DhtAssumption
<1>3. (255 + a + b + c) % 256 # 254
  BY <1>2
<1> QED
  BY <1>1, <1>3 DEF Accepted
-----------------------------------------------------------------------------
(* The part of TypeOK that do_measurements changes.                        *)
SensorTypes ==
  /\ state \in [Sensor -> State]
  /\ failed \in [Sensor -> BOOLEAN]
  /\ rx_bit \in [Sensor -> 0 .. Bits]
  /\ left \in [Sensor -> Int]
  /\ payload \in [Sensor -> Record \cup Failure]
  /\ low \in [Sensor -> BOOLEAN]
  /\ age \in [Sensor -> Nat]

(* Time passes.                                                            *)
LEMMA Elapsed ==
  ASSUME SensorTypes, NEW timers \in [Sensor -> Int], Elapse(timers)
  PROVE  left' \in [Sensor -> Int] /\ age' \in [Sensor -> Nat]
  BY DhtAssumption DEF SensorTypes, Elapse

(* A bit goes into the open record of its sensor.                          *)
LEMMA Stored ==
  ASSUME SensorTypes, Recording, NEW i \in Sensor, NEW b \in Bit,
         state[i] \in {"ReadBit0", "ReadBit1"}, StoreNextBit(i, b)
  PROVE  /\ payload' \in [Sensor -> Record \cup Failure] /\ payload'[i] \in Record
         /\ rx_bit' \in [Sensor -> 0 .. Bits]
         /\ \A k \in Sensor \ {i} : payload'[k] = payload[k] /\ rx_bit'[k] = rx_bit[k]
<1>1. payload[i] \in Record /\ rx_bit[i] \in 0 .. Bits-1 /\ Bits \in Nat
  BY DhtAssumption DEF Recording, SensorTypes, Bits
<1> DEFINE v == IF b = 1 THEN 1 ELSE payload[i].bytes[rx_bit[i]]
           r == [payload[i] EXCEPT !.bytes = [payload[i].bytes EXCEPT ![rx_bit[i]] = v]]
<1>2. payload[i].bytes \in Data
  BY <1>1 DEF Record
<1>3. v \in Bit
  BY <1>1, <1>2 DEF Data, Bit
<1>4. payload' = [payload EXCEPT ![i] = r]
  BY DEF StoreNextBit
<1> HIDE DEF v
<1>5. [payload[i].bytes EXCEPT ![rx_bit[i]] = v] \in Data
  BY <1>1, <1>2, <1>3 DEF Data
<1>6. r \in Record
  BY <1>1, <1>5 DEF Record
<1> HIDE DEF r
<1> QED
  BY <1>1, <1>4, <1>6 DEF SensorTypes, StoreNextBit

(* One poll of a sensor.                                                   *)
LEMMA PollSensorStep ==
  ASSUME SensorTypes, Recording, NEW i \in Sensor, PollSensor(i)
  PROVE  /\ SensorTypes'
         /\ Recording'
         /\ \A k \in Sensor : state[k] = "Done" => state'[k] = "Done"
<1>0. /\ StartTime \in Int /\ ResponseTime \in Int /\ PulseTime \in Int /\ ReleaseTime \in Int
      /\ DecisionTime \in Int /\ ExtensionTime \in Int /\ Bits \in Nat
  BY DhtAssumption DEF Bits
<1> USE <1>0, States DEF SensorTypes, Recording
<1>1. CASE SendStart(i)
  <2>1. left' \in [Sensor -> Int] /\ age' \in [Sensor -> Nat]
    BY <1>1, Elapsed DEF SendStart, Goto, SetTimer
  <2> QED
    BY <1>1, <2>1 DEF SendStart, Goto, SetTimer
<1>2. CASE WaitForStartEnd(i)
  <2>1. left' \in [Sensor -> Int] /\ age' \in [Sensor -> Nat]
    BY <1>2, Elapsed DEF WaitForStartEnd, Goto, SetTimer, KeepTimer, Stay
  <2> QED
    BY <1>2, <2>1 DEF WaitForStartEnd, Goto, SetTimer, KeepTimer, Stay
<1>3. CASE WaitForSensorResponse(i)
  <2>1. left' \in [Sensor -> Int] /\ age' \in [Sensor -> Nat]
    BY <1>3, Elapsed DEF WaitForSensorResponse, Goto, SetTimer, NotYet, KeepTimer, Stay, Fail
  <2> QED
    BY <1>3, <2>1 DEF WaitForSensorResponse, Goto, SetTimer, NotYet, KeepTimer, Stay, Fail
<1>4. CASE WaitForSensorResponseEnd(i)
  <2>1. left' \in [Sensor -> Int] /\ age' \in [Sensor -> Nat]
    BY <1>4, Elapsed DEF WaitForSensorResponseEnd, Goto, SetTimer, NotYet, KeepTimer, Stay, Fail
  <2> QED
    BY <1>4, <2>1 DEF WaitForSensorResponseEnd, Goto, SetTimer, NotYet, KeepTimer, Stay, Fail
<1>5. CASE WaitForBit(i)
  <2>1. left' \in [Sensor -> Int] /\ age' \in [Sensor -> Nat]
    BY <1>5, Elapsed DEF WaitForBit, Goto, NotYet, KeepTimer, Stay, Fail
  <2> QED
    BY <1>5, <2>1 DEF WaitForBit, Goto, NotYet, KeepTimer, Stay, Fail
<1>6. CASE BitStart(i)
  <2>1. left' \in [Sensor -> Int] /\ age' \in [Sensor -> Nat]
    BY <1>6, Elapsed DEF BitStart, Goto, SetTimer
  <2> QED
    BY <1>6, <2>1 DEF BitStart, Goto, SetTimer
<1>7. CASE WaitForBitRelease(i)
  <2>1. left' \in [Sensor -> Int] /\ age' \in [Sensor -> Nat]
    BY <1>7, Elapsed DEF WaitForBitRelease, SetTimer, NotYet, KeepTimer
  <2>2. CASE RecordFull(i) /\ Goto(i, "Done")
    <3>1. rx_bit[i] = Bits
      BY <2>2 DEF RecordFull
    <3> QED
      BY <1>7, <2>1, <2>2, <3>1 DEF WaitForBitRelease, Goto
  <2>3. CASE ~RecordFull(i) /\ Goto(i, "ReadBit0")
    <3>1. rx_bit[i] < Bits
      BY <2>3 DEF RecordFull
    <3> QED
      BY <1>7, <2>1, <2>3, <3>1 DEF WaitForBitRelease, Goto
  <2>4. CASE NotYet(i)
    BY <1>7, <2>1, <2>4 DEF WaitForBitRelease, NotYet, Stay, Fail
  <2> QED
    BY <1>7, <2>2, <2>3, <2>4 DEF WaitForBitRelease
<1>8. CASE ReadBit0(i)
  <2>1. CASE StoreNextBit(i, 0) /\ Goto(i, "BitStart") /\ KeepTimer
    <3>1. left' \in [Sensor -> Int] /\ age' \in [Sensor -> Nat]
      BY <2>1, Elapsed DEF KeepTimer
    <3> QED
      BY <1>8, <2>1, <3>1, Stored DEF ReadBit0, Goto, Bit
  <2>2. CASE /\ UNCHANGED <<rx_bit, payload>> /\ Goto(i, "ReadBit1")
             /\ SetTimer(i, left[i] + ExtensionTime)
    <3>1. [left EXCEPT ![i] = left[i] + ExtensionTime] \in [Sensor -> Int]
      OBVIOUS
    <3>2. left' \in [Sensor -> Int] /\ age' \in [Sensor -> Nat]
      BY <2>2, <3>1, Elapsed DEF SetTimer
    <3> QED
      BY <1>8, <2>2, <3>2 DEF ReadBit0, Goto
  <2>3. CASE UNCHANGED <<rx_bit, payload>> /\ Stay /\ KeepTimer
    <3>1. left' \in [Sensor -> Int] /\ age' \in [Sensor -> Nat]
      BY <2>3, Elapsed DEF KeepTimer
    <3> QED
      BY <1>8, <2>3, <3>1 DEF ReadBit0, Stay
  <2> QED
    BY <1>8, <2>1, <2>2, <2>3 DEF ReadBit0
<1>9. CASE ReadBit1(i)
  <2>1. left' \in [Sensor -> Int] /\ age' \in [Sensor -> Nat]
    BY <1>9, Elapsed DEF ReadBit1, NotYet, KeepTimer
  <2>2. CASE StoreNextBit(i, 1) /\ Goto(i, "BitStart")
    BY <1>9, <2>1, <2>2, Stored DEF ReadBit1, Goto, Bit
  <2>3. CASE UNCHANGED <<rx_bit, payload>> /\ NotYet(i)
    BY <1>9, <2>1, <2>3 DEF ReadBit1, NotYet, Stay, Fail
  <2> QED
    BY <1>9, <2>2, <2>3 DEF ReadBit1
<1>10. CASE SkipDone(i)
  <2>1. left' \in [Sensor -> Int] /\ age' \in [Sensor -> Nat]
    BY <1>10, Elapsed DEF SkipDone, KeepTimer, Stay
  <2> QED
    BY <1>10, <2>1 DEF SkipDone, KeepTimer, Stay
<1>11. CASE ReportFailure(i)
  <2>1. left' \in [Sensor -> Int] /\ age' \in [Sensor -> Nat]
    BY <1>11, Elapsed DEF ReportFailure, KeepTimer
  <2> QED
    BY <1>11, <2>1, FailureType DEF ReportFailure
<1> QED
  BY <1>1, <1>2, <1>3, <1>4, <1>5, <1>6, <1>7, <1>8, <1>9, <1>10, <1>11 DEF PollSensor

(* The invariant holds at first ...                                        *)
LEMMA InitDhtInv == Init => DhtInv
<1> SUFFICES ASSUME Init PROVE DhtInv
  OBVIOUS
<1>1. NumSensors \in Nat \ {0} /\ Bits \in Nat
  BY DhtAssumption DEF Bits
<1>2. Empty \in Record
  BY DEF Empty, Record, Data, Bit
<1>3. Quiet \in Wave
  <2>1. PICK t \in SensorDelay, h \in SensorHigh : TRUE
    BY DhtAssumption
  <2>2. [data |-> [b \in 0 .. Bits-1 |-> 0], delay |-> t, high |-> h] \in Wave
    BY DEF Wave, Data, Bit
  <2> QED
    BY <2>2 DEF Quiet
<1>4. TypeOK
  BY <1>1, <1>2, <1>3, States DEF Init, TypeOK, Sensor
<1>5. Recording /\ PolledDone
  BY <1>2 DEF Init, Recording, PolledDone
<1> QED
  BY <1>4, <1>5 DEF DhtInv

(* ... and after every step.                                               *)
LEMMA DhtInvStep ==
  ASSUME DhtInv, [Next]_vars
  PROVE  DhtInv'
<1> USE DEF DhtInv
<1>0. NumSensors \in Nat \ {0} /\ Bits \in Nat /\ cur \in 0 .. NumSensors-1
  BY DhtAssumption DEF Bits, TypeOK, Sensor
<1>1. CASE Request
  <2>1. Empty \in Record
    BY <1>0 DEF Empty, Record, Data, Bit
  <2>2. payload' = [i \in Sensor |-> Empty] /\ state' = [i \in Sensor |-> "SendStart"]
    BY <1>1 DEF Request, ClearPayload
  <2>3. TypeOK'
    BY <1>0, <1>1, <2>1, <2>2, States DEF Request, TypeOK, Sensor
  <2>4. Recording'
    BY <2>1, <2>2 DEF Recording
  <2>5. PolledDone'
    BY <1>0, <1>1 DEF Request, PolledDone, Sensor
  <2> QED
    BY <2>3, <2>4, <2>5
<1>2. CASE Poll
  <2>1. SensorTypes
    BY DEF TypeOK, SensorTypes
  <2>2. PollSensor(cur) /\ cur \in Sensor
    BY <1>2 DEF Poll, TypeOK
  <2>3. /\ SensorTypes' /\ Recording'
        /\ \A k \in Sensor : state[k] = "Done" => state'[k] = "Done"
    BY <2>1, <2>2, PollSensorStep
  <2> DEFINE all == done /\ state[cur] = "Done" /\ ~failed[cur]
  <2>4. /\ cur < NumSensors-1 => cur' = cur + 1 /\ (done' <=> all) /\ main' = "measure"
        /\ ~(cur < NumSensors-1) => cur' = 0 /\ done' = TRUE
                                    /\ main' = IF all THEN "reply" ELSE "measure"
        /\ done' \in BOOLEAN /\ main = "measure"
        /\ UNCHANGED <<noisy, wave>>
    BY <1>2 DEF Poll
  <2>5. all => \A k \in Sensor : k <= cur => state[k] = "Done"
    BY <1>0, <2>4 DEF PolledDone, Sensor
  <2> HIDE DEF all
  <2>6. TypeOK'
    <3>1. cur' \in Sensor
      BY <1>0, <2>4 DEF Sensor
    <3>2. main' \in {"wait", "measure", "reply", "rest"}
      BY <2>4
    <3>3. noisy' \in [Sensor -> BOOLEAN] /\ wave' \in [Sensor -> Wave]
      BY <2>4 DEF TypeOK
    <3> QED
      BY <2>3, <2>4, <3>1, <3>2, <3>3 DEF TypeOK, SensorTypes
  <2>7. PolledDone'
    BY <1>0, <2>3, <2>4, <2>5 DEF PolledDone, Sensor
  <2> QED
    BY <2>3, <2>6, <2>7
<1>3. CASE Reply
  BY <1>3 DEF Reply, sensors, TypeOK, Recording, PolledDone
<1>4. CASE Rest
  BY <1>4 DEF Rest, sensors, TypeOK, Recording, PolledDone
<1>5. CASE UNCHANGED vars
  BY <1>5 DEF vars, sensors, TypeOK, Recording, PolledDone
<1> QED
  BY <1>1, <1>2, <1>3, <1>4, <1>5 DEF Next

(* The invariant, for everybody who requests measurements.                 *)
THEOREM DhtInvariance == Spec => []DhtInv
<1>1. DhtInv /\ [Next]_vars => DhtInv'
  BY DhtInvStep
<1> QED
  BY InitDhtInv, <1>1, PTL DEF Spec

(* Type correctness, for every number of sensors and every timing.         *)
THEOREM DhtTypes == Spec => []TypeOK
<1>1. DhtInv => TypeOK
  BY DEF DhtInv
<1> QED
  BY DhtInvariance, <1>1, PTL

(* No bit is stored behind the end of a record, whatever the line does.    *)
THEOREM StoreTheorem == Spec => []StoresInOwnRecord
<1>1. DhtInv => StoresInOwnRecord
  BY DEF DhtInv, Recording, StoresInOwnRecord
<1> QED
  BY DhtInvariance, <1>1, PTL

(* A reply holds complete records and failures only.                       *)
THEOREM CompleteTheorem == Spec => []RecordsComplete
<1>1. DhtInv => RecordsComplete
  BY DEF DhtInv, Recording, PolledDone, RecordsComplete
<1> QED
  BY DhtInvariance, <1>1, PTL

(* No reader takes a failure for a measurement, whatever state the sensor  *)
(* was lost in and however many bits it had sent.                          *)
THEOREM RejectedTheorem == Spec => []FailuresRejected
<1>1. DhtInv => FailuresRejected
  <2> SUFFICES ASSUME DhtInv, NEW i \in Sensor, payload[i].kind = "failure"
               PROVE  ~Accepted(payload[i].bytes)
    BY DEF FailuresRejected
  <2>1. payload[i] \in Failure
    BY DEF DhtInv, TypeOK, Record
  <2> QED
    BY <2>1, FailureSum
<1> QED
  BY DhtInvariance, <1>1, PTL

-----------------------------------------------------------------------------
(* The times of the pulses are numbers.                                    *)
LEMMA PulseTimes ==
  /\ \A w \in Wave : w.delay \in Nat /\ w.delay > 0 /\ w.high \in [Bit -> Nat]
                     /\ w.data \in [0 .. Bits-1 -> Bit]
  /\ SensorPulse \in Nat /\ SensorPulse > 0 /\ SensorLow \in Nat /\ SensorLow > 0
  /\ Bits \in Nat
<1>1. Bits \in Nat
  BY DhtAssumption DEF Bits
<1>2. SensorPulse \in Nat /\ SensorPulse > 0 /\ SensorLow \in Nat /\ SensorLow > 0
  BY SensorAssumption
<1>3. ASSUME NEW w \in Wave
      PROVE  /\ w.delay \in Nat /\ w.delay > 0 /\ w.high \in [Bit -> Nat]
             /\ w.data \in [0 .. Bits-1 -> Bit]
  <2>1. w.delay \in SensorDelay /\ w.high \in SensorHigh /\ w.data \in [0 .. Bits-1 -> Bit]
    BY DEF Wave, Data
  <2>2. w.delay \in Nat \ {0} /\ w.high \in [Bit -> Nat]
    BY <2>1, SensorAssumption, Zenon
  <2> QED
    BY <2>1, <2>2
<1> QED
  BY <1>1, <1>2, <1>3

(* The pulses of a good sensor.  The low parts of its bits follow each     *)
(* other at the distances that the data give.                              *)
LEMMA Pulses ==
  ASSUME NEW w \in Wave
  PROVE  /\ LowPart(w) \in [0 .. Bits -> Nat]
         /\ LowPart(w)[0] = w.delay + 2 * SensorPulse
         /\ \A n \in 0 .. Bits-1 : LowPart(w)[n+1] = LowPart(w)[n] + SensorLow + w.high[w.data[n]]
         /\ \A m, n \in 0 .. Bits : m <= n => LowPart(w)[m] <= LowPart(w)[n]
<1>0. Bits \in Nat /\ SensorPulse \in Nat /\ SensorLow \in Nat
  BY PulseTimes
<1>1. w.delay \in Nat /\ w.high \in [Bit -> Nat] /\ w.data \in [0 .. Bits-1 -> Bit]
  BY PulseTimes
<1> DEFINE c == w.delay + 2 * SensorPulse
           d == [n \in 0 .. Bits-1 |-> SensorLow + w.high[w.data[n]]]
<1>2. c \in Nat /\ d \in [0 .. Bits-1 -> Nat]
  BY <1>0, <1>1
<1>3. LowPart(w) = CHOOSE f : IsPartialSums(f, c, d, Bits)
  <2>1. ASSUME NEW f
        PROVE  IsPartialSums(f, c, d, Bits)
               <=> f = [n \in 0 .. Bits |->
                          IF n = 0 THEN w.delay + 2 * SensorPulse
                          ELSE f[n-1] + (SensorLow + w.high[w.data[n-1]])]
    <3>1. \A n \in 0 .. Bits : n # 0 => d[n-1] = SensorLow + w.high[w.data[n-1]]
      BY <1>0
    <3>2. [n \in 0 .. Bits |-> IF n = 0 THEN c ELSE f[n-1] + d[n-1]]
            = [n \in 0 .. Bits |-> IF n = 0 THEN w.delay + 2 * SensorPulse
                                  ELSE f[n-1] + (SensorLow + w.high[w.data[n-1]])]
      BY <3>1
    <3> QED
      BY <3>2 DEF IsPartialSums
  <2> QED
    BY <2>1 DEF LowPart
<1>4. \E f : IsPartialSums(f, c, d, Bits)
  BY <1>0, <1>2, PartialSumsExist
<1>5. IsPartialSums(LowPart(w), c, d, Bits)
  BY <1>3, <1>4
<1>6. /\ LowPart(w) \in [0 .. Bits -> Nat] /\ LowPart(w)[0] = c
      /\ \A n \in 0 .. Bits-1 : LowPart(w)[n+1] = LowPart(w)[n] + d[n]
      /\ \A m, n \in 0 .. Bits : m <= n => LowPart(w)[m] <= LowPart(w)[n]
  BY <1>0, <1>2, <1>5, PartialSumsGrow
<1>7. \A n \in 0 .. Bits-1 : LowPart(w)[n] + d[n] = LowPart(w)[n] + SensorLow + w.high[w.data[n]]
  BY <1>0, <1>1, <1>6
<1> QED
  BY <1>6, <1>7

(* What the firmware reads from a good sensor, at time t of its answer.    *)
LEMMA Waveform ==
  ASSUME NEW w \in Wave, NEW t \in Nat
  PROVE  /\ t < w.delay => ~PullsLow(w, t)
         /\ w.delay <= t /\ t < w.delay + SensorPulse => PullsLow(w, t)
         /\ w.delay + SensorPulse <= t /\ t < LowPart(w)[0] => ~PullsLow(w, t)
         /\ \A n \in 0 .. Bits :
              LowPart(w)[n] <= t /\ t < LowPart(w)[n] + SensorLow => PullsLow(w, t)
         /\ \A n \in 0 .. Bits-1 :
              LowPart(w)[n] + SensorLow <= t /\ t < LowPart(w)[n+1] => ~PullsLow(w, t)
         /\ Finished(w) <= t => ~PullsLow(w, t)
<1>0. Bits \in Nat /\ SensorPulse \in Nat \ {0} /\ SensorLow \in Nat \ {0} /\ w.delay \in Nat
  BY PulseTimes
<1> DEFINE L == LowPart(w)
<1>1. /\ L \in [0 .. Bits -> Nat] /\ L[0] = w.delay + 2 * SensorPulse
      /\ \A m, n \in 0 .. Bits : m <= n => L[m] <= L[n]
  BY Pulses
<1> HIDE DEF L
<1>2. PullsLow(w, t) <=> \/ w.delay <= t /\ t < w.delay + SensorPulse
                         \/ \E n \in 0 .. Bits : L[n] <= t /\ t < L[n] + SensorLow
  BY DEF PullsLow, L
<1>3. \A n \in 0 .. Bits : L[n] \in Nat /\ L[0] <= L[n] /\ L[n] <= L[Bits]
  BY <1>0, <1>1
<1>4. t < L[0] => ~\E n \in 0 .. Bits : L[n] <= t /\ t < L[n] + SensorLow
  BY <1>0, <1>3
<1>5. L[0] <= t => ~(w.delay <= t /\ t < w.delay + SensorPulse)
  BY <1>0, <1>1
<1>6. ASSUME NEW n \in 0 .. Bits-1, L[n] + SensorLow <= t, t < L[n+1]
      PROVE  ~PullsLow(w, t)
  <2>1. ASSUME NEW m \in 0 .. Bits, L[m] <= t, t < L[m] + SensorLow
        PROVE  FALSE
    <3>1. CASE m <= n
      BY <1>0, <1>1, <1>3, <1>6, <2>1, <3>1
    <3>2. CASE n + 1 <= m
      <4>1. n + 1 \in 0 .. Bits /\ L[n+1] <= L[m]
        BY <1>0, <1>1, <3>2
      <4> QED
        BY <1>3, <1>6, <2>1, <4>1
    <3> QED
      BY <1>0, <3>1, <3>2
  <2>2. L[0] <= t
    BY <1>0, <1>3, <1>6
  <2> QED
    BY <1>2, <1>5, <2>1, <2>2
<1>7. ASSUME Finished(w) <= t
      PROVE  ~PullsLow(w, t)
  <2>1. L[Bits] + SensorLow <= t
    BY <1>7 DEF Finished, L
  <2>2. L[0] <= t /\ \A n \in 0 .. Bits : L[n] + SensorLow <= t
    BY <1>0, <1>3, <2>1
  <2> QED
    BY <1>0, <1>2, <1>3, <1>5, <2>2
<1>8. t < w.delay + SensorPulse => t < L[0]
  BY <1>0, <1>1
<1> QED
  BY <1>0, <1>2, <1>4, <1>6, <1>7, <1>8 DEF L

-----------------------------------------------------------------------------
(* A line is only pulled low between the start of a measurement and the    *)
(* end of the start pulse, and no answer has begun by then.                *)
OnlyStartPulse ==
  \A i \in Sensor :
    /\ low[i] => main = "measure" /\ state[i] = "WaitForStartEnd"
    /\ main = "measure" /\ state[i] \in {"SendStart", "WaitForStartEnd"} => age[i] = 0

(* What a poll of one sensor leaves alone of the others, and how their     *)
(* times pass.                                                             *)
LEMMA OthersWait ==
  ASSUME SensorTypes, NEW i \in Sensor, PollSensor(i), NEW k \in Sensor, k # i
  PROVE  /\ state'[k] = state[k] /\ failed'[k] = failed[k] /\ rx_bit'[k] = rx_bit[k]
         /\ payload'[k] = payload[k] /\ low'[k] = low[k]
         /\ left'[k] = IF left[k] > -ExtensionTime THEN left[k] - 1 ELSE left[k]
         /\ age'[k] = IF age[k] > 0 /\ age[k] < Finished(wave[k]) THEN age[k] + 1 ELSE age[k]
<1> USE DEF SensorTypes
<1>1. /\ state'[k] = state[k] /\ failed'[k] = failed[k] /\ rx_bit'[k] = rx_bit[k]
      /\ payload'[k] = payload[k] /\ low'[k] = low[k]
  <2>1. CASE ReportFailure(i)
    BY <2>1 DEF ReportFailure
  <2>2. CASE SendStart(i) \/ WaitForStartEnd(i) \/ BitStart(i) \/ SkipDone(i)
    BY <2>2 DEF SendStart, WaitForStartEnd, BitStart, SkipDone, Goto, Stay
  <2>3. CASE WaitForSensorResponse(i) \/ WaitForSensorResponseEnd(i) \/ WaitForBit(i)
             \/ WaitForBitRelease(i)
    BY <2>3 DEF WaitForSensorResponse, WaitForSensorResponseEnd, WaitForBit, WaitForBitRelease,
                Goto, NotYet, Fail, Stay
  <2>4. CASE ReadBit0(i) \/ ReadBit1(i)
    BY <2>4 DEF ReadBit0, ReadBit1, StoreNextBit, Goto, NotYet, Fail, Stay
  <2> QED
    BY <2>1, <2>2, <2>3, <2>4 DEF PollSensor
<1>2. PICK t : Elapse([left EXCEPT ![i] = t]) \/ Elapse(left)
  BY DEF PollSensor, ReportFailure, SendStart, WaitForStartEnd, BitStart, SkipDone,
         WaitForSensorResponse, WaitForSensorResponseEnd, WaitForBit, WaitForBitRelease,
         ReadBit0, ReadBit1, NotYet, SetTimer, KeepTimer
<1> QED
  BY <1>1, <1>2 DEF Elapse

(* A poll keeps it.                                                        *)
LEMMA OnlyStartPulsePoll ==
  ASSUME TypeOK, OnlyStartPulse, Poll, NEW i \in Sensor
  PROVE  /\ low'[i] => state'[i] = "WaitForStartEnd"
         /\ state'[i] \in {"SendStart", "WaitForStartEnd"} => age'[i] = 0
<1>1. main = "measure" /\ cur \in Sensor /\ PollSensor(cur) /\ SensorTypes
  BY DEF Poll, TypeOK, SensorTypes
<1>2. CASE i # cur
  BY <1>1, <1>2, OthersWait DEF OnlyStartPulse
<1>3. CASE i = cur
  <2> USE DEF SensorTypes, OnlyStartPulse
  <2>1. CASE ReportFailure(i)
    BY <1>1, <2>1 DEF ReportFailure
  <2>2. CASE SendStart(i)
    BY <1>1, <2>2 DEF SendStart, Goto, SetTimer, Elapse
  <2>3. CASE WaitForStartEnd(i)
    BY <1>1, <2>3 DEF WaitForStartEnd, Goto, Stay, SetTimer, KeepTimer, Elapse
  <2>4. CASE BitStart(i) \/ SkipDone(i)
    BY <1>1, <2>4 DEF BitStart, SkipDone, Goto, Stay
  <2>5. CASE WaitForSensorResponse(i) \/ WaitForSensorResponseEnd(i) \/ WaitForBit(i)
             \/ WaitForBitRelease(i)
    BY <1>1, <2>5 DEF WaitForSensorResponse, WaitForSensorResponseEnd, WaitForBit,
                      WaitForBitRelease, Goto, NotYet, Fail, Stay
  <2>6. CASE ReadBit0(i) \/ ReadBit1(i)
    BY <1>1, <2>6 DEF ReadBit0, ReadBit1, Goto, NotYet, Fail, Stay
  <2> QED
    BY <1>1, <1>3, <2>1, <2>2, <2>3, <2>4, <2>5, <2>6 DEF PollSensor
<1> QED
  BY <1>2, <1>3

(* It holds throughout.                                                    *)
LEMMA OnlyStartPulseStep ==
  ASSUME DhtInv, DhtInv', OnlyStartPulse, [Next]_vars
  PROVE  OnlyStartPulse'
<1> USE DEF DhtInv, OnlyStartPulse
<1>1. CASE Request
  BY <1>1 DEF Request
<1>2. CASE Poll
  <2>1. main = "measure" /\ main' \in {"measure", "reply"}
    BY <1>2 DEF Poll
  <2>2. ASSUME NEW i \in Sensor
        PROVE  /\ low'[i] => state'[i] = "WaitForStartEnd"
               /\ state'[i] \in {"SendStart", "WaitForStartEnd"} => age'[i] = 0
    BY <1>2, OnlyStartPulsePoll
  <2>3. main' = "reply" => \A i \in Sensor : state'[i] = "Done"
    BY DEF PolledDone
  <2> QED
    BY <2>1, <2>2, <2>3
<1>3. CASE Reply
  BY <1>3 DEF Reply, sensors, PolledDone
<1>4. CASE Rest
  BY <1>4 DEF Rest, sensors
<1>5. CASE UNCHANGED vars
  BY <1>5 DEF vars, sensors
<1> QED
  BY <1>1, <1>2, <1>3, <1>4, <1>5 DEF Next

(* Firmware and sensor never drive a line at the same time, and no line is *)
(* left low after a measurement: for every number of sensors and whatever  *)
(* the sensors do.                                                         *)
THEOREM LinesTheorem == Spec => []LinesReleased
<1>1. Init => OnlyStartPulse
  BY DEF Init, OnlyStartPulse
<1>2. DhtInv /\ DhtInv' /\ OnlyStartPulse /\ [Next]_vars => OnlyStartPulse'
  BY OnlyStartPulseStep
<1>3. DhtInv /\ OnlyStartPulse => LinesReleased
  <2> SUFFICES ASSUME DhtInv, OnlyStartPulse, NEW i \in Sensor, low[i]
               PROVE  /\ state[i] = "WaitForStartEnd" /\ main = "measure"
                      /\ noisy[i] \/ ~PullsLow(wave[i], age[i])
    BY DEF LinesReleased
  <2>1. state[i] = "WaitForStartEnd" /\ main = "measure" /\ age[i] = 0
    BY DEF OnlyStartPulse
  <2>2. wave[i] \in Wave /\ 0 < wave[i].delay
    BY PulseTimes DEF DhtInv, TypeOK
  <2> QED
    BY <2>1, <2>2, Waveform
<1> QED
  BY DhtInvariance, <1>1, <1>2, <1>3, PTL DEF Spec

(* Where the polls of a good sensor stand in its answer: in state s with n *)
(* bits stored, t after the start pulse, d left on the timer and the last  *)
(* poll at x.  The state says which part of the answer that poll was in,   *)
(* and the timer runs out only after the next part has begun.              *)
InStep(s, n, t, x, d, w) ==
  \/ s \in {"SendStart", "WaitForStartEnd"} /\ n = 0 /\ t = 0
  \/ /\ s = "WaitForSensorResponse" /\ n = 0 /\ t > 0
     /\ x < w.delay /\ d + t >= ResponseTime
  \/ /\ s = "WaitForSensorResponseEnd" /\ n = 0 /\ t > 0
     /\ x >= w.delay /\ x < w.delay + SensorPulse
     /\ d + t >= PulseTime + w.delay
  \/ /\ s = "WaitForBit" /\ n = 0 /\ t > 0
     /\ x >= w.delay + SensorPulse /\ x < LowPart(w)[0]
     /\ d + t >= PulseTime + w.delay + SensorPulse
  \/ /\ s = "BitStart" /\ t > 0
     /\ x >= LowPart(w)[n] /\ x < LowPart(w)[n] + NumSensors
  \/ /\ s = "WaitForBitRelease" /\ t > 0
     /\ \/ n = Bits /\ t >= Finished(w)
        \/ /\ x >= LowPart(w)[n] + NumSensors /\ x < LowPart(w)[n] + SensorLow
           /\ d + t >= ReleaseTime + LowPart(w)[n] + NumSensors
  \/ /\ s = "ReadBit0" /\ t > 0 /\ n < Bits
     /\ x >= LowPart(w)[n] + SensorLow /\ x < LowPart(w)[n+1]
     /\ d + t >= DecisionTime + LowPart(w)[n] + SensorLow
     /\ d <= 0 \/ d + t < DecisionTime + LowPart(w)[n] + SensorLow + NumSensors
     /\ w.data[n] = 1 => x + NumSensors < LowPart(w)[n+1]
  \/ /\ s = "ReadBit1" /\ t > 0 /\ n < Bits
     /\ x >= LowPart(w)[n] + SensorLow /\ x < LowPart(w)[n+1]
     /\ d + t >= DecisionTime + ExtensionTime + LowPart(w)[n] + SensorLow
     /\ w.data[n] = 1
  \/ s = "Done" /\ n = Bits

UntilPoll(i) == IF cur <= i THEN i - cur ELSE i - cur + NumSensors
LastPoll(i)  == age[i] + UntilPoll(i) - NumSensors

(* The bits so far.                                                        *)
Received(data, n) ==
  [kind |-> "bits", bytes |-> [b \in 0 .. Bits-1 |-> IF b < n THEN data[b] ELSE 0]]

GoodSensor(i) ==
  /\ ~failed[i]
  /\ state[i] = "WaitForStartEnd" => low[i]
  /\ InStep(state[i], rx_bit[i], age[i], LastPoll(i), left[i], wave[i])
  /\ payload[i] = Received(wave[i].data, rx_bit[i])

GoodInv ==
  main \in {"measure", "reply"} => \A i \in Sensor : ~noisy[i] => GoodSensor(i)

(* What TimesFit says of one answer.                                       *)
LEMMA Fits ==
  ASSUME NEW w \in Wave
  PROVE  /\ w.delay <= ResponseTime
         /\ NumSensors \in Nat /\ NumSensors > 0
         /\ NumSensors <= SensorPulse /\ SensorPulse <= PulseTime
         /\ 2 * NumSensors <= SensorLow /\ SensorLow <= ReleaseTime
         /\ w.high[0] \in Nat /\ NumSensors <= w.high[0] /\ w.high[0] <= DecisionTime
         /\ w.high[1] \in Nat /\ DecisionTime + 2 * NumSensors <= w.high[1] + 1
         /\ w.high[1] <= DecisionTime + ExtensionTime
         /\ ResponseTime \in Nat /\ PulseTime \in Nat /\ ReleaseTime \in Nat
         /\ DecisionTime \in Nat /\ ExtensionTime \in Nat
<1>1. w.delay \in SensorDelay /\ w.high \in SensorHigh
  BY DEF Wave
<1>2. w.high[0] \in Nat /\ w.high[1] \in Nat
  BY PulseTimes DEF Bit
<1>3. w.delay <= ResponseTime /\ w.high[0] <= DecisionTime /\ NumSensors <= w.high[0]
      /\ DecisionTime + 2 * NumSensors <= w.high[1] + 1
      /\ w.high[1] <= DecisionTime + ExtensionTime
  BY <1>1, TimingAssumption, Zenon DEF TimesFit
<1> QED
  BY <1>2, <1>3, DhtAssumption, TimingAssumption DEF TimesFit

(* The bit parts of an answer: a low part, then a high part in which there *)
(* is a poll.                                                              *)
LEMMA Parts ==
  ASSUME NEW w \in Wave, NEW n \in 0 .. Bits
  PROVE  /\ LowPart(w)[n] \in Nat /\ LowPart(w)[0] = w.delay + 2 * SensorPulse
         /\ LowPart(w)[0] <= LowPart(w)[n]
         /\ Finished(w) \in Nat /\ LowPart(w)[n] + SensorLow <= Finished(w)
         /\ n = Bits => Finished(w) = LowPart(w)[n] + SensorLow
         /\ n < Bits =>
              /\ LowPart(w)[n+1] \in Nat /\ LowPart(w)[n+1] + SensorLow <= Finished(w)
              /\ LowPart(w)[n] + SensorLow + NumSensors <= LowPart(w)[n+1]
              /\ w.data[n] \in {0, 1}
              /\ w.data[n] = 0 => LowPart(w)[n+1] <= LowPart(w)[n] + SensorLow + DecisionTime
              /\ w.data[n] = 1 =>
                   /\ LowPart(w)[n+1] <= LowPart(w)[n] + SensorLow + DecisionTime + ExtensionTime
                   /\ LowPart(w)[n] + SensorLow + DecisionTime + 2 * NumSensors
                        <= LowPart(w)[n+1] + 1
<1> DEFINE L == LowPart(w)
<1>0. Bits \in Nat /\ SensorLow \in Nat /\ w.data \in [0 .. Bits-1 -> Bit]
  BY PulseTimes
<1>1. /\ L \in [0 .. Bits -> Nat] /\ L[0] = w.delay + 2 * SensorPulse
      /\ \A k \in 0 .. Bits-1 : L[k+1] = L[k] + SensorLow + w.high[w.data[k]]
      /\ \A k, m \in 0 .. Bits : k <= m => L[k] <= L[m]
  BY Pulses
<1>2. Finished(w) = L[Bits] + SensorLow
  BY DEF Finished
<1> HIDE DEF L
<1>3. L[n] \in Nat /\ L[0] <= L[n] /\ L[n] <= L[Bits] /\ L[Bits] \in Nat
  BY <1>0, <1>1
<1>4. ASSUME n < Bits
      PROVE  /\ L[n+1] \in Nat /\ L[n+1] <= L[Bits] /\ w.data[n] \in {0, 1}
             /\ L[n+1] = L[n] + SensorLow + w.high[w.data[n]]
  BY <1>0, <1>1, <1>4 DEF Bit
<1>5. w.data[n] = 0 => w.high[w.data[n]] = w.high[0]
  OBVIOUS
<1>6. w.data[n] = 1 => w.high[w.data[n]] = w.high[1]
  OBVIOUS
<1>7. n < Bits => /\ L[n] + SensorLow + NumSensors <= L[n+1]
                  /\ w.data[n] = 0 => L[n+1] <= L[n] + SensorLow + DecisionTime
                  /\ w.data[n] = 1 => /\ L[n+1] <= L[n] + SensorLow + DecisionTime + ExtensionTime
                                      /\ L[n] + SensorLow + DecisionTime + 2 * NumSensors
                                           <= L[n+1] + 1
  <2> SUFFICES ASSUME n < Bits
               PROVE  /\ L[n] + SensorLow + NumSensors <= L[n+1]
                      /\ w.data[n] = 0 => L[n+1] <= L[n] + SensorLow + DecisionTime
                      /\ w.data[n] = 1 => /\ L[n+1] <= L[n] + SensorLow + DecisionTime + ExtensionTime
                                          /\ L[n] + SensorLow + DecisionTime + 2 * NumSensors
                                               <= L[n+1] + 1
    OBVIOUS
  <2>0. /\ w.high[0] \in Nat /\ NumSensors <= w.high[0] /\ w.high[0] <= DecisionTime
        /\ w.high[1] \in Nat /\ DecisionTime + 2 * NumSensors <= w.high[1] + 1
        /\ w.high[1] <= DecisionTime + ExtensionTime /\ NumSensors \in Nat /\ NumSensors > 0
        /\ DecisionTime \in Nat /\ ExtensionTime \in Nat
    BY Fits
  <2>1. CASE w.data[n] = 0
    <3>1. L[n+1] = L[n] + SensorLow + w.high[0]
      BY <1>4, <1>5, <2>1
    <3> QED
      BY <1>0, <1>3, <2>0, <2>1, <3>1
  <2>2. CASE w.data[n] = 1
    <3>1. L[n+1] = L[n] + SensorLow + w.high[1]
      BY <1>4, <1>6, <2>2
    <3>2. NumSensors <= w.high[1]
      BY <2>0
    <3>3. /\ L[n] + SensorLow + NumSensors <= L[n+1]
          /\ L[n+1] <= L[n] + SensorLow + DecisionTime + ExtensionTime
          /\ L[n] + SensorLow + DecisionTime + 2 * NumSensors <= L[n+1] + 1
      <4>1. L[n] \in Nat /\ SensorLow \in Nat
        BY <1>0, <1>3
      <4> QED
        BY <2>0, <3>1, <3>2, <4>1
    <3> QED
      BY <2>2, <3>3
  <2> QED
    BY <1>4, <2>1, <2>2
<1> QED
  BY <1>0, <1>1, <1>2, <1>3, <1>4, <1>7 DEF L

(* Time passes until the next poll of the sensor.                          *)
LEMMA InStepWhileTimePasses ==
  ASSUME NEW w \in Wave, NEW n \in 0 .. Bits, NEW t \in Nat, NEW x \in Int, NEW d \in Int, NEW s,
         x < t, t < x + NumSensors, InStep(s, n, t, x, d, w),
         NEW t2 \in Nat, t2 = IF t > 0 /\ t < Finished(w) THEN t + 1 ELSE t,
         NEW d2 \in Int, d2 = d - 1 \/ (d2 = d /\ d <= 0)
  PROVE  InStep(s, n, t2, x + (t2 - t) - 1, d2, w)
<1>a. /\ LowPart(w)[n] \in Nat /\ LowPart(w)[0] = w.delay + 2 * SensorPulse
      /\ LowPart(w)[0] <= LowPart(w)[n]
      /\ Finished(w) \in Nat /\ LowPart(w)[n] + SensorLow <= Finished(w)
      /\ n = Bits => Finished(w) = LowPart(w)[n] + SensorLow
      /\ n < Bits => /\ LowPart(w)[n+1] \in Nat /\ LowPart(w)[n+1] + SensorLow <= Finished(w)
                     /\ LowPart(w)[n] + SensorLow + NumSensors <= LowPart(w)[n+1]
  BY Parts
<1>b. /\ NumSensors \in Nat /\ NumSensors > 0 /\ NumSensors <= SensorPulse
      /\ 2 * NumSensors <= SensorLow /\ DecisionTime \in Nat /\ ExtensionTime \in Nat
      /\ ResponseTime \in Nat /\ PulseTime \in Nat /\ ReleaseTime \in Nat
  BY Fits
<1>c. w.delay \in Nat /\ SensorPulse \in Nat /\ SensorLow \in Nat /\ Bits \in Nat
  BY PulseTimes
<1> USE <1>a, <1>b, <1>c
<1>1. CASE s \in {"SendStart", "WaitForStartEnd"} \/ s = "Done"
  BY <1>1 DEF InStep
<1>2. CASE s = "WaitForSensorResponse"
  BY <1>2 DEF InStep
<1>3. CASE s = "WaitForSensorResponseEnd"
  BY <1>3 DEF InStep
<1>4. CASE s = "WaitForBit"
  BY <1>4 DEF InStep
<1>5. CASE s = "BitStart"
  BY <1>5 DEF InStep
<1>6. CASE s = "WaitForBitRelease"
  BY <1>6 DEF InStep
<1>7. CASE s = "ReadBit0"
  BY <1>7 DEF InStep
<1>8. CASE s = "ReadBit1"
  BY <1>8 DEF InStep
<1> QED
  BY <1>1, <1>2, <1>3, <1>4, <1>5, <1>6, <1>7, <1>8 DEF InStep

(* The times of one sensor pass, in the poll of that sensor.               *)
LEMMA OwnTime ==
  ASSUME SensorTypes, NEW i \in Sensor, NEW timers \in [Sensor -> Int], Elapse(timers), ~noisy[i],
         Finished(wave[i]) \in Nat
  PROVE  /\ left'[i] \in Int /\ age'[i] \in Nat /\ left'[i] >= timers[i] - 1
         /\ timers[i] > 0 => left'[i] = timers[i] - 1
         /\ age[i] > 0 /\ age[i] < Finished(wave[i]) => age'[i] = age[i] + 1
         /\ age[i] = 0 /\ low[i] /\ ~low'[i] => age'[i] = 1
         /\ age[i] = 0 /\ (low'[i] \/ ~low[i]) => age'[i] = 0
         /\ age[i] >= Finished(wave[i]) /\ (low'[i] \/ ~low[i]) => age'[i] = age[i]
<1>1. ExtensionTime \in Nat
  BY DhtAssumption
<1>2. left'[i] = IF timers[i] > -ExtensionTime THEN timers[i] - 1 ELSE timers[i]
  BY DEF Elapse
<1>3. age'[i] = IF (age[i] > 0 /\ age[i] < Finished(wave[i])) \/ (low[i] /\ ~low'[i] /\ ~noisy[i])
                THEN age[i] + 1 ELSE age[i]
  BY DEF Elapse
<1>4. age[i] \in Nat /\ timers[i] \in Int
  BY DEF SensorTypes
<1>5. left'[i] \in Int /\ left'[i] >= timers[i] - 1 /\ (timers[i] > 0 => left'[i] = timers[i] - 1)
  BY <1>1, <1>2, <1>4
<1> QED
  BY <1>3, <1>4, <1>5

(* A sensor in step is polled: it does not fail, and is in step again.     *)
LEMMA PollInStep ==
  ASSUME SensorTypes, NEW i \in Sensor, PollSensor(i), OnlyStartPulse, main = "measure",
         wave[i] \in Wave, ~noisy[i], ~failed[i],
         state[i] = "WaitForStartEnd" => low[i],
         InStep(state[i], rx_bit[i], age[i], age[i] - NumSensors, left[i], wave[i])
  PROVE  /\ ~failed'[i]
         /\ state'[i] = "WaitForStartEnd" => low'[i]
         /\ InStep(state'[i], rx_bit'[i], age'[i], age'[i] - 1, left'[i], wave[i])
         /\ \/ rx_bit'[i] = rx_bit[i] /\ payload'[i] = payload[i]
            \/ /\ rx_bit[i] < Bits /\ StoreNextBit(i, wave[i].data[rx_bit[i]])
<1> DEFINE w == wave[i]
           n == rx_bit[i]
           t == age[i]
           d == left[i]
<1>a. n \in 0 .. Bits /\ t \in Nat /\ d \in Int /\ w \in Wave
  BY DEF SensorTypes
<1>b. /\ LowPart(w)[n] \in Nat /\ LowPart(w)[0] = w.delay + 2 * SensorPulse
      /\ LowPart(w)[0] <= LowPart(w)[n]
      /\ Finished(w) \in Nat /\ LowPart(w)[n] + SensorLow <= Finished(w)
      /\ n = Bits => Finished(w) = LowPart(w)[n] + SensorLow
      /\ n < Bits =>
           /\ LowPart(w)[n+1] \in Nat /\ LowPart(w)[n+1] + SensorLow <= Finished(w)
           /\ LowPart(w)[n] + SensorLow + NumSensors <= LowPart(w)[n+1]
           /\ w.data[n] \in {0, 1}
           /\ w.data[n] = 0 => LowPart(w)[n+1] <= LowPart(w)[n] + SensorLow + DecisionTime
           /\ w.data[n] = 1 =>
                /\ LowPart(w)[n+1] <= LowPart(w)[n] + SensorLow + DecisionTime + ExtensionTime
                /\ LowPart(w)[n] + SensorLow + DecisionTime + 2 * NumSensors
                     <= LowPart(w)[n+1] + 1
  BY <1>a, Parts
<1>c. /\ NumSensors \in Nat /\ NumSensors > 0 /\ NumSensors <= SensorPulse
      /\ w.delay <= ResponseTime /\ SensorPulse <= PulseTime
      /\ 2 * NumSensors <= SensorLow /\ SensorLow <= ReleaseTime
      /\ DecisionTime \in Nat /\ DecisionTime > 0 /\ ExtensionTime \in Nat
      /\ ResponseTime \in Nat /\ PulseTime \in Nat /\ ReleaseTime \in Nat
  BY <1>a, Fits
<1>d. /\ w.delay \in Nat /\ w.delay > 0 /\ SensorPulse \in Nat /\ SensorPulse > 0
      /\ SensorLow \in Nat /\ Bits \in Nat
  BY <1>a, PulseTimes
<1>e. state[i] # "WaitForStartEnd" => ~low[i]
  BY DEF OnlyStartPulse
<1>f. state[i] # "WaitForStartEnd" => Levels(i) = IF PullsLow(w, t) THEN {0} ELSE {1}
  BY <1>e DEF Levels
<1>0. PollSensor(i) <=>
        \/ SendStart(i) \/ WaitForStartEnd(i) \/ WaitForSensorResponse(i)
        \/ WaitForSensorResponseEnd(i) \/ WaitForBit(i) \/ BitStart(i) \/ WaitForBitRelease(i)
        \/ ReadBit0(i) \/ ReadBit1(i) \/ SkipDone(i)
  BY DEF PollSensor
<1>s. /\ state \in [Sensor -> State] /\ failed \in [Sensor -> BOOLEAN]
      /\ rx_bit \in [Sensor -> 0 .. Bits] /\ left \in [Sensor -> Int]
      /\ low \in [Sensor -> BOOLEAN] /\ age \in [Sensor -> Nat]
  BY DEF SensorTypes
<1>g. ASSUME KeepTimer
      PROVE  /\ left'[i] \in Int /\ age'[i] \in Nat /\ left'[i] >= d - 1
             /\ d > 0 => left'[i] = d - 1
             /\ t > 0 /\ t < Finished(w) => age'[i] = t + 1
             /\ t = 0 /\ low[i] /\ ~low'[i] => age'[i] = 1
             /\ t = 0 /\ (low'[i] \/ ~low[i]) => age'[i] = 0
             /\ t >= Finished(w) /\ (low'[i] \/ ~low[i]) => age'[i] = t
             /\ d <= 0 => left'[i] <= 0
  <2>1. left'[i] = IF left[i] > -ExtensionTime THEN left[i] - 1 ELSE left[i]
    BY <1>g DEF KeepTimer, Elapse
  <2> QED
    BY <1>a, <1>b, <1>c, <1>g, <1>s, <2>1, OwnTime DEF KeepTimer
<1>h. ASSUME NEW T \in Int, SetTimer(i, T)
      PROVE  /\ left'[i] \in Int /\ age'[i] \in Nat /\ left'[i] >= T - 1
             /\ T > 0 => left'[i] = T - 1
             /\ t > 0 /\ t < Finished(w) => age'[i] = t + 1
             /\ t = 0 /\ low[i] /\ ~low'[i] => age'[i] = 1
             /\ t = 0 /\ (low'[i] \/ ~low[i]) => age'[i] = 0
             /\ t >= Finished(w) /\ (low'[i] \/ ~low[i]) => age'[i] = t
  <2> DEFINE timers == [left EXCEPT ![i] = T]
  <2>1. timers \in [Sensor -> Int] /\ timers[i] = T
    BY <1>s
  <2>2. Elapse(timers)
    BY <1>h DEF SetTimer
  <2> HIDE DEF timers
  <2> QED
    BY <1>b, <2>1, <2>2, OwnTime
<1> HIDE DEF w, n, t, d
<1> DEFINE Poll0(s) == state[i] = s /\ InStep(s, n, t, t - NumSensors, d, w)
<1>i. Poll0(state[i])
  BY DEF w, n, t, d
<1>j. w = wave[i] /\ n = rx_bit[i] /\ t = age[i] /\ d = left[i] /\ (Expired(i) <=> d <= 0)
  BY DEF w, n, t, d, Expired
<1>1. CASE SendStart(i)
  <2>1. /\ state'[i] = "WaitForStartEnd" /\ low'[i] /\ failed'[i] = failed[i]
        /\ rx_bit'[i] = n /\ payload'[i] = payload[i] /\ SetTimer(i, StartTime)
        /\ state[i] = "SendStart"
    BY <1>1, <1>j, <1>s DEF SendStart, Goto
  <2>2. n = 0 /\ t = 0 /\ StartTime \in Int
    BY <1>i, <2>1, DhtAssumption DEF InStep
  <2>3. age'[i] = 0
    BY <1>h, <2>1, <2>2
  <2> QED
    BY <1>j, <2>1, <2>2, <2>3 DEF InStep
<1>2. CASE WaitForStartEnd(i)
  <2>0. state[i] = "WaitForStartEnd" /\ n = 0 /\ t = 0 /\ low[i]
    BY <1>2, <1>i DEF WaitForStartEnd, InStep
  <2>1. CASE Expired(i)
    <3>1. /\ state'[i] = "WaitForSensorResponse" /\ ~low'[i] /\ failed'[i] = failed[i]
          /\ rx_bit'[i] = n /\ payload'[i] = payload[i] /\ SetTimer(i, ResponseTime)
      BY <1>2, <1>j, <1>s, <2>1 DEF WaitForStartEnd, Goto
    <3>2. age'[i] = 1 /\ left'[i] = ResponseTime - 1
      BY <1>c, <1>d, <1>h, <2>0, <3>1
    <3> QED
      BY <1>c, <1>d, <1>j, <2>0, <3>1, <3>2 DEF InStep
  <2>2. CASE ~Expired(i)
    <3>1. /\ state'[i] = "WaitForStartEnd" /\ low'[i] /\ failed'[i] = failed[i]
          /\ rx_bit'[i] = n /\ payload'[i] = payload[i] /\ KeepTimer
      BY <1>2, <1>j, <2>0, <2>2 DEF WaitForStartEnd, Stay
    <3>2. age'[i] = 0
      BY <1>g, <2>0, <3>1
    <3> QED
      BY <1>j, <2>0, <3>1, <3>2 DEF InStep
  <2> QED
    BY <2>1, <2>2
<1>3. CASE WaitForSensorResponse(i)
  <2>0. /\ state[i] = "WaitForSensorResponse" /\ n = 0 /\ t > 0
        /\ t - NumSensors < w.delay /\ d + t >= ResponseTime /\ ~low[i]
    BY <1>3, <1>e, <1>i DEF WaitForSensorResponse, InStep
  <2>t. t < Finished(w) /\ t < w.delay + SensorPulse
    BY <1>a, <1>b, <1>c, <1>d, <2>0
  <2>1. /\ t >= w.delay => PullsLow(w, t)
        /\ t < w.delay => ~PullsLow(w, t)
    BY <1>a, <2>t, Waveform
  <2>2. CASE t >= w.delay
    <3>1. /\ state'[i] = "WaitForSensorResponseEnd" /\ ~low'[i] /\ failed'[i] = failed[i]
          /\ rx_bit'[i] = n /\ payload'[i] = payload[i] /\ SetTimer(i, PulseTime)
      BY <1>3, <1>f, <1>j, <1>s, <2>0, <2>1, <2>2 DEF WaitForSensorResponse, Goto
    <3>2. age'[i] = t + 1 /\ left'[i] = PulseTime - 1
      BY <1>c, <1>d, <1>h, <2>0, <2>t, <3>1
    <3> QED
      BY <1>a, <1>c, <1>d, <1>j, <2>0, <2>2, <3>1, <3>2 DEF InStep
  <2>3. CASE t < w.delay
    <3>0. ~Expired(i)
      BY <1>a, <1>c, <1>d, <1>j, <2>0, <2>3
    <3>1. /\ state'[i] = "WaitForSensorResponse" /\ ~low'[i] /\ failed'[i] = failed[i]
          /\ rx_bit'[i] = n /\ payload'[i] = payload[i] /\ KeepTimer
      BY <1>3, <1>d, <1>f, <1>j, <1>s, <2>0, <2>1, <2>3, <3>0 DEF WaitForSensorResponse, NotYet, Stay
    <3>2. age'[i] = t + 1 /\ left'[i] = d - 1
      BY <1>a, <1>c, <1>d, <1>g, <1>j, <2>0, <2>t, <3>0, <3>1
    <3> QED
      BY <1>a, <1>c, <1>d, <1>j, <2>0, <2>3, <3>1, <3>2 DEF InStep
  <2> QED
    BY <1>a, <1>d, <2>2, <2>3
<1>4. CASE WaitForSensorResponseEnd(i)
  <2>0. /\ state[i] = "WaitForSensorResponseEnd" /\ n = 0 /\ t > 0 /\ ~low[i]
        /\ t - NumSensors >= w.delay /\ t - NumSensors < w.delay + SensorPulse
        /\ d + t >= PulseTime + w.delay
    BY <1>4, <1>e, <1>i DEF WaitForSensorResponseEnd, InStep
  <2>t. t < Finished(w) /\ t < LowPart(w)[0] /\ t >= w.delay
    BY <1>a, <1>b, <1>c, <1>d, <2>0
  <2>1. /\ t < w.delay + SensorPulse => PullsLow(w, t)
        /\ t >= w.delay + SensorPulse => ~PullsLow(w, t)
    BY <1>a, <2>t, Waveform
  <2>2. CASE t >= w.delay + SensorPulse
    <3>1. /\ state'[i] = "WaitForBit" /\ ~low'[i] /\ failed'[i] = failed[i]
          /\ rx_bit'[i] = n /\ payload'[i] = payload[i] /\ SetTimer(i, PulseTime)
      BY <1>4, <1>f, <1>j, <1>s, <2>0, <2>1, <2>2 DEF WaitForSensorResponseEnd, Goto
    <3>2. age'[i] = t + 1 /\ left'[i] = PulseTime - 1
      BY <1>c, <1>d, <1>h, <2>0, <2>t, <3>1
    <3> QED
      BY <1>a, <1>b, <1>c, <1>d, <1>j, <2>0, <2>t, <2>2, <3>1, <3>2 DEF InStep
  <2>3. CASE t < w.delay + SensorPulse
    <3>0. ~Expired(i)
      BY <1>a, <1>c, <1>d, <1>j, <2>0, <2>3
    <3>1. /\ state'[i] = "WaitForSensorResponseEnd" /\ ~low'[i] /\ failed'[i] = failed[i]
          /\ rx_bit'[i] = n /\ payload'[i] = payload[i] /\ KeepTimer
      BY <1>4, <1>f, <1>j, <1>s, <2>0, <2>1, <2>3, <3>0
         DEF WaitForSensorResponseEnd, NotYet, Stay
    <3>2. age'[i] = t + 1 /\ left'[i] = d - 1
      BY <1>a, <1>c, <1>d, <1>g, <1>j, <2>0, <2>t, <3>0, <3>1
    <3> QED
      BY <1>a, <1>c, <1>d, <1>j, <2>0, <2>t, <2>3, <3>1, <3>2 DEF InStep
  <2> QED
    BY <1>a, <1>d, <2>2, <2>3
<1>5. CASE WaitForBit(i)
  <2>0. /\ state[i] = "WaitForBit" /\ n = 0 /\ t > 0 /\ ~low[i]
        /\ t - NumSensors >= w.delay + SensorPulse /\ t - NumSensors < LowPart(w)[0]
        /\ d + t >= PulseTime + w.delay + SensorPulse
    BY <1>5, <1>e, <1>i DEF WaitForBit, InStep
  <2>t. t < LowPart(w)[0] + SensorLow /\ t < Finished(w) /\ t >= w.delay + SensorPulse
    BY <1>a, <1>b, <1>c, <1>d, <2>0
  <2>1. /\ t < LowPart(w)[0] => ~PullsLow(w, t)
        /\ t >= LowPart(w)[0] => PullsLow(w, t)
    <3>1. 0 \in 0 .. Bits
      BY <1>d
    <3> QED
      BY <1>a, <2>t, <3>1, Waveform
  <2>2. CASE t >= LowPart(w)[0]
    <3>1. /\ state'[i] = "BitStart" /\ ~low'[i] /\ failed'[i] = failed[i]
          /\ rx_bit'[i] = n /\ payload'[i] = payload[i] /\ KeepTimer
      BY <1>5, <1>f, <1>j, <1>s, <2>0, <2>1, <2>2 DEF WaitForBit, Goto
    <3>2. age'[i] = t + 1
      BY <1>g, <2>0, <2>t, <3>1
    <3> QED
      BY <1>a, <1>b, <1>c, <1>d, <1>j, <2>0, <2>2, <3>1, <3>2 DEF InStep
  <2>3. CASE t < LowPart(w)[0]
    <3>0. ~Expired(i)
      BY <1>a, <1>b, <1>c, <1>d, <1>j, <2>0, <2>3
    <3>1. /\ state'[i] = "WaitForBit" /\ ~low'[i] /\ failed'[i] = failed[i]
          /\ rx_bit'[i] = n /\ payload'[i] = payload[i] /\ KeepTimer
      BY <1>5, <1>f, <1>j, <1>s, <2>0, <2>1, <2>3, <3>0 DEF WaitForBit, NotYet, Stay
    <3>2. age'[i] = t + 1 /\ left'[i] = d - 1
      BY <1>a, <1>c, <1>d, <1>g, <1>j, <2>0, <2>t, <3>0, <3>1
    <3> QED
      BY <1>a, <1>b, <1>c, <1>d, <1>j, <2>0, <2>t, <2>3, <3>1, <3>2 DEF InStep
  <2> QED
    BY <1>a, <1>b, <1>d, <2>2, <2>3
<1>6. CASE BitStart(i)
  <2>0. /\ state[i] = "BitStart" /\ t > 0 /\ ~low[i]
        /\ t - NumSensors >= LowPart(w)[n] /\ t - NumSensors < LowPart(w)[n] + NumSensors
    BY <1>6, <1>e, <1>i DEF BitStart, InStep
  <2>1. /\ state'[i] = "WaitForBitRelease" /\ ~low'[i] /\ failed'[i] = failed[i]
        /\ rx_bit'[i] = n /\ payload'[i] = payload[i] /\ SetTimer(i, ReleaseTime)
    BY <1>6, <1>j, <1>s, <2>0 DEF BitStart, Goto
  <2>2. t < Finished(w) /\ t < LowPart(w)[n] + SensorLow
    BY <1>a, <1>b, <1>c, <1>d, <2>0
  <2>3. age'[i] = t + 1 /\ left'[i] >= ReleaseTime - 1 /\ left'[i] \in Int
    BY <1>c, <1>h, <2>0, <2>1, <2>2
  <2> QED
    BY <1>a, <1>b, <1>c, <1>d, <1>j, <2>0, <2>1, <2>2, <2>3 DEF InStep
<1>7. CASE WaitForBitRelease(i)
  <2>0. /\ state[i] = "WaitForBitRelease" /\ t > 0 /\ ~low[i]
        /\ \/ n = Bits /\ t >= Finished(w)
           \/ /\ t - NumSensors >= LowPart(w)[n] + NumSensors
              /\ t - NumSensors < LowPart(w)[n] + SensorLow
              /\ d + t >= ReleaseTime + LowPart(w)[n] + NumSensors
    BY <1>7, <1>e, <1>i DEF WaitForBitRelease, InStep
  <2>1. CASE t < LowPart(w)[n] + SensorLow
    <3>0. t >= LowPart(w)[n] /\ t < Finished(w)
      BY <1>a, <1>b, <1>c, <1>d, <2>0, <2>1
    <3>1. PullsLow(w, t)
      BY <1>a, <2>1, <3>0, Waveform
    <3>2. ~Expired(i) /\ t - NumSensors >= LowPart(w)[n] + NumSensors
          /\ d + t >= ReleaseTime + LowPart(w)[n] + NumSensors
      BY <1>a, <1>b, <1>c, <1>d, <1>j, <2>0, <2>1
    <3>3. /\ state'[i] = "WaitForBitRelease" /\ ~low'[i] /\ failed'[i] = failed[i]
          /\ rx_bit'[i] = n /\ payload'[i] = payload[i] /\ KeepTimer
      BY <1>7, <1>f, <1>j, <1>s, <2>0, <3>1, <3>2 DEF WaitForBitRelease, NotYet, Stay
    <3>4. age'[i] = t + 1 /\ left'[i] = d - 1
      BY <1>a, <1>g, <1>j, <2>0, <3>0, <3>2, <3>3
    <3> QED
      BY <1>a, <1>b, <1>c, <1>d, <1>j, <2>0, <2>1, <3>2, <3>3, <3>4 DEF InStep
  <2>2. CASE t >= LowPart(w)[n] + SensorLow /\ n = Bits
    <3>1. ~PullsLow(w, t) /\ RecordFull(i)
      BY <1>a, <1>b, <1>d, <1>j, <2>2, Waveform DEF RecordFull
    <3>2. /\ state'[i] = "Done" /\ ~low'[i] /\ failed'[i] = failed[i]
          /\ rx_bit'[i] = n /\ payload'[i] = payload[i]
      BY <1>7, <1>f, <1>j, <1>s, <2>0, <3>1 DEF WaitForBitRelease, Goto
    <3> QED
      BY <1>j, <2>2, <3>2 DEF InStep
  <2>3. CASE t >= LowPart(w)[n] + SensorLow /\ n < Bits
    <3>0. t < LowPart(w)[n] + SensorLow + NumSensors /\ t < LowPart(w)[n+1] /\ t < Finished(w)
      BY <1>a, <1>b, <1>c, <1>d, <2>0, <2>3
    <3>1. ~PullsLow(w, t) /\ ~RecordFull(i)
      <4>1. n \in 0 .. Bits-1
        BY <1>a, <1>d, <2>3
      <4>2. ~PullsLow(w, t)
        BY <1>a, <2>3, <3>0, <4>1, Waveform
      <4> QED
        BY <1>d, <1>j, <4>1, <4>2 DEF RecordFull
    <3>2. /\ state'[i] = "ReadBit0" /\ ~low'[i] /\ failed'[i] = failed[i]
          /\ rx_bit'[i] = n /\ payload'[i] = payload[i] /\ SetTimer(i, DecisionTime)
      BY <1>7, <1>f, <1>j, <1>s, <2>0, <3>1 DEF WaitForBitRelease, Goto
    <3>3. age'[i] = t + 1 /\ left'[i] = DecisionTime - 1
      BY <1>c, <1>h, <2>0, <3>0, <3>2
    <3>4. w.data[n] = 1 => t + NumSensors < LowPart(w)[n+1]
      BY <1>a, <1>b, <1>c, <1>d, <2>3, <3>0
    <3> QED
      BY <1>a, <1>b, <1>c, <1>d, <1>j, <2>3, <3>0, <3>2, <3>3, <3>4 DEF InStep
  <2> QED
    BY <1>a, <1>b, <1>d, <2>1, <2>2, <2>3
<1>8. CASE ReadBit0(i)
  <2>0. /\ state[i] = "ReadBit0" /\ t > 0 /\ n < Bits /\ ~low[i]
        /\ t - NumSensors >= LowPart(w)[n] + SensorLow /\ t - NumSensors < LowPart(w)[n+1]
        /\ d + t >= DecisionTime + LowPart(w)[n] + SensorLow
        /\ d <= 0 \/ d + t < DecisionTime + LowPart(w)[n] + SensorLow + NumSensors
        /\ w.data[n] = 1 => t - NumSensors + NumSensors < LowPart(w)[n+1]
    BY <1>8, <1>e, <1>i DEF ReadBit0, InStep
  <2>n. n \in 0 .. Bits-1 /\ n + 1 \in 0 .. Bits
    BY <1>a, <1>d, <2>0
  <2>t. t < Finished(w) /\ t >= LowPart(w)[n] + SensorLow /\ t < LowPart(w)[n+1] + SensorLow
    BY <1>a, <1>b, <1>c, <1>d, <2>0
  <2>1. CASE t >= LowPart(w)[n+1]
    <3>1. PullsLow(w, t)
      BY <1>a, <2>1, <2>n, <2>t, Waveform
    <3>2. w.data[n] = 0
      BY <1>a, <1>b, <1>c, <2>0, <2>1
    <3>3. /\ state'[i] = "BitStart" /\ ~low'[i] /\ failed'[i] = failed[i]
          /\ StoreNextBit(i, 0) /\ KeepTimer
      BY <1>8, <1>f, <1>j, <1>s, <2>0, <3>1 DEF ReadBit0, Goto
    <3>4. rx_bit'[i] = n + 1
      BY <1>j, <1>s, <3>3 DEF StoreNextBit
    <3>5. age'[i] = t + 1
      BY <1>g, <2>0, <2>t, <3>3
    <3> QED
      BY <1>a, <1>b, <1>c, <1>d, <1>j, <2>0, <2>1, <3>2, <3>3, <3>4, <3>5 DEF InStep
  <2>2. CASE t < LowPart(w)[n+1] /\ Expired(i)
    <3>1. ~PullsLow(w, t)
      BY <1>a, <2>2, <2>n, <2>t, Waveform
    <3>2. w.data[n] = 1
      BY <1>a, <1>b, <1>c, <1>d, <1>j, <2>0, <2>2
    <3>3. /\ state'[i] = "ReadBit1" /\ ~low'[i] /\ failed'[i] = failed[i]
          /\ rx_bit'[i] = n /\ payload'[i] = payload[i] /\ SetTimer(i, d + ExtensionTime)
      BY <1>8, <1>f, <1>j, <1>s, <2>0, <2>2, <3>1 DEF ReadBit0, Goto
    <3>4. age'[i] = t + 1 /\ left'[i] \in Int /\ left'[i] >= d + ExtensionTime - 1
      BY <1>a, <1>c, <1>h, <2>0, <2>t, <3>3
    <3> QED
      BY <1>a, <1>b, <1>c, <1>d, <1>j, <2>0, <2>2, <2>t, <3>2, <3>3, <3>4 DEF InStep
  <2>3. CASE t < LowPart(w)[n+1] /\ ~Expired(i)
    <3>1. ~PullsLow(w, t)
      BY <1>a, <2>3, <2>n, <2>t, Waveform
    <3>2. /\ state'[i] = "ReadBit0" /\ ~low'[i] /\ failed'[i] = failed[i]
          /\ rx_bit'[i] = n /\ payload'[i] = payload[i] /\ KeepTimer
      BY <1>8, <1>f, <1>j, <1>s, <2>0, <2>3, <3>1 DEF ReadBit0, Stay
    <3>3. age'[i] = t + 1 /\ left'[i] = d - 1
      BY <1>a, <1>g, <1>j, <2>0, <2>t, <2>3, <3>2
    <3>4. w.data[n] = 1 => t + NumSensors < LowPart(w)[n+1]
      BY <1>a, <1>b, <1>c, <1>d, <1>j, <2>0, <2>3
    <3> QED
      BY <1>a, <1>b, <1>c, <1>d, <1>j, <2>0, <2>3, <2>t, <3>2, <3>3, <3>4 DEF InStep
  <2> QED
    BY <1>a, <1>b, <2>0, <2>1, <2>2, <2>3
<1>9. CASE ReadBit1(i)
  <2>0. /\ state[i] = "ReadBit1" /\ t > 0 /\ n < Bits /\ ~low[i] /\ w.data[n] = 1
        /\ t - NumSensors >= LowPart(w)[n] + SensorLow /\ t - NumSensors < LowPart(w)[n+1]
        /\ d + t >= DecisionTime + ExtensionTime + LowPart(w)[n] + SensorLow
    BY <1>9, <1>e, <1>i DEF ReadBit1, InStep
  <2>n. n \in 0 .. Bits-1 /\ n + 1 \in 0 .. Bits
    BY <1>a, <1>d, <2>0
  <2>t. t < Finished(w) /\ t >= LowPart(w)[n] + SensorLow /\ t < LowPart(w)[n+1] + SensorLow
    BY <1>a, <1>b, <1>c, <1>d, <2>0
  <2>1. CASE t >= LowPart(w)[n+1]
    <3>1. PullsLow(w, t)
      BY <1>a, <2>1, <2>n, <2>t, Waveform
    <3>3. /\ state'[i] = "BitStart" /\ ~low'[i] /\ failed'[i] = failed[i]
          /\ StoreNextBit(i, 1) /\ KeepTimer
      BY <1>9, <1>f, <1>j, <1>s, <2>0, <3>1 DEF ReadBit1, Goto
    <3>4. rx_bit'[i] = n + 1
      BY <1>j, <1>s, <3>3 DEF StoreNextBit
    <3>5. age'[i] = t + 1
      BY <1>g, <2>0, <2>t, <3>3
    <3> QED
      BY <1>a, <1>b, <1>c, <1>d, <1>j, <2>0, <2>1, <3>3, <3>4, <3>5 DEF InStep
  <2>2. CASE t < LowPart(w)[n+1]
    <3>1. ~PullsLow(w, t)
      BY <1>a, <2>2, <2>n, <2>t, Waveform
    <3>2. ~Expired(i)
      BY <1>a, <1>b, <1>c, <1>d, <1>j, <2>0, <2>2
    <3>3. /\ state'[i] = "ReadBit1" /\ ~low'[i] /\ failed'[i] = failed[i]
          /\ rx_bit'[i] = n /\ payload'[i] = payload[i] /\ KeepTimer
      BY <1>9, <1>f, <1>j, <1>s, <2>0, <3>1, <3>2 DEF ReadBit1, NotYet, Stay
    <3>4. age'[i] = t + 1 /\ left'[i] = d - 1
      BY <1>a, <1>g, <1>j, <2>0, <2>t, <3>2, <3>3
    <3> QED
      BY <1>a, <1>b, <1>c, <1>d, <1>j, <2>0, <2>2, <2>t, <3>3, <3>4 DEF InStep
  <2> QED
    BY <1>a, <1>b, <2>0, <2>1, <2>2
<1>10. CASE SkipDone(i)
  <2>1. /\ state[i] = "Done" /\ state'[i] = "Done" /\ failed'[i] = failed[i]
        /\ rx_bit'[i] = n /\ payload'[i] = payload[i] /\ n = Bits
    BY <1>10, <1>i, <1>j DEF SkipDone, Stay, InStep
  <2> QED
    BY <1>j, <2>1 DEF InStep
<1> QED
  BY <1>0, <1>1, <1>2, <1>3, <1>4, <1>5, <1>6, <1>7, <1>8, <1>9, <1>10

(* A stored bit continues the record.                                      *)
LEMMA StoredBit ==
  ASSUME SensorTypes, NEW i \in Sensor, wave[i] \in Wave, rx_bit[i] < Bits,
         payload[i] = Received(wave[i].data, rx_bit[i]),
         StoreNextBit(i, wave[i].data[rx_bit[i]])
  PROVE  rx_bit'[i] = rx_bit[i] + 1 /\ payload'[i] = Received(wave[i].data, rx_bit[i] + 1)
<1> DEFINE n == rx_bit[i]
           data == wave[i].data
           bytes == [b \in 0 .. Bits-1 |-> IF b < n THEN data[b] ELSE 0]
<1>1. n \in 0 .. Bits-1 /\ Bits \in Nat /\ data \in [0 .. Bits-1 -> Bit]
  BY PulseTimes DEF SensorTypes
<1>2. payload[i] = [kind |-> "bits", bytes |-> bytes]
  BY DEF Received
<1>3. rx_bit'[i] = n + 1
  BY <1>1 DEF SensorTypes, StoreNextBit
<1>4. payload'[i] = [payload[i] EXCEPT !.bytes =
                       [bytes EXCEPT ![n] = IF data[n] = 1 THEN 1 ELSE bytes[n]]]
  BY <1>2 DEF SensorTypes, StoreNextBit
<1>5. [bytes EXCEPT ![n] = IF data[n] = 1 THEN 1 ELSE bytes[n]]
        = [b \in 0 .. Bits-1 |-> IF b < n + 1 THEN data[b] ELSE 0]
  <2>1. data[n] \in {0, 1} /\ bytes[n] = 0
    BY <1>1 DEF Bit
  <2>2. ASSUME NEW b \in 0 .. Bits-1, b # n
        PROVE  b < n <=> b < n + 1
    BY <1>1, <2>2
  <2>3. n < n + 1
    BY <1>1
  <2> QED
    BY <1>1, <2>1, <2>2, <2>3
<1> HIDE DEF bytes
<1> DEFINE next == [b \in 0 .. Bits-1 |-> IF b < n + 1 THEN data[b] ELSE 0]
<1>6. payload'[i] = [payload[i] EXCEPT !.bytes = next]
  BY <1>4, <1>5
<1> HIDE DEF next
<1>7. payload'[i] = [kind |-> "bits", bytes |-> next]
  BY <1>2, <1>6
<1> QED
  BY <1>3, <1>7 DEF Received, next

(* Good sensors are in step from a request to its reply ...                *)
LEMMA GoodInvStep ==
  ASSUME DhtInv, DhtInv', OnlyStartPulse, GoodInv, [Next]_vars
  PROVE  GoodInv'
<1>0. NumSensors \in Nat /\ NumSensors > 0 /\ Bits \in Nat /\ cur \in 0 .. NumSensors-1
      /\ TypeOK /\ SensorTypes
  <2>1. TypeOK /\ SensorTypes
    BY DEF DhtInv, TypeOK, SensorTypes
  <2>2. cur \in 0 .. NumSensors-1
    BY <2>1 DEF TypeOK, Sensor
  <2> QED
    BY <2>1, <2>2, DhtAssumption, PulseTimes
<1>1. CASE Request
  <2> SUFFICES ASSUME NEW i \in Sensor
               PROVE  GoodSensor(i)'
    BY DEF GoodInv
  <2>1. /\ ~failed'[i] /\ state'[i] = "SendStart" /\ rx_bit'[i] = 0 /\ age'[i] = 0
        /\ payload'[i] = Empty
    BY <1>1 DEF Request, ClearPayload
  <2>2. Received(wave'[i].data, 0) = Empty
    BY <1>0 DEF Received, Empty
  <2> QED
    BY <2>1, <2>2 DEF GoodSensor, InStep
<1>2. CASE Poll
  <2> SUFFICES ASSUME NEW i \in Sensor, ~noisy[i]
               PROVE  GoodSensor(i)'
    BY <1>2 DEF GoodInv, Poll
  <2>1. main = "measure" /\ PollSensor(cur) /\ cur \in Sensor /\ wave' = wave /\ GoodSensor(i)
        /\ wave[i] \in Wave
    BY <1>0, <1>2 DEF Poll, GoodInv, TypeOK
  <2>2. cur' = IF cur < NumSensors-1 THEN cur + 1 ELSE 0
    BY <1>2 DEF Poll
  <2>3. CASE i = cur
    <3>1. i \in 0 .. NumSensors-1 /\ UntilPoll(i) = 0 /\ UntilPoll(i)' = NumSensors - 1
      BY <1>0, <2>2, <2>3 DEF UntilPoll
    <3>2. age[i] \in Nat /\ age'[i] \in Nat
      BY DEF DhtInv, TypeOK
    <3>3. LastPoll(i) = age[i] - NumSensors /\ LastPoll(i)' = age'[i] - 1
      BY <1>0, <3>1, <3>2 DEF LastPoll
    <3>4. /\ ~failed'[i]
          /\ state'[i] = "WaitForStartEnd" => low'[i]
          /\ InStep(state'[i], rx_bit'[i], age'[i], age'[i] - 1, left'[i], wave[i])
          /\ \/ rx_bit'[i] = rx_bit[i] /\ payload'[i] = payload[i]
             \/ rx_bit[i] < Bits /\ StoreNextBit(i, wave[i].data[rx_bit[i]])
      BY <1>0, <2>1, <2>3, <3>3, PollInStep DEF GoodSensor
    <3>5. payload'[i] = Received(wave[i].data, rx_bit'[i])
      BY <1>0, <2>1, <3>4, StoredBit DEF GoodSensor
    <3> QED
      BY <2>1, <3>3, <3>4, <3>5 DEF GoodSensor
  <2>4. CASE i # cur
    <3>1. i \in 0 .. NumSensors-1 /\ age[i] \in Nat /\ age'[i] \in Nat /\ left[i] \in Int
          /\ left'[i] \in Int /\ rx_bit[i] \in 0 .. Bits
      BY DEF DhtInv, TypeOK, Sensor
    <3>2. UntilPoll(i) \in 1 .. NumSensors-1 /\ UntilPoll(i)' = UntilPoll(i) - 1
      BY <1>0, <2>2, <2>4, <3>1 DEF UntilPoll
    <3>3. /\ state'[i] = state[i] /\ failed'[i] = failed[i] /\ rx_bit'[i] = rx_bit[i]
          /\ payload'[i] = payload[i] /\ low'[i] = low[i]
          /\ left'[i] = IF left[i] > -ExtensionTime THEN left[i] - 1 ELSE left[i]
          /\ age'[i] = IF age[i] > 0 /\ age[i] < Finished(wave[i]) THEN age[i] + 1 ELSE age[i]
      BY <1>0, <2>1, <2>4, OthersWait
    <3>4. left'[i] = left[i] - 1 \/ (left'[i] = left[i] /\ left[i] <= 0)
      BY <3>1, <3>3, DhtAssumption
    <3> DEFINE x == LastPoll(i)
    <3>5. x \in Int /\ x < age[i] /\ age[i] < x + NumSensors
          /\ LastPoll(i)' = x + (age'[i] - age[i]) - 1
      BY <1>0, <3>1, <3>2 DEF LastPoll
    <3>6. InStep(state[i], rx_bit[i], age[i], x, left[i], wave[i])
      BY <2>1 DEF GoodSensor
    <3> HIDE DEF x
    <3>7. InStep(state[i], rx_bit[i], age'[i], x + (age'[i] - age[i]) - 1, left'[i], wave[i])
      BY <2>1, <3>1, <3>3, <3>4, <3>5, <3>6, InStepWhileTimePasses
    <3> QED
      BY <2>1, <3>3, <3>5, <3>7 DEF GoodSensor
  <2> QED
    BY <2>3, <2>4
<1>3. CASE Reply
  BY <1>3 DEF Reply, GoodInv
<1>4. CASE Rest
  BY <1>4 DEF Rest, GoodInv
<1>5. CASE UNCHANGED vars
  BY <1>5 DEF vars, sensors, GoodInv, GoodSensor, LastPoll, UntilPoll
<1> QED
  BY <1>1, <1>2, <1>3, <1>4, <1>5 DEF Next

(* ... so what is replied of them is what they sent, for every number of   *)
(* sensors, every size of a record and every timing that fits: whatever    *)
(* the phase of the polls and whatever the other sensors do.               *)
THEOREM GoodTheorem == Spec => []GoodSensorsRead
<1>1. Init => OnlyStartPulse /\ GoodInv
  BY DEF Init, OnlyStartPulse, GoodInv
<1>2. DhtInv /\ DhtInv' /\ OnlyStartPulse /\ [Next]_vars => OnlyStartPulse'
  BY OnlyStartPulseStep
<1>3. DhtInv /\ DhtInv' /\ OnlyStartPulse /\ GoodInv /\ [Next]_vars => GoodInv'
  BY GoodInvStep
<1>4. DhtInv /\ GoodInv => GoodSensorsRead
  <2> SUFFICES ASSUME DhtInv, GoodInv, main = "reply", NEW i \in Sensor, ~noisy[i]
               PROVE  payload[i] = [kind |-> "bits", bytes |-> wave[i].data]
    BY DEF GoodSensorsRead
  <2>1. state[i] = "Done" /\ GoodSensor(i) /\ wave[i] \in Wave
    BY DEF DhtInv, PolledDone, GoodInv, TypeOK
  <2>2. rx_bit[i] = Bits /\ payload[i] = Received(wave[i].data, rx_bit[i])
    BY <2>1 DEF GoodSensor, InStep
  <2>3. wave[i].data \in [0 .. Bits-1 -> Bit] /\ Bits \in Nat
    BY <2>1, PulseTimes
  <2>4. [b \in 0 .. Bits-1 |-> IF b < Bits THEN wave[i].data[b] ELSE 0] = wave[i].data
    BY <2>3
  <2> QED
    BY <2>2, <2>4 DEF Received
<1> QED
  BY DhtInvariance, <1>1, <1>2, <1>3, <1>4, PTL DEF Spec

(* Step by step the firmware does what FirmwareLoop says: it takes a       *)
(* command only when it waits for one, and answers it once                 *)
(* (main.c:245-252).                                                       *)
THEOREM LoopTheorem == Spec => Loop!LoopSteps
<1> DEFINE loop == IF main = "reply" THEN "measure" ELSE main
<1>1. Init => Loop!LoopInit
  BY DEF Init, Loop!LoopInit
<1>2. [Next]_vars => [Loop!LoopNext]_loop
  <2>1. ASSUME Request
        PROVE  Loop!Receive
    BY <2>1 DEF Request, Loop!Receive
  <2>2. ASSUME Poll
        PROVE  loop' = loop
    BY <2>2 DEF Poll
  <2>3. ASSUME Reply
        PROVE  Loop!Answer
    BY <2>3 DEF Reply, Loop!Answer
  <2>4. ASSUME Rest
        PROVE  Loop!Rest
    BY <2>4 DEF Rest, Loop!Rest
  <2>5. ASSUME UNCHANGED vars
        PROVE  loop' = loop
    BY <2>5 DEF vars
  <2> QED
    BY <2>1, <2>2, <2>3, <2>4, <2>5 DEF Next, Loop!LoopNext
<1> QED
  BY <1>1, <1>2, PTL DEF Spec, Loop!LoopSteps
=============================================================================
