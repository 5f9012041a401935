------------------------------- MODULE Dht22 -------------------------------
(***************************************************************************)
(* The temperature sensor firmware (thermo/DHT22/main.c): for every        *)
(* request it reads NumSensors sensors in parallel, polling them in turn,  *)
(* and replies with one record per sensor.                                 *)
(*                                                                         *)
(* A sensor is external.  A good one answers with the pulses of its data   *)
(* sheet, within the tolerances given; any other one is noise: it reads as *)
(* anything at any time, which covers a missing, stuck, late or dying      *)
(* sensor.  Time is counted in polls, so a poll takes one unit; the        *)
(* comments below give the times of main.c, and of the data sheet.         *)
(***************************************************************************)
EXTENDS Integers, Sequences

CONSTANTS
  NumSensors,        \* NUM_SENSORS
  BitsPerByte,       \* 8
  Bytes,             \* bytes of a record, 5
  StartTime,         \* 500 us, the start pulse
  ResponseTime,      \* 40 us + 10%, until the sensor responds
  PulseTime,         \* 80 us + 10%, for each half of its response
  ReleaseTime,       \* 100 us, the low part of a bit
  DecisionTime,      \* 50 us, decision point between 0 and 1
  ExtensionTime,     \* 27 us, how much longer a 1 may last
  SensorDelay,       \* sensor: times it may take to respond, 20 to 40 us
  SensorPulse,       \* sensor: half of its response, 80 us
  SensorLow,         \* sensor: low part of a bit, 50 us
  SensorHigh         \* sensor: possible high parts of a 0 and a 1, 26 and 70 us

Sensor == 0 .. NumSensors-1
Bits   == BitsPerByte * Bytes
Bit    == {0, 1}

ASSUME DhtAssumption ==
  /\ NumSensors \in Nat \ {0}
  /\ BitsPerByte \in 1 .. 8 /\ Bytes \in 1 .. 5
  /\ StartTime \in Nat /\ ResponseTime \in Nat /\ PulseTime \in Nat
  /\ ReleaseTime \in Nat /\ DecisionTime \in Nat /\ ExtensionTime \in Nat
  /\ SensorDelay # {} /\ SensorHigh # {}

(* Every pulse of a good sensor takes some time, ...                       *)
ASSUME SensorAssumption ==
  /\ SensorDelay \subseteq Nat \ {0} /\ SensorHigh \subseteq [Bit -> Nat]
  /\ SensorPulse \in Nat \ {0} /\ SensorLow \in Nat \ {0}

(* ... no more than the firmware waits for it, and enough for the polls of *)
(* one sensor, which are NumSensors apart, to find it.  A 1 is still there *)
(* at a poll after the decision point, whenever its start was noticed.     *)
TimesFit ==
  /\ \A d \in SensorDelay : d <= ResponseTime
  /\ NumSensors <= SensorPulse /\ SensorPulse <= PulseTime
  /\ 2 * NumSensors <= SensorLow /\ SensorLow <= ReleaseTime
  /\ \A h \in SensorHigh :
       /\ NumSensors <= h[0] /\ h[0] <= DecisionTime
       /\ DecisionTime + 2 * NumSensors <= h[1] + 1 /\ h[1] <= DecisionTime + ExtensionTime

ASSUME TimingAssumption == TimesFit

VARIABLES
  main,            \* main(): wait for a request, measure, reply, rest
  cur, done,       \* do_measurements(): loop variable and done flag
  state, failed,   \* DHT22[i].state without its bit 0x80, and that bit
  rx_bit,          \* DHT22[i].rx_bit, byte and bit number in one
  left,            \* DHT22[i].timer, relative to now
  payload,         \* the record of each sensor
  low,             \* the firmware pulls the line low
  noisy,           \* sensor: does not follow its data sheet
  wave, age        \* good sensor: what it will send, time since its start pulse

sensors == <<state, failed, rx_bit, left, payload, low>>
vars    == <<main, cur, done, sensors, noisy, wave, age>>

dht22_state ==
  <<"SendStart", "WaitForStartEnd", "WaitForSensorResponse", "WaitForSensorResponseEnd",
    "WaitForBit", "BitStart", "WaitForBitRelease", "ReadBit0", "ReadBit1", "Done">>

State     == {dht22_state[n] : n \in 1 .. 10}
Number(s) == CHOOSE n \in 0 .. 9 : dht22_state[n+1] = s

Data    == [0 .. Bits-1 -> Bit]
Wave    == [data : Data, delay : SensorDelay, high : SensorHigh]
Record  == [kind : {"bits"}, bytes : Data]
Failure == [kind : {"failure"},
            bytes : {255} \X (128 .. 137) \X (0 .. BitsPerByte-1) \X (0 .. Bytes) \X {254}]

(* Type correctness.  A failure record names a bit number below 8 and a    *)
(* byte number up to 5.                                                    *)
TypeOK ==
  /\ main \in {"wait", "measure", "reply", "rest"}
  /\ cur \in Sensor /\ done \in BOOLEAN
  /\ state \in [Sensor -> State]
  /\ failed \in [Sensor -> BOOLEAN]
  /\ rx_bit \in [Sensor -> 0 .. Bits]
  /\ left \in [Sensor -> Int]
  /\ payload \in [Sensor -> Record \cup Failure]
  /\ low \in [Sensor -> BOOLEAN]
  /\ noisy \in [Sensor -> BOOLEAN]
  /\ wave \in [Sensor -> Wave]
  /\ age \in [Sensor -> Nat]

Quiet == CHOOSE w \in Wave : TRUE
Empty == [kind |-> "bits", bytes |-> [b \in 0 .. Bits-1 |-> 0]]

Init ==
  /\ main = "wait" /\ cur = 0 /\ done = TRUE
  /\ state = [i \in Sensor |-> "SendStart"]
  /\ failed = [i \in Sensor |-> FALSE]
  /\ rx_bit = [i \in Sensor |-> 0]
  /\ left = [i \in Sensor |-> 0]
  /\ payload = [i \in Sensor |-> Empty]
  /\ low = [i \in Sensor |-> FALSE]
  /\ noisy = [i \in Sensor |-> FALSE]
  /\ wave = [i \in Sensor |-> Quiet]
  /\ age = [i \in Sensor |-> 0]

----------------------------------------------------------------------------
(* A good sensor: two pulses of response, then each bit as a low part and  *)
(* a high part whose length is its value, then a last low part.            *)

LowPart(w) ==
  LET start[n \in 0 .. Bits] ==
        IF n = 0 THEN w.delay + 2 * SensorPulse
        ELSE start[n-1] + (SensorLow + w.high[w.data[n-1]])
  IN  start

PullsLow(w, t) ==
  \/ w.delay <= t /\ t < w.delay + SensorPulse
  \/ \E n \in 0 .. Bits : LowPart(w)[n] <= t /\ t < LowPart(w)[n] + SensorLow

Finished(w) == LowPart(w)[Bits] + SensorLow

(* What read_input(i) can return.                                          *)
Levels(i) ==
  IF noisy[i] THEN Bit
  ELSE IF low[i] \/ PullsLow(wave[i], age[i]) THEN {0} ELSE {1}

----------------------------------------------------------------------------
(* One poll of sensor i: one case of the switch.  Each sets all of         *)
(* sensors; the timer is set before the time the poll takes has passed.    *)

Expired(i) == left[i] <= 0

(* A unit of time passes: timers run down, as far as it matters, and a     *)
(* good sensor moves on from the end of its start pulse.                   *)
Elapse(timers) ==
  /\ left' = [i \in Sensor |->
                IF timers[i] > -ExtensionTime THEN timers[i] - 1 ELSE timers[i]]
  /\ age' = [i \in Sensor |->
               IF (age[i] > 0 /\ age[i] < Finished(wave[i])) \/ (low[i] /\ ~low'[i] /\ ~noisy[i])
                 THEN age[i] + 1 ELSE age[i]]

SetTimer(i, t) == Elapse([left EXCEPT ![i] = t])
KeepTimer      == Elapse(left)

Goto(i, s)  == state' = [state EXCEPT ![i] = s] /\ UNCHANGED failed
Fail(i)     == failed' = [failed EXCEPT ![i] = TRUE] /\ UNCHANGED state
Stay        == UNCHANGED <<state, failed>>

SendStart(i) ==
  /\ state[i] = "SendStart"
  /\ low' = [low EXCEPT ![i] = TRUE]
  /\ Goto(i, "WaitForStartEnd")
  /\ SetTimer(i, StartTime)
  /\ UNCHANGED <<rx_bit, payload>>

(* Mutant: the line is not let go.                                         *)
WaitForStartEndHeld(i) ==
  /\ state[i] = "WaitForStartEnd"
  /\ UNCHANGED <<rx_bit, payload, low>>
  /\ IF Expired(i)
       THEN Goto(i, "WaitForSensorResponse") /\ SetTimer(i, ResponseTime)
       ELSE Stay /\ KeepTimer

WaitForStartEnd(i) ==
  /\ state[i] = "WaitForStartEnd"
  /\ IF Expired(i)
       THEN /\ low' = [low EXCEPT ![i] = FALSE]
            /\ Goto(i, "WaitForSensorResponse")
            /\ SetTimer(i, ResponseTime)
       ELSE UNCHANGED low /\ Stay /\ KeepTimer
  /\ UNCHANGED <<rx_bit, payload>>

(* Mutants: a time-out is not noticed; the last bit is counted wrongly.    *)
NotYetForever(i)   == Stay /\ KeepTimer
RecordFullLate(i)  == rx_bit[i] > Bits
RecordFullEarly(i) == rx_bit[i] >= Bits - 1

RecordFull(i) == rx_bit[i] >= Bits

(* Waiting for a level: an answer in the very poll that finds the time out *)
(* is still taken, since the level is looked at after the timer.           *)
NotYet(i) ==
  /\ IF Expired(i) THEN Fail(i) ELSE Stay
  /\ KeepTimer

WaitForSensorResponse(i) ==
  /\ state[i] = "WaitForSensorResponse"
  /\ \E level \in Levels(i) :
       IF level = 0
         THEN Goto(i, "WaitForSensorResponseEnd") /\ SetTimer(i, PulseTime)
         ELSE NotYet(i)
  /\ UNCHANGED <<rx_bit, payload, low>>

WaitForSensorResponseEnd(i) ==
  /\ state[i] = "WaitForSensorResponseEnd"
  /\ \E level \in Levels(i) :
       IF level = 1
         THEN Goto(i, "WaitForBit") /\ SetTimer(i, PulseTime)
         ELSE NotYet(i)
  /\ UNCHANGED <<rx_bit, payload, low>>

WaitForBit(i) ==
  /\ state[i] = "WaitForBit"
  /\ \E level \in Levels(i) :
       IF level = 0 THEN Goto(i, "BitStart") /\ KeepTimer ELSE NotYet(i)
  /\ UNCHANGED <<rx_bit, payload, low>>

BitStart(i) ==
  /\ state[i] = "BitStart"
  /\ Goto(i, "WaitForBitRelease")
  /\ SetTimer(i, ReleaseTime)
  /\ UNCHANGED <<rx_bit, payload, low>>

WaitForBitRelease(i) ==
  /\ state[i] = "WaitForBitRelease"
  /\ \E level \in Levels(i) :
       \/ level = 1 /\ RecordFull(i) /\ Goto(i, "Done") /\ KeepTimer
       \/ level = 1 /\ ~RecordFull(i) /\ Goto(i, "ReadBit0") /\ SetTimer(i, DecisionTime)
       \/ level = 0 /\ NotYet(i)
  /\ UNCHANGED <<rx_bit, payload, low>>

(* store_next_bit: the bit is OR-ed into the buffer.                       *)
StoreNextBit(i, b) ==
  /\ payload' = [payload EXCEPT ![i].bytes[rx_bit[i]] = IF b = 1 THEN 1 ELSE @]
  /\ rx_bit' = [rx_bit EXCEPT ![i] = @ + 1]

ReadBit0(i) ==
  /\ state[i] = "ReadBit0"
  /\ \E level \in Levels(i) :
       IF level = 0
         THEN StoreNextBit(i, 0) /\ Goto(i, "BitStart") /\ KeepTimer
         ELSE /\ IF Expired(i)
                   THEN Goto(i, "ReadBit1") /\ SetTimer(i, left[i] + ExtensionTime)
                   ELSE Stay /\ KeepTimer
              /\ UNCHANGED <<rx_bit, payload>>
  /\ UNCHANGED low

ReadBit1(i) ==
  /\ state[i] = "ReadBit1"
  /\ \E level \in Levels(i) :
       IF level = 0
         THEN StoreNextBit(i, 1) /\ Goto(i, "BitStart") /\ KeepTimer
         ELSE NotYet(i) /\ UNCHANGED <<rx_bit, payload>>
  /\ UNCHANGED low

(* Mutants: the whole of rx_bit goes where the bit number should; the sum  *)
(* is made up like that of a record.                                       *)
FailureBytesWide(s, rx)   == <<255, 128 + Number(s), rx, 0, 254>>
FailureBytesSummed(s, rx) ==
  <<255, 128 + Number(s), rx % BitsPerByte, rx \div BitsPerByte,
    (127 + Number(s) + (rx % BitsPerByte) + (rx \div BitsPerByte)) % 256>>

FailureBytes(s, rx) ==
  <<255, 128 + Number(s), rx % BitsPerByte, rx \div BitsPerByte, 254>>

(* default: the state of a sensor whose time was out, in place of a record.*)
ReportFailure(i) ==
  /\ low' = [low EXCEPT ![i] = FALSE]
  /\ payload' = [payload EXCEPT ![i] =
       [kind |-> "failure", bytes |-> FailureBytes(state[i], rx_bit[i])]]
  /\ state' = [state EXCEPT ![i] = "Done"]
  /\ failed' = [failed EXCEPT ![i] = FALSE]
  /\ KeepTimer
  /\ UNCHANGED rx_bit

SkipDone(i) ==
  /\ state[i] = "Done"
  /\ Stay /\ KeepTimer
  /\ UNCHANGED <<rx_bit, payload, low>>

PollSensor(i) ==
  \/ failed[i] /\ ReportFailure(i)
  \/ /\ ~failed[i]
     /\ \/ SendStart(i) \/ WaitForStartEnd(i)
        \/ WaitForSensorResponse(i) \/ WaitForSensorResponseEnd(i)
        \/ WaitForBit(i) \/ BitStart(i) \/ WaitForBitRelease(i)
        \/ ReadBit0(i) \/ ReadBit1(i) \/ SkipDone(i)

(* The for loop inside the while loop: done looks at the state each sensor *)
(* had before it was polled.                                               *)
Poll ==
  /\ main = "measure"
  /\ PollSensor(cur)
  /\ LET all == done /\ state[cur] = "Done" /\ ~failed[cur] IN
     IF cur < NumSensors - 1
       THEN cur' = cur + 1 /\ done' = all /\ UNCHANGED main
       ELSE /\ cur' = 0
            /\ done' = TRUE
            /\ main' = IF all THEN "reply" ELSE "measure"
  /\ UNCHANGED <<noisy, wave>>

----------------------------------------------------------------------------
(* Mutant: the bits of the previous reply are not cleared.                 *)
KeepPayload ==
  payload' = [i \in Sensor |-> IF payload[i].kind = "bits" THEN payload[i] ELSE Empty]

ClearPayload == payload' = [i \in Sensor |-> Empty]

(* main(): take a request, clear the records and all of DHT22, measure.    *)
Request ==
  /\ main = "wait"
  /\ main' = "measure" /\ cur' = 0 /\ done' = TRUE
  /\ ClearPayload
  /\ state' = [i \in Sensor |-> "SendStart"]
  /\ failed' = [i \in Sensor |-> FALSE]
  /\ rx_bit' = [i \in Sensor |-> 0]
  /\ left' = [i \in Sensor |-> 0]
  /\ UNCHANGED low
  /\ age' = [i \in Sensor |-> 0]
  /\ noisy' \in [Sensor -> BOOLEAN]
  /\ wave' \in {w \in [Sensor -> Wave] : \A i \in Sensor : noisy'[i] => w[i] = Quiet}

(* rpmsg_send, whose result is ignored. *)
Reply ==
  /\ main = "reply"
  /\ main' = "rest"
  /\ UNCHANGED <<cur, done, sensors, noisy, wave, age>>

(* Two seconds in which every sensor comes to rest.                        *)
Rest ==
  /\ main = "rest"
  /\ main' = "wait"
  /\ UNCHANGED <<cur, done, sensors, noisy, wave, age>>

Next == Request \/ Poll \/ Reply \/ Rest

Spec == Init /\ [][Next]_vars

(* The PRU runs on.  Nobody is obliged to send a request.                  *)
FairSpec == Spec /\ WF_vars(Poll \/ Reply \/ Rest)

----------------------------------------------------------------------------
(* store_next_bit stays in the record of its own sensor, whatever the line *)
(* does: a bit is only read while there is room for it.                    *)
StoresInOwnRecord ==
  \A i \in Sensor : state[i] \in {"ReadBit0", "ReadBit1"} => rx_bit[i] < Bits

(* A good sensor's record is what the sensor sent, whatever the phase of   *)
(* the polls, the other sensors and the measurement before.                *)
GoodSensorsRead ==
  main = "reply" =>
    \A i \in Sensor : ~noisy[i] => payload[i] = [kind |-> "bits", bytes |-> wave[i].data]

(* A reply never holds a record that is only partly received: it is        *)
(* complete, or it is marked as a failure.                                 *)
RecordsComplete ==
  main = "reply" => \A i \in Sensor : payload[i].kind = "failure" \/ rx_bit[i] = Bits

(* Nobody is driving a line the other side drives, and the firmware leaves *)
(* every line to the sensor when it is done.                               *)
LinesReleased ==
  \A i \in Sensor :
    low[i] => /\ state[i] = "WaitForStartEnd" /\ main = "measure"
              /\ noisy[i] \/ ~PullsLow(wave[i], age[i])

(* What the readers make of five bytes (decode.pl:22-26, dht22.py:33-35):  *)
(* a record, if the sum of the first four fits.                            *)
Accepted(b) == (b[1] + b[2] + b[3] + b[4]) % 256 = b[5]

(* A failure is never taken for a measurement, whatever state the sensor   *)
(* was lost in and however many bits it had sent by then: "Checksum is     *)
(* guaranteed to fail" (main.c:206).                                       *)
FailuresRejected ==
  main = "reply" =>
    \A i \in Sensor : payload[i].kind = "failure" => ~Accepted(payload[i].bytes)

(* The firmware is the loop that FirmwareLoop promises.  In particular a   *)
(* measurement ends, whatever the lines do: every wait in do_measurements  *)
(* has a timer, so no sensor can keep the others waiting.                  *)
Loop == INSTANCE FirmwareLoop WITH loop <- IF main = "reply" THEN "measure" ELSE main

ImplementsLoop == Loop!LoopSpec
=============================================================================
