---------------------------- MODULE Time_proofs ----------------------------
(***************************************************************************)
(* Timers on an overflowing clock are right for ever, for every width of   *)
(* the clock, as long as they are polled in time.                          *)
(***************************************************************************)
EXTENDS Time, Lemmas

(* How far a timer can lie before (negative) or after the last reading.    *)
Distance ==
  /\ mode = "armed"   => deadline - last_read \in 0 .. Modulus \div 2
  /\ mode = "waiting" => deadline - last_read \in 1 .. Modulus \div 2
  /\ mode = "expired" => deadline - last_read \in -(MaxGap + Stopped) .. 0

(* While a timer is armed the counter holds every cycle since the reading. *)
Counted == mode # "idle" => counter = cycles - last_read /\ counter <= MaxGap

TimeInv == TypeOK /\ Counted /\ TimerTracksDeadline /\ Distance

(* The modulus is twice its half.                                          *)
LEMMA HalfRange ==
  /\ Modulus \in Nat \ {0}
  /\ Modulus \div 2 \in Nat \ {0}
  /\ Modulus = 2 * (Modulus \div 2)
  BY TimeAssumption

(* The invariant holds when the counter is first enabled.                  *)
LEMMA InitTimeInv == Init => TimeInv
  BY HalfRange DEF Init, TimeInv, TypeOK, Mode, Counted, TimerTracksDeadline, Distance

(* time_lt looks at the sign bit: within half the range of each other two  *)
(* times compare like the distances they stand for.                        *)
LEMMA TimeLt ==
  ASSUME NEW t1 \in Int, NEW t2 \in Int, NEW dist \in Int,
         dist >= -(Modulus \div 2), dist < Modulus \div 2,
         ((t1 - t2) % Modulus) = (dist % Modulus)
  PROVE  time_lt(t1, t2) <=> dist < 0
<1>1. PICK h \in Nat \ {0} : h = Modulus \div 2 /\ Modulus = 2 * h
  BY HalfRange
<1>2. dist \in -h .. h-1
  BY <1>1
<1>3. ((dist % (2 * h)) >= h) <=> dist < 0
  BY <1>2, SignBit
<1> QED
  BY <1>1, <1>3 DEF time_lt

(* A time is a remainder.                                                  *)
LEMMA ModType == \A x \in Int : (x % Modulus) \in 0 .. Modulus-1
  BY HalfRange, ModRange

(* Cycles between two calls of time_get are in the counter.                *)
LEMMA WorkInv ==
  ASSUME TimeInv, NEW d \in 1 .. Modulus, Work(d)
  PROVE  TimeInv'
<1> USE HalfRange, TimeAssumption DEF TimeInv, TypeOK, Work
<1>1. Count(counter, d) \in 0 .. Modulus-1
  BY DEF Count
<1>2. TypeOK'
  BY <1>1
<1>3. Counted'
  <2>1. CASE mode # "idle"
    <3>1. counter + d < Modulus /\ counter + d <= MaxGap
      BY <2>1
    <3>2. counter' = counter + d
      BY <3>1 DEF Count
    <3> QED
      BY <2>1, <3>1, <3>2 DEF Counted
  <2>2. CASE mode = "idle"
    BY <2>2 DEF Counted
  <2> QED
    BY <2>1, <2>2
<1>4. TimerTracksDeadline' /\ Distance'
  BY DEF TimerTracksDeadline, Distance
<1> QED
  BY <1>2, <1>3, <1>4

(* A timer armed at now + d is d away from now.                            *)
LEMMA ArmInv ==
  ASSUME TimeInv, NEW d \in Delays, Arm(d)
  PROVE  TimeInv'
<1>1. d \in 1 .. Modulus \div 2 /\ d \in Int /\ Stopped \in Nat
  BY TimeAssumption
<1>2. /\ time_now' = (time_now + counter + Stopped) % Modulus
      /\ counter' = 0 /\ cycles' = cycles + Stopped /\ last_read' = cycles'
      /\ timer' = (time_now' + d) % Modulus
      /\ deadline' = cycles' + d /\ mode' = "armed"
  BY DEF Arm, GetTime
<1>3. /\ counter \in Int /\ time_now \in Int /\ cycles \in Nat
  BY HalfRange DEF TimeInv, TypeOK
<1>4. time_now' \in 0 .. Modulus-1 /\ timer' \in 0 .. Modulus-1 /\ counter' \in 0 .. Modulus-1
  <2>1. time_now' \in 0 .. Modulus-1
    BY <1>1, <1>2, <1>3, ModType
  <2>2. time_now' + d \in Int
    BY <1>1, <2>1
  <2> QED
    BY <1>2, <2>1, <2>2, ModType, HalfRange
<1>5. TypeOK'
  BY <1>1, <1>2, <1>3, <1>4, HalfRange DEF TypeOK, Mode
<1>6. Counted'
  BY <1>1, <1>2, <1>3, TimeAssumption DEF Counted
<1>7. TimerTracksDeadline'
  <2>1. PICK t \in Int : t = time_now'
    BY <1>4
  <2>2. PICK s \in Int : s = t + d
    BY <1>1
  <2>3. ((t - (s % Modulus)) % Modulus) = ((t - s) % Modulus)
    BY HalfRange, ModSub
  <2>4. t - s = last_read' - deadline'
    BY <1>1, <1>2, <1>3, <2>2
  <2> QED
    BY <1>2, <2>1, <2>2, <2>3, <2>4 DEF TimerTracksDeadline
<1>8. Distance'
  BY <1>1, <1>2, <1>3, HalfRange DEF Distance
<1> QED
  BY <1>5, <1>6, <1>7, <1>8 DEF TimeInv

(* A poll in time sees the sign of the distance.                           *)
LEMMA PollInv ==
  ASSUME TimeInv, Poll
  PROVE  TimeInv'
<1>1. Stopped \in Nat /\ MaxGap \in Nat /\ MaxGap + Stopped < Modulus \div 2
  BY TimeAssumption
<1>2. /\ time_now' = (time_now + counter + Stopped) % Modulus
      /\ counter' = 0 /\ cycles' = cycles + Stopped /\ last_read' = cycles'
      /\ timer' = timer /\ deadline' = deadline
      /\ mode' = IF time_ge(time_now', timer) THEN "expired" ELSE "waiting"
      /\ mode \in {"armed", "waiting"}
  BY DEF Poll, GetTime
<1>3. /\ counter \in Nat /\ time_now \in Int /\ cycles \in Nat /\ timer \in Int
      /\ last_read \in Nat /\ deadline \in Nat
      /\ timer \in 0 .. Modulus-1
  BY HalfRange DEF TimeInv, TypeOK
<1>4. time_now' \in 0 .. Modulus-1
  BY <1>1, <1>2, <1>3, ModType
<1>5. TypeOK'
  BY <1>1, <1>2, <1>3, <1>4, HalfRange DEF TypeOK, Mode
<1>6. Counted'
  BY <1>1, <1>2, <1>3 DEF Counted
<1>k. PICK k \in Int : k = counter + Stopped /\ k >= 0 /\ k <= MaxGap + Stopped
  BY <1>1, <1>2, <1>3 DEF TimeInv, Counted
<1>l. last_read' = last_read + k
  BY <1>1, <1>2, <1>3, <1>k DEF TimeInv, Counted
<1>7. ((time_now' - timer) % Modulus) = ((last_read' - deadline) % Modulus)
  <2>1. PICK x \in Int, y \in Int, u \in Int :
          x = time_now - timer /\ y = last_read - deadline /\ u = time_now + k
    BY <1>3
  <2>2. (x % Modulus) = (y % Modulus)
    BY <1>2, <2>1 DEF TimeInv, TimerTracksDeadline
  <2>3. (((x % Modulus) + k) % Modulus) = ((x + k) % Modulus)
    BY HalfRange, ModAdd
  <2>4. (((y % Modulus) + k) % Modulus) = ((y + k) % Modulus)
    BY HalfRange, ModAdd
  <2>5. (((u % Modulus) + (-timer)) % Modulus) = ((u + (-timer)) % Modulus)
    <3>1. PICK m \in Int : m = -timer
      BY <1>3
    <3>2. (((u % Modulus) + m) % Modulus) = ((u + m) % Modulus)
      BY HalfRange, ModAdd
    <3> QED
      BY <3>1, <3>2
  <2>6. time_now' = (u % Modulus)
    <3>1. time_now + counter + Stopped = u
      BY <1>1, <1>3, <1>k, <2>1
    <3> QED
      BY <1>2, <3>1
  <2>7. u + (-timer) = x + k /\ last_read' - deadline = y + k
    BY <1>3, <1>l, <2>1
  <2>8. time_now' - timer = (u % Modulus) + (-timer)
    BY <1>3, <1>4, <2>6
  <2> QED
    BY <2>2, <2>3, <2>4, <2>5, <2>7, <2>8
<1>8. TimerTracksDeadline'
  BY <1>2, <1>7 DEF TimerTracksDeadline
<1>9. PICK d \in Int : d = last_read' - deadline /\ d >= -(Modulus \div 2) /\ d <= MaxGap + Stopped
  BY <1>1, <1>2, <1>3, <1>k, <1>l, HalfRange DEF TimeInv, Distance
<1>10. time_lt(time_now', timer) <=> d < 0
  <2>1. d < Modulus \div 2
    BY <1>1, <1>9, HalfRange
  <2> QED
    BY <1>3, <1>4, <1>7, <1>9, <2>1, TimeLt
<1>11. Distance'
  <2>1. CASE d < 0
    <3>1. mode' = "waiting" /\ deadline' - last_read' = -d
      BY <1>2, <1>3, <1>9, <1>10, <1>l, <2>1 DEF time_ge
    <3> QED
      BY <1>9, <2>1, <3>1, HalfRange DEF Distance
  <2>2. CASE d >= 0
    <3>1. mode' = "expired" /\ deadline' - last_read' = -d
      BY <1>2, <1>3, <1>9, <1>10, <1>l, <2>2 DEF time_ge
    <3> QED
      BY <1>1, <1>9, <2>2, <3>1 DEF Distance
  <2> QED
    BY <2>1, <2>2
<1> QED
  BY <1>5, <1>6, <1>8, <1>11 DEF TimeInv

(* An extended timer counts from its deadline, and lies ahead of the last  *)
(* reading again.                                                          *)
LEMMA ExtendInv ==
  ASSUME TimeInv, NEW d \in Extensions, Extend(d)
  PROVE  TimeInv'
<1>1. d \in Int /\ d >= MaxGap + Stopped /\ d <= Modulus \div 2
      /\ Stopped \in Nat /\ MaxGap \in Nat
  BY TimeAssumption
<1>2. /\ timer' = (timer + d) % Modulus /\ deadline' = deadline + d
      /\ mode = "expired" /\ mode' = "armed"
      /\ UNCHANGED <<counter, time_now, cycles, last_read>>
  BY DEF Extend
<1>3. /\ counter \in 0 .. Modulus-1 /\ time_now \in 0 .. Modulus-1 /\ cycles \in Nat
      /\ timer \in Int /\ last_read \in Nat /\ deadline \in Nat
  BY HalfRange DEF TimeInv, TypeOK
<1>4. timer' \in 0 .. Modulus-1
  BY <1>1, <1>2, <1>3, ModType
<1>5. TypeOK'
  BY <1>1, <1>2, <1>3, <1>4 DEF TypeOK, Mode
<1>6. Counted'
  BY <1>2 DEF TimeInv, Counted
<1>7. TimerTracksDeadline'
  <2>1. PICK x \in Int, y \in Int, s \in Int, m \in Int :
          /\ x = time_now - timer /\ y = last_read - deadline
          /\ s = timer + d /\ m = -d
    BY <1>1, <1>3
  <2>2. (x % Modulus) = (y % Modulus)
    BY <1>2, <2>1 DEF TimeInv, TimerTracksDeadline
  <2>3. (((x % Modulus) + m) % Modulus) = ((x + m) % Modulus)
    BY HalfRange, ModAdd
  <2>4. (((y % Modulus) + m) % Modulus) = ((y + m) % Modulus)
    BY HalfRange, ModAdd
  <2>5. ((time_now - (s % Modulus)) % Modulus) = ((time_now - s) % Modulus)
    <3>1. time_now \in Int
      BY <1>3, HalfRange
    <3> QED
      BY <3>1, HalfRange, ModSub
  <2>6. time_now - s = x + m /\ last_read' - deadline' = y + m
    BY <1>1, <1>2, <1>3, <2>1
  <2>7. time_now' - timer' = time_now - (s % Modulus)
    BY <1>2, <2>1
  <2> QED
    BY <2>2, <2>3, <2>4, <2>5, <2>6, <2>7 DEF TimerTracksDeadline
<1>8. Distance'
  BY <1>1, <1>2, <1>3, HalfRange DEF TimeInv, Distance
<1> QED
  BY <1>5, <1>6, <1>7, <1>8 DEF TimeInv

(* The invariant is inductive.                                             *)
LEMMA NextTimeInv == TimeInv /\ [Next]_vars => TimeInv'
<1> SUFFICES ASSUME TimeInv, [Next]_vars PROVE TimeInv'
  OBVIOUS
<1>1. CASE Poll
  BY <1>1, PollInv
<1>2. CASE Drop
  BY <1>2 DEF Drop, TimeInv, TypeOK, Mode, Counted, TimerTracksDeadline, Distance
<1>3. ASSUME NEW d \in 1 .. Modulus, Work(d) PROVE TimeInv'
  BY <1>3, WorkInv
<1>4. ASSUME NEW d \in Delays, Arm(d) PROVE TimeInv'
  BY <1>4, ArmInv
<1>5. ASSUME NEW d \in Extensions, Extend(d) PROVE TimeInv'
  BY <1>5, ExtendInv
<1>6. CASE UNCHANGED vars
  BY <1>6 DEF vars, TimeInv, TypeOK, Counted, TimerTracksDeadline, Distance
<1> QED
  BY <1>1, <1>2, <1>3, <1>4, <1>5, <1>6 DEF Next

(* The invariant holds throughout.                                         *)
LEMMA TimeInvariant == Spec => []TimeInv
  BY InitTimeInv, NextTimeInv, PTL DEF Spec

(* Type correctness, for every width of the clock.                         *)
THEOREM TimeTypes == Spec => []TypeOK
<1>1. TimeInv => TypeOK
  BY DEF TimeInv
<1> QED
  BY <1>1, TimeInvariant, PTL

(* time_now and the timer keep their distance to the real times they stand *)
(* for through every overflow and every idle period, for every modulus.    *)
THEOREM TimersTrack == Spec => []TimerTracksDeadline
<1>1. TimeInv => TimerTracksDeadline
  BY DEF TimeInv
<1> QED
  BY <1>1, TimeInvariant, PTL

(* No timer of the firmware is ever seen to expire early.                  *)
THEOREM TimersNeverEarly == Spec => []NeverEarly
<1>1. TimeInv => NeverEarly
  BY TimeAssumption DEF TimeInv, TypeOK, Distance, NeverEarly
<1> QED
  BY <1>1, TimeInvariant, PTL

(* A timer that has expired is never mistaken for one still to run.        *)
THEOREM TimersNeverMissed == Spec => []NeverMissed
<1>1. TimeInv => NeverMissed
  BY TimeAssumption DEF TimeInv, TypeOK, Distance, NeverMissed
<1> QED
  BY <1>1, TimeInvariant, PTL
=============================================================================
