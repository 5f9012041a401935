-------------------------------- MODULE Time --------------------------------
(***************************************************************************)
(* The clock of a PRU (lib/time) and the one way the firmware uses it: arm *)
(* a timer relative to now, poll it until it has expired, then arm it      *)
(* again or extend it.                                                     *)
(*                                                                         *)
(* Times are counts of CPU cycles modulo 2^32.  cycles, last_read and      *)
(* deadline are the real, unbounded times the firmware cannot see; the     *)
(* invariants compare what it computes with them.                          *)
(***************************************************************************)
EXTENDS Integers

CONSTANTS
  Modulus,    \* 2^32, the range of a time and of the CYCLECOUNT register
  Stopped,    \* cycles the counter stands still in time_get: 4 + 3 + 1 + 3
  Delays,     \* the delays timers are armed with
  Extensions, \* the delays timers are extended by
  MaxGap,     \* cycles between two calls of time_get while a timer is armed
  MaxCycles   \* bound: the life of the model

ASSUME TimeAssumption ==
  /\ Modulus \in Nat /\ Modulus > 0 /\ Modulus % 2 = 0
  /\ Stopped \in Nat
  /\ MaxGap \in Nat /\ MaxGap + Stopped < Modulus \div 2
  /\ Delays \subseteq 1 .. Modulus \div 2
  /\ Extensions \subseteq MaxGap + Stopped .. Modulus \div 2
  /\ MaxCycles \in Nat

VARIABLES
  counter,    \* PRU_THIS_CTRL.CYCLECOUNT
  time_now,   \* the static variable of time.c
  timer,      \* the timer field of owuart and of DHT22[i]
  mode,       \* idle, armed (not polled yet), waiting or expired
  cycles,     \* real cycles since the counter was first enabled
  last_read,  \* real time at which time_get last returned
  deadline    \* real time at which the timer is meant to expire

vars == <<counter, time_now, timer, mode, cycles, last_read, deadline>>

Mode == {"idle", "armed", "waiting", "expired"}

(* Type correctness: times and the counter are 32-bit numbers.             *)
TypeOK ==
  /\ counter \in 0 .. Modulus-1
  /\ time_now \in 0 .. Modulus-1
  /\ timer \in 0 .. Modulus-1
  /\ mode \in Mode
  /\ cycles \in Nat /\ last_read \in Nat /\ deadline \in Nat

Init ==
  /\ counter = 0 /\ time_now = 0 /\ timer = 0
  /\ mode = "idle"
  /\ cycles = 0 /\ last_read = 0 /\ deadline = 0

(* The sign bit of the difference.                                         *)
time_lt(t1, t2) == ((t1 - t2) % Modulus) >= Modulus \div 2

(* Mutant: times compared as plain integers.                               *)
time_ge_plain(t1, t2) == t1 >= t2

time_ge(t1, t2) == ~time_lt(t1, t2)

(* CYCLECOUNT stops at its largest value.                                  *)
Count(n, d) == IF n + d < Modulus THEN n + d ELSE Modulus - 1

(* Mutant: the counter is added as it was read.                            *)
GetTimeUncorrected ==
  /\ time_now' = (time_now + counter) % Modulus
  /\ counter' = 0
  /\ cycles' = cycles + Stopped
  /\ last_read' = cycles'

(* time_get: read and reset the stopped counter, correct for the cycles it *)
(* stood still.                                                            *)
GetTime ==
  /\ time_now' = (time_now + counter + Stopped) % Modulus
  /\ counter' = 0
  /\ cycles' = cycles + Stopped
  /\ last_read' = cycles'

(* The firmware does other work, or waits for a message, for d cycles.     *)
(* With a timer armed its loop comes round to time_get within MaxGap.      *)
Work(d) ==
  /\ cycles + d <= MaxCycles
  /\ mode = "idle" \/ counter + d <= MaxGap
  /\ cycles' = cycles + d
  /\ counter' = Count(counter, d)
  /\ UNCHANGED <<time_now, timer, mode, last_read, deadline>>

(* timer = time_get() + d                                                  *)
Arm(d) ==
  /\ mode \in {"idle", "expired"}
  /\ cycles + Stopped <= MaxCycles
  /\ GetTime
  /\ timer' = (time_now' + d) % Modulus
  /\ deadline' = cycles' + d
  /\ mode' = "armed"

(* if( time_ge(time_get(), timer) )                                        *)
Poll ==
  /\ mode \in {"armed", "waiting"}
  /\ cycles + Stopped <= MaxCycles
  /\ GetTime
  /\ mode' = IF time_ge(time_now', timer) THEN "expired" ELSE "waiting"
  /\ UNCHANGED <<timer, deadline>>

(* Mutant: the sum is kept in a wider variable.                            *)
ExtendUnreduced(d) ==
  /\ mode = "expired"
  /\ timer' = timer + d
  /\ deadline' = deadline + d
  /\ mode' = "armed"
  /\ UNCHANGED <<counter, time_now, cycles, last_read>>

(* timer += d, which counts from when the timer should have been seen to   *)
(* expire, not from when it was.                                           *)
Extend(d) ==
  /\ mode = "expired"
  /\ timer' = (timer + d) % Modulus
  /\ deadline' = deadline + d
  /\ mode' = "armed"
  /\ UNCHANGED <<counter, time_now, cycles, last_read>>

(* The firmware has no more use for the timer.                             *)
Drop ==
  /\ mode # "idle"
  /\ mode' = "idle"
  /\ UNCHANGED <<counter, time_now, timer, cycles, last_read, deadline>>

Next ==
  \/ Poll \/ Drop
  \/ \E d \in 1 .. Modulus : Work(d)
  \/ \E d \in Delays : Arm(d)
  \/ \E d \in Extensions : Extend(d)

Spec == Init /\ [][Next]_vars

----------------------------------------------------------------------------
(* The distance from the timer to now is the distance from the deadline to *)
(* the last reading, however often the clock has wrapped, and however long *)
(* the counter stood saturated before the timer was armed (time.h:4-5 asks *)
(* for a call every 21 seconds; main.c:253-257 makes none while idle).     *)
TimerTracksDeadline ==
  mode # "idle" =>
    ((time_now - timer) % Modulus) = ((last_read - deadline) % Modulus)

(* A timer that is seen to expire has expired.                             *)
NeverEarly == mode = "expired" => last_read >= deadline

(* A timer that has expired is seen to expire at the next poll: a late     *)
(* poll does not mistake it for one that is half the clock's range away.   *)
NeverMissed == mode = "waiting" => last_read < deadline
=============================================================================
