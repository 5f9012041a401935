------------------------------ MODULE MCDht22 ------------------------------
(* Timings for TLC in units of 5 us, rounded up for what the firmware      *)
(* waits, and to the nearest unit for what a sensor does.  StartTime is    *)
(* cut from 100 units to 3: nobody looks at the line while it is low.      *)
EXTENDS Dht22, TLC

MCSensorHigh == {(0 :> 5) @@ (1 :> 14), (0 :> 6) @@ (1 :> 14)}
=============================================================================
