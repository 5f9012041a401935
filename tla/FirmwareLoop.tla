---------------------------- MODULE FirmwareLoop ----------------------------
(***************************************************************************)
(* What the main loop of the DHT22 firmware (thermo/DHT22/main.c:245-258)  *)
(* promises whoever sends it commands: it takes one at a time, answers it  *)
(* once and in a finite time, and comes back for the next.  Dht22          *)
(* implements this, Measurement is built on it.                            *)
(***************************************************************************)
VARIABLE loop    \* waiting for a command, measuring, resting

LoopInit == loop = "wait"

Receive == loop = "wait" /\ loop' = "measure"
Answer  == loop = "measure" /\ loop' = "rest"
Rest    == loop = "rest" /\ loop' = "wait"

LoopNext == Receive \/ Answer \/ Rest

LoopSteps == LoopInit /\ [][LoopNext]_loop

(* Nobody has to send a command. *)
LoopSpec == LoopSteps /\ WF_loop(Answer) /\ WF_loop(Rest)
=============================================================================
