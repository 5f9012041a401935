---------------------------- MODULE Measurement ----------------------------
(***************************************************************************)
(* From an HTTP request to a measurement and back: the web service         *)
(* (thermo/www/webserver.py and dht22.py), the rpmsg channel and the main  *)
(* loop of the DHT22 firmware.  The channel is RpmsgChannel, which Rpmsg   *)
(* implements, and the firmware is FirmwareLoop, which Dht22 implements.   *)
(*                                                                         *)
(* The service runs in one thread, so an action is what one callback does  *)
(* between two awaits.  What is in a measurement is abstracted to its      *)
(* number.                                                                 *)
(***************************************************************************)
EXTENDS Integers, Sequences, FiniteSets

CONSTANTS
  Request,    \* the requests to "/" that will be made
  Capacity    \* messages the channel holds in each direction

ASSUME MeasurementAssumption ==
  /\ IsFiniteSet(Request)
  /\ Capacity \in Nat \ {0}

VARIABLES
  req,        \* req[r]: how far the handler index has come with request r
  on,         \* on[r]: the future r waits on
  answer,     \* answer[r]: the measurement r was given, 0 if none
  futures,    \* the futures self.measurement has been, the last one current
  fw, taken,  \* firmware: where its main loop is, measurements taken so far
  chan, pru_got, host_got  \* the channel (RpmsgChannel)

service  == <<req, on, answer, futures>>
firmware == <<fw, taken>>
vars     == <<service, firmware, chan, pru_got, host_got>>

Command == 0
Channel == INSTANCE RpmsgChannel WITH Payload <- Nat, Nothing <- Command
Loop    == INSTANCE FirmwareLoop WITH loop <- fw

Pending   == [state |-> "pending", result |-> 0]
Cancelled == [state |-> "cancelled", result |-> 0]
Result(m) == [state |-> "done", result |-> m]

Init ==
  /\ req = [r \in Request |-> "new"]
  /\ on = [r \in Request |-> 1]
  /\ answer = [r \in Request |-> 0]
  /\ futures = <<Result(0)>>
  /\ Loop!LoopInit
  /\ taken = 0
  /\ Channel!ChannelInit

-----------------------------------------------------------------------------
(* The web service *)

measurement == Len(futures)

\* Mutant: nobody looks whether a measurement is going on.
DoneAlways == TRUE

done == futures[measurement].state # "pending"

\* Mutant: the command is not written.
start_silently ==
  /\ futures' = Append(futures, Pending)
  /\ UNCHANGED <<chan, pru_got, host_got>>

\* A new future, and a command; os.write waits for room in the channel (and
\* the whole thread with it: fewer interleavings than here).
start_new_measurement ==
  /\ futures' = Append(futures, Pending)
  /\ Channel!Put("arm_to_pru", Command)

\* index, up to the await; the DS18B20 sensors are read in another thread.
Arrive(r) ==
  /\ req[r] = "new"
  /\ IF done THEN start_new_measurement ELSE UNCHANGED <<futures, chan, pru_got, host_got>>
  /\ req' = [req EXCEPT ![r] = "waiting"]
  /\ on' = [on EXCEPT ![r] = Len(futures')]
  /\ UNCHANGED <<answer, firmware>>

\* Mutants: the result is thrown away; a result is replaced by a later one;
\* the future is resolved with nothing in it.
set_nothing(m)  == UNCHANGED futures
set_again(m)    == futures' = [futures EXCEPT ![measurement] = Result(m)]
set_empty(m)    == futures' = [futures EXCEPT ![measurement] = Result(0)]

\* A future that is done or cancelled refuses (InvalidStateError).
set_result(m) ==
  futures' = IF done THEN futures ELSE [futures EXCEPT ![measurement] = Result(m)]

new_measurement_ready ==
  /\ Channel!HostGet
  /\ set_result(host_got')
  /\ UNCHANGED <<req, on, answer, firmware>>

\* The handler goes on after its await, with the result or an exception.
Resume(r) ==
  LET f == futures[on[r]] IN
  /\ req[r] = "waiting"
  /\ f.state # "pending"
  /\ IF f.state = "done"
       THEN /\ req' = [req EXCEPT ![r] = "composing"]
            /\ answer' = [answer EXCEPT ![r] = f.result]
       ELSE /\ req' = [req EXCEPT ![r] = "failed"]
            /\ UNCHANGED answer
  /\ UNCHANGED <<on, futures, firmware, chan, pru_got, host_got>>

\* The other sensors are read, and the response is returned.
Respond(r) ==
  /\ req[r] = "composing"
  /\ req' = [req EXCEPT ![r] = "answered"]
  /\ UNCHANGED <<on, answer, futures, firmware, chan, pru_got, host_got>>

\* The client hangs up or the server's time-out strikes: the handler is
\* cancelled, and with it the future it waits on, whoever else does.
Cancel(r) ==
  /\ req[r] \in {"waiting", "composing"}
  /\ req' = [req EXCEPT ![r] = "gone"]
  /\ futures' = IF req[r] = "waiting" /\ futures[on[r]].state = "pending"
                THEN [futures EXCEPT ![on[r]] = Cancelled] ELSE futures
  /\ UNCHANGED <<on, answer, firmware, chan, pru_got, host_got>>

-----------------------------------------------------------------------------
(* The firmware *)

FirmwareReceive ==
  /\ Loop!Receive
  /\ Channel!PruGet
  /\ UNCHANGED <<service, taken>>

\* The result of rpmsg_send is ignored: without a free buffer the reply is lost.
FirmwareReply ==
  /\ Loop!Answer
  /\ taken' = taken + 1
  /\ IF Len(chan["pru_to_arm"]) < Capacity
       THEN Channel!Put("pru_to_arm", taken')
       ELSE UNCHANGED <<chan, pru_got, host_got>>
  /\ UNCHANGED service

\* Two seconds before the next measurement.
FirmwareRest ==
  /\ Loop!Rest
  /\ UNCHANGED <<service, taken, chan, pru_got, host_got>>

Firmware == FirmwareReceive \/ FirmwareReply \/ FirmwareRest

Next ==
  \/ new_measurement_ready
  \/ Firmware
  \/ \E r \in Request : Arrive(r) \/ Resume(r) \/ Respond(r) \/ Cancel(r)

Spec == Init /\ [][Next]_vars

(* The event loop runs its ready callbacks, the firmware its main loop.    *)
(* Nobody has to make a request, or to give one up.                        *)
FairSpec ==
  /\ Spec
  /\ WF_vars(new_measurement_ready) /\ WF_vars(Firmware)
  /\ \A r \in Request : WF_vars(Resume(r)) /\ WF_vars(Respond(r))

-----------------------------------------------------------------------------
Outstanding ==
  Len(chan["arm_to_pru"]) + Len(chan["pru_to_arm"]) + (IF fw = "measure" THEN 1 ELSE 0)

GivenUp == {f \in 1 .. measurement : futures[f].state = "cancelled"}

(* Type correctness; a future that is done holds a measurement taken.      *)
TypeOK ==
  /\ req \in [Request -> {"new", "waiting", "composing", "answered", "failed", "gone"}]
  /\ on \in [Request -> 1 .. measurement]
  /\ answer \in [Request -> 0 .. taken]
  /\ \A f \in 2 .. measurement :
       futures[f] \in {Pending, Cancelled} \cup {Result(m) : m \in 1 .. taken}
  /\ fw \in {"wait", "measure", "rest"}

(* A future that is pending will be resolved: it is the current one, and   *)
(* there is a command or a reply on its way for it, be it another one's    *)
(* that comes late (dht22.py:17-23, 56-60).  A reply that is lost for want *)
(* of a buffer does no harm: the channel is then full of others.           *)
PendingIsServed ==
  \A f \in 1 .. measurement :
    futures[f].state = "pending" => f = measurement /\ Outstanding >= 1

(* Commands do not pile up, but for those whose requests were given up:    *)
(* the channel has 16 buffers and the firmware rests two seconds between   *)
(* measurements.                                                           *)
OutstandingBounded == Outstanding <= 1 + Cardinality(GivenUp)

(* Requests that waited together and are answered get the same measurement *)
(* (dht22.py:63), also if another one comes in before all have gone on.    *)
SameAnswer ==
  \A r, s \in Request :
    answer[r] # 0 /\ answer[s] # 0 /\ on[r] = on[s] => answer[r] = answer[s]

(* Every request comes to an end, if its client does not give it up.       *)
RequestsEnd ==
  \A r \in Request : req[r] = "waiting" ~> req[r] \in {"answered", "failed", "gone"}

(* What dht22.py:63 says: "make sure that multiple simultaneous requests   *)
(* get the same measurement back".  Nobody's request fails because another *)
(* client hung up; see the run shared_future.                              *)
OthersAnswered == \A r \in Request : req[r] # "failed"
=============================================================================
