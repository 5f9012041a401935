------------------------- MODULE Measurement_proofs -------------------------
(***************************************************************************)
(* For any number of requests and any capacity of the channel: a request   *)
(* that waits is waiting for a measurement that is under way, requests     *)
(* that wait together are given the same one, and commands do not pile up. *)
(***************************************************************************)
EXTENDS Measurement, Lemmas, FiniteSetTheorems

Direction == {"arm_to_pru", "pru_to_arm"}
Future    == [state : {"pending", "cancelled", "done"}, result : Nat]

(* What is under way: replies hold measurements that have been taken.      *)
Underway ==
  /\ taken \in Nat
  /\ futures \in Seq(Future) /\ futures # <<>> /\ futures[1] = Result(0)
  /\ chan \in [Direction -> Seq(Nat)]
  /\ \A k \in DOMAIN chan["pru_to_arm"] : chan["pru_to_arm"][k] \in 1 .. taken

(* Who has an answer has it from the future it waited on.                  *)
FromItsFuture ==
  \A r \in Request :
    /\ answer[r] # 0 => futures[on[r]] = Result(answer[r])
    /\ req[r] = "new" => answer[r] = 0

(* A command is outstanding for the current future and for those that      *)
(* were given up, at most.                                                 *)
NoneInVain == Outstanding <= (IF done THEN 0 ELSE 1) + Cardinality(GivenUp)

MeasurementInv ==
  TypeOK /\ Underway /\ FromItsFuture /\ PendingIsServed /\ NoneInVain
-----------------------------------------------------------------------------
(* The futures are those of TypeOK, and each has one of three states.      *)
LEMMA FutureStates ==
  ASSUME MeasurementInv
  PROVE  /\ measurement \in Nat \ {0} /\ DOMAIN futures = 1 .. measurement
         /\ \A f \in 1 .. measurement : futures[f] \in Future
         /\ ~done <=> futures[measurement] = Pending
         /\ \A f \in 1 .. measurement : futures[f].state = "done" => futures[f].result \in 0 .. taken
<1>1. measurement \in Nat \ {0} /\ DOMAIN futures = 1 .. measurement
  BY DEF MeasurementInv, Underway, measurement
<1>2. \A f \in 1 .. measurement : futures[f] \in Future
  BY <1>1, Element DEF MeasurementInv, Underway, measurement
<1>3. \A f \in 1 .. measurement :
        \/ futures[f] = Pending \/ futures[f] = Cancelled
        \/ \E m \in 0 .. taken : futures[f] = Result(m)
  <2>1. futures[1] = Result(0) /\ 0 \in 0 .. taken
    BY DEF MeasurementInv, Underway
  <2>2. \A f \in 2 .. measurement :
          futures[f] \in {Pending, Cancelled} \cup {Result(m) : m \in 1 .. taken}
    BY DEF MeasurementInv, TypeOK
  <2> QED
    BY <1>1, <2>1, <2>2 DEF MeasurementInv, Underway
<1>4. \A m \in 0 .. taken : Result(m).state = "done" /\ Result(m).result = m
  BY DEF Result
<1>5. Pending.state = "pending" /\ Cancelled.state = "cancelled"
  BY DEF Pending, Cancelled
<1> QED
  BY <1>1, <1>2, <1>3, <1>4, <1>5 DEF done

(* What is on its way is counted.                                          *)
LEMMA Counts ==
  ASSUME Underway
  PROVE  /\ Len(chan["arm_to_pru"]) \in Nat /\ Len(chan["pru_to_arm"]) \in Nat
         /\ chan["arm_to_pru"] \in Seq(Nat) /\ chan["pru_to_arm"] \in Seq(Nat)
         /\ Outstanding \in Nat
  BY DEF Underway, Direction, Outstanding

LEMMA GivenUpFinite ==
  ASSUME MeasurementInv
  PROVE  IsFiniteSet(GivenUp) /\ Cardinality(GivenUp) \in Nat
<1>1. IsFiniteSet(1 .. measurement)
  BY FutureStates, FS_Interval
<1>2. GivenUp \in SUBSET (1 .. measurement)
  BY DEF GivenUp
<1>3. IsFiniteSet(GivenUp)
  BY <1>1, <1>2, FS_Subset
<1> QED
  BY <1>3, FS_CardinalityType

-----------------------------------------------------------------------------
(* A request arrives.                                                      *)
LEMMA ArriveStep ==
  ASSUME MeasurementInv, NEW r \in Request, Arrive(r)
  PROVE  MeasurementInv'
<1> USE FutureStates, Counts, GivenUpFinite DEF MeasurementInv
<1>u. /\ Len(chan["arm_to_pru"]) \in Nat /\ Len(chan["pru_to_arm"]) \in Nat
      /\ measurement \in Nat \ {0} /\ taken \in Nat
  BY DEF Underway
<1>0. /\ req[r] = "new" /\ req' = [req EXCEPT ![r] = "waiting"]
      /\ on' = [on EXCEPT ![r] = Len(futures')] /\ UNCHANGED <<answer, fw, taken>>
  BY DEF Arrive, firmware
<1>1. CASE ~done
  <2>1. UNCHANGED <<futures, chan>>
    BY <1>1 DEF Arrive
  <2>2. TypeOK' /\ Underway'
    BY <1>0, <2>1 DEF TypeOK, Underway, measurement
  <2>3. FromItsFuture'
    BY <1>0, <2>1 DEF FromItsFuture, TypeOK
  <2>4. PendingIsServed' /\ NoneInVain'
    BY <1>0, <2>1 DEF PendingIsServed, NoneInVain, Outstanding, GivenUp, done, measurement
  <2> QED
    BY <2>2, <2>3, <2>4
<1>2. CASE done
  <2>1. /\ futures' = Append(futures, Pending)
        /\ chan' = [chan EXCEPT !["arm_to_pru"] = Append(@, Command)]
    BY <1>2 DEF Arrive, start_new_measurement, Channel!Put
  <2>2. Pending \in Future /\ Command \in Nat
    BY DEF Pending, Future, Command
  <2>3. /\ futures' \in Seq(Future) /\ measurement' = measurement + 1
        /\ \A f \in 1 .. measurement : futures'[f] = futures[f]
        /\ futures'[measurement + 1] = Pending
    BY <2>1, <2>2, Appended DEF Underway, measurement
  <2>4. /\ chan' \in [Direction -> Seq(Nat)] /\ chan'["pru_to_arm"] = chan["pru_to_arm"]
        /\ Len(chan'["arm_to_pru"]) = Len(chan["arm_to_pru"]) + 1
    BY <2>1, <2>2, Appended DEF Underway, Direction
  <2>5. Outstanding' = Outstanding + 1
    <3>1. /\ Len(chan'["pru_to_arm"]) = Len(chan["pru_to_arm"]) /\ fw' = fw
          /\ Len(chan'["arm_to_pru"]) = Len(chan["arm_to_pru"]) + 1
      BY <1>0, <2>4
    <3>2. PICK w \in {0, 1} :
            /\ Outstanding = Len(chan["arm_to_pru"]) + Len(chan["pru_to_arm"]) + w
            /\ Outstanding' = Len(chan'["arm_to_pru"]) + Len(chan'["pru_to_arm"]) + w
      BY <3>1 DEF Outstanding
    <3>3. PICK a \in Nat, b \in Nat : a = Len(chan["arm_to_pru"]) /\ b = Len(chan["pru_to_arm"])
      BY <1>u
    <3>4. Len(chan'["arm_to_pru"]) = a + 1 /\ Len(chan'["pru_to_arm"]) = b
      BY ONLY <3>1, <3>3
    <3>5. Outstanding = a + b + w
      BY ONLY <3>2, <3>3
    <3>6. Outstanding' = (a + 1) + b + w
      BY ONLY <3>2, <3>4
    <3> QED
      BY ONLY <3>5, <3>6, a \in Nat, b \in Nat, w \in {0, 1}
  <2>6. GivenUp' = GivenUp
    BY <2>3 DEF GivenUp, Pending
  <2>7. ~done'
    BY <2>3 DEF done, Pending
  <2>8. TypeOK'
    <3> DEFINE F == {Pending, Cancelled} \cup {Result(m) : m \in 1 .. taken}
    <3>a. Pending \in F /\ \A f \in 2 .. measurement : futures[f] \in F
      BY DEF TypeOK
    <3> HIDE DEF F
    <3>b. \A f \in 2 .. measurement' : f = measurement + 1 \/ f \in 1 .. measurement
      BY <1>u, <2>3
    <3>1. \A f \in 2 .. measurement' : futures'[f] \in F
      BY <1>u, <2>3, <3>a, <3>b
    <3>2. on' \in [Request -> 1 .. measurement']
      BY <1>0, <1>u, <2>3 DEF TypeOK, measurement
    <3>3. req' \in [Request -> {"new", "waiting", "composing", "answered", "failed", "gone"}]
      BY <1>0 DEF TypeOK
    <3> QED
      BY <1>0, <3>1, <3>2, <3>3 DEF TypeOK, F
  <2>9. Underway'
    <3>1. futures' # <<>> /\ futures'[1] = Result(0)
      BY <1>u, <2>1, <2>3 DEF Underway
    <3> QED
      BY <1>0, <2>3, <2>4, <3>1 DEF Underway
  <2>10. FromItsFuture'
    BY <1>0, <2>3 DEF FromItsFuture, TypeOK
  <2>11. PendingIsServed'
    <3>1. \A f \in 1 .. measurement : futures[f].state # "pending"
      BY <1>2 DEF PendingIsServed, done
    <3>2. \A f \in 1 .. measurement' : f = measurement' \/ f \in 1 .. measurement
      BY <1>u, <2>3
    <3>3. Outstanding' >= 1
      BY <2>5, Counts
    <3> QED
      BY <2>3, <3>1, <3>2, <3>3 DEF PendingIsServed
  <2>12. NoneInVain'
    BY <1>2, <2>5, <2>6, <2>7 DEF NoneInVain
  <2> QED
    BY <2>8, <2>9, <2>10, <2>11, <2>12
<1> QED
  BY <1>1, <1>2

(* A reply comes in.                                                       *)
LEMMA ReadyStep ==
  ASSUME MeasurementInv, new_measurement_ready
  PROVE  MeasurementInv'
<1> USE FutureStates, Counts, GivenUpFinite DEF MeasurementInv
<1>u. /\ Len(chan["arm_to_pru"]) \in Nat /\ Len(chan["pru_to_arm"]) \in Nat
      /\ measurement \in Nat \ {0} /\ taken \in Nat
  BY DEF Underway
<1>0. UNCHANGED <<req, on, answer, fw, taken>>
  BY DEF new_measurement_ready, firmware
<1>1. /\ chan["pru_to_arm"] # <<>> /\ host_got' = Head(chan["pru_to_arm"])
      /\ chan' = [chan EXCEPT !["pru_to_arm"] = Tail(@)]
  BY DEF new_measurement_ready, Channel!HostGet
<1>2. host_got' \in 1 .. taken
  BY <1>1, Popped DEF Underway
<1>3. /\ chan' \in [Direction -> Seq(Nat)] /\ chan'["arm_to_pru"] = chan["arm_to_pru"]
      /\ Len(chan'["pru_to_arm"]) = Len(chan["pru_to_arm"]) - 1
      /\ \A k \in DOMAIN chan'["pru_to_arm"] : chan'["pru_to_arm"][k] \in 1 .. taken
  BY <1>1, Popped, Element DEF Underway, Direction
<1>4. Outstanding' = Outstanding - 1
  BY <1>0, <1>3 DEF Outstanding
<1>5. CASE done
  <2>1. UNCHANGED futures
    BY <1>5 DEF new_measurement_ready, set_result
  <2>2. TypeOK' /\ Underway' /\ FromItsFuture'
    BY <1>0, <1>3, <2>1 DEF TypeOK, Underway, FromItsFuture, measurement
  <2>3. PendingIsServed'
    BY <1>5, <2>1 DEF PendingIsServed, done, measurement
  <2>4. NoneInVain'
    BY <1>4, <2>1 DEF NoneInVain, GivenUp, done, measurement
  <2> QED
    BY <2>2, <2>3, <2>4
<1>6. CASE ~done
  <2>1. futures' = [futures EXCEPT ![measurement] = Result(host_got')]
    BY <1>6 DEF new_measurement_ready, set_result
  <2>2. Result(host_got') \in Future /\ Result(host_got').state = "done"
    BY <1>2 DEF Result, Future, Underway
  <2>3. /\ futures' \in Seq(Future) /\ measurement' = measurement /\ futures' # <<>>
        /\ \A f \in 1 .. measurement-1 : futures'[f] = futures[f]
        /\ futures'[measurement] = Result(host_got')
    BY <2>1, <2>2 DEF Underway, measurement
  <2>4. measurement # 1
    BY <1>6 DEF Underway, done, Result
  <2>5. GivenUp' = GivenUp
    <3>1. futures[measurement].state # "cancelled" /\ futures'[measurement].state # "cancelled"
      BY <1>6, <2>2, <2>3 DEF done
    <3>2. \A f \in 1 .. measurement : f = measurement \/ f \in 1 .. measurement-1
      BY <1>u
    <3> HIDE FutureStates, Counts, GivenUpFinite DEF MeasurementInv
    <3> QED
      BY <2>3, <3>1, <3>2 DEF GivenUp
  <2>6. done'
    BY <2>2, <2>3 DEF done
  <2>7. TypeOK'
    <3>1. \A f \in 2 .. measurement : f = measurement \/ f \in 2 .. measurement-1
      BY <1>u
    <3> DEFINE F == {Pending, Cancelled} \cup {Result(m) : m \in 1 .. taken}
    <3>2. Result(host_got') \in F /\ \A f \in 2 .. measurement : futures[f] \in F
      BY <1>2 DEF TypeOK
    <3> HIDE DEF F
    <3>a. /\ \A f \in 1 .. measurement-1 : futures'[f] = futures[f]
          /\ futures'[measurement] \in F
      BY <2>3, <3>2
    <3>3. \A f \in 2 .. measurement : futures'[f] \in F
      BY <1>u, <3>a, <3>1, <3>2
    <3> QED
      BY <1>0, <2>3, <3>3 DEF TypeOK, F
  <2>8. Underway'
    <3>1. futures'[1] = Result(0)
      BY <1>u, <2>3, <2>4 DEF Underway
    <3> QED
      BY <1>0, <1>3, <2>3, <3>1 DEF Underway
  <2>9. FromItsFuture'
    <3>1. ASSUME NEW r \in Request, answer[r] # 0
          PROVE  on[r] \in 1 .. measurement-1
      <4>0. futures[on[r]] = Result(answer[r])
        BY <3>1 DEF FromItsFuture
      <4>1. futures[on[r]].state = "done" /\ on[r] \in 1 .. measurement
        BY <4>0 DEF Result, TypeOK
      <4>2. on[r] # measurement
        BY <1>6, <4>1 DEF done
      <4> QED
        BY <4>1, <4>2
    <3> QED
      BY <1>0, <2>3, <3>1 DEF FromItsFuture
  <2>10. PendingIsServed'
    BY <2>2, <2>3 DEF PendingIsServed
  <2>11. NoneInVain'
    BY <1>4, <1>6, <2>5, <2>6 DEF NoneInVain
  <2> QED
    BY <2>7, <2>8, <2>9, <2>10, <2>11
<1> QED
  BY <1>5, <1>6

(* The firmware takes a command, ...                                       *)
LEMMA FirmwareReceiveStep ==
  ASSUME MeasurementInv, FirmwareReceive
  PROVE  MeasurementInv'
<1> USE FutureStates, Counts, GivenUpFinite DEF MeasurementInv
<1>u. /\ Len(chan["arm_to_pru"]) \in Nat /\ Len(chan["pru_to_arm"]) \in Nat
      /\ measurement \in Nat \ {0} /\ taken \in Nat
  BY DEF Underway
<1>1. /\ UNCHANGED <<req, on, answer, futures, taken>> /\ fw = "wait" /\ fw' = "measure"
      /\ chan["arm_to_pru"] # <<>> /\ chan' = [chan EXCEPT !["arm_to_pru"] = Tail(@)]
  BY DEF FirmwareReceive, service, Loop!Receive, Channel!PruGet
<1>2. /\ chan' \in [Direction -> Seq(Nat)] /\ chan'["pru_to_arm"] = chan["pru_to_arm"]
      /\ Len(chan'["arm_to_pru"]) = Len(chan["arm_to_pru"]) - 1
  BY <1>1, Popped DEF Underway, Direction
<1>3. Outstanding' = Outstanding
  BY <1>1, <1>2 DEF Outstanding
<1>4. TypeOK' /\ Underway' /\ FromItsFuture'
  BY <1>1, <1>2 DEF TypeOK, Underway, FromItsFuture, measurement
<1>5. PendingIsServed' /\ NoneInVain'
  BY <1>1, <1>3 DEF PendingIsServed, NoneInVain, GivenUp, done, measurement
<1> QED
  BY <1>4, <1>5

(* ... answers it, and the answer may find no buffer, ...                  *)
LEMMA FirmwareReplyStep ==
  ASSUME MeasurementInv, FirmwareReply
  PROVE  MeasurementInv'
<1> USE FutureStates, Counts, GivenUpFinite DEF MeasurementInv
<1>u. /\ Len(chan["arm_to_pru"]) \in Nat /\ Len(chan["pru_to_arm"]) \in Nat
      /\ measurement \in Nat \ {0} /\ taken \in Nat
  BY DEF Underway
<1>1. /\ UNCHANGED <<req, on, answer, futures>> /\ fw = "measure" /\ fw' = "rest"
      /\ taken' = taken + 1 /\ taken \in Nat
  BY DEF FirmwareReply, service, Loop!Answer, Underway
<1>c. Len(chan'["arm_to_pru"]) \in Nat /\ Len(chan'["pru_to_arm"]) \in Nat
  <2>1. chan' = [chan EXCEPT !["pru_to_arm"] = Append(@, taken')] \/ chan' = chan
    BY DEF FirmwareReply, Channel!Put
  <2>2. taken' \in Nat
    BY <1>1
  <2> QED
    BY <1>u, <2>1, <2>2, Appended DEF Underway, Direction
<1>o. /\ Outstanding = Len(chan["arm_to_pru"]) + Len(chan["pru_to_arm"]) + 1
      /\ Outstanding' = Len(chan'["arm_to_pru"]) + Len(chan'["pru_to_arm"])
  <2>1. Outstanding' = Len(chan'["arm_to_pru"]) + Len(chan'["pru_to_arm"]) + 0
    BY <1>1 DEF Outstanding
  <2>2. Len(chan'["arm_to_pru"]) + Len(chan'["pru_to_arm"]) \in Int
    BY <1>u, <1>c
  <2> QED
    BY <1>1, <2>1, <2>2 DEF Outstanding
<1>2. TypeOK'
  BY <1>1 DEF TypeOK, measurement
<1>3. FromItsFuture'
  BY <1>1 DEF FromItsFuture
<1>4. CASE Len(chan["pru_to_arm"]) < Capacity
  <2>1. chan' = [chan EXCEPT !["pru_to_arm"] = Append(@, taken')]
    BY <1>4 DEF FirmwareReply, Channel!Put
  <2>2. /\ chan' \in [Direction -> Seq(Nat)] /\ chan'["arm_to_pru"] = chan["arm_to_pru"]
        /\ Len(chan'["pru_to_arm"]) = Len(chan["pru_to_arm"]) + 1
        /\ \A k \in DOMAIN chan'["pru_to_arm"] : chan'["pru_to_arm"][k] \in 1 .. taken'
    BY <1>1, <2>1, Appended, Element DEF Underway, Direction
  <2>3. Outstanding' = Outstanding
    <3>1. /\ Len(chan'["arm_to_pru"]) = Len(chan["arm_to_pru"])
          /\ Len(chan'["pru_to_arm"]) = Len(chan["pru_to_arm"]) + 1
      BY <2>2
    <3>2. PICK a \in Nat, b \in Nat : a = Len(chan["arm_to_pru"]) /\ b = Len(chan["pru_to_arm"])
      BY <1>u
    <3>3. Len(chan'["arm_to_pru"]) = a /\ Len(chan'["pru_to_arm"]) = b + 1
      BY ONLY <3>1, <3>2
    <3>4. Outstanding = a + b + 1
      BY ONLY <1>o, <3>2
    <3>5. Outstanding' = a + (b + 1)
      BY ONLY <1>o, <3>3
    <3> QED
      BY ONLY <3>4, <3>5, a \in Nat, b \in Nat
  <2>4. Underway'
    BY <1>1, <2>2 DEF Underway
  <2>5. PendingIsServed' /\ NoneInVain'
    BY <1>1, <2>3 DEF PendingIsServed, NoneInVain, GivenUp, done, measurement
  <2> QED
    BY <1>2, <1>3, <2>4, <2>5
<1>5. CASE ~(Len(chan["pru_to_arm"]) < Capacity)
  <2>1. UNCHANGED chan
    BY <1>5 DEF FirmwareReply
  <2>2. Outstanding' = Outstanding - 1 /\ Outstanding' >= 1
    <3>1. /\ Len(chan'["arm_to_pru"]) = Len(chan["arm_to_pru"])
          /\ Len(chan'["pru_to_arm"]) = Len(chan["pru_to_arm"])
      BY <2>1
    <3>2. Len(chan["pru_to_arm"]) >= 1
      BY <1>5, <1>u, MeasurementAssumption
    <3>3. PICK a \in Nat, b \in Nat : a = Len(chan["arm_to_pru"]) /\ b = Len(chan["pru_to_arm"])
      BY <1>u
    <3>4. Len(chan'["arm_to_pru"]) = a /\ Len(chan'["pru_to_arm"]) = b /\ b >= 1
      BY ONLY <3>1, <3>2, <3>3
    <3>5. Outstanding = a + b + 1
      BY ONLY <1>o, <3>3
    <3>6. Outstanding' = a + b
      BY ONLY <1>o, <3>4
    <3> QED
      BY ONLY <3>4, <3>5, <3>6, a \in Nat, b \in Nat
  <2>3. Underway'
    BY <1>1, <2>1 DEF Underway
  <2>4. PendingIsServed' /\ NoneInVain'
    BY <1>1, <2>2 DEF PendingIsServed, NoneInVain, GivenUp, done, measurement
  <2> QED
    BY <1>2, <1>3, <2>3, <2>4
<1> QED
  BY <1>4, <1>5

(* ... and rests.                                                          *)
LEMMA FirmwareRestStep ==
  ASSUME MeasurementInv, FirmwareRest
  PROVE  MeasurementInv'
<1>1. UNCHANGED <<req, on, answer, futures, taken, chan>> /\ fw = "rest" /\ fw' = "wait"
  BY DEF FirmwareRest, service, Loop!Rest
<1>2. Outstanding' = Outstanding
  BY <1>1 DEF Outstanding
<1> QED
  BY <1>1, <1>2 DEF MeasurementInv, TypeOK, Underway, FromItsFuture, PendingIsServed, NoneInVain,
     GivenUp, done, measurement

(* A request goes on, ...                                                  *)
LEMMA ResumeStep ==
  ASSUME MeasurementInv, NEW r \in Request, Resume(r)
  PROVE  MeasurementInv'
<1> USE FutureStates, Counts, GivenUpFinite DEF MeasurementInv
<1>u. /\ Len(chan["arm_to_pru"]) \in Nat /\ Len(chan["pru_to_arm"]) \in Nat
      /\ measurement \in Nat \ {0} /\ taken \in Nat
  BY DEF Underway
<1>1. UNCHANGED <<on, futures, fw, taken, chan>>
  BY DEF Resume, firmware
<1>2. Underway' /\ PendingIsServed' /\ NoneInVain'
  BY <1>1 DEF Underway, PendingIsServed, NoneInVain, Outstanding, GivenUp, done, measurement
<1>3. on[r] \in 1 .. measurement
  BY DEF TypeOK
<1>4. CASE futures[on[r]].state = "done"
  <2>1. /\ req' = [req EXCEPT ![r] = "composing"]
        /\ answer' = [answer EXCEPT ![r] = futures[on[r]].result]
    BY <1>4 DEF Resume
  <2>2. futures[on[r]].result \in 0 .. taken
    BY <1>3, <1>4
  <2>3. TypeOK'
    BY <1>1, <2>1, <2>2 DEF TypeOK, measurement
  <2>4. futures[on[r]] = Result(futures[on[r]].result)
    BY <1>3, <1>4 DEF Future, Result
  <2>5. FromItsFuture'
    BY <1>1, <2>1, <2>4 DEF FromItsFuture, TypeOK
  <2> QED
    BY <1>2, <2>3, <2>5
<1>5. CASE futures[on[r]].state # "done"
  <2>1. req' = [req EXCEPT ![r] = "failed"] /\ UNCHANGED answer
    BY <1>5 DEF Resume
  <2> QED
    BY <1>1, <1>2, <2>1 DEF TypeOK, FromItsFuture, measurement
<1> QED
  BY <1>4, <1>5

(* ... is answered, ...                                                    *)
LEMMA RespondStep ==
  ASSUME MeasurementInv, NEW r \in Request, Respond(r)
  PROVE  MeasurementInv'
<1>1. /\ UNCHANGED <<on, answer, futures, fw, taken, chan>>
      /\ req' = [req EXCEPT ![r] = "answered"]
  BY DEF Respond, firmware
<1> QED
  BY <1>1 DEF MeasurementInv, TypeOK, Underway, FromItsFuture, PendingIsServed, NoneInVain,
     Outstanding, GivenUp, done, measurement

(* ... or is given up, and takes the future it waits on with it.           *)
LEMMA CancelStep ==
  ASSUME MeasurementInv, NEW r \in Request, Cancel(r)
  PROVE  MeasurementInv'
<1> USE FutureStates, Counts, GivenUpFinite DEF MeasurementInv
<1>u. /\ Len(chan["arm_to_pru"]) \in Nat /\ Len(chan["pru_to_arm"]) \in Nat
      /\ measurement \in Nat \ {0} /\ taken \in Nat
  BY DEF Underway
<1>1. /\ UNCHANGED <<on, answer, fw, taken, chan>> /\ req' = [req EXCEPT ![r] = "gone"]
      /\ Outstanding' = Outstanding
  BY DEF Cancel, firmware, Outstanding
<1>2. on[r] \in 1 .. measurement
  BY DEF TypeOK
<1>3. CASE req[r] = "waiting" /\ futures[on[r]].state = "pending"
  <2>1. futures' = [futures EXCEPT ![measurement] = Cancelled] /\ on[r] = measurement /\ ~done
    BY <1>2, <1>3 DEF Cancel, PendingIsServed, done
  <2>2. Cancelled \in Future /\ Cancelled.state = "cancelled"
    BY DEF Cancelled, Future
  <2>3. /\ futures' \in Seq(Future) /\ measurement' = measurement /\ futures' # <<>>
        /\ \A f \in 1 .. measurement-1 : futures'[f] = futures[f]
        /\ futures'[measurement] = Cancelled
    BY <2>1, <2>2 DEF Underway, measurement
  <2>4. measurement # 1
    BY <2>1 DEF Underway, done, Result
  <2>5. GivenUp' = GivenUp \cup {measurement} /\ measurement \notin GivenUp
    BY <2>1, <2>2, <2>3 DEF GivenUp, done
  <2>6. Cardinality(GivenUp') = Cardinality(GivenUp) + 1
    BY <2>5, FS_AddElement
  <2>7. done'
    BY <2>2, <2>3 DEF done
  <2>8. TypeOK'
    <3>1. \A f \in 2 .. measurement : f = measurement \/ f \in 2 .. measurement-1
      BY <1>u
    <3> DEFINE F == {Pending, Cancelled} \cup {Result(m) : m \in 1 .. taken}
    <3>2. Cancelled \in F /\ \A f \in 2 .. measurement : futures[f] \in F
      BY <1>1 DEF TypeOK
    <3> HIDE DEF F
    <3>a. /\ \A f \in 1 .. measurement-1 : futures'[f] = futures[f]
          /\ futures'[measurement] \in F
      BY <2>3, <3>2
    <3>3. \A f \in 2 .. measurement : futures'[f] \in F
      BY <1>u, <3>a, <3>1, <3>2
    <3> QED
      BY <1>1, <2>3, <3>3 DEF TypeOK, F
  <2>9. Underway'
    <3>1. futures'[1] = Result(0)
      BY <1>u, <2>3, <2>4 DEF Underway
    <3> QED
      BY <1>1, <2>3, <3>1 DEF Underway
  <2>10. FromItsFuture'
    <3>1. ASSUME NEW s \in Request, answer[s] # 0
          PROVE  on[s] \in 1 .. measurement-1
      <4>0. futures[on[s]] = Result(answer[s])
        BY <3>1 DEF FromItsFuture
      <4>1. futures[on[s]].state = "done" /\ on[s] \in 1 .. measurement
        BY <4>0 DEF Result, TypeOK
      <4>2. on[s] # measurement
        BY <2>1, <4>1 DEF done
      <4> QED
        BY <4>1, <4>2
    <3> QED
      BY <1>1, <2>3, <3>1 DEF FromItsFuture
  <2>11. PendingIsServed'
    BY <2>2, <2>3 DEF PendingIsServed
  <2>12. NoneInVain'
    BY <1>1, <2>1, <2>6, <2>7 DEF NoneInVain
  <2> QED
    BY <2>8, <2>9, <2>10, <2>11, <2>12
<1>4. CASE ~(req[r] = "waiting" /\ futures[on[r]].state = "pending")
  <2>1. UNCHANGED futures
    BY <1>4 DEF Cancel
  <2> QED
    BY <1>1, <2>1 DEF TypeOK, Underway, FromItsFuture, PendingIsServed, NoneInVain,
       GivenUp, done, measurement
<1> QED
  BY <1>3, <1>4

-----------------------------------------------------------------------------
(* The invariant holds before the first request.                           *)
LEMMA InitMeasurementInv == Init => MeasurementInv
<1> SUFFICES ASSUME Init PROVE MeasurementInv
  OBVIOUS
<1> USE DEF Init, Loop!LoopInit, Channel!ChannelInit
<1>1. Result(0) \in Future /\ Result(0).state = "done"
  BY DEF Result, Future
<1>2. measurement = 1 /\ futures[1] = Result(0) /\ done
  BY <1>1 DEF measurement, done
<1>3. TypeOK
  BY <1>2 DEF TypeOK
<1>4. Underway
  BY <1>1, <1>2 DEF Underway, Direction
<1>5. FromItsFuture /\ PendingIsServed
  BY <1>1, <1>2 DEF FromItsFuture, PendingIsServed
<1>6. Outstanding = 0
  BY DEF Outstanding
<1>7. GivenUp = {}
  BY <1>1, <1>2 DEF GivenUp
<1>8. NoneInVain
  BY <1>2, <1>6, <1>7, FS_EmptySet DEF NoneInVain
<1> QED
  BY <1>3, <1>4, <1>5, <1>8 DEF MeasurementInv

(* The invariant holds throughout.                                         *)
THEOREM MeasurementInvariance == Spec => []MeasurementInv
<1>1. MeasurementInv /\ [Next]_vars => MeasurementInv'
  <2> SUFFICES ASSUME MeasurementInv, [Next]_vars PROVE MeasurementInv'
    OBVIOUS
  <2>1. CASE new_measurement_ready
    BY <2>1, ReadyStep
  <2>2. CASE Firmware
    BY <2>2, FirmwareReceiveStep, FirmwareReplyStep, FirmwareRestStep DEF Firmware
  <2>3. CASE \E r \in Request : Arrive(r) \/ Resume(r) \/ Respond(r) \/ Cancel(r)
    BY <2>3, ArriveStep, ResumeStep, RespondStep, CancelStep
  <2>4. CASE UNCHANGED vars
    BY <2>4 DEF vars, service, firmware, MeasurementInv, TypeOK, Underway, FromItsFuture,
       PendingIsServed, NoneInVain, Outstanding, GivenUp, done, measurement
  <2> QED
    BY <2>1, <2>2, <2>3, <2>4 DEF Next
<1> QED
  BY InitMeasurementInv, <1>1, PTL DEF Spec

(* Type correctness; a future that is done holds a measurement taken.      *)
THEOREM MeasurementTypes == Spec => []TypeOK
<1>1. MeasurementInv => TypeOK
  BY DEF MeasurementInv
<1> QED
  BY MeasurementInvariance, <1>1, PTL

(* Whoever waits has a command or a reply on its way, for every number of  *)
(* requests and every capacity of the channel.                             *)
THEOREM ServedTheorem == Spec => []PendingIsServed
<1>1. MeasurementInv => PendingIsServed
  BY DEF MeasurementInv
<1> QED
  BY MeasurementInvariance, <1>1, PTL

(* Commands only pile up by as many as there are requests given up.        *)
THEOREM OutstandingTheorem == Spec => []OutstandingBounded
<1>1. MeasurementInv => OutstandingBounded
  BY GivenUpFinite, Counts DEF MeasurementInv, NoneInVain, OutstandingBounded
<1> QED
  BY MeasurementInvariance, <1>1, PTL

(* Requests that wait on the same future get the same measurement.         *)
THEOREM SameAnswerTheorem == Spec => []SameAnswer
<1>1. MeasurementInv => SameAnswer
  <2> SUFFICES ASSUME MeasurementInv, NEW r \in Request, NEW s \in Request,
                      answer[r] # 0, answer[s] # 0, on[r] = on[s]
               PROVE  answer[r] = answer[s]
    BY DEF SameAnswer
  <2>1. Result(answer[r]) = Result(answer[s])
    BY DEF MeasurementInv, FromItsFuture
  <2>2. Result(answer[r]).result = answer[r] /\ Result(answer[s]).result = answer[s]
    BY DEF Result
  <2> QED
    BY <2>1, <2>2
<1> QED
  BY MeasurementInvariance, <1>1, PTL
=============================================================================
