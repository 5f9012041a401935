-------------------------------- MODULE Line --------------------------------
(***************************************************************************)
(* What the one-wire UART (elco/main.c) promises the hosts of its nodes:   *)
(* one line on which whole messages follow each other, in an order that is *)
(* the same for everybody.  A node tells its host each message of the line *)
(* once, its own ones included, unless there is no buffer for it.  What a  *)
(* node tells in place of a message is open only while it has a message of *)
(* its own that it still wants to send, and for a node that may have been  *)
(* started in the middle of one.                                           *)
(***************************************************************************)
EXTENDS Naturals, Sequences

CONSTANTS Node, Message

VARIABLES
  pending,   \* pending[n]: the message n wants to send, <<>> for none
  log,       \* the messages that have been on the line
  pos,       \* pos[n]: how many of them n has dealt with
  heard,     \* heard[n]: what n has told its host
  dark       \* rigid: the nodes that were not there from the start

LineInit ==
  /\ pending = [n \in Node |-> <<>>]
  /\ log = <<>>
  /\ pos = [n \in Node |-> 0]
  /\ heard = [n \in Node |-> <<>>]

Told(n, msg)     == heard' \in {heard, [heard EXCEPT ![n] = Append(@, msg)]}
Dealt(n)         == pos' = [pos EXCEPT ![n] = @ + 1]
DealtWithAll(n)  == pos' = [pos EXCEPT ![n] = Len(log')]
CaughtUp(n, len) == pos[n] = len \/ n \in dark

Accept(n) ==
  /\ pending[n] = <<>> /\ pending'[n] \in Message \ {<<>>}
  /\ pending' = [pending EXCEPT ![n] = pending'[n]]
  /\ UNCHANGED <<log, pos, heard, dark>>

\* A message goes onto the line when its sender has dealt with all others,
\* those aside that were on the line before it was there.
Transmit(n) ==
  /\ pending[n] # <<>> /\ CaughtUp(n, Len(log))
  /\ log' = Append(log, pending[n])
  /\ pending' = [pending EXCEPT ![n] = <<>>]
  /\ Told(n, pending[n]) /\ DealtWithAll(n)
  /\ UNCHANGED dark

\* Nodes that send the same at the same time have sent it once.
Join(n) ==
  /\ pending[n] # <<>> /\ log # <<>> /\ CaughtUp(n, Len(log) - 1)
  /\ log[Len(log)] = pending[n]
  /\ pending' = [pending EXCEPT ![n] = <<>>]
  /\ UNCHANGED <<log, dark>>
  /\ Told(n, pending[n]) /\ DealtWithAll(n)

Hear(n) ==
  /\ pos[n] < Len(log)
  /\ Told(n, log[pos[n] + 1]) /\ Dealt(n)
  /\ UNCHANGED <<pending, log, dark>>

\* A node that contended for the line may mistake what it lost it to.
Mishear(n) ==
  /\ pending[n] # <<>> /\ pos[n] < Len(log)
  /\ Dealt(n)
  /\ \E msg \in Message : Told(n, msg)
  /\ UNCHANGED <<pending, log, dark>>

\* Or what it only heard a part of.
HearNoise(n) ==
  /\ n \in dark
  /\ DealtWithAll(n)
  /\ UNCHANGED <<pending, log, dark>>
  /\ \E msg \in Message : Told(n, msg)

LineNext ==
  \E n \in Node :
    Accept(n) \/ Transmit(n) \/ Join(n) \/ Hear(n) \/ Mishear(n) \/ HearNoise(n)

LineSpec == LineInit /\ [][LineNext]_<<pending, log, pos, heard, dark>>
=============================================================================
