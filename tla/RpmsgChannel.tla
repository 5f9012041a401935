---------------------------- MODULE RpmsgChannel ----------------------------
(***************************************************************************)
(* What the rpmsg transport promises the firmware and the host: two        *)
(* bounded FIFO channels, one per direction, that neither lose, duplicate, *)
(* reorder nor alter a message once it has been accepted.                  *)
(***************************************************************************)
EXTENDS Naturals, Sequences

CONSTANTS Payload,   \* the messages a channel carries
          Nothing,   \* not a message
          Capacity   \* buffers per direction

VARIABLES chan,      \* chan[d]: messages on their way in direction d
          pru_got,   \* last message the PRU received
          host_got   \* last message the host received

chan_vars == <<chan, pru_got, host_got>>

ChannelInit ==
  /\ chan = [d \in {"pru_to_arm", "arm_to_pru"} |-> <<>>]
  /\ pru_got = Nothing
  /\ host_got = Nothing

Put(d, m) ==
  /\ Len(chan[d]) < Capacity
  /\ chan' = [chan EXCEPT ![d] = Append(@, m)]
  /\ UNCHANGED <<pru_got, host_got>>

PruGet ==
  /\ chan["arm_to_pru"] # <<>>
  /\ pru_got' = Head(chan["arm_to_pru"])
  /\ chan' = [chan EXCEPT !["arm_to_pru"] = Tail(@)]
  /\ UNCHANGED host_got

HostGet ==
  /\ chan["pru_to_arm"] # <<>>
  /\ host_got' = Head(chan["pru_to_arm"])
  /\ chan' = [chan EXCEPT !["pru_to_arm"] = Tail(@)]
  /\ UNCHANGED pru_got

ChannelNext ==
  \/ PruGet \/ HostGet
  \/ \E m \in Payload : Put("pru_to_arm", m) \/ Put("arm_to_pru", m)

ChannelSpec == ChannelInit /\ [][ChannelNext]_chan_vars
=============================================================================
