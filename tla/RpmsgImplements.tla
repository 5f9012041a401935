-------------------------- MODULE RpmsgImplements --------------------------
(***************************************************************************)
(* The refinement mapping from the vrings of Rpmsg to the two FIFO         *)
(* channels of RpmsgChannel.                                               *)
(***************************************************************************)
EXTENDS Rpmsg, Sequences

(* A message is on its way to the host once both stores of its used        *)
(* element are done, and until the host has read the element.              *)
Sent == last_avail_idx[ToArm] -
          (IF vq = ToArm /\ pc \in {"copy", "add_used", "add_used2"} THEN 1 ELSE 0)

(* A message is on its way to the PRU from the moment its buffer is posted *)
(* until the PRU has copied it out of that buffer.                         *)
Fetched == last_avail_idx[ToPru] - (IF vq = ToPru /\ pc = "copy" THEN 1 ELSE 0)

Messages(q, from, to) == [i \in 1 .. to - from |-> buf[q][DescAt(q, from + i - 1)]]

ChannelState ==
  [q \in Queue |-> IF q = ToArm THEN Messages(q, last_used[q], Sent)
                   ELSE Messages(q, Fetched, posted[q])]

Channel == INSTANCE RpmsgChannel
  WITH Payload <- Msgs \ Oversized, Nothing <- NoMsg, Capacity <- Num,
       chan <- ChannelState, pru_got <- got, host_got <- host_got

(* The two vrings and the code on both sides of them behave like two FIFO  *)
(* channels of Num messages: nothing is lost, duplicated, reordered or     *)
(* overwritten, whichever way the steps of the PRU and the host interleave.*)
ImplementsChannel == Channel!ChannelSpec
=============================================================================
