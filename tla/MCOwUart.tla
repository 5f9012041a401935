------------------------------ MODULE MCOwUart ------------------------------
(* Messages for checking the one-wire UART with TLC.                       *)
EXTENDS OwUartImplements

CONSTANTS contender1, contender2, listener

B(x, y) == <<x, y>>

\* The contenders may differ in the first bit, only in the second byte, or
\* not at all; one message is too long for MaxMsg.
MCWrites == [n \in Node |->
  CASE n = contender1 -> {<<B(0, 1), B(1, 0)>>}
    [] n = contender2 -> {<<B(0, 1), B(1, 0)>>, <<B(0, 1), B(0, 0)>>, <<B(1, 0), B(0, 0)>>,
                            <<B(1, 1), B(0, 1), B(0, 1)>>, Aux}
    [] OTHER -> {}]

\* Three contenders, the third in the listener's place, with messages that
\* differ in their last bits.
MCCrowdWrites == [n \in Node |->
  CASE n = contender1 -> {<<B(1, 1)>>}
    [] n = contender2 -> {<<B(1, 0)>>}
    [] OTHER -> {<<B(0, 0)>>}]

\* One node is started while the other sends a byte of zeros to a listener.
MCLateWrites == [n \in Node |->
  CASE n = contender1 -> {<<B(0, 0)>>}
    [] n = contender2 -> {<<B(1, 1)>>}
    [] OTHER -> {}]

MCLateDark == {{contender2}}

\* All nodes are there from the start, or two of them meet in the middle of a
\* message.
MCDark == {{}, {contender2, listener}}
=============================================================================
