-------------------------- MODULE OwUartImplements --------------------------
(***************************************************************************)
(* The nodes of OwUart implement the abstract Line.  Two history variables *)
(* record what the program does not: the messages in the order in which    *)
(* their transmissions were completed, and how far each node has come in   *)
(* them.                                                                   *)
(***************************************************************************)
EXTENDS OwUart

VARIABLES
  log,      \* the transmissions completed: message and sender
  pos       \* pos[n]: how many of them n has sent itself or received

line_vars == <<vars, log, pos>>

Passes(n, s) == owuart[n].state = s /\ owuart'[n].state # s

\* The sender of the last message has not waited its hold-off out, nor heard
\* anything since: what n has just sent was sent at the same time.
SentTogether(n) ==
  /\ log # <<>>
  /\ LET last == log[Len(log)] IN
     /\ last.msg = owuart[n].tx_buffer
     /\ owuart[last.by].state \in {"StartHoldOff", "HoldOff"}
     /\ owuart[last.by].rx_buffer = <<>>

Records ==
  /\ log' = IF \E n \in Node : Passes(n, "TxCompleted") /\ ~SentTogether(n)
            THEN LET n == CHOOSE n \in Node : Passes(n, "TxCompleted") IN
                 Append(log, [msg |-> owuart[n].tx_buffer, by |-> n])
            ELSE log
  /\ pos' = [n \in Node |->
               IF Passes(n, "TxCompleted") \/ Passes(n, "EndOfMessage") THEN Len(log') ELSE pos[n]]

RecordedInit == Init /\ log = <<>> /\ pos = [n \in Node |-> 0]
RecordedNext == Next /\ Records

LineFairSpec ==
  RecordedInit /\ [][RecordedNext]_line_vars /\ WF_line_vars(Runs /\ Records)

(* Whatever is told to the hosts is what the abstract line allows: all of  *)
(* them are told the same messages in the same order, each once and        *)
(* unchanged, but for what a node mistakes while it waits to send.  See    *)
(* the run owuart_arbitration for that.  As TransmissionIntact, it wants   *)
(* that no message is the beginning of another one: the sender of the      *)
(* shorter one would report the rest of the longer one to its host.        *)
TheLine == INSTANCE Line WITH
  Message <- UNION {[1 .. k -> Byte] : k \in 0 .. MaxMsg},
  pending <- [n \in Node |-> owuart[n].tx_buffer],
  log     <- [k \in DOMAIN log |-> log[k].msg]

ImplementsLine == TheLine!LineSpec
=============================================================================
