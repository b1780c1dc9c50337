-------------------------------- MODULE Uart ---------------------------------
(***************************************************************************)
(* A serial port of 86DUINO/core/uart.cpp: the queues between the program  *)
(* and UART_ISR, the transmitter interrupt (THREI) that is switched on and *)
(* off as there is something to send and as flow control allows, and the   *)
(* two flow controls, RTS/CTS and XON/XOFF.                                *)
(*                                                                         *)
(* A step of the program is a DisableINT/RestoreINT section or a statement *)
(* outside one; a step of the ISR is one character received or one other   *)
(* source of interrupt served.  The 16550 and the peer on the line are     *)
(* external.  Bytes are numbered in the order they are handed over.        *)
(***************************************************************************)
EXTENDS Integers, Sequences, FiniteSets, Streams

CONSTANTS
  Controls,   (* the flow controls a port may be set to                     *)
  TxSize,     (* TX_QUEUE_SIZE                                              *)
  RxSize,     (* RX_QUEUE_SIZE                                              *)
  NearFull,   (* NEAR_FULL_SIZE                                             *)
  Fifo,       (* depth of the 16550's two FIFOs                             *)
  WFifo,      (* port->WFIFO_Size                                           *)
  Slack,      (* bytes the peer may still send after RTS is dropped         *)
  MaxTx,      (* bound: bytes the program sends                             *)
  MaxRx,      (* bound: bytes the peer sends                                *)
  MaxFlips    (* bound: how often the peer stops or resumes us              *)

ASSUME UartAssumption ==
  /\ Controls \subseteq {"NO_CONTROL", "RTS_CTS", "XON_XOFF"}
  /\ {TxSize, RxSize, NearFull, Fifo, WFifo} \subseteq Nat \ {0}
  /\ {Slack, MaxTx, MaxRx, MaxFlips} \subseteq Nat
  /\ NearFull < RxSize /\ WFifo <= Fifo

Threshold == RxSize - NearFull

\* XON_ASCII, XOFF_ASCII: no byte of data
XON == 0
XOFF == -1
Marks == {XON, XOFF}

VARIABLES
  control,        (* port->control, set before traffic starts               *)
  xmit, rcvd,     (* the queues, oldest byte first                          *)
  threi,          (* THREI in port->ier                                     *)
  ien,            (* THREI in the register IER                              *)
  cts, rts,       (* port->cts is CTS_ON, port->rts is 1 as is RTS in MCR   *)
  rcvdXon,        (* port->xonxoff_rcvd is XON_RCVD                         *)
  xmitXon,        (* port->xonxoff_xmit is XON_XMIT                         *)
  xon, xoff,      (* port->xon, port->xoff: a character to send             *)
  isr,            (* UART_ISR: "out", "top" of its loop, or receiving, "rx" *)
  main, left,     (* the program: in uart_Send with bytes left to queue     *)
  txFifo, rxFifo, (* the 16550's FIFOs                                      *)
  thri, msi,      (* its transmitter and modem status interrupts, pending   *)
  ctsLine,        (* the level of the line CTS                              *)
  peer,           (* the peer: bytes sent, slack used, stopped by XOFF,     *)
                  (* flips made                                             *)
  log             (* for the properties: bytes queued, flushed, lost, seen  *)

queues == <<xmit, rcvd>>
enable == <<threi, ien>>
flow == <<cts, rts, rcvdXon, xmitXon, xon, xoff>>
program == <<main, left>>
line == <<ctsLine, peer>>
vars == <<control, xmit, rcvd, threi, ien, cts, rts, rcvdXon, xmitXon, xon, xoff, isr,
          main, left, txFifo, rxFifo, thri, msi, ctsLine, peer, log>>

\* After uart_Init, which enables THREI, and uart_SetFlowControl; UART_ISR may
\* have found nothing to send in between.
Init ==
  /\ control \in Controls
  /\ xmit = <<>> /\ rcvd = <<>>
  /\ threi \in BOOLEAN /\ ien = threi /\ thri = threi
  /\ ctsLine \in BOOLEAN /\ cts = (ctsLine /\ control = "RTS_CTS")
  /\ rts = (control = "RTS_CTS")
  /\ rcvdXon = (control = "XON_XOFF") /\ xmitXon = (control = "XON_XOFF")
  /\ xon = 0 /\ xoff = 0
  /\ isr = "out" /\ main = "idle" /\ left = 0
  /\ txFifo = <<>> /\ rxFifo = <<>> /\ msi = FALSE
  /\ peer = [sent |-> 0, slack |-> Slack, stopped |-> FALSE, flips |-> 0]
  /\ log = [queued |-> 0, flushedTx |-> {}, lostTx |-> {}, wire |-> <<>>,
            flushedRx |-> {}, lostRx |-> {}, read |-> <<>>, marks |-> <<>>]

-----------------------------------------------------------------------------
(* THREI.                                                                  *)

\* io_outpb(port->IER, port->ier |= 0x02): enabling the interrupt of a
\* transmitter that is already empty raises it.
SetThrei ==
  /\ threi' = TRUE /\ ien' = TRUE
  /\ thri' = (thri \/ (~ien /\ txFifo = <<>>))

\* io_outpb(port->IER, port->ier &= 0xfd)
ClearRegister == ien' = FALSE /\ thri' = FALSE /\ UNCHANGED threi
ClearThrei == threi' = FALSE /\ ien' = FALSE /\ thri' = FALSE

KeepThrei == UNCHANGED <<threi, ien, thri>>

\* What the flow control knows of the peer lets us send.
Permitted ==
  CASE control = "NO_CONTROL" -> TRUE
    [] control = "RTS_CTS"    -> cts
    [] control = "XON_XOFF"   -> rcvdXon

Full(q) == Len(q) >= RxSize
NearlyFull(q) == Len(q) >= Threshold

-----------------------------------------------------------------------------
(* The program.  It runs while the ISR does not.                           *)

SendStart ==
  /\ isr = "out" /\ main = "idle"
  /\ left' \in 1 .. MaxTx - log.queued
  /\ main' = "send"
  /\ UNCHANGED <<queues, enable, flow, isr, txFifo, rxFifo, thri, msi, line, log>>

\* THREI is enabled with the last byte, or when the queue fills.
EnablesLast(q) == left = 1
EnablesAfter(q) == left = 1 \/ Len(q) = TxSize

NeverWaits == TRUE
HasRoom == Len(xmit) < TxSize

\* _send_int: one turn of its loop once the queue has room.
SendByte ==
  /\ isr = "out" /\ main = "send" /\ HasRoom
  /\ LET q == IF Len(xmit) < TxSize THEN Append(xmit, log.queued + 1) ELSE xmit IN
     /\ xmit' = q
     /\ IF ~threi /\ EnablesAfter(q) /\ Permitted THEN SetThrei ELSE KeepThrei
  /\ log' = [log EXCEPT !.queued = @ + 1]
  /\ left' = left - 1
  /\ main' = IF left = 1 THEN "idle" ELSE "send"
  /\ UNCHANGED <<rcvd, flow, isr, txFifo, rxFifo, msi, line>>

\* _send_int: the queue stays full for TxTimeOut; THREI is enabled outside
\* DisableINT/RestoreINT, first in port->ier, then in the register.
SendTimeOut ==
  /\ isr = "out" /\ main = "send" /\ Len(xmit) = TxSize
  /\ IF threi THEN main' = "idle" /\ UNCHANGED threi
     ELSE main' = "late" /\ threi' = TRUE
  /\ left' = 0
  /\ UNCHANGED <<queues, ien, flow, isr, txFifo, rxFifo, thri, msi, line, log>>

SendLate ==
  /\ isr = "out" /\ main = "late"
  /\ ien' = TRUE
  /\ thri' = (thri \/ (~ien /\ txFifo = <<>>))
  /\ main' = "idle"
  /\ UNCHANGED <<queues, threi, flow, isr, left, txFifo, rxFifo, msi, line, log>>

\* After a byte has left the queue of received bytes: raise RTS, or have XON
\* sent, below the threshold.
RaisesNot(q) == FALSE
RaisesRts(q) == control = "RTS_CTS" /\ ~NearlyFull(q)
AsksAgain(q) == control = "XON_XOFF" /\ ~NearlyFull(q)
AsksXon(q) == control = "XON_XOFF" /\ ~NearlyFull(q) /\ ~xmitXon

Reopen(q) ==
  /\ rts' = (rts \/ RaisesRts(q))
  /\ IF AsksXon(q)
     THEN xon' = 1 /\ SetThrei
     ELSE UNCHANGED xon /\ KeepThrei
  /\ UNCHANGED <<cts, rcvdXon, xmitXon, xoff>>

PeerSeesRts == peer' = [peer EXCEPT !.slack = IF rts' THEN Slack ELSE @]

\* _recv_int: one turn of its loop.
Receive ==
  /\ isr = "out" /\ main = "idle" /\ rcvd # <<>>
  /\ rcvd' = Tail(rcvd)
  /\ log' = [log EXCEPT !.read = Append(@, Head(rcvd))]
  /\ Reopen(Tail(rcvd)) /\ PeerSeesRts
  /\ UNCHANGED <<xmit, isr, program, txFifo, rxFifo, msi, ctsLine>>

\* uart_FlushRxQueue
FlushRxQueue ==
  /\ isr = "out" /\ main = "idle"
  /\ rcvd' = <<>>
  /\ log' = [log EXCEPT !.flushedRx = @ \cup Range(rcvd)]
  /\ Reopen(<<>>) /\ PeerSeesRts
  /\ UNCHANGED <<xmit, isr, program, txFifo, rxFifo, msi, ctsLine>>

\* uart_FlushTxQueue
FlushTxQueue ==
  /\ isr = "out" /\ main = "idle"
  /\ xmit' = <<>>
  /\ log' = [log EXCEPT !.flushedTx = @ \cup Range(xmit)]
  /\ UNCHANGED <<rcvd, enable, flow, isr, program, txFifo, rxFifo, thri, msi, line>>

-----------------------------------------------------------------------------
(* UART_ISR.  IIR tells the source with the highest priority.              *)

Source ==
  IF rxFifo # <<>> THEN "receive"
  ELSE IF ien /\ thri THEN "transmit"
  ELSE IF msi THEN "modem"
  ELSE "none"

IsrEntry ==
  /\ isr = "out" /\ Source # "none"
  /\ isr' = "top"
  /\ UNCHANGED <<queues, enable, flow, program, txFifo, rxFifo, thri, msi, line, log>>

\* The end of a turn: leave when the queue of received bytes is nearly full.
EndTurn(q) == isr' = IF NearlyFull(q) THEN "out" ELSE "top"

IsrExit ==
  /\ isr = "top" /\ Source = "none"
  /\ isr' = "out"
  /\ UNCHANGED <<queues, enable, flow, program, txFifo, rxFifo, thri, msi, line, log>>

\* PushQueue; a full queue keeps what it holds.
PushedOver(q, c) == IF Len(q) < RxSize THEN Append(q, c) ELSE Append(Tail(q), c)
Pushed(q, c) == IF Len(q) < RxSize THEN Append(q, c) ELSE q

\* A byte of data, put in the queue if it has room; RTS is dropped, or XOFF is
\* sent, from the threshold on.
ReceiveData(c, more) ==
  LET q == Pushed(rcvd, c) IN
  /\ rcvd' = q
  /\ log' = [log EXCEPT !.lostRx = IF q = rcvd THEN @ \cup {c} ELSE @]
  /\ rts' = (rts /\ ~(control = "RTS_CTS" /\ NearlyFull(q)))
  /\ IF control = "XON_XOFF" /\ NearlyFull(q) /\ xmitXon
     THEN xoff' = 1 /\ SetThrei
     ELSE UNCHANGED xoff /\ KeepThrei
  /\ IF more THEN isr' = "rx" ELSE EndTurn(q)
  /\ UNCHANGED <<cts, rcvdXon, xmitXon, xon>>

\* XON or XOFF received.
SwitchThrei(c) == IF c = XON THEN SetThrei ELSE ClearThrei

ReceiveFlow(c, more) ==
  /\ rcvdXon' = (c = XON)
  /\ SwitchThrei(c)
  /\ IF more THEN isr' = "rx" ELSE EndTurn(rcvd)
  /\ UNCHANGED <<rcvd, cts, rts, xmitXon, xon, xoff, log>>

\* One turn of the loop that empties the receiver.
IsrReceive ==
  /\ \/ isr = "top" /\ Source = "receive"
     \/ isr = "rx"
  /\ LET c == Head(rxFifo)
         more == Tail(rxFifo) # <<>>
     IN IF c \in Marks THEN ReceiveFlow(c, more) ELSE ReceiveData(c, more)
  /\ rxFifo' = Tail(rxFifo)
  /\ UNCHANGED <<xmit, program, txFifo, msi, line>>

\* The bytes of xmit put in the transmitter after the XON or XOFF of "marks".
\* A 16550 whose FIFO is full drops what is written.
Transmit(marks, n) ==
  LET out == txFifo \o marks \o SubSeq(xmit, 1, n)
      fits == IF Len(out) < Fifo THEN Len(out) ELSE Fifo
  IN /\ txFifo' = SubSeq(out, 1, fits)
     /\ log' = [log EXCEPT !.lostTx = @ \cup Range(SubSeq(out, fits + 1, Len(out)))]
     /\ xmit' = SubSeq(xmit, n + 1, Len(xmit))

\* XOFF goes before XON.
SendMark ==
  /\ xoff' = 0
  /\ xon' = IF xoff = 1 THEN xon ELSE 0
  /\ xmitXon' = IF xoff = 1 THEN FALSE ELSE xon = 1 \/ xmitXon

Mark == IF xoff = 1 THEN <<XOFF>> ELSE IF xon = 1 THEN <<XON>> ELSE <<>>

Batch == IF Len(xmit) < WFifo THEN Len(xmit) ELSE WFifo

\* The transmitter is empty: fill its FIFO, or disable THREI when there is
\* nothing to send or the peer forbids it.
IsrTransmit ==
  /\ isr = "top" /\ Source = "transmit"
  /\ IF control = "XON_XOFF" THEN SendMark ELSE UNCHANGED <<xmitXon, xon, xoff>>
  /\ IF xmit = <<>> \/ ~Permitted
     THEN Transmit(Mark, 0) /\ ClearThrei
     ELSE /\ Transmit(Mark, Batch)
          /\ thri' = FALSE /\ UNCHANGED enable
  /\ EndTurn(rcvd)
  /\ UNCHANGED <<rcvd, cts, rts, rcvdXon, program, rxFifo, msi, line>>

\* CTS allows to send again.
CtsNoted == KeepThrei
CtsRises == IF xmit # <<>> THEN SetThrei ELSE KeepThrei

\* The modem status, which tells the level of CTS.
IsrModem ==
  /\ isr = "top" /\ Source = "modem"
  /\ msi' = FALSE
  /\ IF control # "RTS_CTS" \/ cts = ctsLine THEN KeepThrei /\ UNCHANGED cts
     ELSE /\ cts' = ctsLine
          /\ IF cts THEN ClearThrei ELSE CtsRises
  /\ EndTurn(rcvd)
  /\ UNCHANGED <<queues, rts, rcvdXon, xmitXon, xon, xoff, program, txFifo,
                 rxFifo, line, log>>

-----------------------------------------------------------------------------
(* The 16550 and the peer.                                                 *)

\* One character goes out; the peer obeys XON and XOFF.
Drain ==
  /\ txFifo # <<>>
  /\ txFifo' = Tail(txFifo)
  /\ thri' = (thri \/ (ien /\ Tail(txFifo) = <<>>))
  /\ LET c == Head(txFifo) IN
     IF c \in Marks
     THEN /\ peer' = [peer EXCEPT !.stopped = (c = XOFF)]
          /\ log' = [log EXCEPT !.marks = Append(@, c)]
     ELSE /\ log' = [log EXCEPT !.wire = Append(@, c)]
          /\ UNCHANGED peer
  /\ UNCHANGED <<queues, enable, flow, isr, program, rxFifo, msi, ctsLine>>

PeerMaySend ==
  CASE control = "NO_CONTROL" -> TRUE
    [] control = "RTS_CTS"    -> rts \/ peer.slack > 0
    [] control = "XON_XOFF"   -> ~peer.stopped

PeerSend ==
  /\ peer.sent < MaxRx /\ Len(rxFifo) < Fifo /\ PeerMaySend
  /\ rxFifo' = Append(rxFifo, peer.sent + 1)
  /\ peer' = [peer EXCEPT !.sent = @ + 1,
                          !.slack = IF control = "RTS_CTS" /\ ~rts THEN @ - 1 ELSE Slack]
  /\ UNCHANGED <<queues, enable, flow, isr, program, txFifo, thri, msi, ctsLine, log>>

\* The peer stops us or lets us go on, by CTS or by a character.
PeerFlips ==
  /\ control # "NO_CONTROL" /\ peer.flips < MaxFlips
  /\ peer' = [peer EXCEPT !.flips = @ + 1]
  /\ IF control = "RTS_CTS"
     THEN ctsLine' = ~ctsLine /\ msi' = TRUE /\ UNCHANGED rxFifo
     ELSE /\ Len(rxFifo) < Fifo
          /\ rxFifo' = Append(rxFifo, IF peer.flips % 2 = 0 THEN XOFF ELSE XON)
          /\ UNCHANGED <<ctsLine, msi>>
  /\ UNCHANGED <<queues, enable, flow, isr, program, txFifo, thri, log>>

Program ==
  \/ SendStart \/ SendByte \/ SendTimeOut \/ SendLate
  \/ Receive \/ FlushRxQueue \/ FlushTxQueue
Isr == IsrEntry \/ IsrReceive \/ IsrTransmit \/ IsrModem \/ IsrExit
Line == Drain \/ PeerSend \/ PeerFlips

Next == (Program \/ Isr \/ Line) /\ UNCHANGED control

Spec == Init /\ [][Next]_vars

\* The interrupt is taken and the ISR returns, the transmitter sends what it
\* holds, and the program goes on with a uart_Send it has begun and with
\* reading.  Nobody must flush, time out, send, or let the other side send.
FairSpec ==
  /\ Spec
  /\ WF_vars(Isr /\ UNCHANGED control)
  /\ WF_vars(Drain /\ UNCHANGED control)
  /\ SF_vars((SendByte \/ SendLate) /\ UNCHANGED control)
  /\ SF_vars(Receive /\ UNCHANGED control)
-----------------------------------------------------------------------------
Bytes == Nat \ {0}
Chars == Bytes \cup Marks

\* Types; no queue and no FIFO holds more than it has room for, and the program
\* sees THREI enabled in port->ier only when the register has it, but between
\* the two steps of the time-out (uart.cpp:214).
TypeOK ==
  /\ xmit \in Seq(Bytes) /\ Len(xmit) <= TxSize
  /\ rcvd \in Seq(Bytes) /\ Len(rcvd) <= RxSize
  /\ {threi, ien, cts, rts, rcvdXon, xmitXon, thri, msi, ctsLine} \subseteq BOOLEAN
  /\ {xon, xoff} \subseteq 0 .. 1
  /\ isr \in {"out", "top", "rx"} /\ main \in {"idle", "send", "late"}
  /\ left \in 0 .. MaxTx
  /\ txFifo \in Seq(Chars) /\ Len(txFifo) <= Fifo
  /\ rxFifo \in Seq(Chars) /\ Len(rxFifo) <= Fifo
  /\ threi /\ main # "late" => ien

\* The XON and XOFF that have left the port, and what it sends next.
Marked == log.marks \o txFifo

\* What has left the port, what the transmitter holds and what is queued carry,
\* in order, the bytes given to uart_Send but those uart_FlushTxQueue threw away
\* and those the FIFO had no room for; a byte finds no room only behind an XON
\* or XOFF of ours in a FIFO filled to its depth, and then one does, no more
\* (uart.cpp:914-936).
TxStream ==
  /\ Carries(log.wire \o txFifo \o xmit, log.queued, log.flushedTx \cup log.lostTx)
  /\ log.lostTx \subseteq Bytes
  /\ control # "XON_XOFF" \/ WFifo < Fifo => log.lostTx = {}
  /\ Cardinality(log.lostTx) <= Cardinality({i \in DOMAIN Marked : Marked[i] \in Marks})

\* The same for the bytes the peer sends: none is doubled, reordered or lost,
\* but by a full queue or by uart_FlushRxQueue, and no XON or XOFF is read.
RxStream ==
  /\ Carries(log.read \o rcvd \o rxFifo, peer.sent, log.flushedRx \cup log.lostRx)
  /\ \A c \in Range(log.read \o rcvd) : c \notin Marks

\* With RTS/CTS the room kept free, NEAR_FULL_SIZE, takes what is in the FIFO
\* and on its way when RTS is dropped: no byte is lost (uart.cpp:840-844).
NoRxLoss == control = "RTS_CTS" /\ NearFull + 1 >= Fifo + Slack => log.lostRx = {}

\* When the program is not about to act, bytes are queued and the peer, as far
\* as the port knows, takes them, the transmitter interrupt is on its way, also
\* in the middle of UART_ISR: THREI is not left off by any order of sending,
\* interrupts, flow control, time-outs and flushes (uart.cpp:214-245, 852, 883, 961).
NoTxStall ==
  /\ main = "idle" \/ (main = "send" /\ Len(xmit) = TxSize)
  /\ xmit # <<>> /\ Permitted
  => ien /\ (thri \/ txFifo # <<>>)

\* The last of the XON and XOFF in s is an XOFF.
SaysStop(s) ==
  \E i \in DOMAIN s : s[i] = XOFF /\ \A j \in DOMAIN s : j > i => s[j] # XON

\* They alternate in s, XOFF first.
Alternate(s) ==
  /\ \A j \in DOMAIN s : s[j] = XON => \E i \in DOMAIN s : i < j /\ s[i] = XOFF
  /\ \A i, j \in DOMAIN s : i < j /\ s[i] = s[j] /\ s[i] \in Marks =>
       \E k \in DOMAIN s : i < k /\ k < j /\ s[k] \in Marks \ {s[i]}

\* With XON/XOFF, an XON and an XOFF are never both waiting to be sent, and
\* THREI is enabled for the one that waits unless the peer has stopped us; the
\* peer sees XOFF and XON in turn, and the last of them it sees or will see is
\* the one the port remembers having sent, so that the one that waits tells it
\* something new (uart.cpp:182-185, 861-865, 914-923).
MarksInTurn ==
  /\ xon = 1 => xoff = 0 /\ ~xmitXon
  /\ xoff = 1 => xmitXon
  /\ xon = 1 \/ xoff = 1 => threi \/ ~rcvdXon
  /\ Alternate(Marked)
  /\ control = "XON_XOFF" => xmitXon = ~SaysStop(Marked)

\* The peer lets us send.
Allowed ==
  CASE control = "NO_CONTROL" -> TRUE
    [] control = "RTS_CTS"    -> ctsLine
    [] control = "XON_XOFF"   -> peer.flips % 2 = 0

\* If in the end the peer lets us send, all that was given to uart_Send leaves.
AllSent == <>[]Allowed => <>[](main = "idle" /\ xmit = <<>> /\ txFifo = <<>>)

\* While the program reads, and is not held up in uart_Send for ever, a peer that
\* obeys RTS is told to go on again and again.
PeerGoesOn == control = "RTS_CTS" /\ <>[]Allowed => []<>rts
=============================================================================
