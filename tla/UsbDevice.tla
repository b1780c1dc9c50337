------------------------------ MODULE UsbDevice ------------------------------
(***************************************************************************)
(* The USB serial port of 86DUINO/core/USBCore.cpp: the device's state as  *)
(* the host's control transfers, suspends and bus resets move it, and the  *)
(* two bulk endpoints that USB_ISR and the program share.                  *)
(*                                                                         *)
(* The program runs only while the ISR does not; the host works at any     *)
(* time, but not between a bus reset and the ISR's answer to it: a reset   *)
(* lasts 10 ms or more.  A step of the program is a DisableINT/RestoreINT  *)
(* section or a statement outside one; a step of the ISR serves one of the *)
(* flags it read when it was entered.  Bytes are numbered in the order     *)
(* they are handed over.  Endpoint 0 is abstracted to whole requests, and  *)
(* endpoint 3 (HID) is left out.                                           *)
(***************************************************************************)
EXTENDS Integers, Sequences, Streams

CONSTANTS
  TxSize,     (* TX_QUEUE_SIZE                                              *)
  RxSize,     (* RX_QUEUE_SIZE                                              *)
  NearFull,   (* NEAR_FULL_SIZE                                             *)
  InMax,      (* EP2_MAX_PACKET_SIZE_IN                                     *)
  OutMax,     (* EP2_MAX_PACKET_SIZE_OUT                                    *)
  MaxTx,      (* bound: bytes the program sends                             *)
  MaxRx,      (* bound: bytes the host sends                                *)
  MaxRequest, (* bound: requests of the host                                *)
  MaxEvent    (* bound: bus resets and suspends                             *)

ASSUME UsbAssumption ==
  /\ {TxSize, RxSize, NearFull, InMax, OutMax} \subseteq Nat \ {0}
  /\ {MaxTx, MaxRx, MaxRequest, MaxEvent} \subseteq Nat
  /\ NearFull < RxSize /\ OutMax <= NearFull + 1

Threshold == RxSize - NearFull

VARIABLES
  state,        (* usb->state                                               *)
  xmit, rcvd,   (* the queues, oldest byte first                            *)
  transmitting, (* usb->bulk_in_transmitting                                *)
  lastLen,      (* ep2_in_len, static in EP2_InHandler                      *)
  main, left,   (* the program: where it is, bytes left in usb_Send         *)
  jobs,         (* USB_ISR: the flags it read and has yet to serve          *)
  flags,        (* the register ISR                                         *)
  in,           (* EP2 IN: InDLR's bit 31, and the packet in InBuf          *)
  out,          (* EP2 OUT: OutDLR's bit 31 and its count                   *)
  buf,          (* OutBuf                                                   *)
  request,      (* the request in SetupBuf                                  *)
  host,         (* what the host made of the device                         *)
  log           (* for the properties and the bounds                        *)

program == <<main, left>>
bulkIn == <<xmit, transmitting, lastLen, in>>
bulkOut == <<rcvd, out, buf>>
control == <<state, request, host>>
vars == <<state, xmit, rcvd, transmitting, lastLen, main, left, jobs, flags, in, out,
          buf, request, host, log>>

Garbage == 0   \* a byte nobody sent
Requests == {"SetAddress", "Configure", "Unconfigure", "Connect", "Disconnect"}

\* After usb_Init.
Init ==
  /\ state = "POWERED" /\ host = "attached" /\ request = "none"
  /\ xmit = <<>> /\ rcvd = <<>>
  /\ transmitting = FALSE /\ lastLen = 0
  /\ main = "idle" /\ left = 0
  /\ jobs = {} /\ flags = {}
  /\ in = [armed |-> FALSE, data |-> <<>>]
  /\ out = [armed |-> FALSE, count |-> 0]
  /\ buf = [i \in 1 .. OutMax |-> Garbage]
  /\ log = [queued |-> 0, dropped |-> {}, got |-> <<>>, open |-> FALSE,
            stranded |-> FALSE,
            sent |-> 0, lost |-> {}, overflow |-> {}, read |-> <<>>,
            torn |-> FALSE, deaf |-> FALSE, unasked |-> FALSE,
            fresh |-> TRUE, requests |-> 0, events |-> 0]

InIsr == jobs # {}

\* A packet is in OutBuf whose interrupt has not been served.
OutWaiting == "RX" \in flags \cup jobs
Waiting == IF OutWaiting /\ ~out.armed THEN SubSeq(buf, 1, out.count) ELSE <<>>

-----------------------------------------------------------------------------
(* EP2_InHandler, given bulk_in_transmitting and the queue.                *)

NeverBusy(b) == FALSE
Busy(b) == b

NoEmptyPacket == FALSE
FullPacket == lastLen = InMax

InHandler(b, q) ==
  LET n == IF Len(q) < InMax THEN Len(q) ELSE InMax IN
  \/ /\ Busy(b)
     /\ xmit' = q /\ transmitting' = b /\ UNCHANGED <<lastLen, in>>
  \/ /\ ~Busy(b) /\ (q # <<>> \/ FullPacket)
     /\ in' = [armed |-> TRUE, data |-> SubSeq(q, 1, n)]
     /\ xmit' = SubSeq(q, n + 1, Len(q))
     /\ transmitting' = TRUE /\ lastLen' = n
  \/ /\ ~Busy(b) /\ q = <<>> /\ ~FullPacket
     /\ xmit' = q /\ transmitting' = b /\ UNCHANGED <<lastLen, in>>

-----------------------------------------------------------------------------
(* The program.                                                            *)

\* usb_Send: the test of the state.
SendStart ==
  /\ ~InIsr /\ main = "idle" /\ state = "CDC_CONNECT"
  /\ left' \in 1 .. MaxTx - log.queued
  /\ main' = "send"
  /\ UNCHANGED <<bulkIn, bulkOut, jobs, flags, control, log>>

StartsWhenFull(q) == Len(q) = TxSize

\* The handler is called with the last byte, or when the queue fills.
Starts(q) == left = 1 \/ Len(q) = TxSize

\* One turn of the loop of usb_Send once the queue has room.
SendByte ==
  /\ ~InIsr /\ main = "send" /\ Len(xmit) < TxSize
  /\ LET q == Append(xmit, log.queued + 1) IN
     IF Starts(q) THEN InHandler(transmitting, q)
     ELSE xmit' = q /\ UNCHANGED <<transmitting, lastLen, in>>
  /\ log' = [log EXCEPT !.queued = @ + 1]
  /\ left' = left - 1
  /\ main' = IF left = 1 THEN "idle" ELSE "send"
  /\ UNCHANGED <<bulkOut, jobs, flags, control>>

\* The queue stays full for TxTimeOut.
SendTimeOut ==
  /\ ~InIsr /\ main = "send" /\ Len(xmit) = TxSize
  /\ main' = "late" /\ left' = 0
  /\ UNCHANGED <<bulkIn, bulkOut, jobs, flags, control, log>>

SendLate ==
  /\ ~InIsr /\ main = "late"
  /\ InHandler(transmitting, xmit)
  /\ main' = "idle"
  /\ UNCHANGED <<left, bulkOut, jobs, flags, control, log>>

FlushTxQueue ==
  /\ ~InIsr /\ main = "idle" /\ xmit # <<>>
  /\ xmit' = <<>>
  /\ log' = [log EXCEPT !.dropped = @ \cup Range(xmit)]
  /\ UNCHANGED <<transmitting, lastLen, in, program, bulkOut, jobs, flags, control>>

\* usb_Receive: the queue is found not empty, outside of DisableINT/RestoreINT.
ReceiveTest ==
  /\ ~InIsr /\ main = "idle" /\ rcvd # <<>>
  /\ main' = "reading"
  /\ UNCHANGED <<left, bulkIn, bulkOut, jobs, flags, control, log>>

ArmedOut == [armed |-> TRUE, count |-> OutMax]
Rest == IF rcvd = <<>> THEN <<>> ELSE Tail(rcvd)
SizeBefore == Len(rcvd)
SizeLeft == Len(Rest)

\* usb_Receive, the section: a bus reset may have emptied the queue, when a byte
\* nobody sent is returned, and a packet may have come in whose interrupt is masked.
Receive ==
  /\ ~InIsr /\ main = "reading"
  /\ LET rearms == SizeLeft < Threshold /\ ~out.armed IN
     /\ out' = IF rearms THEN ArmedOut ELSE out
     /\ log' = [log EXCEPT
          !.read = IF rcvd = <<>> THEN @ ELSE Append(@, Head(rcvd)),
          !.torn = @ \/ (rearms /\ OutWaiting),
          !.deaf = @ /\ ~rearms]
  /\ rcvd' = Rest
  /\ main' = "idle"
  /\ UNCHANGED <<left, bulkIn, buf, jobs, flags, control>>

\* usb_FlushRxQueue does not enable the endpoint.
FlushRxQueue ==
  /\ ~InIsr /\ main = "idle" /\ rcvd # <<>>
  /\ rcvd' = <<>>
  /\ log' = [log EXCEPT !.lost = @ \cup Range(rcvd),
                        !.deaf = ~out.armed /\ ~OutWaiting]
  /\ UNCHANGED <<out, buf, program, bulkIn, jobs, flags, control>>

-----------------------------------------------------------------------------
(* USB_ISR.                                                                *)

\* The order in which the flags are served.
Turn == [BRST |-> 1, SUSP |-> 2, SETUP |-> 3, RX |-> 4, TX |-> 5]
Flags == DOMAIN Turn

IsrEntry ==
  /\ ~InIsr /\ flags # {}
  /\ jobs' = flags
  /\ UNCHANGED <<program, bulkIn, bulkOut, flags, control, log>>

Serving(f) ==
  /\ f \in jobs /\ \A g \in jobs : Turn[f] <= Turn[g]
  /\ jobs' = jobs \ {f}

\* usb_Reset: the soft reset clears the endpoints' registers; the fields
\* bulk_in_transmitting and ep2_in_len stay.
ServeReset ==
  /\ Serving("BRST")
  /\ state' = "POWERED"
  /\ xmit' = <<>> /\ rcvd' = <<>>
  /\ in' = [armed |-> FALSE, data |-> <<>>]
  /\ out' = [armed |-> FALSE, count |-> 0]
  /\ flags' = {}
  /\ log' = [log EXCEPT
       !.dropped = @ \cup Range(xmit) \cup Range(in.data),
       !.lost = @ \cup Range(rcvd) \cup Range(Waiting),
       !.stranded = @ \/ (transmitting /\ "TX" \notin jobs),
       !.deaf = FALSE]
  /\ UNCHANGED <<program, transmitting, lastLen, buf, request, host>>

ServeSuspend ==
  /\ Serving("SUSP")
  /\ state' = "POWERED" /\ flags' = flags \ {"SUSP"}
  /\ UNCHANGED <<program, bulkIn, bulkOut, request, host, log>>

\* The states a request is answered in.
Accepted ==
  CASE request = "SetAddress"  -> state # "CONFIGURED"
    [] request = "Configure"   -> state \in {"ADDRESS", "CONFIGURED"}
    [] request = "Unconfigure" -> state \in {"ADDRESS", "CONFIGURED"}
    [] OTHER                   -> TRUE

NextState ==
  CASE request = "SetAddress"  -> "ADDRESS"
    [] request = "Unconfigure" -> "ADDRESS"
    [] request = "Connect"     -> "CDC_CONNECT"
    [] OTHER                   -> "CONFIGURED"

SetOut ==
  CASE request = "Configure" /\ state = "ADDRESS" -> ArmedOut
    [] request = "Unconfigure" /\ state = "CONFIGURED" -> [armed |-> FALSE, count |-> 0]
    [] OTHER -> out

\* The host goes on if the request is answered, but not if it has reset the bus
\* since it made it.
HostAfter ==
  CASE ~log.fresh -> host
    [] log.fresh /\ request \in {"SetAddress", "Unconfigure"} -> "addressed"
    [] log.fresh /\ request = "Configure" -> "configured"
    [] OTHER -> host

\* EP0_SetupHandler and the handler of the request; the status stage with it.
ServeSetup ==
  /\ Serving("SETUP")
  /\ flags' = flags \ {"SETUP"} /\ request' = "none"
  /\ IF Accepted
     THEN /\ state' = NextState /\ out' = SetOut
          /\ host' = HostAfter
          /\ log' = [log EXCEPT
               !.torn = @ \/ (SetOut # out /\ OutWaiting),
               !.unasked = @ \/ (SetOut.armed /\ ~out.armed /\ Len(rcvd) >= Threshold),
               !.deaf = @ /\ ~SetOut.armed]
     ELSE UNCHANGED <<state, out, host, log>>
  /\ UNCHANGED <<program, bulkIn, rcvd, buf>>

\* The bytes EP2_OutHandler takes from OutBuf, and the queue after PushQueue.
Taken == SubSeq(buf, 1, out.count)
Received == rcvd \o Taken
Pushed == IF Len(Received) > RxSize THEN SubSeq(Received, 1, RxSize) ELSE Received

AtMost(q) == Len(q) <= Threshold
HasRoom(q) == Len(q) < Threshold

ServeOut ==
  /\ Serving("RX")
  /\ flags' = flags \ {"RX"}
  /\ rcvd' = Pushed
  /\ out' = IF HasRoom(Pushed) THEN ArmedOut ELSE out
  /\ log' = [log EXCEPT
       !.overflow = @ \cup Range(SubSeq(Received, RxSize + 1, Len(Received))),
       !.deaf = FALSE]
  /\ UNCHANGED <<program, bulkIn, buf, control>>

ServeIn ==
  /\ Serving("TX")
  /\ flags' = flags \ {"TX"}
  /\ InHandler(FALSE, xmit)
  /\ UNCHANGED <<program, bulkOut, control, log>>

-----------------------------------------------------------------------------
(* The host and the controller.                                            *)

HostRuns == "BRST" \notin flags

\* What a host may ask of the device at each stage.
Offered ==
  CASE host = "attached"   -> {"SetAddress"}
    [] host = "addressed"  -> {"Configure"}
    [] host = "configured" -> {"Unconfigure", "Connect", "Disconnect"}

\* The endpoint takes a request once the last one has been served; after a bus
\* reset the ISR is over before the host starts again.
HostRequest ==
  /\ HostRuns /\ "SETUP" \notin flags \cup jobs /\ log.requests < MaxRequest
  /\ request' \in Offered
  /\ flags' = flags \cup {"SETUP"}
  /\ log' = [log EXCEPT !.requests = @ + 1, !.fresh = TRUE]
  /\ UNCHANGED <<state, host, program, bulkIn, bulkOut, jobs>>

\* The host takes the packet the endpoint holds.
HostTakes ==
  /\ HostRuns /\ host = "configured" /\ in.armed
  /\ in' = [armed |-> FALSE, data |-> <<>>]
  /\ flags' = flags \cup {"TX"}
  /\ log' = [log EXCEPT !.got = @ \o in.data, !.open = Len(in.data) = InMax]
  /\ UNCHANGED <<xmit, transmitting, lastLen, program, bulkOut, jobs, control>>

HostSends ==
  /\ HostRuns /\ host = "configured" /\ out.armed
  /\ \E n \in 1 .. OutMax :
       /\ log.sent + n <= MaxRx
       /\ buf' = [i \in 1 .. OutMax |-> IF i <= n THEN log.sent + i ELSE buf[i]]
       /\ out' = [armed |-> FALSE, count |-> n]
       /\ log' = [log EXCEPT !.sent = @ + n]
  /\ flags' = flags \cup {"RX"}
  /\ UNCHANGED <<rcvd, program, bulkIn, jobs, control>>

BusReset ==
  /\ HostRuns /\ log.events < MaxEvent
  /\ host' = "attached" /\ flags' = flags \cup {"BRST"}
  /\ log' = [log EXCEPT !.events = @ + 1, !.fresh = FALSE]
  /\ UNCHANGED <<state, request, program, bulkIn, bulkOut, jobs>>

\* The host suspends the bus, and resumes it without enumerating the device anew.
Suspend ==
  /\ HostRuns /\ log.events < MaxEvent
  /\ flags' = flags \cup {"SUSP"}
  /\ log' = [log EXCEPT !.events = @ + 1]
  /\ UNCHANGED <<control, program, bulkIn, bulkOut, jobs>>

Program ==
  \/ SendStart \/ SendByte \/ SendTimeOut \/ SendLate \/ FlushTxQueue
  \/ ReceiveTest \/ Receive \/ FlushRxQueue
Isr == IsrEntry \/ ServeReset \/ ServeSuspend \/ ServeSetup \/ ServeOut \/ ServeIn
Host == HostRequest \/ HostTakes \/ HostSends \/ BusReset \/ Suspend

Next == Program \/ Isr \/ Host

Spec == Init /\ [][Next]_vars
-----------------------------------------------------------------------------
TypeOK ==
  /\ state \in {"POWERED", "ADDRESS", "CONFIGURED", "CDC_CONNECT"}
  /\ xmit \in Seq(1 .. MaxTx) /\ Len(xmit) <= TxSize
  /\ rcvd \in Seq(0 .. MaxRx) /\ Len(rcvd) <= RxSize
  /\ transmitting \in BOOLEAN /\ lastLen \in 0 .. InMax
  /\ main \in {"idle", "send", "late", "reading"} /\ left \in 0 .. MaxTx
  /\ jobs \subseteq Flags /\ flags \subseteq Flags
  /\ in \in [armed : BOOLEAN, data : Seq(1 .. MaxTx)] /\ Len(in.data) <= InMax
  /\ out \in [armed : BOOLEAN, count : 0 .. OutMax]
  /\ buf \in [1 .. OutMax -> 0 .. MaxRx]
  /\ request \in Requests \cup {"none"}
  /\ host \in {"attached", "addressed", "configured"}

\* The host gets the bytes given to usb_Send in order, each once, but those a flush
\* or a bus reset discards: no packet is written over before the host took it
\* (USBCore.cpp:1010, 1279).
TxStream == IsStream(log.got \o in.data \o xmit, log.queued, log.dropped)

\* The program reads the bytes the host sent in order, each once, but those a
\* flush or a bus reset discards: the queue has room for the packet the endpoint
\* is enabled for, unless Set_Configuration enabled it without a look at the queue
\* (USBCore.cpp:1054, 533).  All this as long as nobody enables the endpoint while
\* a packet is still in OutBuf: usb_Receive does if the packet came in while the
\* interrupt is masked (1749-1753).  A bus reset between its test and its section
\* makes it return a byte nobody sent, which log.read leaves out.
RxStream ==
  ~log.torn =>
    /\ IsStream(log.read \o rcvd \o Waiting, log.sent, log.lost \cup log.overflow)
    /\ log.overflow = {} \/ log.unasked

\* While the program is out of usb_Send and bytes are queued, a packet is with the
\* host or its interrupt is on the way: EP2_InHandler will be called again.  The
\* one way to stall is a bus reset that discards a packet and leaves
\* bulk_in_transmitting set (USBCore.cpp:1129-1162).
NoTxStall ==
  ~InIsr /\ main \in {"idle", "reading"} /\ (xmit # <<>> \/ transmitting)
    /\ ~log.stranded => in.armed \/ "TX" \in flags \/ "BRST" \in flags

\* When nothing is left to transmit the last packet the host took was a short or
\* an empty one, which ends the host's transfer (USBCore.cpp:1011-1018).
TransfersEnd ==
  ~InIsr /\ main = "idle" /\ xmit = <<>> /\ ~transmitting => ~log.open

\* A configured device with room in its queue can be sent to, unless the program
\* flushed the queue while the endpoint was disabled, after which nobody enables
\* it (USBCore.cpp:1752, 1765).
RxArmed ==
  host = "configured" /\ ~InIsr /\ Len(rcvd) < Threshold /\ ~log.deaf =>
    out.armed \/ OutWaiting
=============================================================================
