--------------------------- MODULE UsbDeviceProofs ----------------------------
(***************************************************************************)
(* Proofs about UsbDevice, for queues and packets of any size and any      *)
(* number of bytes, requests, suspends and bus resets.                     *)
(*                                                                         *)
(* The three parts of the invariant follow the device's three concerns.    *)
(* BulkIn ties bulk_in_transmitting to the packet the endpoint holds or to *)
(* the interrupt of one the host took, in the register or among the flags  *)
(* USB_ISR has yet to serve.  BulkOut keeps room for the packet the        *)
(* endpoint is enabled for, as long as it is enabled by those who look at  *)
(* the queue.  Control says how far the device can be from what its host   *)
(* takes it to be.                                                         *)
(***************************************************************************)
EXTENDS UsbDevice, StreamProofs

Log == [queued : 0 .. MaxTx, dropped : SUBSET (1 .. MaxTx), got : Seq(1 .. MaxTx),
        open : BOOLEAN, stranded : BOOLEAN,
        sent : 0 .. MaxRx, lost : SUBSET (0 .. MaxRx), overflow : SUBSET (0 .. MaxRx),
        read : Seq(0 .. MaxRx), torn : BOOLEAN, deaf : BOOLEAN, unasked : BOOLEAN,
        fresh : BOOLEAN, requests : Nat, events : Nat]

Types == TypeOK /\ log \in Log

InWaiting == "TX" \in flags \cup jobs

BulkIn ==
  /\ main = "send" => left >= 1 /\ log.queued + left <= MaxTx
  /\ in.armed \/ InWaiting => transmitting
  /\ in.armed => ~InWaiting /\ Len(in.data) = lastLen
  /\ ~in.armed => in.data = <<>>
  /\ transmitting /\ ~log.stranded => in.armed \/ InWaiting
  /\ main \in {"idle", "reading"} /\ xmit # <<>> => transmitting
  /\ log.open => transmitting
  /\ InWaiting => (log.open <=> lastLen = InMax)

TxBytes == log.dropped \subseteq 1 .. log.queued /\ TxStream

BulkOut ==
  ~log.torn =>
    /\ OutWaiting => ~out.armed
    /\ ~log.unasked /\ (out.armed \/ OutWaiting) => Len(rcvd) + OutMax <= RxSize

RxBytes ==
  /\ ~log.torn => log.lost \cup log.overflow \subseteq 1 .. log.sent
  /\ RxStream

Control ==
  /\ "BRST" \in jobs => "BRST" \in flags
  /\ "BRST" \in flags => ~log.fresh
  /\ ~log.fresh => host = "attached"
  /\ "SETUP" \in flags \cup jobs /\ log.fresh => request \in Offered
  /\ host = "addressed" => state \in {"ADDRESS", "POWERED"}
  /\ host = "configured" /\ Len(rcvd) < Threshold /\ ~log.deaf =>
       out.armed \/ OutWaiting

IInv == Types /\ BulkIn /\ TxBytes /\ BulkOut /\ RxBytes /\ Control

-----------------------------------------------------------------------------
(* The endpoints' handlers and the flags.                                  *)

\* EP2_InHandler leaves the bytes where they are in the stream; it either starts
\* the endpoint, or finds nothing to do.
LEMMA InHandlerEffect ==
  ASSUME Types, NEW b \in BOOLEAN, NEW q \in Seq(1 .. MaxTx), Len(q) <= TxSize,
         InHandler(b, q)
  PROVE  /\ xmit' \in Seq(1 .. MaxTx) /\ Len(xmit') <= TxSize
         /\ in' \in [armed : BOOLEAN, data : Seq(1 .. MaxTx)] /\ Len(in'.data) <= InMax
         /\ transmitting' \in BOOLEAN /\ lastLen' \in 0 .. InMax
         /\ \/ xmit' = q /\ transmitting' = b /\ in' = in /\ lastLen' = lastLen
               /\ (b \/ (q = <<>> /\ lastLen # InMax))
            \/ /\ ~b /\ transmitting' = TRUE /\ in'.armed /\ Len(in'.data) = lastLen'
               /\ in'.data \o xmit' = q
<1> DEFINE n == IF Len(q) < InMax THEN Len(q) ELSE InMax
           a == SubSeq(q, 1, n)
           r == SubSeq(q, n + 1, Len(q))
<1>1. Len(q) \in Nat /\ InMax \in Nat \ {0} /\ TxSize \in Nat
  BY UsbAssumption
<1>2. n \in 0 .. Len(q) /\ n \in 0 .. InMax
  BY <1>1
<1> HIDE DEF n
<1>3. /\ a \in Seq(1 .. MaxTx) /\ Len(a) = n /\ r \in Seq(1 .. MaxTx)
      /\ Len(r) = Len(q) - n /\ a \o r = q
  BY <1>2, Split
<1>4. \/ xmit' = q /\ transmitting' = b /\ in' = in /\ lastLen' = lastLen
         /\ (b \/ (q = <<>> /\ lastLen # InMax))
      \/ /\ ~b /\ in' = [armed |-> TRUE, data |-> a] /\ xmit' = r
         /\ transmitting' = TRUE /\ lastLen' = n
  BY DEF InHandler, Busy, FullPacket, n
<1> HIDE DEF a, r
<1>5. CASE xmit' = q /\ transmitting' = b /\ in' = in /\ lastLen' = lastLen
           /\ (b \/ (q = <<>> /\ lastLen # InMax))
  BY <1>5 DEF Types, TypeOK
<1>6. CASE /\ ~b /\ in' = [armed |-> TRUE, data |-> a] /\ xmit' = r
           /\ transmitting' = TRUE /\ lastLen' = n
  <2>1. in'.armed = TRUE /\ in'.data = a /\ n <= InMax /\ n <= Len(q)
    BY <1>1, <1>2, <1>6
  <2>2. in' \in [armed : BOOLEAN, data : Seq(1 .. MaxTx)]
    BY <1>3, <1>6
  <2>3. Len(r) <= Len(q)
    BY <1>1, <1>2, <1>3
  <2>4. Len(xmit') <= TxSize
    BY <1>1, <1>2, <1>3, <1>6, <2>3
  <2>5. xmit' \in Seq(1 .. MaxTx) /\ Len(in'.data) <= InMax
    BY <1>2, <1>3, <1>6, <2>1
  <2>6. transmitting' \in BOOLEAN /\ lastLen' \in 0 .. InMax
    BY <1>2, <1>6
  <2>7. in'.data \o xmit' = q /\ Len(in'.data) = lastLen'
    BY <1>3, <1>6, <2>1
  <2> QED BY <1>6, <2>1, <2>2, <2>4, <2>5, <2>6, <2>7
<1> QED BY <1>4, <1>5, <1>6

\* The packet in OutBuf.
LEMMA TakenBytes ==
  ASSUME Types
  PROVE  /\ Taken \in Seq(0 .. MaxRx) /\ Len(Taken) = out.count
         /\ \A i \in 1 .. out.count : Taken[i] = buf[i]
<1>1. /\ OutMax \in Nat /\ out.count \in 0 .. OutMax /\ buf \in [1 .. OutMax -> 0 .. MaxRx]
  BY UsbAssumption DEF Types, TypeOK
<1>3. \A i \in 1 .. out.count : buf[i] \in 0 .. MaxRx
  BY <1>1
<1>4. 1 \in Int /\ out.count \in Int /\ (out.count - 1) + 1 = out.count
  BY <1>1
<1>5. /\ Taken \in Seq(0 .. MaxRx)
      /\ Len(Taken) = IF 1 <= out.count THEN (out.count - 1) + 1 ELSE 0
      /\ \A i \in 1 .. (out.count - 1) + 1 : Taken[i] = buf[1 + i - 1]
  BY <1>3, <1>4, SubSeqProperties DEF Taken
<1>6. Len(Taken) = out.count
  BY <1>1, <1>5
<1>7. \A i \in 1 .. out.count : Taken[i] = buf[i]
  BY <1>1, <1>4, <1>5
<1> QED BY <1>5, <1>6, <1>7

\* The packet that waits to be read.
LEMMA WaitingBytes ==
  ASSUME Types
  PROVE  /\ Waiting \in Seq(0 .. MaxRx)
         /\ Waiting = IF OutWaiting /\ ~out.armed THEN Taken ELSE <<>>
<1>1. <<>> \in Seq(0 .. MaxRx) /\ Taken \in Seq(0 .. MaxRx)
  BY TakenBytes, EmptySeq
<1>2. Waiting = IF OutWaiting /\ ~out.armed THEN Taken ELSE <<>>
  BY DEF Waiting, Taken
<1> QED BY <1>1, <1>2

\* PushQueue takes what there is room for.
LEMMA PushedBytes ==
  ASSUME Types
  PROVE  /\ Pushed \in Seq(0 .. MaxRx) /\ Len(Pushed) <= RxSize
         /\ SubSeq(Received, RxSize + 1, Len(Received)) \in Seq(0 .. MaxRx)
         /\ Pushed \o SubSeq(Received, RxSize + 1, Len(Received)) = rcvd \o Taken
         /\ Len(rcvd) + out.count <= RxSize =>
              SubSeq(Received, RxSize + 1, Len(Received)) = <<>>
<1>1. /\ RxSize \in Nat /\ rcvd \in Seq(0 .. MaxRx) /\ Len(rcvd) <= RxSize
      /\ Len(rcvd) \in Nat
  BY UsbAssumption DEF Types, TypeOK
<1>2. Received \in Seq(0 .. MaxRx) /\ Len(Received) = Len(rcvd) + out.count
  BY <1>1, TakenBytes, ConcatProperties DEF Received
<1> DEFINE r == Received
           e == SubSeq(r, RxSize + 1, Len(r))
<1>3. r \in Seq(0 .. MaxRx) /\ Len(r) \in Nat
  BY <1>2, LenProperties
<1>4. CASE Len(r) > RxSize
  <2>1. RxSize \in 0 .. Len(r) /\ Pushed = SubSeq(r, 1, RxSize)
    BY <1>1, <1>3, <1>4 DEF Pushed
  <2> HIDE DEF r
  <2>2. /\ Pushed \in Seq(0 .. MaxRx) /\ Len(Pushed) = RxSize
        /\ e \in Seq(0 .. MaxRx) /\ Pushed \o e = r
    BY <1>3, <2>1, Split
  <2>3. ~(Len(rcvd) + out.count <= RxSize)
    BY <1>1, <1>2, <1>3, <1>4 DEF r
  <2>4. Len(Pushed) <= RxSize
    BY <1>1, <2>2
  <2> QED BY <2>2, <2>3, <2>4 DEF r, Received
<1>5. CASE ~(Len(r) > RxSize)
  <2>1. Pushed = r /\ Len(r) < RxSize + 1 /\ Len(r) <= RxSize
    BY <1>1, <1>3, <1>5 DEF Pushed
  <2>2. e = <<>>
    BY <1>1, <1>3, <2>1, SubSeqEmpty
  <2>3. e \in Seq(0 .. MaxRx) /\ r \o e = r
    BY <1>3, <2>2, EmptySeq, ConcatEmptySeq
  <2> QED BY <1>3, <2>1, <2>2, <2>3 DEF Received
<1> QED BY <1>4, <1>5

\* A flag that is served is among those read, and all others stay.
LEMMA ServingOne ==
  ASSUME Types, NEW f \in Flags, Serving(f)
  PROVE  f \in jobs /\ jobs' = jobs \ {f} /\ jobs' \subseteq Flags
BY DEF Types, TypeOK, Serving

-----------------------------------------------------------------------------
(* What each action does to log.                                           *)

\* What a call of usb_Send asks for.
LEMMA SendStartLog ==
  ASSUME Types, SendStart
  PROVE  /\ log' = log /\ left' \in Nat /\ left' >= 1 /\ log.queued + left' <= MaxTx
         /\ left' <= MaxTx
<1>1. log.queued \in 0 .. MaxTx /\ MaxTx \in Nat
  BY UsbAssumption DEF Types, Log
<1>2. left' \in 1 .. MaxTx - log.queued /\ log' = log
  BY DEF SendStart
<1> QED BY <1>1, <1>2

\* What sending a byte does to the log.
LEMMA SendByteLog ==
  ASSUME Types, SendByte, log.queued < MaxTx
  PROVE  /\ log' \in Log /\ log'.queued = log.queued + 1 /\ log'.dropped = log.dropped
         /\ log'.got = log.got /\ log'.open = log.open /\ log'.stranded = log.stranded
<1> DEFINE n == log.queued + 1
<1>1. n \in 0 .. MaxTx
  <2>1. MaxTx \in Nat
    BY UsbAssumption
  <2> QED BY <2>1 DEF Types, Log
<1>2. log' = [log EXCEPT !.queued = n]
  BY DEF SendByte
<1> HIDE DEF n
<1>3. /\ log' \in Log /\ log'.queued = n /\ log'.dropped = log.dropped
      /\ log'.got = log.got /\ log'.open = log.open /\ log'.stranded = log.stranded
  BY <1>1, <1>2 DEF Types, Log
<1> QED BY <1>3 DEF n

\* And what it leaves alone.
LEMMA SendByteRest ==
  ASSUME Types, SendByte
  PROVE  /\ log'.sent = log.sent /\ log'.lost = log.lost
         /\ log'.overflow = log.overflow /\ log'.read = log.read
         /\ log'.torn = log.torn /\ log'.deaf = log.deaf
         /\ log'.unasked = log.unasked /\ log'.fresh = log.fresh
BY DEF SendByte, Types, Log

\* What usb_FlushTxQueue does to the log.
LEMMA FlushTxLog ==
  ASSUME Types, FlushTxQueue
  PROVE  /\ log' \in Log /\ log'.queued = log.queued
         /\ log'.dropped = log.dropped \cup Range(xmit)
         /\ log'.got = log.got /\ log'.open = log.open /\ log'.stranded = log.stranded
         /\ log'.sent = log.sent /\ log'.lost = log.lost
         /\ log'.overflow = log.overflow /\ log'.read = log.read
         /\ log'.torn = log.torn /\ log'.deaf = log.deaf
         /\ log'.unasked = log.unasked /\ log'.fresh = log.fresh
<1> DEFINE d == log.dropped \cup Range(xmit)
<1>1. d \in SUBSET (1 .. MaxTx)
  BY RangeOfSeq DEF Types, TypeOK, Log
<1>2. log' = [log EXCEPT !.dropped = d]
  BY DEF FlushTxQueue
<1> HIDE DEF d
<1>3. log'.dropped = d
  BY <1>2 DEF Types, Log
<1> QED BY <1>1, <1>2, <1>3 DEF Types, Log, d

\* What reading a byte does to the log.
LEMMA ReceiveLog ==
  ASSUME Types, Receive
  PROVE  LET rearms == SizeLeft < Threshold /\ ~out.armed IN
         /\ log' \in Log /\ log'.queued = log.queued /\ log'.dropped = log.dropped
         /\ log'.got = log.got /\ log'.open = log.open /\ log'.stranded = log.stranded
         /\ log'.sent = log.sent /\ log'.lost = log.lost /\ log'.overflow = log.overflow
         /\ log'.read = IF rcvd = <<>> THEN log.read ELSE Append(log.read, Head(rcvd))
         /\ log'.torn = (log.torn \/ (rearms /\ OutWaiting))
         /\ log'.deaf = (log.deaf /\ ~rearms)
         /\ log'.unasked = log.unasked /\ log'.fresh = log.fresh
<1> DEFINE rearms == SizeLeft < Threshold /\ ~out.armed
           r == IF rcvd = <<>> THEN log.read ELSE Append(log.read, Head(rcvd))
           t == log.torn \/ (rearms /\ OutWaiting)
           d == log.deaf /\ ~rearms
<1>1. r \in Seq(0 .. MaxRx) /\ t \in BOOLEAN /\ d \in BOOLEAN
  <2>1. rcvd # <<>> => Head(rcvd) \in 0 .. MaxRx
    BY HeadTailProperties DEF Types, TypeOK
  <2>2. log.read \in Seq(0 .. MaxRx)
    BY DEF Types, Log
  <2>3. r \in Seq(0 .. MaxRx)
    BY <2>1, <2>2, AppendProperties
  <2> QED BY <2>3 DEF Types, Log
<1>2. log' = [log EXCEPT !.read = r, !.torn = t, !.deaf = d]
  BY DEF Receive
<1> HIDE DEF r, t, d
<1>3. log'.read = r /\ log'.torn = t /\ log'.deaf = d
  BY <1>2 DEF Types, Log
<1>4. log' \in Log
  BY <1>1, <1>2 DEF Types, Log
<1>5. /\ log'.queued = log.queued /\ log'.dropped = log.dropped
      /\ log'.got = log.got /\ log'.open = log.open /\ log'.stranded = log.stranded
      /\ log'.sent = log.sent /\ log'.lost = log.lost /\ log'.overflow = log.overflow
      /\ log'.unasked = log.unasked /\ log'.fresh = log.fresh
  BY <1>2 DEF Types, Log
<1> QED BY <1>3, <1>4, <1>5 DEF r, t, d

\* What usb_FlushRxQueue does to the log.
LEMMA FlushRxLog ==
  ASSUME Types, FlushRxQueue
  PROVE  /\ log' \in Log /\ log'.queued = log.queued /\ log'.dropped = log.dropped
         /\ log'.got = log.got /\ log'.open = log.open /\ log'.stranded = log.stranded
         /\ log'.sent = log.sent /\ log'.lost = log.lost \cup Range(rcvd)
         /\ log'.overflow = log.overflow /\ log'.read = log.read
         /\ log'.torn = log.torn /\ log'.deaf = (~out.armed /\ ~OutWaiting)
         /\ log'.unasked = log.unasked /\ log'.fresh = log.fresh
<1> DEFINE l == log.lost \cup Range(rcvd)
           d == ~out.armed /\ ~OutWaiting
<1>1. l \in SUBSET (0 .. MaxRx) /\ d \in BOOLEAN
  BY RangeOfSeq DEF Types, TypeOK, Log
<1>2. log' = [log EXCEPT !.lost = l, !.deaf = d]
  BY DEF FlushRxQueue
<1> HIDE DEF l, d
<1>3. log'.lost = l /\ log'.deaf = d
  BY <1>2 DEF Types, Log
<1>4. log' \in Log
  BY <1>1, <1>2 DEF Types, Log
<1> QED BY <1>2, <1>3, <1>4 DEF Types, Log, l, d

\* What the answer to a bus reset does to the log.
LEMMA ServeResetLog ==
  ASSUME Types, ServeReset
  PROVE  /\ log' \in Log /\ log'.queued = log.queued
         /\ log'.dropped = log.dropped \cup Range(xmit) \cup Range(in.data)
         /\ log'.got = log.got /\ log'.open = log.open
         /\ log'.stranded = (log.stranded \/ (transmitting /\ "TX" \notin jobs))
         /\ log'.sent = log.sent
         /\ log'.lost = log.lost \cup Range(rcvd) \cup Range(Waiting)
         /\ log'.overflow = log.overflow /\ log'.read = log.read
         /\ log'.torn = log.torn /\ log'.deaf = FALSE
         /\ log'.unasked = log.unasked /\ log'.fresh = log.fresh
<1> DEFINE p == log.dropped \cup Range(xmit) \cup Range(in.data)
           s == log.stranded \/ (transmitting /\ "TX" \notin jobs)
           l == log.lost \cup Range(rcvd) \cup Range(Waiting)
<1>1. p \in SUBSET (1 .. MaxTx)
  BY RangeOfSeq DEF Types, TypeOK, Log
<1>2. l \in SUBSET (0 .. MaxRx)
  BY RangeOfSeq, WaitingBytes DEF Types, TypeOK, Log
<1>3. s \in BOOLEAN
  BY DEF Types, TypeOK, Log
<1>4. log' = [log EXCEPT !.dropped = p, !.lost = l, !.stranded = s, !.deaf = FALSE]
  BY DEF ServeReset
<1> HIDE DEF p, s, l
<1>5. log'.dropped = p /\ log'.stranded = s /\ log'.lost = l /\ log'.deaf = FALSE
  BY <1>4 DEF Types, Log
<1>6. log' \in Log
  BY <1>1, <1>2, <1>3, <1>4 DEF Types, Log
<1>7. /\ log'.queued = log.queued /\ log'.got = log.got /\ log'.open = log.open
      /\ log'.sent = log.sent /\ log'.overflow = log.overflow /\ log'.read = log.read
      /\ log'.torn = log.torn /\ log'.unasked = log.unasked /\ log'.fresh = log.fresh
  BY <1>4 DEF Types, Log
<1> QED BY <1>5, <1>6, <1>7 DEF p, s, l

\* The state Set_Configuration leaves OutDLR in.
LEMMA SetOutType ==
  ASSUME Types
  PROVE  /\ SetOut \in [armed : BOOLEAN, count : 0 .. OutMax]
         /\ ArmedOut \in [armed : BOOLEAN, count : 0 .. OutMax]
         /\ ArmedOut.armed = TRUE /\ ArmedOut.count = OutMax
<1>1. OutMax \in 0 .. OutMax /\ 0 \in 0 .. OutMax
  BY UsbAssumption
<1>2. /\ ArmedOut \in [armed : BOOLEAN, count : 0 .. OutMax]
      /\ ArmedOut.armed = TRUE /\ ArmedOut.count = OutMax
  BY <1>1 DEF ArmedOut
<1>3. [armed |-> FALSE, count |-> 0] \in [armed : BOOLEAN, count : 0 .. OutMax]
  BY <1>1
<1>4. out \in [armed : BOOLEAN, count : 0 .. OutMax]
  BY DEF Types, TypeOK
<1> QED BY <1>2, <1>3, <1>4 DEF SetOut

\* What serving a request does to the log.
LEMMA ServeSetupLog ==
  ASSUME Types, ServeSetup
  PROVE  /\ log' \in Log /\ log'.queued = log.queued /\ log'.dropped = log.dropped
         /\ log'.got = log.got /\ log'.open = log.open /\ log'.stranded = log.stranded
         /\ log'.sent = log.sent /\ log'.lost = log.lost /\ log'.overflow = log.overflow
         /\ log'.read = log.read /\ log'.fresh = log.fresh
         /\ Accepted =>
              /\ log'.torn = (log.torn \/ (SetOut # out /\ OutWaiting))
              /\ log'.deaf = (log.deaf /\ ~SetOut.armed)
              /\ log'.unasked =
                   (log.unasked \/ (SetOut.armed /\ ~out.armed /\ Len(rcvd) >= Threshold))
         /\ ~Accepted => log' = log
<1> DEFINE t == log.torn \/ (SetOut # out /\ OutWaiting)
           u == log.unasked \/ (SetOut.armed /\ ~out.armed /\ Len(rcvd) >= Threshold)
           d == log.deaf /\ ~SetOut.armed
<1>1. t \in BOOLEAN /\ u \in BOOLEAN /\ d \in BOOLEAN
  BY DEF Types, Log
<1>2. IF Accepted THEN log' = [log EXCEPT !.torn = t, !.unasked = u, !.deaf = d]
      ELSE log' = log
  BY DEF ServeSetup
<1> HIDE DEF t, u, d
<1>3. Accepted => log'.torn = t /\ log'.unasked = u /\ log'.deaf = d
  BY <1>2 DEF Types, Log
<1>4. log' \in Log
  <2>1. CASE Accepted
    <3>1. log' = [log EXCEPT !.torn = t, !.unasked = u, !.deaf = d]
      BY <1>2, <2>1
    <3> QED BY <1>1, <3>1 DEF Types, Log
  <2>2. CASE ~Accepted
    BY <1>2, <2>2 DEF Types
  <2> QED BY <2>1, <2>2
<1>5. /\ log'.queued = log.queued /\ log'.dropped = log.dropped
      /\ log'.got = log.got /\ log'.open = log.open /\ log'.stranded = log.stranded
      /\ log'.sent = log.sent /\ log'.lost = log.lost /\ log'.overflow = log.overflow
      /\ log'.read = log.read /\ log'.fresh = log.fresh
  BY <1>2 DEF Types, Log
<1> QED BY <1>2, <1>3, <1>4, <1>5 DEF t, u, d

Overrun == SubSeq(Received, RxSize + 1, Len(Received))

\* What reading a packet into the queue does to the log.
LEMMA ServeOutLog ==
  ASSUME Types, ServeOut
  PROVE  /\ log' \in Log /\ log'.queued = log.queued /\ log'.dropped = log.dropped
         /\ log'.got = log.got /\ log'.open = log.open /\ log'.stranded = log.stranded
         /\ log'.sent = log.sent /\ log'.lost = log.lost
         /\ log'.overflow = log.overflow \cup Range(Overrun)
         /\ log'.read = log.read /\ log'.torn = log.torn /\ log'.deaf = FALSE
         /\ log'.unasked = log.unasked /\ log'.fresh = log.fresh
<1> DEFINE o == log.overflow \cup Range(Overrun)
<1>1. Overrun \in Seq(0 .. MaxRx)
  BY PushedBytes DEF Overrun
<1>2. o \in SUBSET (0 .. MaxRx)
  BY <1>1, RangeOfSeq DEF Types, Log
<1>3. log' = [log EXCEPT !.overflow = o, !.deaf = FALSE]
  BY DEF ServeOut, Overrun
<1> HIDE DEF o
<1>4. log'.overflow = o /\ log'.deaf = FALSE
  BY <1>3 DEF Types, Log
<1>5. log' \in Log
  BY <1>2, <1>3 DEF Types, Log
<1> QED BY <1>3, <1>4, <1>5 DEF Types, Log, o

\* What a request of the host does to the log.
LEMMA HostRequestLog ==
  ASSUME Types, HostRequest
  PROVE  /\ log' \in Log /\ log'.queued = log.queued /\ log'.dropped = log.dropped
         /\ log'.got = log.got /\ log'.open = log.open /\ log'.stranded = log.stranded
         /\ log'.sent = log.sent /\ log'.lost = log.lost /\ log'.overflow = log.overflow
         /\ log'.read = log.read /\ log'.torn = log.torn /\ log'.deaf = log.deaf
         /\ log'.unasked = log.unasked /\ log'.fresh = TRUE
<1> DEFINE n == log.requests + 1
<1>1. n \in Nat
  BY DEF Types, Log
<1>2. log' = [log EXCEPT !.requests = n, !.fresh = TRUE]
  BY DEF HostRequest
<1> HIDE DEF n
<1>3. log' \in Log
  BY <1>1, <1>2 DEF Types, Log
<1> QED BY <1>2, <1>3 DEF Types, Log

\* What the host's taking a packet does to the log.
LEMMA HostTakesLog ==
  ASSUME Types, HostTakes
  PROVE  /\ log' \in Log /\ log'.queued = log.queued /\ log'.dropped = log.dropped
         /\ log'.got = log.got \o in.data
         /\ log'.open = (Len(in.data) = InMax) /\ log'.stranded = log.stranded
         /\ log'.sent = log.sent /\ log'.lost = log.lost /\ log'.overflow = log.overflow
         /\ log'.read = log.read /\ log'.torn = log.torn /\ log'.deaf = log.deaf
         /\ log'.unasked = log.unasked /\ log'.fresh = log.fresh
<1> DEFINE g == log.got \o in.data
           o == Len(in.data) = InMax
<1>1. log.got \in Seq(1 .. MaxTx) /\ in.data \in Seq(1 .. MaxTx)
  BY DEF Types, TypeOK, Log
<1>2. g \in Seq(1 .. MaxTx) /\ o \in BOOLEAN
  BY <1>1, ConcatProperties
<1>3. log' = [log EXCEPT !.got = g, !.open = o]
  BY DEF HostTakes
<1> HIDE DEF g, o
<1>4. log'.got = g /\ log'.open = o
  BY <1>3 DEF Types, Log
<1>5. log' \in Log
  BY <1>2, <1>3 DEF Types, Log
<1> QED BY <1>3, <1>4, <1>5 DEF Types, Log, g, o

\* What a packet of the host does to the log.
LEMMA HostSendsLog ==
  ASSUME Types, NEW n \in 1 .. OutMax, log.sent + n <= MaxRx,
         log' = [log EXCEPT !.sent = @ + n]
  PROVE  /\ log' \in Log /\ log'.queued = log.queued /\ log'.dropped = log.dropped
         /\ log'.got = log.got /\ log'.open = log.open /\ log'.stranded = log.stranded
         /\ log'.sent = log.sent + n /\ log'.lost = log.lost
         /\ log'.overflow = log.overflow
         /\ log'.read = log.read /\ log'.torn = log.torn /\ log'.deaf = log.deaf
         /\ log'.unasked = log.unasked /\ log'.fresh = log.fresh
<1> DEFINE m == log.sent + n
<1>1. m \in 0 .. MaxRx
  <2>1. MaxRx \in Nat /\ n \in Nat
    BY UsbAssumption
  <2> QED BY <2>1 DEF Types, Log
<1>2. log' = [log EXCEPT !.sent = m]
  OBVIOUS
<1> HIDE DEF m
<1>3. log'.sent = m
  BY <1>2 DEF Types, Log
<1> QED BY <1>1, <1>2, <1>3 DEF Types, Log, m

\* What a bus reset or a suspend does to the log.
LEMMA EventLog ==
  ASSUME Types, BusReset \/ Suspend
  PROVE  /\ log' \in Log /\ log'.queued = log.queued /\ log'.dropped = log.dropped
         /\ log'.got = log.got /\ log'.open = log.open /\ log'.stranded = log.stranded
         /\ log'.sent = log.sent /\ log'.lost = log.lost /\ log'.overflow = log.overflow
         /\ log'.read = log.read /\ log'.torn = log.torn /\ log'.deaf = log.deaf
         /\ log'.unasked = log.unasked
         /\ BusReset => log'.fresh = FALSE
         /\ Suspend => log'.fresh = log.fresh
<1> DEFINE n == log.events + 1
<1>1. n \in Nat
  BY DEF Types, Log
<1>2. /\ BusReset => log' = [log EXCEPT !.events = n, !.fresh = FALSE]
      /\ Suspend => log' = [log EXCEPT !.events = n]
  BY DEF BusReset, Suspend
<1> HIDE DEF n
<1>3. CASE BusReset
  <2>1. log' = [log EXCEPT !.events = n, !.fresh = FALSE]
    BY <1>2, <1>3
  <2>2. log' \in Log
    BY <1>1, <2>1 DEF Types, Log
  <2>3. Suspend => log'.fresh = log.fresh
    BY <1>1, <1>2 DEF Types, Log
  <2> QED BY <2>1, <2>2, <2>3 DEF Types, Log
<1>4. CASE Suspend
  <2>1. log' = [log EXCEPT !.events = n]
    BY <1>2, <1>4
  <2>2. log' \in Log
    BY <1>1, <2>1 DEF Types, Log
  <2>3. BusReset => log'.fresh = FALSE
    BY <1>1, <1>2 DEF Types, Log
  <2> QED BY <2>1, <2>2, <2>3 DEF Types, Log
<1> QED BY <1>3, <1>4

-----------------------------------------------------------------------------
(* Types.                                                                  *)

\* The types at first.
LEMMA InitTypes == Init => Types
<1> SUFFICES ASSUME Init PROVE Types
  OBVIOUS
<1>1. /\ {TxSize, RxSize, NearFull, InMax, OutMax} \subseteq Nat \ {0}
      /\ MaxTx \in Nat /\ MaxRx \in Nat
  BY UsbAssumption
<1>2. /\ <<>> \in Seq(1 .. MaxTx) /\ <<>> \in Seq(0 .. MaxRx) /\ Len(<<>>) = 0
  BY EmptySeq
<1>3. log \in Log
  BY <1>1, <1>2 DEF Init, Log
<1>4. /\ in \in [armed : BOOLEAN, data : Seq(1 .. MaxTx)] /\ Len(in.data) <= InMax
      /\ out \in [armed : BOOLEAN, count : 0 .. OutMax]
  BY <1>1, <1>2 DEF Init
<1>5. buf \in [1 .. OutMax -> 0 .. MaxRx]
  BY <1>1 DEF Init, Garbage
<1>6. /\ state \in {"POWERED", "ADDRESS", "CONFIGURED", "CDC_CONNECT"}
      /\ transmitting \in BOOLEAN /\ lastLen \in 0 .. InMax
      /\ main \in {"idle", "send", "late", "reading"} /\ left \in 0 .. MaxTx
      /\ jobs \subseteq Flags /\ flags \subseteq Flags
      /\ request \in Requests \cup {"none"}
      /\ host \in {"attached", "addressed", "configured"}
  <2>1. 0 \in 0 .. InMax /\ 0 \in 0 .. MaxTx
    BY <1>1
  <2> QED BY <2>1 DEF Init
<1>7. /\ xmit \in Seq(1 .. MaxTx) /\ Len(xmit) <= TxSize
      /\ rcvd \in Seq(0 .. MaxRx) /\ Len(rcvd) <= RxSize
  BY <1>1, <1>2 DEF Init
<1> QED BY <1>3, <1>4, <1>5, <1>6, <1>7 DEF Types, TypeOK

FlagNames ==
  Flags = {"BRST", "SUSP", "SETUP", "RX", "TX"}

\* The flags by name.
LEMMA FlagsAre == FlagNames
BY DEF FlagNames, Flags, Turn

\* The type invariant has a part for what is sent, one for what is received and
\* one for the rest.
TxType ==
  /\ xmit \in Seq(1 .. MaxTx) /\ Len(xmit) <= TxSize
  /\ transmitting \in BOOLEAN /\ lastLen \in 0 .. InMax
  /\ in \in [armed : BOOLEAN, data : Seq(1 .. MaxTx)] /\ Len(in.data) <= InMax

RxType ==
  /\ rcvd \in Seq(0 .. MaxRx) /\ Len(rcvd) <= RxSize
  /\ out \in [armed : BOOLEAN, count : 0 .. OutMax]
  /\ buf \in [1 .. OutMax -> 0 .. MaxRx]

ControlType ==
  /\ state \in {"POWERED", "ADDRESS", "CONFIGURED", "CDC_CONNECT"}
  /\ main \in {"idle", "send", "late", "reading"} /\ left \in 0 .. MaxTx
  /\ jobs \subseteq Flags /\ flags \subseteq Flags
  /\ request \in Requests \cup {"none"}
  /\ host \in {"attached", "addressed", "configured"}

\* The types in three parts, which the steps keep one by one.
LEMMA TypeParts ==
  /\ Types <=> TxType /\ RxType /\ ControlType /\ log \in Log
  /\ Types' <=> TxType' /\ RxType' /\ ControlType' /\ log' \in Log
BY DEF Types, TypeOK, TxType, RxType, ControlType

\* There are bytes left to queue.
LEMMA BytesLeft ==
  ASSUME Types, BulkIn, SendByte
  PROVE  /\ log.queued < MaxTx /\ log.queued + 1 \in 1 .. MaxTx
         /\ log.queued \in Nat /\ left \in Nat /\ left >= 1 /\ log.queued + left <= MaxTx
<1>1. left >= 1 /\ log.queued + left <= MaxTx
  BY DEF SendByte, BulkIn
<1>2. left \in Nat
  BY DEF Types, TypeOK
<1>3. log.queued \in Nat /\ MaxTx \in Nat
  BY UsbAssumption DEF Types, Log
<1> QED BY <1>1, <1>2, <1>3

\* The types of the transmitting side are kept.
LEMMA TxTypeStep ==
  ASSUME Types, BulkIn, Next
  PROVE  TxType'
<1>1. TxType
  BY TypeParts
<1>2. MaxTx \in Nat /\ TxSize \in Nat /\ <<>> \in Seq(1 .. MaxTx) /\ Len(<<>>) = 0
      /\ InMax \in Nat
  BY UsbAssumption, EmptySeq
<1>3. CASE SendByte
  <2> DEFINE q == Append(xmit, log.queued + 1)
  <2>1. log.queued + 1 \in 1 .. MaxTx
    BY <1>3, BytesLeft
  <2>2. q \in Seq(1 .. MaxTx) /\ Len(q) <= TxSize
    BY <1>1, <1>2, <1>3, <2>1, AppendProperties DEF SendByte, TxType
  <2>3. \/ InHandler(transmitting, q)
        \/ xmit' = q /\ UNCHANGED <<transmitting, lastLen, in>>
    BY <1>3 DEF SendByte
  <2> HIDE DEF q
  <2>4. CASE InHandler(transmitting, q)
    BY <1>1, <2>2, <2>4, InHandlerEffect DEF TxType
  <2>5. CASE xmit' = q /\ UNCHANGED <<transmitting, lastLen, in>>
    BY <1>1, <2>2, <2>5 DEF TxType
  <2> QED BY <2>3, <2>4, <2>5
<1>4. CASE SendLate
  <2>1. InHandler(transmitting, xmit)
    BY <1>4 DEF SendLate
  <2> QED BY <1>1, <2>1, InHandlerEffect DEF TxType
<1>5. CASE ServeIn
  <2>1. InHandler(FALSE, xmit)
    BY <1>5 DEF ServeIn
  <2> QED BY <1>1, <2>1, InHandlerEffect DEF TxType
<1>6. CASE FlushTxQueue
  BY <1>1, <1>2, <1>6 DEF FlushTxQueue, TxType
<1>7. CASE ServeReset \/ HostTakes
  <2>1. in' = [armed |-> FALSE, data |-> <<>>] /\ (xmit' = <<>> \/ xmit' = xmit)
        /\ transmitting' = transmitting /\ lastLen' = lastLen
    BY <1>7 DEF ServeReset, HostTakes
  <2>2. in' \in [armed : BOOLEAN, data : Seq(1 .. MaxTx)] /\ Len(in'.data) <= InMax
    BY <1>2, <2>1
  <2>3. xmit' \in Seq(1 .. MaxTx) /\ Len(xmit') <= TxSize
    <3>1. CASE xmit' = <<>>
      BY <1>2, <3>1
    <3>2. CASE xmit' = xmit
      BY <1>1, <3>2 DEF TxType
    <3> QED BY <2>1, <3>1, <3>2
  <2> QED BY <1>1, <2>1, <2>2, <2>3 DEF TxType
<1>8. CASE UNCHANGED bulkIn
  BY <1>1, <1>8 DEF TxType, bulkIn
<1> QED
  BY <1>3, <1>4, <1>5, <1>6, <1>7, <1>8 DEF Next, Program, Isr, Host, SendStart,
     SendTimeOut, ReceiveTest, Receive, FlushRxQueue, IsrEntry, ServeSuspend,
     ServeSetup, ServeOut, HostRequest, HostSends, BusReset, Suspend

\* Those of the receiving side are kept.
LEMMA RxTypeStep ==
  ASSUME Types, Next
  PROVE  RxType'
<1>1. RxType
  BY TypeParts
<1>2. /\ RxSize \in Nat /\ <<>> \in Seq(0 .. MaxRx) /\ Len(<<>>) = 0
      /\ [armed |-> FALSE, count |-> 0] \in [armed : BOOLEAN, count : 0 .. OutMax]
  BY UsbAssumption, EmptySeq
<1>3. CASE Receive
  <2>1. /\ rcvd' = Rest /\ (out' = out \/ out' = ArmedOut) /\ buf' = buf
    BY <1>3 DEF Receive
  <2>2. rcvd # <<>> => Tail(rcvd) \in Seq(0 .. MaxRx) /\ Len(Tail(rcvd)) = Len(rcvd) - 1
    BY <1>1, HeadTailProperties DEF RxType
  <2>3. Rest \in Seq(0 .. MaxRx) /\ Len(Rest) <= RxSize
    <3>1. CASE rcvd = <<>>
      BY <1>2, <3>1 DEF Rest
    <3>2. CASE rcvd # <<>>
      BY <1>1, <1>2, <2>2, <3>2, LenProperties DEF RxType, Rest
    <3> QED BY <3>1, <3>2
  <2> QED BY <1>1, <2>1, <2>3, SetOutType DEF RxType
<1>4. CASE FlushRxQueue
  BY <1>1, <1>2, <1>4 DEF FlushRxQueue, RxType
<1>5. CASE ServeReset
  BY <1>1, <1>2, <1>5 DEF ServeReset, RxType
<1>6. CASE ServeSetup
  <2>1. rcvd' = rcvd /\ buf' = buf /\ (out' = out \/ out' = SetOut)
    BY <1>6 DEF ServeSetup
  <2> QED BY <1>1, <2>1, SetOutType DEF RxType
<1>7. CASE ServeOut
  <2>1. rcvd' = Pushed /\ buf' = buf /\ (out' = out \/ out' = ArmedOut)
    BY <1>7 DEF ServeOut
  <2> QED BY <1>1, <2>1, SetOutType, PushedBytes DEF RxType
<1>8. CASE HostSends
  <2>1. PICK n \in 1 .. OutMax :
          /\ log.sent + n <= MaxRx
          /\ buf' = [i \in 1 .. OutMax |-> IF i <= n THEN log.sent + i ELSE buf[i]]
          /\ out' = [armed |-> FALSE, count |-> n]
    BY <1>8 DEF HostSends
  <2>2. \A i \in 1 .. OutMax :
          (IF i <= n THEN log.sent + i ELSE buf[i]) \in 0 .. MaxRx
    <3>1. log.sent \in Nat /\ n \in Nat /\ MaxRx \in Nat /\ OutMax \in Nat
      BY UsbAssumption DEF Types, Log
    <3>2. buf \in [1 .. OutMax -> 0 .. MaxRx]
      BY <1>1 DEF RxType
    <3>3. ASSUME NEW i \in 1 .. OutMax
          PROVE  (IF i <= n THEN log.sent + i ELSE buf[i]) \in 0 .. MaxRx
      <4>1. i <= n => log.sent + i \in 0 .. MaxRx
        BY <2>1, <3>1
      <4>2. buf[i] \in 0 .. MaxRx
        BY <3>2
      <4> QED BY <4>1, <4>2
    <3> QED BY <3>3
  <2>3. buf' \in [1 .. OutMax -> 0 .. MaxRx]
    BY <2>1, <2>2
  <2>4. out' \in [armed : BOOLEAN, count : 0 .. OutMax]
    BY <2>1
  <2>5. rcvd' = rcvd
    BY <1>8 DEF HostSends
  <2> QED BY <1>1, <2>3, <2>4, <2>5 DEF RxType
<1>9. CASE UNCHANGED bulkOut
  BY <1>1, <1>9 DEF RxType, bulkOut
<1> QED
  BY <1>3, <1>4, <1>5, <1>6, <1>7, <1>8, <1>9 DEF Next, Program, Isr, Host, SendStart,
     SendByte, SendTimeOut, SendLate, FlushTxQueue, ReceiveTest, IsrEntry, ServeSuspend,
     ServeIn, HostRequest, HostTakes, BusReset, Suspend

\* Those of the device's state and flags are kept.
LEMMA ControlTypeStep ==
  ASSUME Types, BulkIn, Next
  PROVE  ControlType'
<1>1. ControlType
  BY TypeParts
<1>2. MaxTx \in Nat
  BY UsbAssumption
<1>3. CASE SendStart
  BY <1>1, <1>2, <1>3, SendStartLog DEF SendStart, control, ControlType
<1>4. CASE SendByte
  <2>1. left' = left - 1 /\ left >= 1
    BY <1>4 DEF SendByte, BulkIn
  <2> QED BY <1>1, <1>2, <1>4, <2>1 DEF SendByte, control, ControlType
<1>5. CASE \/ SendTimeOut \/ SendLate \/ FlushTxQueue \/ ReceiveTest \/ Receive
           \/ FlushRxQueue \/ IsrEntry \/ HostTakes \/ HostSends
  <2>1. UNCHANGED control /\ left' \in 0 .. MaxTx
        /\ main' \in {"idle", "send", "late", "reading"}
    BY <1>1, <1>2, <1>5 DEF SendTimeOut, SendLate, FlushTxQueue, ReceiveTest, Receive,
       FlushRxQueue, IsrEntry, HostTakes, HostSends, program, control, ControlType
  <2>2. jobs' \subseteq Flags /\ flags' \subseteq Flags
    BY <1>1, <1>5, FlagsAre DEF SendTimeOut, SendLate, FlushTxQueue, ReceiveTest, Receive,
       FlushRxQueue, IsrEntry, HostTakes, HostSends, ControlType, FlagNames
  <2> QED BY <1>1, <2>1, <2>2 DEF control, ControlType
<1>6. CASE ServeReset \/ ServeSuspend \/ ServeSetup \/ ServeOut \/ ServeIn
  <2>1. jobs' \subseteq Flags
    BY <1>1, <1>6 DEF ServeReset, ServeSuspend, ServeSetup, ServeOut, ServeIn, Serving,
       ControlType
  <2>2. flags' \subseteq Flags
    BY <1>1, <1>6 DEF ServeReset, ServeSuspend, ServeSetup, ServeOut, ServeIn, ControlType
  <2>3. UNCHANGED program
    BY <1>6 DEF ServeReset, ServeSuspend, ServeSetup, ServeOut, ServeIn, program
  <2>4. /\ state' \in {"POWERED", "ADDRESS", "CONFIGURED", "CDC_CONNECT"}
        /\ request' \in Requests \cup {"none"}
        /\ host' \in {"attached", "addressed", "configured"}
    BY <1>1, <1>6 DEF ServeReset, ServeSuspend, ServeSetup, ServeOut, ServeIn, control,
       ControlType, NextState, HostAfter
  <2> QED BY <1>1, <2>1, <2>2, <2>3, <2>4 DEF program, ControlType
<1>7. CASE HostRequest
  <2>1. request' \in Requests /\ state' = state /\ host' = host
    BY <1>1, <1>7 DEF HostRequest, Offered, Requests, ControlType
  <2> QED BY <1>1, <1>7, <2>1, FlagsAre DEF HostRequest, program, ControlType, FlagNames
<1>8. CASE BusReset \/ Suspend
  BY <1>1, <1>8, FlagsAre DEF BusReset, Suspend, program, control, ControlType, FlagNames
<1> QED BY <1>3, <1>4, <1>5, <1>6, <1>7, <1>8 DEF Next, Program, Isr, Host

\* That of the log is kept.
LEMMA LogStep ==
  ASSUME Types, BulkIn, Next
  PROVE  log' \in Log
<1>1. CASE SendByte
  <2>1. log.queued < MaxTx
    BY <1>1, BytesLeft
  <2> QED BY <1>1, <2>1, SendByteLog
<1>2. CASE FlushTxQueue
  BY <1>2, FlushTxLog
<1>3. CASE Receive
  BY <1>3, ReceiveLog
<1>4. CASE FlushRxQueue
  BY <1>4, FlushRxLog
<1>5. CASE ServeReset
  BY <1>5, ServeResetLog
<1>6. CASE ServeSetup
  BY <1>6, ServeSetupLog
<1>7. CASE ServeOut
  BY <1>7, ServeOutLog
<1>8. CASE HostRequest
  BY <1>8, HostRequestLog
<1>9. CASE HostTakes
  BY <1>9, HostTakesLog
<1>10. CASE HostSends
  <2>1. PICK n \in 1 .. OutMax : log.sent + n <= MaxRx /\ log' = [log EXCEPT !.sent = @ + n]
    BY <1>10 DEF HostSends
  <2> QED BY <2>1, HostSendsLog
<1>11. CASE BusReset \/ Suspend
  BY <1>11, EventLog
<1>12. CASE log' = log
  BY <1>12 DEF Types
<1> QED
  BY <1>1, <1>2, <1>3, <1>4, <1>5, <1>6, <1>7, <1>8, <1>9, <1>10, <1>11, <1>12
     DEF Next, Program, Isr, Host, SendStart, SendTimeOut, SendLate, ReceiveTest,
     IsrEntry, ServeSuspend, ServeIn

\* All types are kept.
LEMMA TypesStep ==
  ASSUME Types, BulkIn, Next
  PROVE  Types'
BY TypeParts, TxTypeStep, RxTypeStep, ControlTypeStep, LogStep

-----------------------------------------------------------------------------
(* The endpoint that sends.                                                *)

\* BulkIn at first.
LEMMA InitBulkIn == Init => BulkIn
BY DEF Init, BulkIn, InWaiting

\* A step that is not about sending.
LEMMA BulkInKept ==
  ASSUME BulkIn, UNCHANGED bulkIn, InWaiting' = InWaiting,
         main' \in {"idle", "reading"} => main \in {"idle", "reading"},
         main' # "send",
         log'.open = log.open, log'.stranded = log.stranded
  PROVE  BulkIn'
BY DEF BulkIn, bulkIn

\* Nor is one that leaves the program where it is.
LEMMA BulkInStays ==
  ASSUME BulkIn, UNCHANGED bulkIn, InWaiting' = InWaiting, UNCHANGED program,
         log'.queued = log.queued, log'.open = log.open,
         log'.stranded = log.stranded
  PROVE  BulkIn'
BY DEF BulkIn, bulkIn, program

\* USB_ISR serves or the host raises another flag.
LEMMA InWaitingKept ==
  ASSUME Types,
         \/ \E f \in Flags \ {"TX"} : Serving(f) /\ flags' = flags \ {f}
         \/ UNCHANGED jobs /\ \E f \in Flags \ {"TX"} : flags' = flags \cup {f}
         \/ UNCHANGED jobs /\ UNCHANGED flags
         \/ IsrEntry
  PROVE  InWaiting' = InWaiting
BY DEF InWaiting, Serving, IsrEntry, InIsr

\* The handler is called with bytes that are on their way.
LEMMA BulkInHandled ==
  ASSUME Types, BulkIn, NEW q \in Seq(1 .. MaxTx), Len(q) <= TxSize,
         InHandler(transmitting, q), UNCHANGED <<jobs, flags>>,
         main' = "send" => left' >= 1 /\ log'.queued + left' <= MaxTx,
         log'.open = log.open, log'.stranded = log.stranded
  PROVE  BulkIn'
<1>1. InWaiting' = InWaiting
  BY DEF InWaiting
<1>2. transmitting \in BOOLEAN
  BY DEF Types, TypeOK
<1>3. \/ xmit' = q /\ transmitting' = transmitting /\ in' = in /\ lastLen' = lastLen
         /\ (transmitting \/ (q = <<>> /\ lastLen # InMax))
      \/ /\ ~transmitting /\ transmitting' = TRUE /\ in'.armed
         /\ Len(in'.data) = lastLen'
  BY <1>2, InHandlerEffect
<1>4. CASE xmit' = q /\ transmitting' = transmitting /\ in' = in /\ lastLen' = lastLen
           /\ (transmitting \/ (q = <<>> /\ lastLen # InMax))
  BY <1>1, <1>4 DEF BulkIn
<1>5. CASE /\ ~transmitting /\ transmitting' = TRUE /\ in'.armed
           /\ Len(in'.data) = lastLen'
  <2>1. ~InWaiting'
    BY <1>1, <1>5 DEF BulkIn
  <2> QED BY <1>5, <2>1 DEF BulkIn
<1> QED BY <1>3, <1>4, <1>5

\* Every step keeps BulkIn.
LEMMA BulkInStep ==
  ASSUME Types, BulkIn, Next
  PROVE  BulkIn'
<1>1. CASE SendStart
  <2>1. UNCHANGED bulkIn /\ InWaiting' = InWaiting /\ main' = "send"
    BY <1>1 DEF SendStart, InWaiting
  <2> QED BY <1>1, <2>1, SendStartLog DEF BulkIn, bulkIn
<1>2. CASE SendByte
  <2> DEFINE q == Append(xmit, log.queued + 1)
  <2>1. /\ left' = left - 1 /\ (left # 1 <=> main' = "send") /\ UNCHANGED <<jobs, flags>>
        /\ main' \in {"idle", "send"}
    BY <1>2 DEF SendByte
  <2>2. /\ log.queued < MaxTx /\ log.queued \in Nat /\ left \in Nat /\ left >= 1
        /\ log.queued + left <= MaxTx /\ log.queued + 1 \in 1 .. MaxTx
    BY <1>2, BytesLeft
  <2>3. /\ log'.queued = log.queued + 1 /\ log'.open = log.open
        /\ log'.stranded = log.stranded
    BY <1>2, <2>2, SendByteLog
  <2>4. main' = "send" => left' >= 1 /\ log'.queued + left' <= MaxTx
    BY <2>1, <2>2, <2>3, UsbAssumption
  <2>5. q \in Seq(1 .. MaxTx) /\ Len(q) <= TxSize
    BY <1>2, <2>2, AppendProperties, UsbAssumption DEF SendByte, Types, TypeOK
  <2>6. \/ InHandler(transmitting, q)
        \/ left # 1 /\ xmit' = q /\ UNCHANGED <<transmitting, lastLen, in>>
    BY <1>2 DEF SendByte, Starts
  <2> HIDE DEF q
  <2>7. CASE InHandler(transmitting, q)
    BY <2>1, <2>3, <2>4, <2>5, <2>7, BulkInHandled
  <2>8. CASE left # 1 /\ xmit' = q /\ UNCHANGED <<transmitting, lastLen, in>>
    <3>1. InWaiting' = InWaiting /\ main' = "send"
      BY <2>1, <2>8 DEF InWaiting
    <3> QED BY <2>3, <2>4, <2>8, <3>1 DEF BulkIn
  <2> QED BY <2>6, <2>7, <2>8
<1>3. CASE SendLate
  BY <1>3, BulkInHandled DEF SendLate, Types, TypeOK
<1>4. CASE SendTimeOut
  BY <1>4, BulkInKept DEF SendTimeOut, InWaiting
<1>5. CASE FlushTxQueue
  <2>1. /\ UNCHANGED <<transmitting, lastLen, in, program>> /\ InWaiting' = InWaiting
        /\ xmit' = <<>> /\ main' = "idle"
    BY <1>5 DEF FlushTxQueue, InWaiting, program
  <2> QED BY <1>5, <2>1, FlushTxLog DEF BulkIn, program
<1>6. CASE ReceiveTest \/ Receive \/ FlushRxQueue
  <2>1. /\ UNCHANGED bulkIn /\ InWaiting' = InWaiting
        /\ main \in {"idle", "reading"} /\ main' \in {"idle", "reading"}
    BY <1>6 DEF ReceiveTest, Receive, FlushRxQueue, InWaiting, program
  <2>2. log'.open = log.open /\ log'.stranded = log.stranded
    BY <1>6, ReceiveLog, FlushRxLog DEF ReceiveTest
  <2> QED BY <2>1, <2>2, BulkInKept
<1>7. CASE IsrEntry
  BY <1>7, BulkInStays, InWaitingKept DEF IsrEntry
<1>8. CASE ServeReset
  <2>1. /\ xmit' = <<>> /\ in' = [armed |-> FALSE, data |-> <<>>]
        /\ UNCHANGED <<transmitting, lastLen, program>>
        /\ InWaiting' = ("TX" \in jobs)
    BY <1>8 DEF ServeReset, Serving, InWaiting
  <2>2. "TX" \in jobs => InWaiting
    BY DEF InWaiting
  <2> QED BY <1>8, <2>1, <2>2, ServeResetLog DEF BulkIn, program
<1>9. CASE ServeSuspend
  <2>1. InWaiting' = InWaiting
    <3>1. "SUSP" \in Flags \ {"TX"}
      BY FlagsAre DEF FlagNames
    <3> QED BY <1>9, <3>1, InWaitingKept DEF ServeSuspend
  <2> QED BY <1>9, <2>1, BulkInStays DEF ServeSuspend
<1>10. CASE ServeSetup
  <2>1. InWaiting' = InWaiting
    <3>1. "SETUP" \in Flags \ {"TX"}
      BY FlagsAre DEF FlagNames
    <3> QED BY <1>10, <3>1, InWaitingKept DEF ServeSetup
  <2>2. UNCHANGED bulkIn /\ UNCHANGED program
    BY <1>10 DEF ServeSetup
  <2> QED BY <1>10, <2>1, <2>2, BulkInStays, ServeSetupLog
<1>11. CASE ServeOut
  <2>1. InWaiting' = InWaiting
    <3>1. "RX" \in Flags \ {"TX"}
      BY FlagsAre DEF FlagNames
    <3> QED BY <1>11, <3>1, InWaitingKept DEF ServeOut
  <2>2. UNCHANGED bulkIn /\ UNCHANGED program
    BY <1>11 DEF ServeOut
  <2> QED BY <1>11, <2>1, <2>2, BulkInStays, ServeOutLog
<1>12. CASE ServeIn
  <2>1. /\ ~InWaiting' /\ InWaiting /\ log' = log /\ UNCHANGED program
        /\ InHandler(FALSE, xmit)
    BY <1>12 DEF ServeIn, Serving, InWaiting
  <2>2. xmit \in Seq(1 .. MaxTx) /\ Len(xmit) <= TxSize
    BY DEF Types, TypeOK
  <2>3. \/ /\ xmit' = xmit /\ transmitting' = FALSE /\ in' = in
           /\ xmit = <<>> /\ lastLen # InMax
        \/ transmitting' = TRUE /\ in'.armed /\ Len(in'.data) = lastLen'
    BY <2>1, <2>2, InHandlerEffect
  <2>4. ~in.armed /\ (log.open <=> lastLen = InMax)
    BY <2>1 DEF BulkIn
  <2>5. CASE /\ xmit' = xmit /\ transmitting' = FALSE /\ in' = in
             /\ xmit = <<>> /\ lastLen # InMax
    BY <2>1, <2>4, <2>5 DEF BulkIn, program
  <2>6. CASE transmitting' = TRUE /\ in'.armed /\ Len(in'.data) = lastLen'
    BY <2>1, <2>6 DEF BulkIn, program
  <2> QED BY <2>3, <2>5, <2>6
<1>13. CASE HostRequest
  <2>1. InWaiting' = InWaiting
    <3>1. "SETUP" \in Flags \ {"TX"}
      BY FlagsAre DEF FlagNames
    <3> QED BY <1>13, <3>1, InWaitingKept DEF HostRequest
  <2>2. UNCHANGED bulkIn /\ UNCHANGED program
    BY <1>13 DEF HostRequest
  <2> QED BY <1>13, <2>1, <2>2, BulkInStays, HostRequestLog
<1>14. CASE HostTakes
  <2>1. /\ in' = [armed |-> FALSE, data |-> <<>>] /\ InWaiting' /\ in.armed
        /\ UNCHANGED <<xmit, transmitting, lastLen, program>>
    BY <1>14 DEF HostTakes, InWaiting
  <2> QED BY <1>14, <2>1, HostTakesLog DEF BulkIn, program
<1>15. CASE HostSends
  <2>1. InWaiting' = InWaiting
    <3>1. "RX" \in Flags \ {"TX"}
      BY FlagsAre DEF FlagNames
    <3> QED BY <1>15, <3>1, InWaitingKept DEF HostSends
  <2>2. UNCHANGED bulkIn /\ UNCHANGED program
    BY <1>15 DEF HostSends
  <2>3. PICK n \in 1 .. OutMax : log.sent + n <= MaxRx /\ log' = [log EXCEPT !.sent = @ + n]
    BY <1>15 DEF HostSends
  <2>4. log'.queued = log.queued /\ log'.open = log.open /\ log'.stranded = log.stranded
    BY <2>3, HostSendsLog
  <2> QED BY <2>1, <2>2, <2>4, BulkInStays
<1>16. CASE BusReset \/ Suspend
  <2>1. InWaiting' = InWaiting
    <3>1. "BRST" \in Flags \ {"TX"} /\ "SUSP" \in Flags \ {"TX"}
      BY FlagsAre DEF FlagNames
    <3> QED BY <1>16, <3>1, InWaitingKept DEF BusReset, Suspend
  <2>2. UNCHANGED bulkIn /\ UNCHANGED program
    BY <1>16 DEF BusReset, Suspend
  <2> QED BY <1>16, <2>1, <2>2, BulkInStays, EventLog
<1> QED
  BY <1>1, <1>2, <1>3, <1>4, <1>5, <1>6, <1>7, <1>8, <1>9, <1>10, <1>11, <1>12, <1>13,
     <1>14, <1>15, <1>16 DEF Next, Program, Isr, Host

-----------------------------------------------------------------------------
(* The bytes that are sent.                                                *)

\* TxBytes at first.
LEMMA InitTxBytes == Init => TxBytes
BY NoStream DEF Init, TxBytes, TxStream

\* A step that touches no byte to be sent keeps TxBytes.
LEMMA TxBytesKept ==
  ASSUME TxBytes, UNCHANGED <<xmit, in>>, log'.got = log.got,
         log'.queued = log.queued, log'.dropped = log.dropped
  PROVE  TxBytes'
BY DEF TxBytes, TxStream

\* The sequences the stream is made of.
LEMMA TxParts ==
  ASSUME Types
  PROVE  /\ log.got \in Seq(Int) /\ in.data \in Seq(Int) /\ xmit \in Seq(Int)
         /\ log.got \o in.data \in Seq(Int) /\ log.got \o in.data \o xmit \in Seq(Int)
         /\ log.queued \in Nat
<1>1. 1 .. MaxTx \in SUBSET Int
  OBVIOUS
<1>2. /\ log.got \in Seq(1 .. MaxTx) /\ in.data \in Seq(1 .. MaxTx)
      /\ xmit \in Seq(1 .. MaxTx) /\ log.queued \in Nat
  BY UsbAssumption DEF Types, TypeOK, Log
<1>3. log.got \in Seq(Int) /\ in.data \in Seq(Int) /\ xmit \in Seq(Int)
  BY <1>1, <1>2, IntSeq
<1>4. log.got \o in.data \in Seq(Int)
  BY <1>3, ConcatProperties
<1>5. log.got \o in.data \o xmit \in Seq(Int)
  BY <1>3, <1>4, ConcatProperties
<1> QED BY <1>2, <1>3, <1>4, <1>5

\* The handler moves bytes from the queue to the packet, or none.
LEMMA TxBytesHandled ==
  ASSUME Types, BulkIn, NEW b \in BOOLEAN, NEW q \in Seq(1 .. MaxTx), Len(q) <= TxSize,
         InHandler(b, q), b \/ ~in.armed, log'.got = log.got
  PROVE  log'.got \o in'.data \o xmit' = log.got \o in.data \o q
<1>1. \/ in' = in /\ xmit' = q
      \/ /\ ~b /\ in'.data \o xmit' = q /\ in' \in [armed : BOOLEAN, data : Seq(1 .. MaxTx)]
         /\ xmit' \in Seq(1 .. MaxTx)
  BY InHandlerEffect
<1>2. CASE in' = in /\ xmit' = q
  BY <1>2
<1>3. CASE /\ ~b /\ in'.data \o xmit' = q /\ in' \in [armed : BOOLEAN, data : Seq(1 .. MaxTx)]
           /\ xmit' \in Seq(1 .. MaxTx)
  <2>1. in.data = <<>>
    BY <1>3 DEF BulkIn
  <2>2. log.got \in Seq(1 .. MaxTx) /\ in'.data \in Seq(1 .. MaxTx)
    BY <1>3 DEF Types, Log
  <2>3. log.got \o in'.data \o xmit' = log.got \o (in'.data \o xmit')
    <3> DEFINE g == log.got
               d == in'.data
    <3>1. g \in Seq(1 .. MaxTx) /\ d \in Seq(1 .. MaxTx) /\ xmit' \in Seq(1 .. MaxTx)
      BY <1>3, <2>2
    <3> HIDE DEF g, d
    <3>2. g \o d \o xmit' = g \o (d \o xmit')
      BY <3>1, ConcatAssociative
    <3> QED BY <3>2 DEF g, d
  <2>4. log.got \o in.data = log.got
    BY <2>1, <2>2, ConcatEmptySeq
  <2> QED BY <1>3, <2>3, <2>4
<1> QED BY <1>1, <1>2, <1>3

\* Every step keeps TxBytes.
LEMMA TxBytesStep ==
  ASSUME Types, BulkIn, TxBytes, Next
  PROVE  TxBytes'
<1> DEFINE w == log.got \o in.data
           s == w \o xmit
<1>1. /\ log.got \in Seq(Int) /\ in.data \in Seq(Int) /\ xmit \in Seq(Int)
      /\ w \in Seq(Int) /\ s \in Seq(Int) /\ log.queued \in Nat
  BY TxParts
<1>2. log.dropped \in SUBSET (1 .. log.queued) /\ IsStream(s, log.queued, log.dropped)
  BY DEF TxBytes, TxStream
<1>3. transmitting \in BOOLEAN /\ (transmitting \/ ~in.armed)
  BY DEF Types, TypeOK, BulkIn
<1>4. xmit \in Seq(1 .. MaxTx) /\ Len(xmit) <= TxSize
  BY DEF Types, TypeOK
<1>5. CASE SendByte
  <2> DEFINE n == log.queued + 1
             q == Append(xmit, n)
  <2>1. log.queued < MaxTx /\ n \in 1 .. MaxTx
    BY <1>5, BytesLeft
  <2>2. log'.queued = n /\ log'.dropped = log.dropped /\ log'.got = log.got
    BY <1>5, <2>1, SendByteLog
  <2>3. q \in Seq(1 .. MaxTx) /\ Len(q) <= TxSize
    BY <1>4, <1>5, <2>1, AppendProperties, UsbAssumption DEF SendByte
  <2>4. q = xmit \o <<n>>
    BY <1>4, <2>1, AppendIsConcat
  <2>5. \/ InHandler(transmitting, q)
        \/ xmit' = q /\ UNCHANGED <<transmitting, lastLen, in>>
    BY <1>5 DEF SendByte
  <2> HIDE DEF q
  <2>6. log'.got \o in'.data \o xmit' = w \o q
    <3>1. CASE InHandler(transmitting, q)
      BY <1>3, <2>2, <2>3, <3>1, TxBytesHandled
    <3>2. CASE xmit' = q /\ UNCHANGED <<transmitting, lastLen, in>>
      BY <2>2, <3>2
    <3> QED BY <2>5, <3>1, <3>2
  <2>7. w \o q = s \o <<n>>
    <3>1. <<n>> \in Seq(Int)
      BY <2>1
    <3> DEFINE u == <<n>>
    <3>2. w \in Seq(Int) /\ xmit \in Seq(Int) /\ u \in Seq(Int) /\ q = xmit \o u
      BY <1>1, <2>4, <3>1
    <3> HIDE DEF w, n, u
    <3>3. w \o xmit \o u = w \o (xmit \o u)
      BY <3>2, Associative, Zenon
    <3> QED BY <3>2, <3>3 DEF u
  <2>8. IsStream(s \o <<n>>, n, log.dropped)
    <3> HIDE DEF s
    <3> QED BY <1>1, <1>2, NextNumber
  <2>9. log.dropped \subseteq 1 .. n
    BY <1>1, <1>2
  <2> HIDE DEF n, w, s
  <2> QED BY <2>2, <2>6, <2>7, <2>8, <2>9 DEF TxBytes, TxStream
<1>6. CASE SendLate
  <2>1. log' = log /\ InHandler(transmitting, xmit)
    BY <1>6 DEF SendLate
  <2>2. log'.got \o in'.data \o xmit' = s
    BY <1>3, <1>4, <2>1, TxBytesHandled
  <2> QED BY <1>2, <2>1, <2>2 DEF TxBytes, TxStream
<1>7. CASE ServeIn
  <2>1. log' = log /\ InHandler(FALSE, xmit) /\ InWaiting
    BY <1>7 DEF ServeIn, Serving, InWaiting
  <2>2. ~in.armed
    BY <2>1 DEF BulkIn
  <2>3. log'.got \o in'.data \o xmit' = s
    BY <1>4, <2>1, <2>2, TxBytesHandled
  <2> QED BY <1>2, <2>1, <2>3 DEF TxBytes, TxStream
<1>8. CASE FlushTxQueue
  <2>1. xmit' = <<>> /\ in' = in
    BY <1>8 DEF FlushTxQueue
  <2>2. /\ log'.queued = log.queued /\ log'.got = log.got
        /\ log'.dropped = log.dropped \cup Range(xmit)
    BY <1>8, FlushTxLog
  <2>3. log'.got \o in'.data \o xmit' = w
    BY <1>1, <2>1, <2>2, ConcatEmptySeq
  <2>4. IsStream(w, log.queued, log'.dropped)
    <3> HIDE DEF w
    <3> QED BY <1>1, <1>2, <2>2, TakenOff
  <2>5. log'.dropped \subseteq 1 .. log.queued
    <3>1. Range(xmit) \subseteq {x \in Range(s) : x > 0}
      <4>1. Range(s) = Range(w) \cup Range(xmit)
        <5> HIDE DEF w
        <5> QED BY <1>1, RangeConcatenation
      <4>2. Range(xmit) \subseteq 1 .. MaxTx
        BY <1>4, RangeOfSeq
      <4> QED BY <4>1, <4>2
    <3> HIDE DEF s
    <3> QED BY <1>2, <2>2, <3>1 DEF IsStream, Carries
  <2> QED BY <2>2, <2>3, <2>4, <2>5 DEF TxBytes, TxStream
<1>9. CASE ServeReset
  <2>1. xmit' = <<>> /\ in'.data = <<>>
    BY <1>9 DEF ServeReset
  <2>2. /\ log'.queued = log.queued /\ log'.got = log.got
        /\ log'.dropped = log.dropped \cup Range(xmit) \cup Range(in.data)
    BY <1>9, ServeResetLog
  <2>3. log'.got \o in'.data \o xmit' = log.got
    BY <1>1, <2>1, <2>2, ConcatEmptySeq
  <2>4. s = log.got \o (in.data \o xmit) /\ in.data \o xmit \in Seq(Int)
        /\ Range(in.data \o xmit) = Range(in.data) \cup Range(xmit)
    <3> DEFINE g == log.got
               d == in.data
    <3>1. g \in Seq(Int) /\ d \in Seq(Int) /\ xmit \in Seq(Int)
      BY <1>1
    <3> HIDE DEF g, d
    <3>2. g \o d \o xmit = g \o (d \o xmit)
      BY <3>1, Associative, Zenon
    <3>3. d \o xmit \in Seq(Int) /\ Range(d \o xmit) = Range(d) \cup Range(xmit)
      BY <3>1, ConcatProperties, RangeConcatenation
    <3> QED BY <3>2, <3>3 DEF g, d
  <2>5. IsStream(log.got, log.queued, log'.dropped)
    <3>1. log'.dropped = log.dropped \cup Range(in.data \o xmit)
      BY <2>2, <2>4
    <3> DEFINE v == in.data \o xmit
    <3>2. v \in Seq(Int) /\ s = log.got \o v /\ log'.dropped = log.dropped \cup Range(v)
      BY <2>4, <3>1
    <3>3. IsStream(log.got \o v, log.queued, log.dropped)
      BY <1>2, <3>2
    <3> HIDE DEF v, s, w
    <3>4. IsStream(log.got, log.queued, log.dropped \cup Range(v))
      BY <1>1, <3>2, <3>3, TakenOff
    <3> QED BY <3>2, <3>4
  <2>6. log'.dropped \subseteq 1 .. log.queued
    <3>1. Range(xmit) \cup Range(in.data) \subseteq {x \in Range(s) : x > 0}
      <4>1. Range(s) = Range(log.got) \cup Range(in.data) \cup Range(xmit)
        BY <1>1, RangeOfThree
      <4>2. Range(xmit) \subseteq 1 .. MaxTx /\ Range(in.data) \subseteq 1 .. MaxTx
        BY RangeOfSeq DEF Types, TypeOK
      <4> QED BY <4>1, <4>2
    <3> HIDE DEF s
    <3> QED BY <1>2, <2>2, <3>1 DEF IsStream, Carries
  <2> QED BY <2>2, <2>3, <2>5, <2>6 DEF TxBytes, TxStream
<1>10. CASE HostTakes
  <2>1. xmit' = xmit /\ in'.data = <<>>
    BY <1>10 DEF HostTakes
  <2>2. /\ log'.queued = log.queued /\ log'.got = w /\ log'.dropped = log.dropped
    BY <1>10, HostTakesLog
  <2>3. log'.got \o in'.data \o xmit' = s
    <3>1. w \o <<>> = w
      <4> HIDE DEF w
      <4> QED BY <1>1, ConcatEmptySeq
    <3> QED BY <2>1, <2>2, <3>1
  <2> QED BY <1>2, <2>2, <2>3 DEF TxBytes, TxStream
<1>11. CASE /\ UNCHANGED <<xmit, in>>
            /\ log'.got = log.got /\ log'.queued = log.queued
            /\ log'.dropped = log.dropped
  BY <1>11, TxBytesKept
<1>12. CASE HostSends
  <2>1. PICK n \in 1 .. OutMax : log.sent + n <= MaxRx /\ log' = [log EXCEPT !.sent = @ + n]
    BY <1>12 DEF HostSends
  <2>2. UNCHANGED <<xmit, in>>
    BY <1>12 DEF HostSends, bulkIn
  <2> QED BY <1>11, <2>1, <2>2, HostSendsLog
<1>13. CASE \/ SendStart \/ SendTimeOut \/ ReceiveTest \/ IsrEntry \/ ServeSuspend
  BY <1>11, <1>13 DEF SendStart, SendTimeOut, ReceiveTest, IsrEntry, ServeSuspend, bulkIn
<1>14. CASE \/ Receive \/ FlushRxQueue
  BY <1>11, <1>14, ReceiveLog, FlushRxLog DEF Receive, FlushRxQueue, bulkIn
<1>15. CASE ServeSetup \/ ServeOut
  BY <1>11, <1>15, ServeSetupLog, ServeOutLog DEF ServeSetup, ServeOut, bulkIn
<1>16. CASE HostRequest \/ BusReset \/ Suspend
  BY <1>11, <1>16, HostRequestLog, EventLog DEF HostRequest, BusReset, Suspend, bulkIn
<1> QED
  BY <1>5, <1>6, <1>7, <1>8, <1>9, <1>10, <1>12, <1>13, <1>14, <1>15, <1>16
     DEF Next, Program, Isr, Host

-----------------------------------------------------------------------------
(* The endpoint that receives.                                             *)

\* BulkOut and RxBytes at first.
LEMMA InitBulkOut == Init => BulkOut /\ RxBytes
<1> SUFFICES ASSUME Init PROVE BulkOut /\ RxBytes
  OBVIOUS
<1>1. ~OutWaiting /\ Waiting = <<>>
  BY DEF Init, OutWaiting, Waiting
<1>2. BulkOut
  BY <1>1 DEF Init, BulkOut
<1>3. {} \cup {} = {} /\ {} \subseteq 1 .. 0
  OBVIOUS
<1>4. RxBytes
  BY <1>1, <1>3, NoStream DEF Init, RxBytes, RxStream
<1> QED BY <1>2, <1>4

\* A step that touches nothing received keeps BulkOut and RxBytes.
LEMMA BulkOutKept ==
  ASSUME BulkOut, RxBytes, UNCHANGED bulkOut, OutWaiting' = OutWaiting,
         log'.sent = log.sent, log'.lost = log.lost, log'.overflow = log.overflow,
         log'.read = log.read, log'.torn = log.torn, log'.unasked = log.unasked
  PROVE  BulkOut' /\ RxBytes'
BY DEF BulkOut, RxBytes, RxStream, Waiting, bulkOut

\* A flag other than RX says nothing of a packet that waits.
LEMMA OutWaitingKept ==
  ASSUME Types,
         \/ \E f \in Flags \ {"RX"} : Serving(f) /\ flags' = flags \ {f}
         \/ UNCHANGED jobs /\ \E f \in Flags \ {"RX"} : flags' = flags \cup {f}
         \/ UNCHANGED jobs /\ UNCHANGED flags
         \/ IsrEntry
  PROVE  OutWaiting' = OutWaiting
BY DEF OutWaiting, Serving, IsrEntry, InIsr

\* The sizes the thresholds are made for.
LEMMA RoomForPacket ==
  /\ OutMax \in Nat \ {0} /\ RxSize \in Nat \ {0} /\ Threshold \in Nat
  /\ OutMax <= RxSize
  /\ \A n \in Nat : n < Threshold => n + OutMax <= RxSize
BY UsbAssumption DEF Threshold

\* The types of the parts of the received stream.
LEMMA RxParts ==
  ASSUME Types
  PROVE  /\ log.read \in Seq(Int) /\ rcvd \in Seq(Int) /\ Waiting \in Seq(Int)
         /\ Taken \in Seq(Int)
         /\ log.read \o rcvd \in Seq(Int) /\ log.read \o rcvd \o Waiting \in Seq(Int)
         /\ log.sent \in Nat /\ Len(rcvd) \in Nat
<1>1. 0 .. MaxRx \in SUBSET Int
  OBVIOUS
<1>2. /\ log.read \in Seq(0 .. MaxRx) /\ rcvd \in Seq(0 .. MaxRx)
      /\ Waiting \in Seq(0 .. MaxRx) /\ Taken \in Seq(0 .. MaxRx) /\ log.sent \in Nat
  <2>1. Waiting \in Seq(0 .. MaxRx) /\ Taken \in Seq(0 .. MaxRx)
    BY WaitingBytes, TakenBytes
  <2>2. log.read \in Seq(0 .. MaxRx) /\ rcvd \in Seq(0 .. MaxRx) /\ log.sent \in Nat
    BY UsbAssumption DEF Types, TypeOK, Log
  <2> QED BY <2>1, <2>2
<1>3. /\ log.read \in Seq(Int) /\ rcvd \in Seq(Int) /\ Waiting \in Seq(Int)
      /\ Taken \in Seq(Int)
  BY <1>1, <1>2, IntSeq
<1>4. log.read \o rcvd \in Seq(Int)
  BY <1>3, ConcatProperties
<1>5. log.read \o rcvd \o Waiting \in Seq(Int)
  BY <1>3, <1>4, ConcatProperties
<1>6. Len(rcvd) \in Nat
  BY <1>3, LenProperties
<1> QED BY <1>2, <1>3, <1>4, <1>5, <1>6

\* What is taken out of a stream is part of it.
LEMMA PartOfStream ==
  ASSUME NEW s \in Seq(Int), NEW t \in Seq(Int), NEW u \in Seq(Int), NEW n \in Nat, NEW W,
         IsStream(s \o t \o u, n, W)
  PROVE  Range(t) \subseteq 1 .. n /\ Range(u) \subseteq 1 .. n
<1>1. Range(s \o t \o u) = Range(s) \cup Range(t) \cup Range(u)
  BY RangeOfThree
<1>2. {x \in Range(s \o t \o u) : x > 0} = (1 .. n) \ W
      /\ \A x \in Range(s \o t \o u) : x > 0
  BY DEF IsStream, Carries
<1> DEFINE r == Range(s \o t \o u)
<1>3. Range(t) \subseteq r /\ Range(u) \subseteq r
  BY <1>1
<1>4. r \subseteq 1 .. n
  BY <1>2
<1> QED BY <1>3, <1>4

\* A step of the program that reads or flushes.
LEMMA ReceiveKeeps ==
  ASSUME Types, BulkOut, RxBytes, Receive
  PROVE  BulkOut' /\ RxBytes'
<1> DEFINE rearms == SizeLeft < Threshold /\ ~out.armed
<1>1. /\ rcvd' = Rest /\ buf' = buf /\ OutWaiting' = OutWaiting
      /\ out' = IF rearms THEN ArmedOut ELSE out
  BY DEF Receive, OutWaiting
<1>2. /\ log'.sent = log.sent /\ log'.lost = log.lost /\ log'.overflow = log.overflow
      /\ log'.read = IF rcvd = <<>> THEN log.read ELSE Append(log.read, Head(rcvd))
      /\ log'.torn = (log.torn \/ (rearms /\ OutWaiting))
      /\ log'.unasked = log.unasked
  BY ReceiveLog
<1>3. /\ log.read \in Seq(Int) /\ rcvd \in Seq(Int) /\ Waiting \in Seq(Int)
      /\ Len(rcvd) \in Nat
  BY RxParts
<1>4. Rest \in Seq(Int) /\ Len(Rest) \in Nat /\ Len(Rest) <= Len(rcvd)
  <2>1. CASE rcvd = <<>>
    BY <1>3, <2>1, EmptySeq DEF Rest
  <2>2. CASE rcvd # <<>>
    <3>1. Tail(rcvd) \in Seq(Int) /\ Len(Tail(rcvd)) = Len(rcvd) - 1 /\ Rest = Tail(rcvd)
      BY <1>3, <2>2, HeadTailProperties DEF Rest
    <3> QED BY <1>3, <3>1, LenProperties
  <2> QED BY <2>1, <2>2
<1>5. log'.read \o Rest = log.read \o rcvd
  <2>1. CASE rcvd = <<>>
    BY <1>2, <2>1 DEF Rest
  <2>2. CASE rcvd # <<>>
    <3> DEFINE h == Head(rcvd)
               t == Tail(rcvd)
               g == log.read
    <3>1. h \in Int /\ t \in Seq(Int) /\ <<h>> \in Seq(Int) /\ <<h>> \o t = rcvd
      BY <1>3, <2>2, HeadAndTail
    <3>2. log'.read = Append(g, h) /\ Rest = t /\ g \in Seq(Int)
      BY <1>2, <1>3, <2>2 DEF Rest
    <3> HIDE DEF h, t, g
    <3>3. Append(g, h) = g \o <<h>>
      BY <3>1, <3>2, AppendIsConcat
    <3>4. (g \o <<h>>) \o t = g \o (<<h>> \o t)
      BY <3>1, <3>2, ConcatAssociative
    <3>5. log'.read \o Rest = g \o rcvd
      BY <3>1, <3>2, <3>3, <3>4
    <3> QED BY <3>5 DEF g
  <2> QED BY <2>1, <2>2
<1>6. ASSUME ~log'.torn
      PROVE  /\ ~log.torn /\ Waiting' = Waiting
             /\ OutWaiting' => ~out'.armed
             /\ ~log'.unasked /\ (out'.armed \/ OutWaiting') => Len(rcvd') + OutMax <= RxSize
  <2>1. ~log.torn /\ ~(rearms /\ OutWaiting)
    BY <1>2, <1>6
  <2>2. Waiting' = Waiting
    BY <1>1, <2>1 DEF Waiting
  <2>3. OutWaiting' => ~out'.armed
    BY <1>1, <2>1 DEF BulkOut
  <2>4. CASE rearms
    <3>1. Len(rcvd') + OutMax <= RxSize
      BY <1>1, <1>4, <2>4, RoomForPacket DEF SizeLeft
    <3> QED BY <2>1, <2>2, <2>3, <3>1
  <2>5. CASE ~rearms
    <3>1. out' = out
      BY <1>1, <2>5
    <3>2. ~log.unasked /\ (out.armed \/ OutWaiting) => Len(rcvd) + OutMax <= RxSize
      BY <2>1 DEF BulkOut
    <3>3. Len(rcvd) + OutMax <= RxSize => Len(rcvd') + OutMax <= RxSize
      BY <1>1, <1>3, <1>4, RoomForPacket
    <3> QED BY <1>1, <1>2, <2>1, <2>2, <2>3, <3>1, <3>2, <3>3
  <2> QED BY <2>4, <2>5
<1>7. BulkOut'
  BY <1>6 DEF BulkOut
<1>8. ~log'.torn => log'.read \o rcvd' \o Waiting' = log.read \o rcvd \o Waiting
  BY <1>1, <1>5, <1>6
<1> QED BY <1>2, <1>6, <1>7, <1>8 DEF RxBytes, RxStream

\* usb_FlushRxQueue keeps BulkOut and RxBytes.
LEMMA FlushRxKeeps ==
  ASSUME Types, BulkOut, RxBytes, FlushRxQueue
  PROVE  BulkOut' /\ RxBytes'
<1>1. /\ rcvd' = <<>> /\ buf' = buf /\ OutWaiting' = OutWaiting /\ out' = out
      /\ Waiting' = Waiting
  BY DEF FlushRxQueue, OutWaiting, Waiting
<1>2. /\ log'.sent = log.sent /\ log'.lost = log.lost \cup Range(rcvd)
      /\ log'.overflow = log.overflow /\ log'.read = log.read
      /\ log'.torn = log.torn /\ log'.unasked = log.unasked
  BY FlushRxLog
<1>3. /\ log.read \in Seq(Int) /\ rcvd \in Seq(Int) /\ Waiting \in Seq(Int)
      /\ log.sent \in Nat
  BY RxParts
<1>4. BulkOut'
  BY <1>1, <1>2, RoomForPacket, EmptySeq DEF BulkOut
<1> DEFINE g == log.read
           w == Waiting
           n == log.sent
           L == log.lost
           O == log.overflow
<1>5. ASSUME ~log'.torn
      PROVE  /\ IsStream(g \o <<>> \o w, n, (L \cup Range(rcvd)) \cup O)
             /\ (L \cup Range(rcvd)) \cup O \subseteq 1 .. n
             /\ O = {} \/ log.unasked
  <2>1. IsStream(g \o rcvd \o w, n, L \cup O) /\ L \cup O \subseteq 1 .. n
        /\ (O = {} \/ log.unasked)
    BY <1>2, <1>5 DEF RxBytes, RxStream
  <2>2. g \in Seq(Int) /\ rcvd \in Seq(Int) /\ w \in Seq(Int) /\ n \in Nat
    BY <1>3
  <2> HIDE DEF g, w, n, L, O
  <2>3. IsStream(g \o w, n, (L \cup O) \cup Range(rcvd))
    BY <2>1, <2>2, TakenOut
  <2>4. Range(rcvd) \subseteq 1 .. n
    BY <2>1, <2>2, PartOfStream
  <2>5. g \o <<>> = g /\ (L \cup O) \cup Range(rcvd) = (L \cup Range(rcvd)) \cup O
    BY <2>2, ConcatEmptySeq
  <2> QED BY <2>1, <2>3, <2>4, <2>5 DEF O
<1> QED BY <1>1, <1>2, <1>4, <1>5 DEF RxBytes, RxStream

\* So does the answer to a bus reset.
LEMMA ServeResetKeeps ==
  ASSUME Types, BulkOut, RxBytes, ServeReset
  PROVE  BulkOut' /\ RxBytes'
<1>1. /\ rcvd' = <<>> /\ buf' = buf /\ out' = [armed |-> FALSE, count |-> 0]
  BY DEF ServeReset
<1>2. Waiting' = <<>>
  <2>1. SubSeq(buf', 1, out'.count) = <<>>
    BY <1>1, SubSeqEmpty
  <2> QED BY <2>1 DEF Waiting
<1>3. /\ log'.sent = log.sent
      /\ log'.lost = log.lost \cup Range(rcvd) \cup Range(Waiting)
      /\ log'.overflow = log.overflow /\ log'.read = log.read
      /\ log'.torn = log.torn /\ log'.unasked = log.unasked
  BY ServeResetLog
<1>4. /\ log.read \in Seq(Int) /\ rcvd \in Seq(Int) /\ Waiting \in Seq(Int)
      /\ log.sent \in Nat
  BY RxParts
<1>5. BulkOut'
  BY <1>1, RoomForPacket, EmptySeq DEF BulkOut
<1> DEFINE g == log.read
           w == Waiting
           n == log.sent
           L == log.lost
           O == log.overflow
<1>6. ASSUME ~log'.torn
      PROVE  /\ IsStream(g \o <<>> \o <<>>, n, (L \cup Range(rcvd) \cup Range(w)) \cup O)
             /\ (L \cup Range(rcvd) \cup Range(w)) \cup O \subseteq 1 .. n
             /\ O = {} \/ log.unasked
  <2>1. IsStream(g \o rcvd \o w, n, L \cup O) /\ L \cup O \subseteq 1 .. n
        /\ (O = {} \/ log.unasked)
    BY <1>3, <1>6 DEF RxBytes, RxStream
  <2>2. g \in Seq(Int) /\ rcvd \in Seq(Int) /\ w \in Seq(Int) /\ n \in Nat
    BY <1>4
  <2> HIDE DEF g, w, n, L, O
  <2>3. IsStream(g \o w, n, (L \cup O) \cup Range(rcvd))
    BY <2>1, <2>2, TakenOut
  <2>4. IsStream(g, n, (L \cup O) \cup Range(rcvd) \cup Range(w))
    BY <2>2, <2>3, TakenOff
  <2>5. Range(rcvd) \subseteq 1 .. n /\ Range(w) \subseteq 1 .. n
    BY <2>1, <2>2, PartOfStream
  <2>6. g \o <<>> \o <<>> = g
    BY <2>2, ConcatEmptySeq
  <2>7. (L \cup O) \cup Range(rcvd) \cup Range(w) = (L \cup Range(rcvd) \cup Range(w)) \cup O
    OBVIOUS
  <2> QED BY <2>1, <2>4, <2>5, <2>6, <2>7 DEF O
<1> QED BY <1>1, <1>2, <1>3, <1>5, <1>6 DEF RxBytes, RxStream

\* So does a request, Set_Configuration among them.
LEMMA ServeSetupKeeps ==
  ASSUME Types, BulkOut, RxBytes, ServeSetup
  PROVE  BulkOut' /\ RxBytes'
<1>1. OutWaiting' = OutWaiting
  <2>1. "SETUP" \in Flags \ {"RX"}
    BY FlagsAre DEF FlagNames
  <2> QED BY <2>1, OutWaitingKept DEF ServeSetup
<1>2. /\ log'.sent = log.sent /\ log'.lost = log.lost /\ log'.overflow = log.overflow
      /\ log'.read = log.read
      /\ Accepted =>
           /\ log'.torn = (log.torn \/ (SetOut # out /\ OutWaiting))
           /\ log'.unasked =
                (log.unasked \/ (SetOut.armed /\ ~out.armed /\ Len(rcvd) >= Threshold))
      /\ ~Accepted => log' = log
  BY ServeSetupLog
<1>3. /\ rcvd' = rcvd /\ buf' = buf
      /\ Accepted => out' = SetOut
      /\ ~Accepted => out' = out
  BY DEF ServeSetup
<1>4. CASE ~Accepted
  BY <1>1, <1>2, <1>3, <1>4, BulkOutKept DEF bulkOut
<1>5. CASE Accepted
  <2>1. Len(rcvd) \in Nat
    BY RxParts
  <2>2. ASSUME ~log'.torn
        PROVE  /\ ~log.torn /\ Waiting' = Waiting
               /\ OutWaiting' => ~out'.armed
               /\ ~log'.unasked /\ (out'.armed \/ OutWaiting') => Len(rcvd') + OutMax <= RxSize
    <3>1. ~log.torn /\ (SetOut = out \/ ~OutWaiting)
      BY <1>2, <1>5, <2>2
    <3>2. Waiting' = Waiting
      BY <1>1, <1>3, <1>5, <3>1 DEF Waiting
    <3>3. OutWaiting' => ~out'.armed
      BY <1>1, <1>3, <1>5, <3>1 DEF BulkOut
    <3>4. ASSUME ~log'.unasked, out'.armed \/ OutWaiting'
          PROVE  Len(rcvd') + OutMax <= RxSize
      <4>1. ~log.unasked /\ ~(SetOut.armed /\ ~out.armed /\ Len(rcvd) >= Threshold)
        BY <1>2, <1>5, <3>4
      <4>2. CASE out.armed \/ OutWaiting
        BY <1>3, <3>1, <4>1, <4>2 DEF BulkOut
      <4>3. CASE ~(out.armed \/ OutWaiting)
        <5>1. SetOut.armed /\ ~(Len(rcvd) >= Threshold)
          BY <1>1, <1>3, <1>5, <3>4, <4>1, <4>3
        <5> QED BY <1>3, <2>1, <5>1, RoomForPacket
      <4> QED BY <4>2, <4>3
    <3> QED BY <3>1, <3>2, <3>3, <3>4
  <2>3. log.unasked => log'.unasked
    BY <1>2, <1>5
  <2> QED BY <1>2, <1>3, <2>2, <2>3 DEF BulkOut, RxBytes, RxStream
<1> QED BY <1>4, <1>5

\* So does reading a packet into the queue.
LEMMA ServeOutKeeps ==
  ASSUME Types, BulkOut, RxBytes, ServeOut
  PROVE  BulkOut' /\ RxBytes'
<1>1. /\ rcvd' = Pushed /\ buf' = buf /\ ~OutWaiting' /\ OutWaiting
      /\ out' = IF HasRoom(Pushed) THEN ArmedOut ELSE out
  BY DEF ServeOut, Serving, OutWaiting
<1>2. Waiting' = <<>>
  BY <1>1 DEF Waiting
<1>3. /\ log'.sent = log.sent /\ log'.lost = log.lost
      /\ log'.overflow = log.overflow \cup Range(Overrun)
      /\ log'.read = log.read /\ log'.torn = log.torn /\ log'.unasked = log.unasked
  BY ServeOutLog
<1>4. /\ Pushed \in Seq(0 .. MaxRx) /\ Overrun \in Seq(0 .. MaxRx)
      /\ Pushed \o Overrun = rcvd \o Taken
      /\ Len(rcvd) + out.count <= RxSize => Overrun = <<>>
  BY PushedBytes DEF Overrun
<1>5. /\ log.read \in Seq(Int) /\ rcvd \in Seq(Int) /\ Taken \in Seq(Int)
      /\ log.sent \in Nat /\ Len(rcvd) \in Nat
  BY RxParts
<1>6. Pushed \in Seq(Int) /\ Overrun \in Seq(Int) /\ Len(Pushed) \in Nat
  <2>1. 0 .. MaxRx \in SUBSET Int
    OBVIOUS
  <2> QED BY <1>4, <2>1, IntSeq, LenProperties
<1>7. ASSUME ~log'.torn
      PROVE  ~out.armed /\ Waiting = Taken
  <2>1. ~out.armed
    BY <1>1, <1>3, <1>7 DEF BulkOut
  <2> QED BY <1>1, <2>1, WaitingBytes
<1>8. BulkOut'
  <2>1. ASSUME ~log'.torn, ~log'.unasked, out'.armed
        PROVE  Len(rcvd') + OutMax <= RxSize
    <3>1. HasRoom(Pushed)
      BY <1>1, <1>7, <2>1
    <3> QED BY <1>1, <1>6, <3>1, RoomForPacket DEF HasRoom
  <2> QED BY <1>1, <2>1 DEF BulkOut
<1>9. ASSUME ~log'.torn
      PROVE  log'.overflow = {} \/ log'.unasked
  <2>1. CASE log.unasked
    BY <1>3, <2>1
  <2>2. CASE ~log.unasked
    <3>1. Len(rcvd) + OutMax <= RxSize
      BY <1>1, <1>3, <1>9, <2>2 DEF BulkOut
    <3>2. out.count \in Nat /\ out.count <= OutMax
      BY RoomForPacket DEF Types, TypeOK
    <3>3. Len(rcvd) + out.count <= RxSize
      BY <1>5, <3>1, <3>2, RoomForPacket
    <3>4. Range(Overrun) = {}
      BY <1>4, <3>3, NoStream
    <3> QED BY <1>3, <1>9, <2>2, <3>4 DEF RxBytes, RxStream
  <2> QED BY <2>1, <2>2
<1> DEFINE g == log.read
           n == log.sent
           L == log.lost
           O == log.overflow
           p == Pushed
           v == Overrun
<1>10. ASSUME ~log'.torn
       PROVE  /\ IsStream(g \o p \o <<>>, n, L \cup (O \cup Range(v)))
              /\ L \cup (O \cup Range(v)) \subseteq 1 .. n
  <2>1. IsStream(g \o rcvd \o Taken, n, L \cup O) /\ L \cup O \subseteq 1 .. n
    BY <1>3, <1>7, <1>10 DEF RxBytes, RxStream
  <2>2. /\ g \in Seq(Int) /\ rcvd \in Seq(Int) /\ Taken \in Seq(Int) /\ n \in Nat
        /\ p \in Seq(Int) /\ v \in Seq(Int) /\ p \o v = rcvd \o Taken
    BY <1>4, <1>5, <1>6
  <2> HIDE DEF g, n, L, O, p, v
  <2>3. g \o p \o v = g \o rcvd \o Taken
    <3>1. /\ g \in Seq(Int) /\ p \in Seq(Int) /\ v \in Seq(Int)
          /\ rcvd \in Seq(Int) /\ Taken \in Seq(Int)
      BY <2>2
    <3>2. p \o v = rcvd \o Taken
      BY <2>2
    <3>3. g \o p \o v = g \o (p \o v)
      <4>1. g \in Seq(Int) /\ p \in Seq(Int) /\ v \in Seq(Int)
        BY <3>1
      <4> QED BY <4>1, Associative, Zenon
    <3>4. g \o rcvd \o Taken = g \o (rcvd \o Taken)
      <4>1. g \in Seq(Int) /\ rcvd \in Seq(Int) /\ Taken \in Seq(Int)
        BY <3>1
      <4> QED BY <4>1, Associative, Zenon
    <3> QED BY <3>2, <3>3, <3>4, Zenon
  <2>4. IsStream(g \o p \o v, n, L \cup O) /\ g \o p \in Seq(Int)
    BY <2>1, <2>2, <2>3, ConcatProperties
  <2>5. IsStream(g \o p, n, (L \cup O) \cup Range(v))
    BY <2>2, <2>4, TakenOff
  <2>6. Range(v) \subseteq 1 .. n
    BY <2>2, <2>4, PartOfStream
  <2>7. g \o p \o <<>> = g \o p
    BY <2>4, ConcatEmptySeq
  <2>8. (L \cup O) \cup Range(v) = L \cup (O \cup Range(v))
    OBVIOUS
  <2> QED BY <2>1, <2>5, <2>6, <2>7, <2>8
<1> QED BY <1>1, <1>2, <1>3, <1>8, <1>9, <1>10 DEF RxBytes, RxStream

\* So does a packet of the host.
LEMMA HostSendsKeeps ==
  ASSUME Types, BulkOut, RxBytes, HostSends
  PROVE  BulkOut' /\ RxBytes'
<1>1. PICK k \in 1 .. OutMax :
        /\ log.sent + k <= MaxRx /\ log' = [log EXCEPT !.sent = @ + k]
        /\ buf' = [i \in 1 .. OutMax |-> IF i <= k THEN log.sent + i ELSE buf[i]]
        /\ out' = [armed |-> FALSE, count |-> k]
  BY DEF HostSends
<1>2. rcvd' = rcvd /\ OutWaiting' /\ out.armed
  BY DEF HostSends, OutWaiting
<1>3. /\ log'.sent = log.sent + k /\ log'.lost = log.lost
      /\ log'.overflow = log.overflow
      /\ log'.read = log.read /\ log'.torn = log.torn /\ log'.unasked = log.unasked
  BY <1>1, HostSendsLog
<1>4. BulkOut'
  BY <1>1, <1>2, <1>3 DEF BulkOut
<1>5. /\ log.read \in Seq(Int) /\ rcvd \in Seq(Int) /\ log.read \o rcvd \in Seq(Int)
      /\ log.sent \in Nat
  BY RxParts
<1>6. k \in Nat /\ OutMax \in Nat /\ k <= OutMax /\ k >= 1
  BY RoomForPacket
<1> DEFINE t == SubSeq(buf', 1, k)
           n == log.sent
           g == log.read \o rcvd
           W == log.lost \cup log.overflow
<1>7. t \in Seq(Int) /\ Len(t) = k /\ \A i \in 1 .. k : t[i] = n + i
  <2>1. \A i \in 1 .. k : buf'[i] = n + i /\ buf'[i] \in Int
    BY <1>1, <1>5, <1>6
  <2>2. (k - 1) + 1 = k /\ (IF 1 <= k THEN (k - 1) + 1 ELSE 0) = k
    BY <1>6
  <2>3. /\ t \in Seq(Int) /\ Len(t) = IF 1 <= k THEN (k - 1) + 1 ELSE 0
        /\ \A i \in 1 .. (k - 1) + 1 : t[i] = buf'[1 + i - 1]
    BY <1>6, <2>1, SubSeqProperties
  <2> HIDE DEF t
  <2>4. Len(t) = k
    BY <2>2, <2>3
  <2>5. ASSUME NEW i \in 1 .. k
        PROVE  t[i] = n + i
    <3>1. 1 + i - 1 = i /\ i \in 1 .. (k - 1) + 1
      BY <1>6, <2>2
    <3> QED BY <2>1, <2>3, <3>1
  <2> QED BY <2>3, <2>4, <2>5
<1>8. Waiting' = t
  BY <1>1, <1>2 DEF Waiting
<1>9. ASSUME ~log'.torn
      PROVE  IsStream(g \o t, n + k, W) /\ W \subseteq 1 .. n + k
  <2>1. ~OutWaiting /\ Waiting = <<>>
    BY <1>2, <1>3, <1>9 DEF BulkOut, Waiting
  <2>2. IsStream(g \o <<>>, n, W) /\ W \in SUBSET (1 .. n)
    BY <1>3, <1>9, <2>1 DEF RxBytes, RxStream
  <2>3. g \in Seq(Int) /\ n \in Nat
    BY <1>5
  <2> HIDE DEF g, n, W, t
  <2>4. g \o <<>> = g
    BY <2>3, ConcatEmptySeq
  <2>5. IsStream(g \o t, n + k, W)
    BY <1>6, <1>7, <2>2, <2>3, <2>4, NextNumbers
  <2> QED BY <1>6, <2>2, <2>3, <2>5
<1>10. ~log'.torn => (log'.overflow = {} \/ log'.unasked)
  BY <1>3 DEF RxBytes, RxStream
<1> HIDE DEF t
<1> QED BY <1>2, <1>3, <1>4, <1>8, <1>9, <1>10 DEF RxBytes, RxStream

\* So does every step.
LEMMA BulkOutStep ==
  ASSUME Types, BulkIn, BulkOut, RxBytes, Next
  PROVE  BulkOut' /\ RxBytes'
<1>1. {"SUSP", "SETUP", "TX", "BRST"} \subseteq Flags \ {"RX"}
  BY FlagsAre DEF FlagNames
<1>2. CASE SendByte
  BY <1>2, OutWaitingKept, SendByteRest, BulkOutKept DEF SendByte
<1>3. CASE FlushTxQueue
  BY <1>3, OutWaitingKept, FlushTxLog, BulkOutKept DEF FlushTxQueue
<1>4. CASE \/ SendStart \/ SendTimeOut \/ SendLate \/ ReceiveTest \/ IsrEntry
           \/ ServeSuspend \/ ServeIn
  <2>1. UNCHANGED bulkOut /\ log' = log
    BY <1>4 DEF SendStart, SendTimeOut, SendLate, ReceiveTest, IsrEntry, ServeSuspend,
       ServeIn
  <2>2. OutWaiting' = OutWaiting
    BY <1>1, <1>4, OutWaitingKept DEF SendStart, SendTimeOut, SendLate, ReceiveTest,
       ServeSuspend, ServeIn
  <2> QED BY <2>1, <2>2, BulkOutKept
<1>5. CASE HostRequest \/ HostTakes \/ BusReset \/ Suspend
  <2>1. UNCHANGED bulkOut
    BY <1>5 DEF HostRequest, HostTakes, BusReset, Suspend
  <2>2. OutWaiting' = OutWaiting
    BY <1>1, <1>5, OutWaitingKept DEF HostRequest, HostTakes, BusReset, Suspend
  <2> QED BY <1>5, <2>1, <2>2, HostRequestLog, HostTakesLog, EventLog, BulkOutKept
<1> QED
  BY <1>2, <1>3, <1>4, <1>5, ReceiveKeeps, FlushRxKeeps, ServeResetKeeps,
     ServeSetupKeeps, ServeOutKeeps, HostSendsKeeps DEF Next, Program, Isr, Host

-----------------------------------------------------------------------------
(* The device and its host.                                                *)

\* Control at first.
LEMMA InitControl == Init => Control
BY DEF Init, Control

Armed == out.armed \/ OutWaiting

\* A step of the program.
LEMMA ControlOfProgram ==
  ASSUME Types, Control, UNCHANGED <<jobs, flags, control>>, log'.fresh = log.fresh,
         host = "configured" /\ Len(rcvd') < Threshold /\ ~log'.deaf =>
           Armed' \/ (~Armed /\ Len(rcvd) < Threshold /\ ~log.deaf)
  PROVE  Control'
BY DEF Control, control, Offered, Armed

\* A step of USB_ISR that serves a flag other than "BRST" and "SETUP".
LEMMA ControlOfIsr ==
  ASSUME Types, Control, NEW f \in Flags \ {"BRST", "SETUP"}, Serving(f),
         flags' = flags \ {f}, UNCHANGED <<request, host>>,
         state' = state \/ state' = "POWERED", log'.fresh = log.fresh,
         host = "configured" /\ Len(rcvd') < Threshold /\ ~log'.deaf =>
           Armed' \/ (~Armed /\ Len(rcvd) < Threshold /\ ~log.deaf)
  PROVE  Control'
BY DEF Control, Offered, Armed, Serving

\* Reading a byte keeps Control, as it enables the endpoint below the threshold.
LEMMA ReceiveControl ==
  ASSUME Types, Control, Receive
  PROVE  Control'
<1> DEFINE rearms == SizeLeft < Threshold /\ ~out.armed
<1>1. /\ rcvd' = Rest /\ OutWaiting' = OutWaiting /\ UNCHANGED <<jobs, flags, control>>
      /\ out' = IF rearms THEN ArmedOut ELSE out
  BY DEF Receive, OutWaiting
<1>2. log'.fresh = log.fresh
  BY ReceiveLog
<1>3. Len(rcvd') < Threshold => Armed'
  <2>1. CASE out.armed
    BY <1>1, <2>1 DEF Armed
  <2>2. CASE ~out.armed
    BY <1>1, <2>2, SetOutType DEF Armed, SizeLeft
  <2> QED BY <2>1, <2>2
<1> QED BY <1>1, <1>2, <1>3, ControlOfProgram

\* The answer to a bus reset keeps Control.
LEMMA ServeResetControl ==
  ASSUME Types, Control, ServeReset
  PROVE  Control'
<1>1. /\ "BRST" \in jobs /\ jobs' = jobs \ {"BRST"} /\ flags' = {}
      /\ UNCHANGED <<request, host>>
  BY DEF ServeReset, Serving
<1>2. log'.fresh = log.fresh
  BY ServeResetLog
<1>3. ~log.fresh /\ host = "attached"
  BY <1>1 DEF Control
<1> QED BY <1>1, <1>2, <1>3 DEF Control

\* So does a request.
LEMMA ServeSetupControl ==
  ASSUME Types, Control, ServeSetup
  PROVE  Control'
<1>1. /\ "SETUP" \in jobs /\ jobs' = jobs \ {"SETUP"} /\ flags' = flags \ {"SETUP"}
      /\ rcvd' = rcvd
  BY DEF ServeSetup, Serving
<1>2. OutWaiting' = OutWaiting
  BY <1>1 DEF OutWaiting
<1>3. log'.fresh = log.fresh
  BY ServeSetupLog
<1>4. /\ "BRST" \in jobs' => "BRST" \in flags'
      /\ "BRST" \in flags' => ~log'.fresh
      /\ "SETUP" \notin flags' \cup jobs'
  BY <1>1, <1>3 DEF Control
<1>5. CASE ~Accepted
  <2>1. UNCHANGED <<state, out, host, log>>
    BY <1>5 DEF ServeSetup
  <2> QED BY <1>1, <1>2, <1>4, <2>1 DEF Control
<1>6. CASE Accepted /\ ~log.fresh
  <2>1. host' = host
    BY <1>6 DEF ServeSetup, HostAfter
  <2>2. host = "attached"
    BY <1>6 DEF Control
  <2> QED BY <1>3, <1>4, <2>1, <2>2 DEF Control
<1>7. CASE Accepted /\ log.fresh
  <2>1. /\ state' = NextState /\ out' = SetOut /\ host' = HostAfter
        /\ log'.deaf = (log.deaf /\ ~SetOut.armed)
    BY <1>7, ServeSetupLog DEF ServeSetup
  <2>2. request \in Offered
    BY <1>1, <1>7 DEF Control
  <2>3. host \in {"attached", "addressed", "configured"}
    BY DEF Types, TypeOK
  <2>4. CASE host = "attached"
    <3>1. request = "SetAddress"
      BY <2>2, <2>4 DEF Offered
    <3>2. host' = "addressed" /\ state' = "ADDRESS"
      BY <1>7, <2>1, <3>1 DEF HostAfter, NextState
    <3> QED BY <1>3, <1>4, <1>7, <3>2 DEF Control
  <2>5. CASE host = "addressed"
    <3>1. request = "Configure"
      BY <2>2, <2>5 DEF Offered
    <3>2. state = "ADDRESS"
      BY <1>7, <2>5, <3>1 DEF Control, Accepted
    <3>3. host' = "configured" /\ out' = ArmedOut
      BY <1>7, <2>1, <3>1, <3>2 DEF HostAfter, SetOut
    <3> QED BY <1>3, <1>4, <1>7, <3>3, SetOutType DEF Control
  <2>6. CASE host = "configured" /\ request = "Unconfigure"
    <3>1. host' = "addressed" /\ state' = "ADDRESS"
      BY <1>7, <2>1, <2>6 DEF HostAfter, NextState
    <3> QED BY <1>3, <1>4, <1>7, <3>1 DEF Control
  <2>7. CASE host = "configured" /\ request \in {"Connect", "Disconnect"}
    <3>1. host' = "configured" /\ out' = out
      BY <1>7, <2>1, <2>7 DEF HostAfter, SetOut
    <3>2. log'.deaf = (log.deaf /\ ~out.armed)
      BY <2>1, <2>7 DEF SetOut
    <3> QED BY <1>1, <1>2, <1>3, <1>4, <1>7, <2>7, <3>1, <3>2 DEF Control
  <2> QED BY <2>2, <2>3, <2>4, <2>5, <2>6, <2>7 DEF Offered
<1> QED BY <1>5, <1>6, <1>7

\* So does every step.
LEMMA ControlStep ==
  ASSUME Types, BulkIn, Control, Next
  PROVE  Control'
<1>1. {"SUSP", "RX", "TX"} \subseteq Flags \ {"BRST", "SETUP"}
  BY FlagsAre DEF FlagNames
<1>2. Len(<<>>) = 0 /\ Len(rcvd) \in Nat
  BY RxParts, EmptySeq
<1>3. CASE \/ SendStart \/ SendByte \/ SendTimeOut \/ SendLate \/ FlushTxQueue
           \/ ReceiveTest
  <2>1. /\ UNCHANGED <<jobs, flags, control, bulkOut>>
    BY <1>3 DEF SendStart, SendByte, SendTimeOut, SendLate, FlushTxQueue, ReceiveTest
  <2>2. log'.fresh = log.fresh /\ log'.deaf = log.deaf
    BY <1>3, SendByteRest, FlushTxLog DEF SendStart, SendTimeOut, SendLate, ReceiveTest
  <2>3. Armed' = Armed /\ rcvd' = rcvd
    BY <2>1 DEF Armed, OutWaiting, bulkOut
  <2> QED BY <2>1, <2>2, <2>3, ControlOfProgram
<1>4. CASE FlushRxQueue
  <2>1. /\ UNCHANGED <<jobs, flags, control>> /\ Armed' = Armed
    BY <1>4 DEF FlushRxQueue, Armed, OutWaiting
  <2>2. log'.fresh = log.fresh /\ log'.deaf = ~Armed
    BY <1>4, FlushRxLog DEF Armed
  <2> QED BY <2>1, <2>2, ControlOfProgram
<1>5. CASE IsrEntry
  <2>1. /\ jobs' = flags /\ jobs = {} /\ UNCHANGED <<flags, bulkOut, control, log>>
    BY <1>5 DEF IsrEntry, InIsr
  <2>2. OutWaiting' = OutWaiting
    BY <2>1 DEF OutWaiting
  <2> QED BY <2>1, <2>2 DEF Control, control, bulkOut, Offered
<1>6. CASE ServeSuspend
  <2>1. /\ Serving("SUSP") /\ flags' = flags \ {"SUSP"} /\ state' = "POWERED"
        /\ UNCHANGED <<bulkOut, request, host, log>>
    BY <1>6 DEF ServeSuspend
  <2>2. Armed' = Armed /\ rcvd' = rcvd
    BY <2>1 DEF Armed, OutWaiting, Serving, bulkOut
  <2> QED BY <1>1, <2>1, <2>2, ControlOfIsr
<1>7. CASE ServeIn
  <2>1. /\ Serving("TX") /\ flags' = flags \ {"TX"} /\ UNCHANGED <<bulkOut, control, log>>
    BY <1>7 DEF ServeIn
  <2>2. Armed' = Armed /\ rcvd' = rcvd
    BY <2>1 DEF Armed, OutWaiting, Serving, bulkOut
  <2> QED BY <1>1, <2>1, <2>2, ControlOfIsr DEF control
<1>8. CASE ServeOut
  <2>1. /\ Serving("RX") /\ flags' = flags \ {"RX"} /\ UNCHANGED control
        /\ rcvd' = Pushed /\ (HasRoom(Pushed) => out' = ArmedOut)
    BY <1>8 DEF ServeOut
  <2>2. Len(rcvd') < Threshold => Armed'
    BY <2>1, SetOutType DEF Armed, HasRoom
  <2>3. log'.fresh = log.fresh
    BY <1>8, ServeOutLog
  <2> QED BY <1>1, <2>1, <2>2, <2>3, ControlOfIsr DEF control
<1>9. CASE HostRequest
  <2>1. /\ "BRST" \notin flags /\ "SETUP" \notin flags \cup jobs /\ request' \in Offered
        /\ flags' = flags \cup {"SETUP"} /\ UNCHANGED <<state, host, bulkOut, jobs>>
    BY <1>9 DEF HostRequest, HostRuns
  <2>2. log'.fresh = TRUE /\ log'.deaf = log.deaf
    BY <1>9, HostRequestLog
  <2>3. OutWaiting' = OutWaiting /\ Offered' = Offered
    BY <2>1 DEF OutWaiting, Offered
  <2> QED BY <2>1, <2>2, <2>3 DEF Control, bulkOut
<1>10. CASE HostTakes
  <2>1. /\ flags' = flags \cup {"TX"} /\ UNCHANGED <<bulkOut, jobs, control>>
    BY <1>10 DEF HostTakes
  <2>2. log'.fresh = log.fresh /\ log'.deaf = log.deaf
    BY <1>10, HostTakesLog
  <2>3. OutWaiting' = OutWaiting /\ Offered' = Offered
    BY <2>1 DEF OutWaiting, Offered, control
  <2> QED BY <2>1, <2>2, <2>3 DEF Control, bulkOut, control
<1>11. CASE HostSends
  <2>1. /\ flags' = flags \cup {"RX"} /\ UNCHANGED <<jobs, control>> /\ OutWaiting'
    BY <1>11 DEF HostSends, OutWaiting
  <2>2. PICK n \in 1 .. OutMax : log.sent + n <= MaxRx /\ log' = [log EXCEPT !.sent = @ + n]
    BY <1>11 DEF HostSends
  <2>3. log'.fresh = log.fresh
    BY <2>2, HostSendsLog
  <2>4. Offered' = Offered
    BY <2>1 DEF Offered, control
  <2> QED BY <2>1, <2>3, <2>4 DEF Control, control
<1>12. CASE BusReset
  <2>1. host' = "attached" /\ flags' = flags \cup {"BRST"} /\ jobs' = jobs
    BY <1>12 DEF BusReset
  <2>2. log'.fresh = FALSE
    BY <1>12, EventLog
  <2> QED BY <2>1, <2>2 DEF Control
<1>13. CASE Suspend
  <2>1. /\ flags' = flags \cup {"SUSP"} /\ UNCHANGED <<jobs, control, bulkOut>>
    BY <1>13 DEF Suspend
  <2>2. log'.fresh = log.fresh /\ log'.deaf = log.deaf
    BY <1>13, EventLog
  <2>3. OutWaiting' = OutWaiting /\ Offered' = Offered
    BY <2>1 DEF OutWaiting, Offered, control
  <2> QED BY <2>1, <2>2, <2>3 DEF Control, bulkOut, control
<1> QED
  BY <1>3, <1>4, <1>5, <1>6, <1>7, <1>8, <1>9, <1>10, <1>11, <1>12, <1>13,
     ReceiveControl, ServeResetControl, ServeSetupControl DEF Next, Program, Isr, Host

-----------------------------------------------------------------------------
(* The theorems.                                                           *)

\* A stuttering step keeps the invariant.
LEMMA Stuttering ==
  ASSUME IInv, UNCHANGED vars
  PROVE  IInv'
<1>1. Types'
  BY DEF IInv, vars, Types, TypeOK
<1>2. BulkIn' /\ TxBytes'
  BY DEF IInv, vars, BulkIn, TxBytes, TxStream, InWaiting
<1>3. BulkOut' /\ RxBytes'
  BY DEF IInv, vars, BulkOut, RxBytes, RxStream, OutWaiting, Waiting
<1>4. Control'
  BY DEF IInv, vars, Control, Offered, OutWaiting
<1> QED BY <1>1, <1>2, <1>3, <1>4 DEF IInv

\* The inductive invariant: types, the two endpoints, what host and device make of
\* each other, and the two streams of bytes.
THEOREM Invariant == Spec => []IInv
<1>1. Init => IInv
  BY InitTypes, InitBulkIn, InitTxBytes, InitBulkOut, InitControl DEF IInv
<1>2. IInv /\ [Next]_vars => IInv'
  <2>1. IInv /\ Next => IInv'
    BY TypesStep, BulkInStep, TxBytesStep, BulkOutStep, ControlStep DEF IInv
  <2> QED BY <2>1, Stuttering
<1> QED BY <1>1, <1>2, PTL DEF Spec

\* The queues hold at most TX_QUEUE_SIZE and RX_QUEUE_SIZE bytes, packets are no
\* longer than the endpoints allow, and every field has its type.
THEOREM TypesOK == Spec => []TypeOK
<1>1. IInv => TypeOK
  BY DEF IInv, Types
<1> QED BY <1>1, Invariant, PTL

\* The host gets what the program sends, in order, but what is flushed or reset
\* away: EP2_InHandler never writes over a packet the host has yet to take.
THEOREM BytesAreSent == Spec => []TxStream
<1>1. IInv => TxStream
  BY DEF IInv, TxBytes
<1> QED BY <1>1, Invariant, PTL

\* The program gets what the host sends, in order, but what is flushed or reset
\* away; the queue runs over only after Set_Configuration enabled the endpoint
\* without a look at it; all this until the endpoint is enabled over a packet whose
\* interrupt is masked.
THEOREM BytesAreReceived == Spec => []RxStream
<1>1. IInv => RxStream
  BY DEF IInv, RxBytes
<1> QED BY <1>1, Invariant, PTL

\* Bytes are never left queued with no interrupt to come, unless a bus reset threw
\* a packet away and left bulk_in_transmitting set.
THEOREM TransmitterNeverStalls == Spec => []NoTxStall
<1>1. IInv => NoTxStall
  <2>1. SUFFICES ASSUME IInv, ~InIsr, main \in {"idle", "reading"},
                        xmit # <<>> \/ transmitting, ~log.stranded
                 PROVE  in.armed \/ "TX" \in flags \/ "BRST" \in flags
    BY DEF NoTxStall
  <2>2. transmitting
    BY <2>1 DEF IInv, BulkIn
  <2>3. in.armed \/ InWaiting
    BY <2>1, <2>2 DEF IInv, BulkIn
  <2> QED BY <2>1, <2>3 DEF InWaiting, InIsr
<1> QED BY <1>1, Invariant, PTL

\* Once there is nothing left to transmit, the last packet the host took was not
\* full, so that the host's transfer has ended.
THEOREM TransfersAreEnded == Spec => []TransfersEnd
<1>1. IInv => TransfersEnd
  BY DEF IInv, BulkIn, TransfersEnd
<1> QED BY <1>1, Invariant, PTL

\* A device its host holds for configured can be sent to as long as its queue has
\* room, unless the program flushed the queue while the endpoint was disabled.
THEOREM ReceiverIsArmed == Spec => []RxArmed
<1>1. IInv => RxArmed
  BY DEF IInv, Control, RxArmed
<1> QED BY <1>1, Invariant, PTL
=============================================================================
