------------------------------ MODULE UartProofs -------------------------------
(***************************************************************************)
(* What Uart promises, in each flow control, for every size of the queues, *)
(* the FIFOs and the room kept free, and any number of bytes and of turns  *)
(* of the peer's mind.                                                     *)
(*                                                                         *)
(* The transmitter's interrupt carries the safety of sending: when it is   *)
(* pending, the FIFO is empty, so that what is put in it fits but for one  *)
(* byte behind a mark; when it is enabled, it is pending or will be as     *)
(* soon as the FIFO has drained.  Between the two, THREI is on whenever    *)
(* the program rests with bytes that the peer takes.                       *)
(***************************************************************************)
EXTENDS Uart, StreamProofs, FiniteSetTheorems

Peer == [sent : Nat, slack : Nat, stopped : BOOLEAN, flips : Nat]

Log == [queued : Nat, flushedTx : SUBSET Int, lostTx : SUBSET Int, wire : Seq(Int),
        flushedRx : SUBSET Int, lostRx : SUBSET Int, read : Seq(Int),
        marks : Seq(Int)]

\* The conjuncts of TypeOK one by one, with those of the other variables.
Types ==
  /\ xmit \in Seq(Bytes) /\ Len(xmit) <= TxSize
  /\ rcvd \in Seq(Bytes) /\ Len(rcvd) <= RxSize
  /\ threi \in BOOLEAN /\ ien \in BOOLEAN /\ cts \in BOOLEAN /\ rts \in BOOLEAN
  /\ rcvdXon \in BOOLEAN /\ xmitXon \in BOOLEAN /\ thri \in BOOLEAN
  /\ msi \in BOOLEAN /\ ctsLine \in BOOLEAN
  /\ xon \in 0 .. 1 /\ xoff \in 0 .. 1
  /\ isr \in {"out", "top", "rx"} /\ main \in {"idle", "send", "late"}
  /\ left \in 0 .. MaxTx
  /\ txFifo \in Seq(Chars) /\ Len(txFifo) <= Fifo
  /\ rxFifo \in Seq(Chars) /\ Len(rxFifo) <= Fifo
  /\ threi /\ main # "late" => ien
  /\ control \in {"NO_CONTROL", "RTS_CTS", "XON_XOFF"}
  /\ peer \in Peer /\ log \in Log
  /\ main = "send" => left >= 1
  /\ isr = "rx" => rxFifo # <<>>

\* XON and XOFF are sent and received in their flow control alone.
OtherControl ==
  control # "XON_XOFF" => xon = 0 /\ xoff = 0 /\ \A c \in Range(rxFifo) : c \notin Marks

\* A mark is the first character written to an empty FIFO.
MarkFirst == \A i \in DOMAIN txFifo : i > 1 => txFifo[i] \notin Marks

\* THREI, and the interrupt it enables.
Transmitter ==
  /\ thri => txFifo = <<>>
  /\ ien => thri \/ txFifo # <<>>
  /\ /\ main = "idle" \/ (main = "send" /\ Len(xmit) = TxSize)
     /\ xmit # <<>> /\ Permitted
     => ien

TxBytes == TxStream /\ log.flushedTx \cup log.lostTx \subseteq 1 .. log.queued

RxBytes == RxStream /\ log.flushedRx \cup log.lostRx \subseteq 1 .. peer.sent

\* Under RTS/CTS, what is queued, in the FIFO and still to come never exceeds what
\* the threshold, the FIFO and the peer's slack make.
Room ==
  control = "RTS_CTS" =>
    /\ peer.slack <= Slack
    /\ rts => Len(rcvd) < Threshold /\ peer.slack = Slack
    /\ Len(rcvd) + Len(rxFifo) + peer.slack < Threshold + Fifo + Slack

IInv ==
  /\ Types /\ OtherControl /\ MarkFirst /\ Transmitter /\ TxBytes /\ RxBytes
  /\ Room /\ NoRxLoss /\ MarksInTurn

-----------------------------------------------------------------------------
(* Constants, characters, and the FIFO.                                    *)

\* The constants are numbers, and the threshold is inside the queue.
LEMMA Numbers ==
  /\ TxSize \in Nat \ {0} /\ RxSize \in Nat \ {0} /\ Fifo \in Nat \ {0}
  /\ WFifo \in 1 .. Fifo /\ Threshold \in 1 .. RxSize /\ NearFull \in Nat \ {0}
  /\ Threshold = RxSize - NearFull
  /\ Slack \in Nat /\ MaxTx \in Nat /\ MaxRx \in Nat /\ MaxFlips \in Nat
BY UartAssumption DEF Threshold

\* A byte is a positive number, and a mark is none.
LEMMA Characters ==
  /\ Bytes \subseteq Chars /\ Bytes \subseteq Int /\ Chars \subseteq Int
  /\ XON \in Chars /\ XOFF \in Chars /\ XON # XOFF /\ XON <= 0 /\ XOFF <= 0
  /\ \A c \in Marks : c \in Int /\ c <= 0 /\ c \in Chars /\ (c = XON \/ c = XOFF)
  /\ \A c \in Chars : /\ c \in Marks <=> c <= 0
                      /\ c \notin Marks <=> c \in Bytes
  /\ \A c \in Bytes : c \notin Marks /\ c > 0 /\ c \in Nat
BY DEF Bytes, Chars, Marks, XON, XOFF

\* Bytes and characters in a sequence.
LEMMA CharSeq ==
  /\ \A s \in Seq(Bytes) : s \in Seq(Chars) /\ s \in Seq(Int) /\ Range(s) \subseteq Bytes
  /\ \A s \in Seq(Chars) : s \in Seq(Int) /\ Range(s) \subseteq Chars
<1>1. ASSUME NEW s \in Seq(Bytes)
      PROVE  s \in Seq(Chars) /\ s \in Seq(Int) /\ Range(s) \subseteq Bytes
  <2>1. s \in Seq(Chars)
    BY Characters, SeqMonotonic
  <2>2. s \in Seq(Int)
    BY Characters, IntSeq
  <2>3. Range(s) \subseteq Bytes
    BY ElementOfSeq, LenProperties DEF Range
  <2> QED BY <2>1, <2>2, <2>3
<1>2. ASSUME NEW s \in Seq(Chars)
      PROVE  s \in Seq(Int) /\ Range(s) \subseteq Chars
  <2>2. s \in Seq(Int)
    BY Characters, IntSeq
  <2>3. Range(s) \subseteq Chars
    BY ElementOfSeq, LenProperties DEF Range
  <2> QED BY <2>2, <2>3
<1> QED BY <1>1, <1>2

\* A mark, or none, as a sequence.
LEMMA MarkSeq ==
  \A m \in {<<>>, <<XON>>, <<XOFF>>} :
    /\ m \in Seq(Chars) /\ m \in Seq(Int) /\ Len(m) \in 0 .. 1
    /\ m = <<>> \/ \E c \in Marks : m = <<c>>
<1>1. ASSUME NEW c \in Marks
      PROVE  <<c>> \in Seq(Chars) /\ <<c>> \in Seq(Int) /\ Len(<<c>>) \in 0 .. 1
  <2>1. c \in Chars /\ c \in Int
    BY Characters
  <2> QED BY <2>1
<1>2. <<>> \in Seq(Chars) /\ <<>> \in Seq(Int) /\ Len(<<>>) \in 0 .. 1
  OBVIOUS
<1>3. XON \in Marks /\ XOFF \in Marks
  BY DEF Marks
<1> QED BY <1>1, <1>2, <1>3

\* An element at the end.
LEMMA Appended ==
  \A S : \A s \in Seq(S), c \in S :
    /\ Append(s, c) \in Seq(S) /\ Len(Append(s, c)) = Len(s) + 1 /\ Append(s, c) # <<>>
    /\ Append(s, c) = s \o <<c>>
<1> SUFFICES ASSUME NEW S, NEW s \in Seq(S), NEW c \in S
             PROVE  /\ Append(s, c) \in Seq(S) /\ Len(Append(s, c)) = Len(s) + 1
                    /\ Append(s, c) # <<>> /\ Append(s, c) = s \o <<c>>
  OBVIOUS
<1>1. Append(s, c) \in Seq(S) /\ Len(Append(s, c)) = Len(s) + 1
  BY AppendProperties
<1>2. Append(s, c) = s \o <<c>>
  BY AppendIsConcat
<1>3. Append(s, c) # <<>>
  BY AppendProperties
<1> QED BY <1>1, <1>2, <1>3

\* A sequence behind one element, cut.
LEMMA Cut ==
  ASSUME NEW S, NEW m \in S, NEW a \in Seq(S), NEW k \in 0 .. Len(a)
  PROVE  LET w == <<m>> \o a IN
         /\ w \in Seq(S) /\ Len(w) = Len(a) + 1
         /\ SubSeq(w, 1, k + 1) = <<m>> \o SubSeq(a, 1, k)
         /\ SubSeq(w, k + 2, Len(a) + 1) = SubSeq(a, k + 1, Len(a))
<1> DEFINE h == <<m>>
           w == h \o a
           n == Len(a)
<1>1. h \in Seq(S) /\ Len(h) = 1 /\ n \in Nat /\ k \in 0 .. n
  BY LenProperties
<1> HIDE DEF h, n
<1>2. w \in Seq(S) /\ Len(w) = n + 1
  <2>1. w \in Seq(S) /\ Len(w) = Len(h) + Len(a)
    BY ONLY <1>1, a \in Seq(S), ConcatProperties DEF w
  <2> QED BY <1>1, <2>1 DEF n
<1>3. SubSeq(w, 1, 1) = h
  <2>1. SubSeq(w, 1, 1) = SubSeq(h, 1, 1)
    <3>1. 1 \in 1 .. Len(h)
      BY <1>1
    <3> QED BY ONLY <1>1, <3>1, a \in Seq(S), SubSeqOfConcat1 DEF w
  <2> QED BY <1>1, <2>1, SubSeqFull
<1>4. ASSUME NEW i \in 1 .. n, NEW j \in 1 .. n
      PROVE  SubSeq(w, i + 1, j + 1) = SubSeq(a, i, j)
  <2>1. /\ i + 1 \in Len(h) + 1 .. Len(h) + Len(a)
        /\ j + 1 \in Len(h) + 1 .. Len(h) + Len(a)
        /\ (i + 1) - Len(h) = i /\ (j + 1) - Len(h) = j
    BY <1>1 DEF n
  <2>2. SubSeq(w, i + 1, j + 1) = SubSeq(a, (i + 1) - Len(h), (j + 1) - Len(h))
    BY <1>1, <2>1, SubSeqOfConcat2
  <2> QED BY <2>1, <2>2
<1>5. SubSeq(w, 2, k + 1) = SubSeq(a, 1, k)
  <2>1. CASE k = 0
    BY <2>1, SubSeqEmpty
  <2>2. CASE k # 0
    <3>1. 1 \in 1 .. n /\ k \in 1 .. n /\ 1 + 1 = 2
      BY <1>1, <2>2
    <3> QED BY <1>4, <3>1
  <2> QED BY <2>1, <2>2
<1> HIDE DEF w
<1>6. SubSeq(w, 1, k + 1) = h \o SubSeq(a, 1, k)
  <2>1. /\ 1 \in 1 .. Len(w) + 1 /\ 1 \in 1 - 1 .. Len(w) /\ k + 1 \in 1 .. Len(w)
        /\ 1 + 1 = 2
    BY <1>1, <1>2
  <2>2. SubSeq(w, 1, 1) \o SubSeq(w, 2, k + 1) = SubSeq(w, 1, k + 1)
    BY <1>2, <2>1, ConcatAdjacentSubSeq
  <2> QED BY <1>3, <1>5, <2>2
<1>7. SubSeq(w, k + 2, n + 1) = SubSeq(a, k + 1, n)
  <2>1. CASE k = n
    <3>1. n + 1 < k + 2 /\ n < k + 1 /\ k + 2 \in Int /\ k + 1 \in Int /\ n \in Int
      BY <1>1, <2>1
    <3> QED BY <3>1, SubSeqEmpty
  <2>2. CASE k # n
    <3>1. k + 1 \in 1 .. n /\ n \in 1 .. n /\ (k + 1) + 1 = k + 2
      BY <1>1, <2>2
    <3>2. SubSeq(w, (k + 1) + 1, n + 1) = SubSeq(a, k + 1, n)
      BY <1>4, <3>1
    <3> QED BY <3>1, <3>2
  <2> QED BY <2>1, <2>2
<1> QED BY <1>2, <1>6, <1>7 DEF w, h, n

\* The FIFO filled: of the batch taken from the queue, all but at most one byte
\* is kept, and that is lost only behind a mark in a FIFO filled to its depth.
Filled(mk, n, kept, lost) ==
  /\ txFifo' = mk \o kept
  /\ Len(mk) + Len(kept) <= Fifo /\ Len(kept) + Len(lost) = n
  /\ xmit' \in Seq(Bytes) /\ Len(xmit') = Len(xmit) - n
  /\ xmit = kept \o lost \o xmit'
  /\ log' = [log EXCEPT !.lostTx = @ \cup Range(lost)]
  /\ lost = <<>> \/ (mk # <<>> /\ WFifo = Fifo /\ \E x \in Bytes : lost = <<x>>)

\* The bytes of a batch behind no mark, or behind one.
LEMMA Transmitted ==
  ASSUME Types, txFifo = <<>>, NEW n \in 0 .. Len(xmit), n <= WFifo,
         NEW mk \in {<<>>, <<XON>>, <<XOFF>>}, Transmit(mk, n)
  PROVE  \E kept \in Seq(Bytes), lost \in Seq(Bytes) : Filled(mk, n, kept, lost)
<1> DEFINE a == SubSeq(xmit, 1, n)
           b == SubSeq(xmit, n + 1, Len(xmit))
           out == <<>> \o mk \o a
           fits == IF Len(out) < Fifo THEN Len(out) ELSE Fifo
<1>1. /\ txFifo' = SubSeq(out, 1, fits) /\ xmit' = b
      /\ log' = [log EXCEPT !.lostTx = @ \cup Range(SubSeq(out, fits + 1, Len(out)))]
  BY DEF Transmit
<1>2. /\ xmit \in Seq(Bytes) /\ a \in Seq(Bytes) /\ Len(a) = n
      /\ b \in Seq(Bytes) /\ Len(b) = Len(xmit) - n /\ a \o b = xmit
      /\ n \in Nat /\ n <= Fifo /\ WFifo <= Fifo /\ WFifo \in Nat /\ Fifo \in Nat
  <2>1. xmit \in Seq(Bytes)
    BY DEF Types
  <2>2. n \in Nat /\ n <= Fifo /\ WFifo <= Fifo /\ WFifo \in Nat /\ Fifo \in Nat
    BY <2>1, Numbers
  <2> QED BY <2>1, <2>2, Split
<1>3. <<>> \in Seq(Chars) /\ a \in Seq(Chars) /\ a \in Seq(Int) /\ b \in Seq(Int)
  BY <1>2, CharSeq, EmptySeq
<1> HIDE DEF a, b
<1>4. CASE mk = <<>>
  <2>1. out = a
    BY <1>3, <1>4, ConcatEmptySeq
  <2>2. fits = n /\ Len(out) = n
    BY <1>2, <2>1, Numbers
  <2> HIDE DEF out, fits
  <2> DEFINE none == <<>>
  <2>3. SubSeq(out, 1, fits) = a
    BY <1>2, <2>1, <2>2, SubSeqFull
  <2>4. SubSeq(out, fits + 1, Len(out)) = none
    BY <1>2, <2>2, SubSeqEmpty
  <2>5. none \in Seq(Bytes) /\ Len(none) = 0 /\ none \in Seq(Int)
    BY EmptySeq
  <2>6. txFifo' = mk \o a
    BY <1>1, <1>3, <1>4, <2>3, ConcatEmptySeq
  <2>7. xmit = a \o none \o xmit'
    BY <1>1, <1>2, <1>3, ConcatEmptySeq
  <2>8. Len(mk) = 0
    BY <1>4
  <2> HIDE DEF none
  <2>9. log' = [log EXCEPT !.lostTx = @ \cup Range(none)]
    BY <1>1, <2>4
  <2>10. Len(mk) + Len(a) <= Fifo /\ Len(a) + Len(none) = n
    BY <1>2, <2>5, <2>8
  <2>11. Filled(mk, n, a, none)
    BY <1>1, <1>2, <2>6, <2>7, <2>9, <2>10 DEF Filled, none
  <2> QED BY <1>2, <2>5, <2>11
<1>5. ASSUME NEW m \in Marks, mk = <<m>>
      PROVE  \E kept \in Seq(Bytes), lost \in Seq(Bytes) : Filled(mk, n, kept, lost)
  <2> DEFINE w == <<m>> \o a
             k == fits - 1
             kept == SubSeq(a, 1, k)
             lost == SubSeq(a, k + 1, Len(a))
  <2>0. m \in Chars /\ <<m>> \in Seq(Chars)
    BY <1>5, Characters
  <2>1. out = w
    BY <1>5, <2>0, ConcatEmptySeq
  <2>2. Len(out) = n + 1
    BY <1>2, <1>3, <2>0, <2>1, Cut
  <2>3. /\ k \in 0 .. n /\ fits = k + 1 /\ fits <= Fifo
        /\ k = n \/ (k + 1 = n /\ n = Fifo)
    BY <1>2, <2>2, Numbers
  <2> HIDE DEF out, fits, k
  <2>4. /\ SubSeq(w, 1, k + 1) = <<m>> \o kept
        /\ SubSeq(w, k + 2, Len(a) + 1) = lost
    BY <1>2, <1>3, <2>0, <2>3, Cut
  <2>5. /\ kept \in Seq(Bytes) /\ Len(kept) = k
        /\ lost \in Seq(Bytes) /\ Len(lost) = n - k /\ kept \o lost = a
    BY <1>2, <2>3, Split
  <2> HIDE DEF kept, lost, w
  <2>6. txFifo' = mk \o kept
    BY <1>1, <1>5, <2>1, <2>3, <2>4
  <2>7. log' = [log EXCEPT !.lostTx = @ \cup Range(lost)]
    <3>1. fits + 1 = k + 2 /\ Len(out) = Len(a) + 1
      BY <1>2, <2>2, <2>3
    <3> QED BY <1>1, <2>1, <2>4, <3>1
  <2>8. xmit = kept \o lost \o xmit'
    BY <1>1, <1>2, <2>5
  <2>9. Len(mk) = 1 /\ mk # <<>>
    BY <1>5
  <2>10. Len(mk) + Len(kept) <= Fifo /\ Len(kept) + Len(lost) = n
    BY <1>2, <2>3, <2>5, <2>9
  <2>11. lost = <<>> \/ (WFifo = Fifo /\ \E x \in Bytes : lost = <<x>>)
    <3>1. CASE k = n
      BY <1>2, <2>5, <3>1, EmptySeq
    <3>2. CASE k + 1 = n /\ n = Fifo
      <4>1. Len(lost) = 1 /\ WFifo = Fifo
        BY <1>2, <2>5, <3>2
      <4>2. lost[1] \in Bytes
        <5>1. 1 \in 1 .. Len(lost)
          BY <4>1
        <5> QED BY ONLY <2>5, <5>1, ElementOfSeq
      <4>3. lost = <<lost[1]>>
        <5> DEFINE t == <<lost[1]>>
        <5>1. t \in Seq(Bytes) /\ Len(t) = 1 /\ t[1] = lost[1]
          BY <4>2
        <5> HIDE DEF t
        <5>2. lost = t
          BY <2>5, <4>1, <5>1, SeqEqual
        <5> QED BY <5>2 DEF t
      <4> QED BY <4>1, <4>2, <4>3
    <3> QED BY <2>3, <3>1, <3>2
  <2>12. Filled(mk, n, kept, lost)
    BY <1>1, <1>2, <2>6, <2>7, <2>8, <2>9, <2>10, <2>11 DEF Filled
  <2> QED BY <2>5, <2>12
<1> QED BY <1>4, <1>5 DEF Marks

\* What UART_ISR does when the transmitter is empty.
LEMMA TransmitStep ==
  ASSUME Types, Transmitter, IsrTransmit
  PROVE  /\ txFifo = <<>> /\ Mark \in {<<>>, <<XON>>, <<XOFF>>}
         /\ \E n \in 0 .. Len(xmit), kept \in Seq(Bytes), lost \in Seq(Bytes) :
              /\ Filled(Mark, n, kept, lost)
              /\ \/ (xmit = <<>> \/ ~Permitted) /\ n = 0 /\ ClearThrei
                 \/ /\ xmit # <<>> /\ Permitted /\ n = Batch /\ n >= 1
                    /\ thri' = FALSE /\ UNCHANGED enable
<1>1. thri /\ ien /\ isr = "top" /\ rxFifo = <<>>
  BY DEF IsrTransmit, Source
<1>2. txFifo = <<>>
  BY <1>1 DEF Transmitter
<1>3. Mark \in {<<>>, <<XON>>, <<XOFF>>}
  BY DEF Mark
<1>4. xmit \in Seq(Bytes) /\ Len(xmit) \in Nat /\ (xmit # <<>> => Len(xmit) >= 1)
  BY DEF Types
<1>5. Batch \in 0 .. Len(xmit) /\ Batch <= WFifo /\ (xmit # <<>> => Batch >= 1)
  BY <1>4, Numbers DEF Batch
<1>6. 0 \in 0 .. Len(xmit) /\ 0 <= WFifo
  BY <1>4, Numbers
<1>7. CASE xmit = <<>> \/ ~Permitted
  <2>1. Transmit(Mark, 0) /\ ClearThrei
    BY <1>7 DEF IsrTransmit
  <2>2. \E kept \in Seq(Bytes), lost \in Seq(Bytes) : Filled(Mark, 0, kept, lost)
    BY <1>2, <1>3, <1>6, <2>1, Transmitted
  <2> QED BY <1>2, <1>3, <1>6, <1>7, <2>1, <2>2
<1>8. CASE ~(xmit = <<>> \/ ~Permitted)
  <2>1. Transmit(Mark, Batch) /\ thri' = FALSE /\ UNCHANGED enable
    BY <1>8 DEF IsrTransmit
  <2>2. \E kept \in Seq(Bytes), lost \in Seq(Bytes) : Filled(Mark, Batch, kept, lost)
    BY <1>2, <1>3, <1>5, <2>1, Transmitted
  <2> QED BY <1>2, <1>3, <1>5, <1>8, <2>1, <2>2
<1> QED BY <1>7, <1>8

-----------------------------------------------------------------------------
(* The log: what each action that writes it changes of it.                 *)

LogTx == <<log.queued, log.flushedTx, log.lostTx, log.wire, log.marks>>
LogRx == <<log.flushedRx, log.lostRx, log.read>>

\* A byte given to uart_Send.
LEMMA SendByteLog ==
  ASSUME Types, SendByte
  PROVE  /\ log' \in Log /\ log'.queued = log.queued + 1
         /\ log'.flushedTx = log.flushedTx /\ log'.lostTx = log.lostTx
         /\ log'.wire = log.wire /\ log'.marks = log.marks /\ LogRx' = LogRx
<1> DEFINE n == log.queued + 1
<1>1. n \in Nat
  BY DEF Types, Log
<1>2. log' = [log EXCEPT !.queued = n]
  BY DEF SendByte
<1> HIDE DEF n
<1>3. log' \in Log
  BY <1>1, <1>2 DEF Types, Log
<1>4. log'.queued = n
  BY <1>2 DEF Types, Log
<1> QED BY <1>2, <1>3, <1>4 DEF Types, Log, LogRx, n

\* A byte read.
LEMMA ReceiveLog ==
  ASSUME Types, Receive
  PROVE  /\ log' \in Log /\ log'.read = Append(log.read, Head(rcvd))
         /\ log'.flushedRx = log.flushedRx /\ log'.lostRx = log.lostRx
         /\ LogTx' = LogTx
<1> DEFINE s == Append(log.read, Head(rcvd))
<1>1. log.read \in Seq(Int) /\ Head(rcvd) \in Int
  BY HeadTailProperties, Characters DEF Types, Log, Receive
<1>2. s \in Seq(Int)
  BY <1>1
<1>3. log' = [log EXCEPT !.read = s]
  BY DEF Receive
<1> HIDE DEF s
<1>4. log' \in Log
  BY <1>2, <1>3 DEF Types, Log
<1>5. log'.read = s
  BY <1>3 DEF Types, Log
<1> QED BY <1>3, <1>4, <1>5 DEF Types, Log, LogTx, s

\* uart_FlushRxQueue.
LEMMA FlushRxLog ==
  ASSUME Types, FlushRxQueue
  PROVE  /\ log' \in Log /\ log'.flushedRx = log.flushedRx \cup Range(rcvd)
         /\ log'.read = log.read /\ log'.lostRx = log.lostRx /\ LogTx' = LogTx
<1> DEFINE f == log.flushedRx \cup Range(rcvd)
<1>1. log.flushedRx \subseteq Int /\ Range(rcvd) \subseteq Int
  BY CharSeq, Characters DEF Types, Log
<1>2. f \in SUBSET Int
  BY <1>1
<1>3. log' = [log EXCEPT !.flushedRx = f]
  BY DEF FlushRxQueue
<1> HIDE DEF f
<1>4. log' \in Log
  BY <1>2, <1>3 DEF Types, Log
<1>5. log'.flushedRx = f
  BY <1>3 DEF Types, Log
<1> QED BY <1>3, <1>4, <1>5 DEF Types, Log, LogTx, f

\* uart_FlushTxQueue.
LEMMA FlushTxLog ==
  ASSUME Types, FlushTxQueue
  PROVE  /\ log' \in Log /\ log'.flushedTx = log.flushedTx \cup Range(xmit)
         /\ log'.queued = log.queued /\ log'.lostTx = log.lostTx
         /\ log'.wire = log.wire /\ log'.marks = log.marks /\ LogRx' = LogRx
<1> DEFINE f == log.flushedTx \cup Range(xmit)
<1>1. log.flushedTx \subseteq Int /\ Range(xmit) \subseteq Int
  BY CharSeq, Characters DEF Types, Log
<1>2. f \in SUBSET Int
  BY <1>1
<1>3. log' = [log EXCEPT !.flushedTx = f]
  BY DEF FlushTxQueue
<1> HIDE DEF f
<1>4. log' \in Log
  BY <1>2, <1>3 DEF Types, Log
<1>5. log'.flushedTx = f
  BY <1>3 DEF Types, Log
<1> QED BY <1>3, <1>4, <1>5 DEF Types, Log, LogRx, f

\* The FIFO filled.
LEMMA FilledLog ==
  ASSUME Types, NEW mk, NEW n, NEW kept, NEW lost \in Seq(Bytes),
         Filled(mk, n, kept, lost)
  PROVE  /\ log' \in Log /\ log'.lostTx = log.lostTx \cup Range(lost)
         /\ log'.queued = log.queued /\ log'.flushedTx = log.flushedTx
         /\ log'.wire = log.wire /\ log'.marks = log.marks /\ LogRx' = LogRx
<1> DEFINE f == log.lostTx \cup Range(lost)
<1>1. log.lostTx \subseteq Int /\ Range(lost) \subseteq Int
  BY CharSeq, Characters DEF Types, Log
<1>2. f \in SUBSET Int
  BY <1>1
<1>3. log' = [log EXCEPT !.lostTx = f]
  BY DEF Filled
<1> HIDE DEF f
<1>4. log' \in Log
  BY <1>2, <1>3 DEF Types, Log
<1>5. log'.lostTx = f
  BY <1>3 DEF Types, Log
<1> QED BY <1>3, <1>4, <1>5 DEF Types, Log, LogRx, f

\* A character goes out.
LEMMA DrainLog ==
  ASSUME Types, Drain
  PROVE  LET c == Head(txFifo) IN
         /\ c \in Chars /\ log' \in Log /\ log'.queued = log.queued
         /\ log'.flushedTx = log.flushedTx /\ log'.lostTx = log.lostTx
         /\ LogRx' = LogRx
         /\ c \in Marks => log'.marks = Append(log.marks, c) /\ log'.wire = log.wire
         /\ c \notin Marks => log'.wire = Append(log.wire, c) /\ log'.marks = log.marks
<1> DEFINE c == Head(txFifo)
           m == Append(log.marks, c)
           w == Append(log.wire, c)
<1>1. c \in Chars /\ c \in Int
  BY HeadTailProperties, Characters DEF Types, Drain
<1>2. m \in Seq(Int) /\ w \in Seq(Int)
  BY <1>1 DEF Types, Log
<1>3. /\ c \in Marks => log' = [log EXCEPT !.marks = m]
      /\ c \notin Marks => log' = [log EXCEPT !.wire = w]
  BY DEF Drain
<1> HIDE DEF c, m, w
<1>4. CASE c \in Marks
  <2>1. log' \in Log
    BY <1>2, <1>3, <1>4 DEF Types, Log
  <2>2. log'.marks = m
    BY <1>3, <1>4 DEF Types, Log
  <2> QED BY <1>1, <1>3, <1>4, <2>1, <2>2 DEF Types, Log, LogRx, c, m
<1>5. CASE c \notin Marks
  <2>1. log' \in Log
    BY <1>2, <1>3, <1>5 DEF Types, Log
  <2>2. log'.wire = w
    BY <1>3, <1>5 DEF Types, Log
  <2> QED BY <1>1, <1>3, <1>5, <2>1, <2>2 DEF Types, Log, LogRx, c, w
<1> QED BY <1>4, <1>5

\* A byte received: what the flow control makes of it.
DataFlow ==
  /\ rts' = (rts /\ ~(control = "RTS_CTS" /\ NearlyFull(rcvd')))
  /\ IF control = "XON_XOFF" /\ NearlyFull(rcvd') /\ xmitXon
     THEN xoff' = 1 /\ SetThrei
     ELSE UNCHANGED xoff /\ KeepThrei
  /\ UNCHANGED <<cts, rcvdXon, xmitXon, xon>>

Incoming == Head(rxFifo)

\* What becomes of it.
TakesMark ==
  /\ Incoming \in Marks /\ rcvd' = rcvd /\ log'.lostRx = log.lostRx
  /\ rcvdXon' = (Incoming = XON) /\ SwitchThrei(Incoming)
  /\ UNCHANGED <<cts, rts, xmitXon, xon, xoff>>

TakesByte ==
  /\ Incoming \in Bytes /\ Len(rcvd) < RxSize /\ rcvd' = Append(rcvd, Incoming)
  /\ log'.lostRx = log.lostRx /\ DataFlow

LosesByte ==
  /\ Incoming \in Bytes /\ Len(rcvd) = RxSize /\ rcvd' = rcvd
  /\ log'.lostRx = log.lostRx \cup {Incoming} /\ DataFlow

\* A turn of the loop that empties the receiver: a mark, a byte that is queued, or
\* a byte that is lost.
LEMMA ReceivedStep ==
  ASSUME Types, IsrReceive
  PROVE  /\ rxFifo # <<>> /\ Incoming \in Chars
         /\ rxFifo' = Tail(rxFifo) /\ rxFifo' \in Seq(Chars)
         /\ Len(rxFifo') = Len(rxFifo) - 1
         /\ isr' \in {"out", "top", "rx"} /\ (isr' = "rx" => rxFifo' # <<>>)
         /\ log' \in Log /\ LogTx' = LogTx
         /\ log'.read = log.read /\ log'.flushedRx = log.flushedRx
         /\ TakesMark \/ TakesByte \/ LosesByte
         /\ UNCHANGED <<xmit, main, left, txFifo, msi, ctsLine, peer>>
<1> DEFINE c == Incoming
           more == Tail(rxFifo) # <<>>
           q == Pushed(rcvd, c)
           l == IF q = rcvd THEN log.lostRx \cup {c} ELSE log.lostRx
<1>0. rxFifo # <<>> /\ rxFifo' = Tail(rxFifo)
  BY DEF IsrReceive, Source, Types
<1>1. rxFifo # <<>> /\ rxFifo' = Tail(rxFifo)
      /\ rxFifo' \in Seq(Chars) /\ Len(rxFifo') = Len(rxFifo) - 1
  BY <1>0, HeadTailProperties DEF Types
<1>2. c \in Chars
  BY <1>1, HeadTailProperties DEF Types, Incoming
<1>3. /\ IF c \in Marks THEN ReceiveFlow(c, more) ELSE ReceiveData(c, more)
      /\ UNCHANGED <<xmit, main, left, txFifo, msi, ctsLine, peer>>
  BY DEF IsrReceive, Incoming, program, line
<1> HIDE DEF c, more
<1>4. CASE c \in Marks
  <2>1. ReceiveFlow(c, more)
    BY <1>3, <1>4
  <2>2. isr' \in {"out", "top", "rx"} /\ (isr' = "rx" => rxFifo' # <<>>)
    BY <1>1, <2>1 DEF ReceiveFlow, EndTurn, more
  <2>3. log' = log /\ TakesMark
    BY <1>4, <2>1 DEF ReceiveFlow, TakesMark, c
  <2> QED BY <1>1, <1>2, <1>3, <2>2, <2>3 DEF Types, LogTx, c
<1>5. CASE c \notin Marks
  <2>1. ReceiveData(c, more)
    BY <1>3, <1>5
  <2>2. c \in Bytes /\ c \in Int
    BY <1>2, <1>5, Characters
  <2>3. isr' \in {"out", "top", "rx"} /\ (isr' = "rx" => rxFifo' # <<>>)
    BY <1>1, <2>1 DEF ReceiveData, EndTurn, more
  <2>4. l \in SUBSET Int
    BY <2>2 DEF Types, Log
  <2>5. rcvd' = q /\ log' = [log EXCEPT !.lostRx = l] /\ DataFlow
    <3>1. rcvd' = q
      BY <2>1 DEF ReceiveData
    <3>2. log' = [log EXCEPT !.lostRx = l]
      BY <2>1 DEF ReceiveData
    <3>3. DataFlow
      BY <2>1, <3>1 DEF ReceiveData, DataFlow
    <3> QED BY <3>1, <3>2, <3>3
  <2>6. rcvd \in Seq(Bytes) /\ Len(rcvd) \in Nat /\ Len(rcvd) <= RxSize
    BY DEF Types
  <2>7. CASE Len(rcvd) < RxSize
    <3>1. q = Append(rcvd, c) /\ Len(q) = Len(rcvd) + 1
      BY <2>2, <2>6, <2>7 DEF Pushed
    <3>2. q # rcvd /\ l = log.lostRx
      BY <2>6, <3>1
    <3> HIDE DEF q, l
    <3>3. log' \in Log /\ LogTx' = LogTx /\ log'.lostRx = l
          /\ log'.read = log.read /\ log'.flushedRx = log.flushedRx
      BY <2>4, <2>5 DEF Types, Log, LogTx
    <3>4. TakesByte
      BY <2>2, <2>5, <2>7, <3>1, <3>2, <3>3 DEF TakesByte, c
    <3> QED BY <1>1, <1>2, <1>3, <2>3, <3>3, <3>4 DEF c
  <2>8. CASE Len(rcvd) = RxSize
    <3>1. q = rcvd /\ l = log.lostRx \cup {c}
      BY <2>6, <2>8, Numbers DEF Pushed
    <3> HIDE DEF q, l
    <3>3. log' \in Log /\ LogTx' = LogTx /\ log'.lostRx = l
          /\ log'.read = log.read /\ log'.flushedRx = log.flushedRx
      BY <2>4, <2>5 DEF Types, Log, LogTx
    <3>4. LosesByte
      BY <2>2, <2>5, <2>8, <3>1, <3>3 DEF LosesByte, c
    <3> QED BY <1>1, <1>2, <1>3, <2>3, <3>3, <3>4 DEF c
  <2> QED BY <2>6, <2>7, <2>8, Numbers
<1> QED BY <1>4, <1>5

-----------------------------------------------------------------------------
(* Types.                                                                  *)

\* THREI is set, cleared or kept.
LEMMA ThreiTypes ==
  ASSUME Types, SetThrei \/ KeepThrei \/ ClearThrei
  PROVE  /\ threi' \in BOOLEAN /\ ien' \in BOOLEAN /\ thri' \in BOOLEAN
         /\ SetThrei \/ ClearThrei => threi' = ien'
         /\ KeepThrei => threi' = threi /\ ien' = ien
BY DEF Types, SetThrei, KeepThrei, ClearThrei

\* The steps of the program keep the types.
LEMMA ProgramTypes ==
  ASSUME Types, Program, UNCHANGED control
  PROVE  Types'
<1>0. log \in Log /\ peer \in Peer /\ log.queued \in Nat /\ isr' = isr /\ rxFifo' = rxFifo
  BY DEF Types, Log, Program, SendStart, SendByte, SendTimeOut, SendLate, Receive,
         FlushRxQueue, FlushTxQueue, program
<1>1. CASE SendStart
  BY <1>0, <1>1, Numbers DEF SendStart, Types, queues, enable, flow, line
<1>2. CASE SendByte
  <2>1. /\ xmit' = Append(xmit, log.queued + 1) /\ Len(xmit) < TxSize
        /\ log.queued + 1 \in Bytes
    BY <1>0, <1>2 DEF SendByte, HasRoom, Bytes
  <2>2. xmit' \in Seq(Bytes) /\ Len(xmit') <= TxSize
    BY <2>1, Numbers DEF Types
  <2>3. SetThrei \/ KeepThrei
    BY <1>2 DEF SendByte
  <2>4. left \in 1 .. MaxTx
    BY <1>2 DEF SendByte, Types
  <2>5. left' \in 0 .. MaxTx /\ main' \in {"idle", "send"} /\ (main' = "send" => left' >= 1)
    BY <1>2, <2>4, Numbers DEF SendByte
  <2>6. threi' /\ main' # "late" => ien'
    BY <1>2, <2>3, ThreiTypes DEF SendByte, Types
  <2> QED BY <1>0, <1>2, <2>2, <2>3, <2>5, <2>6, ThreiTypes, SendByteLog
          DEF SendByte, Types, flow, line
<1>3. CASE SendTimeOut
  <2>1. /\ UNCHANGED <<xmit, rcvd, ien, cts, rts, rcvdXon, xmitXon, xon, xoff, isr, txFifo,
                       rxFifo, thri, msi, ctsLine, peer, log>>
        /\ left' = 0 /\ main' \in {"idle", "late"} /\ main = "send"
        /\ (IF threi THEN main' = "idle" /\ UNCHANGED threi
            ELSE main' = "late" /\ threi' = TRUE)
    BY <1>3 DEF SendTimeOut, queues, flow, line
  <2>2. left' \in 0 .. MaxTx
    BY <2>1, Numbers
  <2>3. threi \in BOOLEAN /\ (threi => ien)
    BY <2>1 DEF Types
  <2>4. threi' \in BOOLEAN /\ (threi' /\ main' # "late" => ien')
    BY <2>1, <2>3
  <2> QED BY <2>1, <2>2, <2>4 DEF Types
<1>4. CASE SendLate
  BY <1>0, <1>4 DEF SendLate, Types, queues, flow, line
<1>5. ASSUME NEW q, Reopen(q)
      PROVE  /\ threi' \in BOOLEAN /\ ien' \in BOOLEAN /\ thri' \in BOOLEAN
             /\ (main # "late" => (threi' => ien'))
             /\ rts' \in BOOLEAN /\ xon' \in 0 .. 1
             /\ UNCHANGED <<cts, rcvdXon, xmitXon, xoff>>
  <2>1. SetThrei \/ KeepThrei
    BY <1>5 DEF Reopen
  <2> QED BY <1>5, <2>1, ThreiTypes DEF Reopen, Types
<1>6. ASSUME PeerSeesRts
      PROVE  peer' \in Peer
  BY <1>0, <1>6, Numbers DEF PeerSeesRts, Peer
<1>7. CASE Receive
  <2>1. rcvd' \in Seq(Bytes) /\ Len(rcvd') <= RxSize
    BY <1>7, HeadTailProperties, Numbers DEF Receive, Types
  <2> QED BY <1>0, <1>5, <1>6, <1>7, <2>1, ReceiveLog DEF Receive, Types, program
<1>8. CASE FlushRxQueue
  <2>1. rcvd' \in Seq(Bytes) /\ Len(rcvd') <= RxSize
    BY <1>8, Numbers DEF FlushRxQueue, Types
  <2> QED BY <1>0, <1>5, <1>6, <1>8, <2>1, FlushRxLog DEF FlushRxQueue, Types, program
<1>9. CASE FlushTxQueue
  <2>1. xmit' \in Seq(Bytes) /\ Len(xmit') <= TxSize
    BY <1>9, Numbers DEF FlushTxQueue, Types
  <2> QED BY <1>0, <1>9, <2>1, FlushTxLog
          DEF FlushTxQueue, Types, enable, flow, program, line
<1> QED BY <1>1, <1>2, <1>3, <1>4, <1>7, <1>8, <1>9 DEF Program

\* So do those of UART_ISR.
LEMMA IsrTypes ==
  ASSUME Types, Transmitter, Isr, UNCHANGED control
  PROVE  Types'
<1>1. CASE IsrEntry \/ IsrExit
  BY <1>1 DEF IsrEntry, IsrExit, Types, queues, enable, flow, program, line
<1>2. CASE IsrReceive
  <2>1. /\ rxFifo' \in Seq(Chars) /\ Len(rxFifo') = Len(rxFifo) - 1
        /\ isr' \in {"out", "top", "rx"} /\ (isr' = "rx" => rxFifo' # <<>>)
        /\ log' \in Log /\ UNCHANGED <<xmit, main, left, txFifo, msi, ctsLine, peer>>
        /\ TakesMark \/ TakesByte \/ LosesByte
    BY <1>2, ReceivedStep
  <2>2. SetThrei \/ KeepThrei \/ ClearThrei
    BY <2>1 DEF TakesMark, TakesByte, LosesByte, SwitchThrei, DataFlow
  <2>3. rcvd' \in Seq(Bytes) /\ Len(rcvd') <= RxSize
    <3>1. rcvd \in Seq(Bytes) /\ Len(rcvd) <= RxSize
      BY DEF Types
    <3>2. CASE TakesByte
      BY <3>1, <3>2, Numbers DEF TakesByte
    <3> QED BY <2>1, <3>1, <3>2 DEF TakesMark, LosesByte
  <2>4. /\ rts' \in BOOLEAN /\ cts' \in BOOLEAN /\ rcvdXon' \in BOOLEAN
        /\ xmitXon' \in BOOLEAN /\ xon' \in 0 .. 1 /\ xoff' \in 0 .. 1
    <3>1. CASE TakesMark
      BY <3>1 DEF TakesMark, Types
    <3>2. CASE DataFlow
      BY <3>2 DEF DataFlow, Types
    <3> QED BY <2>1, <3>1, <3>2 DEF TakesByte, LosesByte
  <2>5. threi' /\ main' # "late" => ien'
    BY <2>1, <2>2, ThreiTypes DEF Types
  <2>6. Len(rxFifo') <= Fifo
    BY <2>1, Numbers DEF Types
  <2> QED BY <2>1, <2>2, <2>3, <2>4, <2>5, <2>6, ThreiTypes DEF Types
<1>3. CASE IsrTransmit
  <2>1. PICK n \in 0 .. Len(xmit), kept \in Seq(Bytes), lost \in Seq(Bytes) :
          /\ Filled(Mark, n, kept, lost)
          /\ \/ n = 0 /\ ClearThrei
             \/ thri' = FALSE /\ UNCHANGED enable
    BY <1>3, TransmitStep
  <2>2. Mark \in Seq(Chars) /\ kept \in Seq(Chars)
    <3>1. Mark \in {<<>>, <<XON>>, <<XOFF>>}
      BY <1>3, TransmitStep
    <3>2. <<>> \in Seq(Chars) /\ <<XON>> \in Seq(Chars) /\ <<XOFF>> \in Seq(Chars)
      BY Characters
    <3>3. kept \in Seq(Chars)
      BY CharSeq
    <3> QED BY <3>1, <3>2, <3>3
  <2>3. txFifo' = Mark \o kept /\ Len(Mark) + Len(kept) <= Fifo
    BY <2>1 DEF Filled
  <2>4. txFifo' \in Seq(Chars) /\ Len(txFifo') <= Fifo
    BY <2>2, <2>3, ConcatProperties
  <2>5. xmit' \in Seq(Bytes) /\ Len(xmit') <= TxSize
    <3>1. xmit' \in Seq(Bytes) /\ Len(xmit') = Len(xmit) - n
      BY <2>1 DEF Filled
    <3> QED BY <3>1, Numbers DEF Types
  <2>6. log' \in Log
    BY <2>1, FilledLog
  <2>7. /\ UNCHANGED <<rcvd, cts, rts, rcvdXon, main, left, rxFifo, msi, ctsLine, peer>>
        /\ isr' \in {"out", "top"}
        /\ IF control = "XON_XOFF" THEN SendMark ELSE UNCHANGED <<xmitXon, xon, xoff>>
    BY <1>3 DEF IsrTransmit, EndTurn, program, line
  <2>9. xmitXon' \in BOOLEAN /\ xon' \in 0 .. 1 /\ xoff' \in 0 .. 1
    <3>1. xmitXon \in BOOLEAN /\ xon \in 0 .. 1 /\ xoff \in 0 .. 1
      BY DEF Types
    <3>2. CASE SendMark
      <4>1. xmitXon' \in BOOLEAN
        BY <3>1, <3>2 DEF SendMark
      <4>2. xon' \in 0 .. 1 /\ xoff' \in 0 .. 1
        BY <3>1, <3>2 DEF SendMark
      <4> QED BY <4>1, <4>2
    <3> QED BY <2>7, <3>1, <3>2
  <2>8. /\ threi' \in BOOLEAN /\ ien' \in BOOLEAN /\ thri' \in BOOLEAN
        /\ (threi' /\ main' # "late" => ien')
    <3>1. CASE ClearThrei
      BY <3>1 DEF ClearThrei
    <3>2. CASE thri' = FALSE /\ UNCHANGED enable
      BY <2>7, <3>2 DEF enable, Types
    <3> QED BY <2>1, <3>1, <3>2
  <2> QED BY <2>4, <2>5, <2>6, <2>7, <2>8, <2>9 DEF Types
<1>4. CASE IsrModem
  <2>1. SetThrei \/ KeepThrei \/ ClearThrei
    BY <1>4 DEF IsrModem, CtsRises
  <2>2. /\ UNCHANGED <<xmit, rcvd, rts, rcvdXon, xmitXon, xon, xoff, main, left, txFifo,
                       rxFifo, ctsLine, peer, log>>
        /\ msi' = FALSE /\ cts' \in BOOLEAN /\ isr' \in {"out", "top"}
    BY <1>4 DEF IsrModem, EndTurn, queues, program, line, Types
  <2>3. threi' /\ main' # "late" => ien'
    BY <2>1, <2>2, ThreiTypes DEF Types
  <2> QED BY <2>1, <2>2, <2>3, ThreiTypes DEF Types
<1> QED BY <1>1, <1>2, <1>3, <1>4 DEF Isr

\* So do those of the 16550 and of the peer.
LEMMA LineTypes ==
  ASSUME Types, Line, UNCHANGED control
  PROVE  Types'
<1>0. log \in Log /\ peer \in Peer
  BY DEF Types
<1>1. CASE Drain
  <2>1. txFifo' \in Seq(Chars) /\ Len(txFifo') <= Fifo
    BY <1>1, HeadTailProperties, Numbers DEF Drain, Types
  <2>2. peer' \in Peer
    BY <1>0, <1>1 DEF Drain, Peer
  <2>3. log' \in Log
    BY <1>1, DrainLog
  <2>4. thri' \in BOOLEAN
    BY <1>1 DEF Drain, Types
  <2> QED BY <1>1, <2>1, <2>2, <2>3, <2>4
          DEF Drain, Types, queues, enable, flow, program
<1>2. CASE PeerSend
  <2>1. peer.sent + 1 \in Chars /\ Len(rxFifo) < Fifo
    BY <1>0, <1>2, Characters DEF PeerSend, Peer, Bytes
  <2>2. rxFifo' \in Seq(Chars) /\ Len(rxFifo') <= Fifo /\ rxFifo' # <<>>
    <3>1. rxFifo' = Append(rxFifo, peer.sent + 1) /\ rxFifo \in Seq(Chars)
      BY <1>2 DEF PeerSend, Types
    <3> QED BY <2>1, <3>1, Appended, Numbers
  <2>3. peer' \in Peer
    <3> DEFINE n == peer.sent + 1
               k == IF control = "RTS_CTS" /\ ~rts THEN peer.slack - 1 ELSE Slack
    <3>1. n \in Nat
      BY <1>0 DEF Peer
    <3>2. control = "RTS_CTS" /\ ~rts => peer.slack > 0
      BY <1>2 DEF PeerSend, PeerMaySend
    <3>3. k \in Nat
      BY <1>0, <3>2, Numbers DEF Peer
    <3>4. peer' = [peer EXCEPT !.sent = n, !.slack = k]
      BY <1>2 DEF PeerSend
    <3> HIDE DEF n, k
    <3> QED BY <1>0, <3>1, <3>3, <3>4 DEF Peer
  <2> QED BY <1>2, <2>2, <2>3 DEF PeerSend, Types, queues, enable, flow, program
<1>3. CASE PeerFlips
  <2>1. peer' \in Peer
    BY <1>0, <1>3 DEF PeerFlips, Peer
  <2>2. rxFifo' \in Seq(Chars) /\ Len(rxFifo') <= Fifo /\ (rxFifo # <<>> => rxFifo' # <<>>)
    <3>1. rxFifo \in Seq(Chars) /\ Len(rxFifo) <= Fifo
      BY DEF Types
    <3>2. \/ rxFifo' = rxFifo
          \/ \E c \in Chars : Len(rxFifo) < Fifo /\ rxFifo' = Append(rxFifo, c)
      <4>1. XOFF \in Chars /\ XON \in Chars
        BY Characters
      <4>2. (IF peer.flips % 2 = 0 THEN XOFF ELSE XON) \in Chars
        BY <4>1
      <4> QED BY <1>3, <4>2 DEF PeerFlips
    <3> QED BY <3>1, <3>2, Appended, Numbers
  <2>3. ctsLine' \in BOOLEAN /\ msi' \in BOOLEAN
    BY <1>3 DEF PeerFlips, Types
  <2> QED BY <1>3, <2>1, <2>2, <2>3 DEF PeerFlips, Types, queues, enable, flow, program
<1> QED BY <1>1, <1>2, <1>3 DEF Line

\* So does every step.
LEMMA TypesStep ==
  ASSUME Types, Transmitter, Next
  PROVE  Types'
BY ProgramTypes, IsrTypes, LineTypes DEF Next

\* The types at first.
LEMMA InitTypes == Init => Types
<1> SUFFICES ASSUME Init
             PROVE  Types
  OBVIOUS
<1>1. <<>> \in Seq(Bytes) /\ <<>> \in Seq(Chars) /\ <<>> \in Seq(Int) /\ Len(<<>>) = 0
  OBVIOUS
<1>2. log \in Log /\ peer \in Peer
  BY <1>1, Numbers DEF Init, Log, Peer
<1>3. control \in {"NO_CONTROL", "RTS_CTS", "XON_XOFF"}
  BY UartAssumption DEF Init
<1>4. /\ threi \in BOOLEAN /\ ien \in BOOLEAN /\ cts \in BOOLEAN /\ rts \in BOOLEAN
      /\ rcvdXon \in BOOLEAN /\ xmitXon \in BOOLEAN /\ thri \in BOOLEAN
      /\ msi \in BOOLEAN /\ ctsLine \in BOOLEAN /\ (threi => ien)
  BY DEF Init
<1>5. /\ xon \in 0 .. 1 /\ xoff \in 0 .. 1 /\ left \in 0 .. MaxTx
      /\ isr = "out" /\ main = "idle"
  BY Numbers DEF Init
<1>6. /\ xmit \in Seq(Bytes) /\ rcvd \in Seq(Bytes) /\ txFifo \in Seq(Chars)
      /\ rxFifo \in Seq(Chars) /\ Len(xmit) = 0 /\ Len(rcvd) = 0 /\ Len(txFifo) = 0
      /\ Len(rxFifo) = 0
  BY <1>1 DEF Init
<1> QED BY <1>2, <1>3, <1>4, <1>5, <1>6, Numbers DEF Types

-----------------------------------------------------------------------------
(* Marks: who receives and who sends them.                                 *)

\* The elements of the rest of a sequence, and of one that has grown.
LEMMA Ranges ==
  /\ \A s \in Seq(Int) : s # <<>> => /\ Head(s) \in Range(s) /\ Head(s) \in Int
                                     /\ Tail(s) \in Seq(Int)
                                     /\ Range(s) = {Head(s)} \cup Range(Tail(s))
                                     /\ s = <<Head(s)>> \o Tail(s)
  /\ \A s \in Seq(Int), c \in Int : Range(Append(s, c)) = Range(s) \cup {c}
<1>1. ASSUME NEW s \in Seq(Int), s # <<>>
      PROVE  /\ Head(s) \in Range(s) /\ Head(s) \in Int
             /\ Tail(s) \in Seq(Int)
             /\ Range(s) = {Head(s)} \cup Range(Tail(s))
             /\ s = <<Head(s)>> \o Tail(s)
  <2> DEFINE h == <<Head(s)>>
             t == Tail(s)
  <2>1. /\ Head(s) \in Int /\ t \in Seq(Int) /\ h \o t = s /\ h \in Seq(Int)
        /\ Range(h) = {Head(s)}
    BY <1>1, HeadAndTail, One
  <2> HIDE DEF h, t
  <2>2. h \in Seq(Int) /\ t \in Seq(Int)
    BY <2>1
  <2>3. Range(h \o t) = Range(h) \cup Range(t)
    BY ONLY <2>2, RangeConcatenation
  <2> QED BY <2>1, <2>3 DEF h, t
<1>2. ASSUME NEW s \in Seq(Int), NEW c \in Int
      PROVE  Range(Append(s, c)) = Range(s) \cup {c}
  <2> DEFINE t == <<c>>
  <2>1. t \in Seq(Int) /\ Range(t) = {c} /\ Append(s, c) = s \o t
    BY One, Appended
  <2> HIDE DEF t
  <2> QED BY <2>1, RangeConcatenation
<1> QED BY <1>1, <1>2

\* Where no marks are sent none comes in, and none is asked for.
LEMMA OtherControlStep ==
  ASSUME Types, OtherControl, Next
  PROVE  OtherControl'
<1> SUFFICES ASSUME control # "XON_XOFF"
             PROVE  xon' = 0 /\ xoff' = 0 /\ \A c \in Range(rxFifo)' : c \notin Marks
  BY DEF OtherControl, Next
<1>0. /\ xon = 0 /\ xoff = 0 /\ \A c \in Range(rxFifo) : c \notin Marks
      /\ rxFifo \in Seq(Chars) /\ rxFifo \in Seq(Int)
  BY CharSeq DEF OtherControl, Types
<1>1. CASE SendStart \/ SendByte \/ SendTimeOut \/ SendLate \/ FlushTxQueue
           \/ IsrEntry \/ IsrExit \/ IsrModem \/ Drain
  BY <1>0, <1>1 DEF SendStart, SendByte, SendTimeOut, SendLate, FlushTxQueue, IsrEntry,
                    IsrExit, IsrModem, Drain, flow
<1>2. CASE Receive \/ FlushRxQueue
  <2>1. rxFifo' = rxFifo /\ \E q : Reopen(q)
    BY <1>2 DEF Receive, FlushRxQueue
  <2>2. xon' = xon /\ xoff' = xoff
    BY <2>1 DEF Reopen, AsksXon
  <2> QED BY <1>0, <2>1, <2>2
<1>3. CASE IsrReceive
  <2>1. /\ rxFifo # <<>> /\ rxFifo' = Tail(rxFifo)
        /\ TakesMark \/ TakesByte \/ LosesByte
    BY <1>3, ReceivedStep
  <2>2. xon' = xon /\ xoff' = xoff
    BY <2>1 DEF TakesMark, TakesByte, LosesByte, DataFlow
  <2>3. Range(rxFifo') \subseteq Range(rxFifo)
    BY <1>0, <2>1, Ranges
  <2> QED BY <1>0, <2>2, <2>3
<1>4. CASE IsrTransmit
  BY <1>0, <1>4 DEF IsrTransmit
<1>5. CASE PeerSend
  <2>1. peer.sent + 1 \in Int /\ peer.sent + 1 \notin Marks
    BY Characters DEF Types, Peer, Bytes
  <2>2. rxFifo' = Append(rxFifo, peer.sent + 1) /\ UNCHANGED flow
    BY <1>5 DEF PeerSend
  <2>3. Range(rxFifo') = Range(rxFifo) \cup {peer.sent + 1}
    BY <1>0, <2>1, <2>2, Ranges
  <2> QED BY <1>0, <2>1, <2>2, <2>3 DEF flow
<1>6. CASE PeerFlips
  <2>1. control = "RTS_CTS"
    BY <1>6 DEF PeerFlips, Types
  <2> QED BY <1>0, <1>6, <2>1 DEF PeerFlips, flow
<1> QED BY <1>1, <1>2, <1>3, <1>4, <1>5, <1>6 DEF Next, Program, Isr, Line

\* A mark goes into an empty FIFO.
LEMMA MarkFirstStep ==
  ASSUME Types, Transmitter, MarkFirst, Next
  PROVE  MarkFirst'
<1>1. CASE txFifo' = txFifo
  BY <1>1 DEF MarkFirst
<1>2. CASE IsrTransmit
  <2>1. /\ Mark \in {<<>>, <<XON>>, <<XOFF>>}
        /\ \E kept \in Seq(Bytes) : txFifo' = Mark \o kept
    BY <1>2, TransmitStep DEF Filled
  <2>2. PICK kept \in Seq(Bytes) : txFifo' = Mark \o kept
    BY <2>1
  <2>3. \A i \in 1 .. Len(kept) : kept[i] \notin Marks
    BY Characters, ElementOfSeq
  <2> DEFINE m == Mark
  <2>4. /\ kept \in Seq(Int) /\ m \in Seq(Int) /\ Len(m) \in 0 .. 1
        /\ Len(kept) \in Nat
    BY <2>1, CharSeq, MarkSeq, LenProperties
  <2> HIDE DEF m
  <2>5. /\ DOMAIN (m \o kept) = 1 .. Len(m) + Len(kept)
        /\ \A i \in 1 .. Len(kept) : (m \o kept)[Len(m) + i] = kept[i]
    BY <2>4, Joined
  <2>6. ASSUME NEW i \in DOMAIN (m \o kept), i > 1
        PROVE  (m \o kept)[i] \notin Marks
    <3>1. i - Len(m) \in 1 .. Len(kept) /\ Len(m) + (i - Len(m)) = i
      <4> DEFINE k == Len(m)
                 l == Len(kept)
      <4>1. i \in 1 .. k + l /\ k \in 0 .. 1 /\ l \in Nat /\ i > 1
        BY <2>4, <2>5, <2>6
      <4> HIDE DEF k, l
      <4>2. i - k \in 1 .. l /\ k + (i - k) = i
        BY <4>1
      <4> QED BY <4>2 DEF k, l
    <3>2. (m \o kept)[Len(m) + (i - Len(m))] = kept[i - Len(m)]
      BY <2>5, <3>1
    <3> QED BY <2>3, <3>1, <3>2
  <2> QED BY <2>2, <2>6 DEF MarkFirst, m
<1>3. CASE Drain
  <2>1. txFifo # <<>> /\ txFifo' = Tail(txFifo) /\ txFifo \in Seq(Chars)
    BY <1>3 DEF Drain, Types
  <2> DEFINE n == Len(txFifo)
             t == Tail(txFifo)
  <2>2. /\ t \in Seq(Chars) /\ Len(t) = n - 1 /\ DOMAIN txFifo = 1 .. n
        /\ \A i \in 1 .. Len(t) : t[i] = txFifo[i + 1]
    BY <2>1, HeadTailProperties
  <2>3. n \in Nat /\ DOMAIN t = 1 .. Len(t)
    BY <2>1, <2>2, LenProperties
  <2> HIDE DEF n, t
  <2>4. ASSUME NEW i \in DOMAIN t
        PROVE  t[i] \notin Marks
    <3>1. i + 1 \in DOMAIN txFifo /\ i + 1 > 1 /\ t[i] = txFifo[i + 1]
      BY <2>2, <2>3
    <3> QED BY <3>1 DEF MarkFirst
  <2> QED BY <2>1, <2>4 DEF MarkFirst, t
<1> QED BY <1>1, <1>2, <1>3
        DEF Next, Program, Isr, Line, SendStart, SendByte, SendTimeOut, SendLate, Receive,
            FlushRxQueue, FlushTxQueue, IsrEntry, IsrExit, IsrReceive, IsrModem, PeerSend,
            PeerFlips

-----------------------------------------------------------------------------
(* THREI.                                                                  *)

\* The flow control's permission, without CASE.
LEMMA PermittedIs ==
  /\ Types => (Permitted <=> \/ control = "NO_CONTROL"
                             \/ control = "RTS_CTS" /\ cts
                             \/ control = "XON_XOFF" /\ rcvdXon)
  /\ Types' => (Permitted' <=> \/ control' = "NO_CONTROL"
                               \/ control' = "RTS_CTS" /\ cts'
                               \/ control' = "XON_XOFF" /\ rcvdXon')
<1>1. /\ control = "NO_CONTROL" => (Permitted <=> TRUE)
      /\ control = "RTS_CTS" => (Permitted <=> cts)
      /\ control = "XON_XOFF" => (Permitted <=> rcvdXon)
  BY DEF Permitted
<1>2. /\ control' = "NO_CONTROL" => (Permitted' <=> TRUE)
      /\ control' = "RTS_CTS" => (Permitted' <=> cts')
      /\ control' = "XON_XOFF" => (Permitted' <=> rcvdXon')
  BY DEF Permitted
<1> QED BY <1>1, <1>2 DEF Types

\* The interrupt is pending only if the FIFO is empty, and comes if it is enabled.
Coming == (thri => txFifo = <<>>) /\ (ien => thri \/ txFifo # <<>>)

\* THREI set raises the interrupt when the FIFO is empty.
LEMMA SetComing ==
  ASSUME Types, Coming, txFifo' = txFifo, ien' = TRUE,
         thri' = (thri \/ (~ien /\ txFifo = <<>>))
  PROVE  Coming'
<1>0. ien \in BOOLEAN /\ thri \in BOOLEAN
  BY DEF Types
<1>1. CASE thri
  <2>1. thri' = TRUE /\ txFifo = <<>>
    BY <1>1 DEF Coming
  <2> QED BY <2>1 DEF Coming
<1>2. CASE ~thri /\ ~ien /\ txFifo = <<>>
  <2>1. thri' = TRUE
    BY <1>2
  <2> QED BY <1>2, <2>1 DEF Coming
<1>3. CASE ~thri /\ (ien \/ txFifo # <<>>)
  <2>1. thri' = FALSE /\ txFifo # <<>>
    BY <1>3 DEF Coming
  <2> QED BY <2>1 DEF Coming
<1> QED BY <1>0, <1>1, <1>2, <1>3

\* Nothing of this changes.
LEMMA KeepComing ==
  ASSUME Types, Coming, txFifo' = txFifo, ien' = ien, thri' = thri
  PROVE  Coming'
<1>0. ien \in BOOLEAN /\ thri \in BOOLEAN
  BY DEF Types
<1>1. CASE thri
  BY <1>1 DEF Coming
<1>2. CASE ~thri
  BY <1>2 DEF Coming
<1> QED BY <1>0, <1>1, <1>2

\* However THREI is changed, that stays so.
LEMMA ComingStep ==
  ASSUME Types, Transmitter, Next
  PROVE  Coming'
<1>0. Coming
  BY DEF Transmitter, Coming
<1>1. CASE txFifo' = txFifo /\ SetThrei
  BY <1>0, <1>1, SetComing DEF SetThrei
<1>2. CASE txFifo' = txFifo /\ ien' = ien /\ thri' = thri
  BY <1>0, <1>2, KeepComing
<1>3. CASE ien' = FALSE /\ thri' = FALSE
  BY <1>3 DEF Coming
<1>4. CASE SendLate
  BY <1>0, <1>4, SetComing DEF SendLate
<1>5. CASE IsrTransmit
  <2>1. PICK n \in 0 .. Len(xmit), kept \in Seq(Bytes), lost \in Seq(Bytes) :
          /\ Filled(Mark, n, kept, lost)
          /\ ClearThrei \/ (n >= 1 /\ thri' = FALSE)
    BY <1>5, TransmitStep
  <2>2. CASE ClearThrei
    BY <1>3, <2>2 DEF ClearThrei
  <2>3. CASE n >= 1 /\ thri' = FALSE
    <3>1. Mark \in {<<>>, <<XON>>, <<XOFF>>}
      BY <1>5, TransmitStep
    <3>2. /\ txFifo' = Mark \o kept /\ Len(kept) + Len(lost) = n
          /\ lost = <<>> \/ Mark # <<>>
      BY <2>1 DEF Filled
    <3>3. kept \in Seq(Int) /\ Mark \in Seq(Int)
      BY <3>1, CharSeq, MarkSeq
    <3>4. kept # <<>> \/ Mark # <<>>
      BY <2>3, <3>2
    <3>5. Mark \o kept # <<>>
      BY <3>3, <3>4, ConcatEqualIffEmpty
    <3> QED BY <2>3, <3>2, <3>5 DEF Coming
  <2> QED BY <2>1, <2>2, <2>3
<1>6. CASE Drain
  <2>1. txFifo # <<>> /\ txFifo' = Tail(txFifo) /\ ien' = ien
        /\ thri' = (thri \/ (ien /\ Tail(txFifo) = <<>>))
    BY <1>6 DEF Drain, enable
  <2>2. ien \in BOOLEAN /\ ~thri
    BY <1>0, <2>1 DEF Types, Coming
  <2>3. CASE ien /\ Tail(txFifo) = <<>>
    <3>1. thri' = TRUE
      BY <2>1, <2>3
    <3> QED BY <2>1, <2>3, <3>1 DEF Coming
  <2>4. CASE ~ien
    <3>1. thri' = FALSE
      BY <2>1, <2>2, <2>4
    <3> QED BY <2>1, <2>2, <2>4, <3>1 DEF Coming
  <2>5. CASE Tail(txFifo) # <<>>
    <3>1. thri' = FALSE
      BY <2>1, <2>2, <2>5
    <3> QED BY <2>1, <2>5, <3>1 DEF Coming
  <2> QED BY <2>2, <2>3, <2>4, <2>5
<1>7. CASE Receive \/ FlushRxQueue \/ SendByte
  BY <1>1, <1>2, <1>7 DEF Receive, FlushRxQueue, SendByte, Reopen, KeepThrei
<1>8. CASE IsrReceive
  <2>1. txFifo' = txFifo /\ (TakesMark \/ TakesByte \/ LosesByte)
    BY <1>8, ReceivedStep
  <2> QED BY <1>1, <1>2, <1>3, <2>1
          DEF TakesMark, TakesByte, LosesByte, DataFlow, SwitchThrei, KeepThrei, ClearThrei
<1>9. CASE IsrModem
  BY <1>1, <1>2, <1>3, <1>9 DEF IsrModem, CtsRises, KeepThrei, ClearThrei
<1> QED BY <1>2, <1>4, <1>5, <1>6, <1>7, <1>8, <1>9
        DEF Next, Program, Isr, Line, SendStart, SendTimeOut, FlushTxQueue, IsrEntry,
            IsrExit, PeerSend, PeerFlips, enable

\* The program is not about to act, and there is something that may be sent.
Resting == main = "idle" \/ (main = "send" /\ Len(xmit) = TxSize)

\* What is pending for the program and for the peer, where neither changes.
LEMMA SamePermitted ==
  ASSUME Types, Types', control' = control, cts' = cts, rcvdXon' = rcvdXon, Permitted'
  PROVE  Permitted
<1>1. \/ control = "NO_CONTROL"
      \/ control = "RTS_CTS" /\ cts
      \/ control = "XON_XOFF" /\ rcvdXon
  BY PermittedIs
<1> QED BY <1>1, PermittedIs

\* When the program rests with bytes that may be sent, THREI is enabled.
LEMMA EnabledStep ==
  ASSUME Types, OtherControl, Transmitter, Next, Resting', xmit' # <<>>, Permitted'
  PROVE  ien' = TRUE
<1>0. /\ Types' /\ ien \in BOOLEAN /\ threi \in BOOLEAN /\ control' = control
      /\ (threi /\ main # "late" => ien)
  BY TypesStep DEF Types, Next
<1>1. ASSUME ien' = ien, xmit' = xmit, Resting, cts' = cts, rcvdXon' = rcvdXon
      PROVE  ien' = TRUE
  <2>1. Permitted
    BY <1>0, <1>1, SamePermitted
  <2>2. xmit # <<>>
    BY <1>1
  <2>3. ien
    BY <1>1, <2>1, <2>2 DEF Transmitter, Resting
  <2> QED BY <1>0, <1>1, <2>3
<1>2. ASSUME main' = main, ien' = ien, xmit' = xmit, cts' = cts, rcvdXon' = rcvdXon
      PROVE  ien' = TRUE
  <2>1. Resting
    BY <1>2 DEF Resting
  <2> QED BY <1>1, <1>2, <2>1
<1>3. CASE SendStart
  BY <1>1, <1>3 DEF SendStart, Resting, enable, queues, flow
<1>4. CASE SendByte
  <2>1. /\ xmit' = Append(xmit, log.queued + 1) /\ main = "send"
        /\ main' = (IF left = 1 THEN "idle" ELSE "send")
        /\ IF ~threi /\ EnablesAfter(xmit') /\ Permitted THEN SetThrei ELSE KeepThrei
        /\ cts' = cts /\ rcvdXon' = rcvdXon
    BY <1>4 DEF SendByte, HasRoom, flow
  <2>2. EnablesAfter(xmit')
    BY <2>1 DEF Resting, EnablesAfter
  <2>3. Permitted
    BY <1>0, <2>1, SamePermitted
  <2>4. CASE threi
    <3>1. KeepThrei /\ ien
      BY <1>0, <2>1, <2>4
    <3> QED BY <1>0, <3>1 DEF KeepThrei
  <2>5. CASE ~threi
    <3>1. SetThrei
      BY <2>1, <2>2, <2>3, <2>5
    <3> QED BY <3>1 DEF SetThrei
  <2> QED BY <1>0, <2>4, <2>5
<1>5. CASE SendTimeOut
  <2>1. main' = "idle" /\ threi /\ main = "send" /\ ien' = ien
    BY <1>5 DEF SendTimeOut, Resting
  <2> QED BY <1>0, <2>1
<1>6. CASE SendLate
  BY <1>6 DEF SendLate
<1>7. CASE Receive \/ FlushRxQueue
  <2>1. /\ \E q : Reopen(q)
        /\ main = "idle" /\ xmit' = xmit /\ cts' = cts /\ rcvdXon' = rcvdXon
    BY <1>7 DEF Receive, FlushRxQueue, Reopen
  <2>2. SetThrei \/ KeepThrei
    BY <2>1 DEF Reopen
  <2>3. CASE SetThrei
    BY <2>3 DEF SetThrei
  <2>4. CASE KeepThrei
    <3>1. ien' = ien /\ Resting
      BY <2>1, <2>4 DEF KeepThrei, Resting
    <3> QED BY <1>1, <2>1, <3>1
  <2> QED BY <2>2, <2>3, <2>4
<1>8. CASE FlushTxQueue
  BY <1>8 DEF FlushTxQueue
<1>9. CASE IsrEntry \/ IsrExit \/ Line
  BY <1>2, <1>9 DEF IsrEntry, IsrExit, Line, Drain, PeerSend, PeerFlips,
                    enable, queues, flow, program
<1>10. CASE IsrReceive
  <2>1. /\ rxFifo # <<>> /\ xmit' = xmit /\ main' = main
        /\ TakesMark \/ TakesByte \/ LosesByte
    BY <1>10, ReceivedStep
  <2>2. CASE TakesMark
    <3>1. /\ Incoming \in Marks /\ SwitchThrei(Incoming)
          /\ rcvdXon' = (Incoming = XON)
      BY <2>2 DEF TakesMark
    <3>2. control = "XON_XOFF"
      <4>1. rxFifo \in Seq(Int)
        BY CharSeq DEF Types
      <4>2. Incoming \in Range(rxFifo)
        BY <2>1, <4>1, Ranges DEF Incoming
      <4> QED BY <3>1, <4>2 DEF OtherControl
    <3>3. rcvdXon'
      BY <1>0, <3>2, PermittedIs
    <3>4. SetThrei
      BY <3>1, <3>3 DEF SwitchThrei
    <3> QED BY <3>4 DEF SetThrei
  <2>3. CASE DataFlow
    <3>1. (SetThrei \/ KeepThrei) /\ cts' = cts /\ rcvdXon' = rcvdXon
      BY <2>3 DEF DataFlow
    <3>2. CASE SetThrei
      BY <3>2 DEF SetThrei
    <3>3. CASE KeepThrei
      BY <1>2, <2>1, <3>1, <3>3 DEF KeepThrei
    <3> QED BY <3>1, <3>2, <3>3
  <2> QED BY <2>1, <2>2, <2>3 DEF TakesByte, LosesByte
<1>11. CASE IsrTransmit
  <2>1. PICK n \in 0 .. Len(xmit), kept \in Seq(Bytes), lost \in Seq(Bytes) :
          /\ Filled(Mark, n, kept, lost)
          /\ \/ (xmit = <<>> \/ ~Permitted) /\ n = 0
             \/ xmit # <<>> /\ Permitted /\ UNCHANGED enable
    BY <1>11, TransmitStep
  <2>2. cts' = cts /\ rcvdXon' = rcvdXon
    BY <1>11 DEF IsrTransmit
  <2>3. Permitted
    BY <1>0, <2>2, SamePermitted
  <2>4. ien
    BY <1>11 DEF IsrTransmit, Source
  <2>5. CASE xmit = <<>> /\ n = 0
    <3>1. xmit' \in Seq(Bytes) /\ Len(xmit') = Len(xmit) - n /\ Len(xmit) = 0
      BY <2>1, <2>5 DEF Filled
    <3>2. xmit' = <<>>
      BY <2>5, <3>1, EmptySeq
    <3> QED BY <3>2
  <2>6. CASE UNCHANGED enable
    BY <1>0, <2>4, <2>6 DEF enable
  <2> QED BY <2>1, <2>3, <2>5, <2>6
<1>12. CASE IsrModem
  <2>1. /\ xmit' = xmit /\ main' = main /\ rcvdXon' = rcvdXon
        /\ IF control # "RTS_CTS" \/ cts = ctsLine THEN KeepThrei /\ UNCHANGED cts
           ELSE /\ cts' = ctsLine
                /\ IF cts THEN ClearThrei ELSE CtsRises
    BY <1>12 DEF IsrModem, queues, program
  <2>2. CASE KeepThrei /\ UNCHANGED cts
    BY <1>2, <2>1, <2>2 DEF KeepThrei
  <2>3. CASE control = "RTS_CTS" /\ cts # ctsLine
    <3>1. /\ cts' = ctsLine /\ (IF cts THEN ClearThrei ELSE CtsRises)
          /\ cts \in BOOLEAN /\ ctsLine \in BOOLEAN
      BY <2>1, <2>3 DEF Types
    <3>2. cts'
      BY <1>0, <2>3, PermittedIs
    <3>3. ~cts
      BY <2>3, <3>1, <3>2
    <3>4. SetThrei
      BY <2>1, <3>1, <3>3 DEF CtsRises
    <3> QED BY <3>4 DEF SetThrei
  <2> QED BY <2>1, <2>2, <2>3
<1> QED BY <1>3, <1>4, <1>5, <1>6, <1>7, <1>8, <1>9, <1>10, <1>11, <1>12
        DEF Next, Program, Isr

\* Every step keeps the transmitter's interrupt on its way.
LEMMA TransmitterStep ==
  ASSUME Types, OtherControl, Transmitter, Next
  PROVE  Transmitter'
<1>1. Coming'
  BY ComingStep
<1>2. Resting' /\ xmit' # <<>> /\ Permitted' => ien'
  BY EnabledStep
<1> QED BY <1>1, <1>2 DEF Transmitter, Coming, Resting

-----------------------------------------------------------------------------
(* The room kept free under RTS/CTS.                                       *)

\* The room that RTS leaves is taken and given back.
LEMMA RoomStep ==
  ASSUME Types, Room, Next
  PROVE  Room'
<1> SUFFICES ASSUME control = "RTS_CTS"
             PROVE  /\ peer'.slack <= Slack
                    /\ rts' => Len(rcvd') < Threshold /\ peer'.slack = Slack
                    /\ Len(rcvd') + Len(rxFifo') + peer'.slack < Threshold + Fifo + Slack
  BY DEF Room, Next
<1>0. /\ peer.slack <= Slack /\ peer.slack \in Nat /\ peer \in Peer
      /\ (rts => Len(rcvd) < Threshold /\ peer.slack = Slack)
      /\ Len(rcvd) + Len(rxFifo) + peer.slack < Threshold + Fifo + Slack
      /\ rcvd \in Seq(Bytes) /\ rxFifo \in Seq(Chars)
      /\ Len(rcvd) \in Nat /\ Len(rxFifo) \in Nat /\ Len(rxFifo) <= Fifo
      /\ rts \in BOOLEAN
  BY DEF Room, Types, Peer
<1>1. CASE SendStart \/ SendByte \/ SendTimeOut \/ SendLate \/ FlushTxQueue
           \/ IsrEntry \/ IsrExit \/ IsrModem \/ IsrTransmit
  <2>1. rts' = rts /\ rcvd' = rcvd /\ rxFifo' = rxFifo /\ peer' = peer
    BY <1>1 DEF SendStart, SendByte, SendTimeOut, SendLate, FlushTxQueue, IsrEntry,
                IsrExit, IsrModem, IsrTransmit, queues, flow, line
  <2> QED BY <1>0, <2>1
<1>2. ASSUME NEW q \in Seq(Bytes), Len(q) <= Len(rcvd), rcvd' = q, rxFifo' = rxFifo,
             Reopen(q), PeerSeesRts
      PROVE  /\ peer'.slack <= Slack
             /\ rts' => Len(rcvd') < Threshold /\ peer'.slack = Slack
             /\ Len(rcvd') + Len(rxFifo') + peer'.slack < Threshold + Fifo + Slack
  <2>1. rts' = (rts \/ ~NearlyFull(q)) /\ Len(q) \in Nat
    BY <1>2 DEF Reopen, RaisesRts
  <2>2. peer'.slack = IF rts' THEN Slack ELSE peer.slack
    BY <1>0, <1>2 DEF PeerSeesRts, Peer
  <2>3. rts' => Len(q) < Threshold
    BY <1>0, <1>2, <2>1, Numbers DEF NearlyFull
  <2>4. CASE rts'
    <3>1. Len(q) < Threshold /\ peer'.slack = Slack
      BY <2>2, <2>3, <2>4
    <3> QED BY <1>0, <1>2, <2>1, <3>1, Numbers
  <2>5. CASE ~rts'
    <3>1. peer'.slack = peer.slack
      BY <2>2, <2>5
    <3> QED BY <1>0, <1>2, <2>1, <2>5, <3>1, Numbers
  <2> QED BY <2>4, <2>5
<1>3. CASE Receive
  <2>1. rcvd # <<>> /\ rcvd' = Tail(rcvd) /\ rxFifo' = rxFifo /\ Reopen(rcvd') /\ PeerSeesRts
    BY <1>3 DEF Receive
  <2>2. rcvd' \in Seq(Bytes) /\ Len(rcvd') <= Len(rcvd)
    BY <1>0, <2>1, HeadTailProperties
  <2> QED BY <1>2, <2>1, <2>2
<1>4. CASE FlushRxQueue
  <2>1. rcvd' = <<>> /\ rxFifo' = rxFifo /\ Reopen(rcvd') /\ PeerSeesRts
    BY <1>4 DEF FlushRxQueue
  <2>2. rcvd' \in Seq(Bytes) /\ Len(rcvd') <= Len(rcvd)
    BY <1>0, <2>1
  <2> QED BY <1>2, <2>1, <2>2
<1>5. CASE IsrReceive
  <2>1. /\ Len(rxFifo') = Len(rxFifo) - 1 /\ peer' = peer
        /\ TakesMark \/ TakesByte \/ LosesByte
    BY <1>5, ReceivedStep
  <2>2. CASE TakesMark \/ LosesByte
    <3>1. rcvd' = rcvd
      BY <2>2 DEF TakesMark, LosesByte
    <3>2. rts' => rts
      BY <2>2 DEF TakesMark, LosesByte, DataFlow
    <3> QED BY <1>0, <2>1, <3>1, <3>2, Numbers
  <2>3. CASE TakesByte
    <3>1. Len(rcvd') = Len(rcvd) + 1
      BY <1>0, <2>3, Appended DEF TakesByte
    <3>2. rts' => rts /\ ~(Len(rcvd') >= Threshold)
      BY <2>3 DEF TakesByte, DataFlow, NearlyFull
    <3> QED BY <1>0, <2>1, <3>1, <3>2, Numbers
  <2> QED BY <2>1, <2>2, <2>3
<1>6. CASE Drain
  <2>1. rts' = rts /\ rcvd' = rcvd /\ rxFifo' = rxFifo /\ peer'.slack = peer.slack
    BY <1>0, <1>6 DEF Drain, queues, flow, Peer
  <2> QED BY <1>0, <2>1
<1>7. CASE PeerSend
  <2>1. /\ rts' = rts /\ rcvd' = rcvd /\ Len(rxFifo') = Len(rxFifo) + 1
        /\ Len(rxFifo) < Fifo
    <3>1. peer.sent + 1 \in Chars
      BY <1>0, Characters DEF Peer, Bytes
    <3> QED BY <1>0, <1>7, <3>1, Appended DEF PeerSend, queues, flow
  <2>2. peer'.slack = IF ~rts THEN peer.slack - 1 ELSE Slack
    BY <1>0, <1>7 DEF PeerSend, Peer
  <2>3. CASE rts
    <3>1. peer'.slack = Slack
      BY <2>2, <2>3
    <3> QED BY <1>0, <2>1, <2>3, <3>1, Numbers
  <2>4. CASE ~rts
    <3>1. peer'.slack = peer.slack - 1
      BY <2>2, <2>4
    <3> QED BY <1>0, <2>1, <2>4, <3>1, Numbers
  <2> QED BY <2>3, <2>4
<1>8. CASE PeerFlips
  <2>1. rts' = rts /\ rcvd' = rcvd /\ rxFifo' = rxFifo /\ peer'.slack = peer.slack
    BY <1>0, <1>8 DEF PeerFlips, queues, flow, Peer
  <2> QED BY <1>0, <2>1
<1> QED BY <1>1, <1>3, <1>4, <1>5, <1>6, <1>7, <1>8 DEF Next, Program, Isr, Line

\* The queue is never full when a byte comes.
LEMMA NoRxLossStep ==
  ASSUME Types, Transmitter, Room, NoRxLoss, Next
  PROVE  NoRxLoss'
<1> SUFFICES ASSUME control = "RTS_CTS", NearFull + 1 >= Fifo + Slack
             PROVE  log'.lostRx = {}
  BY DEF NoRxLoss, Next
<1>0. log.lostRx = {}
  BY DEF NoRxLoss
<1>1. CASE log' = log \/ LogRx' = LogRx
  BY <1>0, <1>1 DEF LogRx
<1>2. CASE SendByte
  BY <1>1, <1>2, SendByteLog
<1>3. CASE FlushTxQueue
  BY <1>1, <1>3, FlushTxLog
<1>4. CASE IsrTransmit
  <2>1. PICK n \in 0 .. Len(xmit), kept \in Seq(Bytes), lost \in Seq(Bytes) :
          Filled(Mark, n, kept, lost)
    BY <1>4, TransmitStep
  <2> QED BY <1>1, <2>1, FilledLog
<1>5. CASE Drain
  BY <1>1, <1>5, DrainLog
<1>6. CASE Receive
  BY <1>0, <1>6, ReceiveLog
<1>7. CASE FlushRxQueue
  BY <1>0, <1>7, FlushRxLog
<1>8. CASE IsrReceive
  <2>1. /\ rxFifo # <<>>
        /\ TakesMark \/ TakesByte \/ LosesByte
    BY <1>8, ReceivedStep
  <2>2. CASE TakesMark \/ TakesByte
    BY <1>0, <2>2 DEF TakesMark, TakesByte
  <2>3. CASE LosesByte
    <3>0. rxFifo # <<>> /\ rxFifo \in Seq(Chars) /\ peer.slack \in Nat
      BY <2>1 DEF Types, Peer
    <3>1. /\ Len(rcvd) = RxSize /\ Len(rxFifo) >= 1
          /\ Len(rxFifo) \in Nat /\ peer.slack \in Nat
      BY <2>3, <3>0 DEF LosesByte
    <3>2. Len(rcvd) + Len(rxFifo) + peer.slack < Threshold + Fifo + Slack
      BY DEF Room
    <3> QED BY <3>1, <3>2, Numbers
  <2> QED BY <2>1, <2>2, <2>3
<1> QED BY <1>1, <1>2, <1>3, <1>4, <1>5, <1>6, <1>7, <1>8
        DEF Next, Program, Isr, Line, SendStart, SendTimeOut, SendLate,
            IsrEntry, IsrExit, IsrModem, PeerSend, PeerFlips

-----------------------------------------------------------------------------
(* The bytes received.                                                     *)

\* Where they are.
LEMMA RxParts ==
  ASSUME Types
  PROVE  /\ log.read \in Seq(Int) /\ rcvd \in Seq(Int) /\ rxFifo \in Seq(Int)
         /\ log.read \o rcvd \in Seq(Int) /\ peer.sent \in Nat
         /\ log.flushedRx \cup log.lostRx \in SUBSET Int
<1>1. log.read \in Seq(Int) /\ rcvd \in Seq(Int) /\ rxFifo \in Seq(Int)
  BY CharSeq DEF Types, Log
<1>2. log.read \o rcvd \in Seq(Int)
  BY ONLY <1>1, ConcatProperties
<1> QED BY <1>1, <1>2 DEF Types, Peer, Log

\* The same as RxBytes, for given parts.
Received(d, q, f, n, W) ==
  /\ Carries(d \o q \o f, n, W) /\ W \subseteq 1 .. n
  /\ \A c \in Range(d \o q) : c \notin Marks

\* No step doubles, reorders or loses a byte on its way to the program.
LEMMA RxBytesStep ==
  ASSUME Types, Transmitter, RxBytes, Next
  PROVE  RxBytes'
<1> DEFINE d == log.read
           q == rcvd
           f == rxFifo
           n == peer.sent
           W == log.flushedRx \cup log.lostRx
<1>0. Received(d, q, f, n, W)
  BY DEF RxBytes, RxStream, Received
<1>1. Received(d', q', f', n', W') => RxBytes'
  BY DEF RxBytes, RxStream, Received
<1>2. /\ d \in Seq(Int) /\ q \in Seq(Int) /\ f \in Seq(Int) /\ n \in Nat
      /\ d \o q \in Seq(Int) /\ W \in SUBSET (1 .. n)
  BY <1>0, RxParts DEF Received
<1>3. CASE d' = d /\ q' = q /\ f' = f /\ n' = n /\ W' = W
  BY <1>0, <1>1, <1>3
<1>4. CASE LogRx' = LogRx /\ rcvd' = rcvd /\ rxFifo' = rxFifo /\ peer'.sent = peer.sent
  BY <1>3, <1>4 DEF LogRx
<1>5. CASE SendStart \/ SendTimeOut \/ SendLate \/ IsrEntry \/ IsrExit \/ IsrModem
  BY <1>3, <1>5 DEF SendStart, SendTimeOut, SendLate, IsrEntry, IsrExit, IsrModem,
                    queues, line
<1>6. CASE SendByte
  BY <1>4, <1>6, SendByteLog DEF SendByte, line
<1>7. CASE FlushTxQueue
  BY <1>4, <1>7, FlushTxLog DEF FlushTxQueue, line
<1>8. CASE IsrTransmit
  <2>1. PICK k \in 0 .. Len(xmit), kept \in Seq(Bytes), lost \in Seq(Bytes) :
          Filled(Mark, k, kept, lost)
    BY <1>8, TransmitStep
  <2>2. LogRx' = LogRx
    BY <2>1, FilledLog
  <2> QED BY <1>4, <1>8, <2>2 DEF IsrTransmit, line
<1>9. CASE Drain
  <2>1. peer'.sent = peer.sent
    BY <1>9 DEF Drain, Types, Peer
  <2> QED BY <1>4, <1>9, <2>1, DrainLog DEF Drain, queues
<1>10. ASSUME PeerSeesRts
       PROVE  peer'.sent = peer.sent
  BY <1>10 DEF PeerSeesRts, Types, Peer
<1>11. CASE Receive
  <2> DEFINE h == <<Head(q)>>
             t == Tail(q)
  <2>1. q # <<>> /\ q \in Seq(Bytes)
    BY <1>11 DEF Receive, Types
  <2>2. h \in Seq(Int) /\ t \in Seq(Int) /\ q = h \o t /\ Head(q) \in Int
    BY <1>2, <2>1, HeadAndTail
  <2>3. d' = d \o h
    <3>1. d' = Append(d, Head(q))
      BY <1>11, ReceiveLog
    <3> QED BY <1>2, <2>2, <3>1, Appended
  <2>4. q' = t /\ f' = f /\ n' = n /\ W' = W
    BY <1>10, <1>11, ReceiveLog DEF Receive
  <2> HIDE DEF d, q, f, n, W, h, t
  <2>5. (d \o h) \o t = d \o q
    <3>0. d \in Seq(Int) /\ h \in Seq(Int) /\ t \in Seq(Int)
      BY <1>2, <2>2
    <3>1. (d \o h) \o t = d \o (h \o t)
      BY <3>0, Associative, Zenon
    <3> QED BY <2>2, <3>1
  <2>6. Received(d', q', f', n', W')
    BY <1>0, <2>3, <2>4, <2>5 DEF Received
  <2> QED BY <1>1, <2>6
<1>12. CASE FlushRxQueue
  <2>1. q' = <<>> /\ d' = d /\ f' = f /\ n' = n /\ W' = W \cup Range(q)
    BY <1>10, <1>12, FlushRxLog DEF FlushRxQueue
  <2>2. Range(d \o q) = Range(d) \cup Range(q) /\ <<>> \in Seq(Int)
    BY <1>2, RangeConcatenation, EmptySeq
  <2>3. Range(q) \subseteq 1 .. n
    <3>1. Range(q) \subseteq Bytes
      BY CharSeq DEF Types
    <3>2. Range((d \o q) \o f) = Range(d) \cup Range(q) \cup Range(f)
      BY <1>2, RangeOfThree
    <3>3. {x \in Range((d \o q) \o f) : x > 0} \subseteq 1 .. n
      BY <1>0 DEF Received, Carries
    <3>4. \A x \in Range(q) : x > 0
      BY <3>1, Characters
    <3> QED BY <3>2, <3>3, <3>4
  <2> HIDE DEF d, q, f, n, W
  <2>4. d \o <<>> = d
    BY <1>2, ConcatEmptySeq
  <2>5. Carries(d \o f, n, W \cup Range(q))
    BY <1>0, <1>2, TakenOut DEF Received
  <2>6. W \cup Range(q) \subseteq 1 .. n
    BY <1>2, <2>3
  <2>7. \A c \in Range(d) : c \notin Marks
    BY <1>0, <2>2 DEF Received
  <2>8. Received(d', q', f', n', W')
    BY <2>1, <2>4, <2>5, <2>6, <2>7 DEF Received
  <2> QED BY <1>1, <2>8
<1>13. CASE IsrReceive
  <2> DEFINE c == Incoming
             h == <<c>>
             t == Tail(f)
             s == d \o q
  <2>1. /\ f # <<>> /\ c \in Chars /\ f' = t /\ d' = d /\ n' = n
        /\ TakesMark \/ TakesByte \/ LosesByte
    BY <1>13, ReceivedStep
  <2>2. c \in Int /\ h \in Seq(Int) /\ t \in Seq(Int) /\ f = h \o t /\ Range(h) = {c}
    BY <1>2, <2>1, HeadAndTail, One, Characters DEF Incoming
  <2>3. log'.flushedRx = log.flushedRx /\ rcvd \in Seq(Int)
    BY <1>13, <1>2, ReceivedStep
  <2>4. /\ TakesMark => c \in Marks /\ q' = q /\ W' = W
        /\ TakesByte => c \in Bytes /\ q' = Append(q, c) /\ W' = W
        /\ LosesByte => c \in Bytes /\ q' = q /\ W' = W \cup {c}
    BY <2>3 DEF TakesMark, TakesByte, LosesByte
  <2> HIDE DEF d, q, f, n, W, c, h, t, s
  <2>5. s \in Seq(Int) /\ (\A x \in Range(s) : x \notin Marks) /\ s \o f = (s \o h) \o t
        /\ Carries(s \o f, n, W)
    <3>1. s \in Seq(Int) /\ Carries(s \o f, n, W) /\ \A x \in Range(s) : x \notin Marks
      BY <1>0, <1>2 DEF s, Received
    <3>2. s \o f = (s \o h) \o t
      BY <2>2, <3>1, Associative
    <3> QED BY <3>1, <3>2
  <2>6. CASE TakesMark
    <3>1. c <= 0
      BY <2>4, <2>6, Characters
    <3>2. Carries(s \o t, n, W)
      BY <1>2, <2>2, <2>5, <3>1, Unmissed DEF h
    <3>3. Received(d', q', f', n', W')
      BY <1>2, <2>1, <2>4, <2>5, <2>6, <3>2 DEF Received, s
    <3> QED BY <1>1, <3>3
  <2>7. CASE TakesByte
    <3>1. c \in Bytes /\ q' = Append(q, c)
      BY <2>4, <2>7
    <3>2. q' = q \o h
      BY <1>2, <2>2, <3>1, Appended DEF h
    <3>3. d \o q' = s \o h
      <4>1. d \in Seq(Int) /\ q \in Seq(Int) /\ h \in Seq(Int)
        BY <1>2, <2>2
      <4>2. (d \o q) \o h = d \o (q \o h)
        BY <4>1, Associative, Zenon
      <4> QED BY <3>2, <4>2 DEF s
    <3>4. Range(s \o h) = Range(s) \cup {c}
      BY <2>2, <2>5, RangeConcatenation
    <3>5. c \notin Marks
      BY <3>1, Characters
    <3>6. Received(d', q', f', n', W')
      <4>1. Carries((s \o h) \o t, n, W)
        BY <2>5
      <4>2. \A x \in Range(s \o h) : x \notin Marks
        BY <2>5, <3>4, <3>5
      <4> QED BY <1>2, <2>1, <2>4, <2>7, <3>3, <4>1, <4>2 DEF Received
    <3> QED BY <1>1, <3>6
  <2>8. CASE LosesByte
    <3>1. c \in Bytes /\ q' = q /\ W' = W \cup {c}
      BY <2>4, <2>8
    <3>2. Carries(s \o t, n, W \cup {c})
      BY <1>2, <2>2, <2>5, TakenOut
    <3>3. c \in 1 .. n
      <4>1. c \in Range((s \o h) \o t) /\ c > 0
        BY <2>2, <2>5, <3>1, RangeOfThree, Characters
      <4> QED BY <2>5, <4>1 DEF Carries
    <3>4. Received(d', q', f', n', W')
      BY <1>2, <2>1, <2>5, <3>1, <3>2, <3>3 DEF Received, s
    <3> QED BY <1>1, <3>4
  <2> QED BY <2>1, <2>6, <2>7, <2>8
<1>14. CASE PeerSend
  <2> DEFINE k == n + 1
             e == <<k>>
             s == d \o q
  <2>1. f' = Append(f, k) /\ k \in Int /\ e \in Seq(Int)
    BY <1>2, <1>14, One DEF PeerSend
  <2>2. f' = f \o e
    BY <1>2, <2>1, Appended
  <2>3. d' = d /\ q' = q /\ W' = W /\ n' = k
    BY <1>14 DEF PeerSend, queues, Types, Peer
  <2> HIDE DEF d, q, f, n, W, e, s
  <2>4. s \in Seq(Int) /\ s \o f \in Seq(Int) /\ Carries(s \o f, n, W)
    <3>1. s \in Seq(Int) /\ Carries(s \o f, n, W)
      BY <1>0, <1>2 DEF s, Received
    <3> QED BY <1>2, <3>1, ConcatProperties
  <2>5. Carries((s \o f) \o e, k, W)
    BY <1>2, <2>4, NextNumber DEF e
  <2>6. (s \o f) \o e = s \o f'
    <3>0. s \in Seq(Int) /\ f \in Seq(Int) /\ e \in Seq(Int)
      BY <1>2, <2>1, <2>4
    <3>1. (s \o f) \o e = s \o (f \o e)
      BY <3>0, Associative, Zenon
    <3> QED BY <2>2, <3>1
  <2>7. W \subseteq 1 .. k
    BY <1>2
  <2> HIDE DEF k
  <2>8. Received(d', q', f', n', W')
    BY <1>0, <2>3, <2>5, <2>6, <2>7 DEF Received, s
  <2> QED BY <1>1, <2>8
<1>15. CASE PeerFlips
  <2> DEFINE c == IF peer.flips % 2 = 0 THEN XOFF ELSE XON
             e == <<c>>
             s == d \o q
  <2>1. d' = d /\ q' = q /\ W' = W /\ n' = n /\ (f' = f \/ f' = Append(f, c))
    BY <1>15 DEF PeerFlips, queues, Types, Peer
  <2>2. c \in Int /\ c <= 0 /\ e \in Seq(Int)
    BY Characters, One
  <2>3. CASE f' = f
    BY <1>3, <2>1, <2>3
  <2>4. CASE f' = Append(f, c)
    <3>1. f' = f \o e
      BY <1>2, <2>2, <2>4, Appended
    <3> HIDE DEF d, q, f, n, W, e, s, c
    <3>2. s \in Seq(Int) /\ s \o f \in Seq(Int) /\ Carries(s \o f, n, W)
      <4>1. s \in Seq(Int) /\ Carries(s \o f, n, W)
        BY <1>0, <1>2 DEF s, Received
      <4> QED BY <1>2, <4>1, ConcatProperties
    <3>3. Carries((s \o f) \o e, n, W)
      BY <1>2, <2>2, <3>2, NoNumber DEF e
    <3>4. (s \o f) \o e = s \o f'
      <4>0. s \in Seq(Int) /\ f \in Seq(Int) /\ e \in Seq(Int)
        BY <1>2, <2>2, <3>2
      <4>1. (s \o f) \o e = s \o (f \o e)
        BY <4>0, Associative, Zenon
      <4> QED BY <3>1, <4>1
    <3>5. Received(d', q', f', n', W')
      BY <1>0, <2>1, <3>3, <3>4 DEF Received, s
    <3> QED BY <1>1, <3>5
  <2> QED BY <2>1, <2>3, <2>4
<1> QED BY <1>5, <1>6, <1>7, <1>8, <1>9, <1>11, <1>12, <1>13, <1>14, <1>15
        DEF Next, Program, Isr, Line

-----------------------------------------------------------------------------
(* Marks in a sequence: what else is in it does not matter.                *)

\* Where they are.
MarkPlaces(s) == {i \in DOMAIN s : s[i] \in Marks}

\* Two sequences have the same marks at the same places.
SameMarks(s, w) ==
  /\ MarkPlaces(s) = MarkPlaces(w)
  /\ \A i \in MarkPlaces(s) : s[i] = w[i]

Unmarked(t) == \A i \in DOMAIN t : t[i] \notin Marks

\* What is said of the marks is the same then.
LEMMA SaidBySame ==
  ASSUME NEW s \in Seq(Int), NEW w \in Seq(Int), SameMarks(s, w)
  PROVE  /\ Alternate(s) => Alternate(w)
         /\ SaysStop(s) <=> SaysStop(w)
<1>0. /\ \A i \in DOMAIN s : s[i] = XON \/ s[i] = XOFF => i \in DOMAIN w /\ w[i] = s[i]
      /\ \A i \in DOMAIN w : w[i] = XON \/ w[i] = XOFF => i \in DOMAIN s /\ s[i] = w[i]
  BY DEF SameMarks, MarkPlaces, Marks
<1>1. XON \in Marks /\ XOFF \in Marks /\ \A c \in Marks : c = XON \/ c = XOFF
  BY DEF Marks
<1>2. ASSUME Alternate(s)
      PROVE  Alternate(w)
  <2>1. ASSUME NEW j \in DOMAIN w, w[j] = XON
        PROVE  \E i \in DOMAIN w : i < j /\ w[i] = XOFF
    <3>1. j \in DOMAIN s /\ s[j] = XON
      BY <1>0, <2>1
    <3>2. PICK i \in DOMAIN s : i < j /\ s[i] = XOFF
      BY <1>2, <3>1 DEF Alternate
    <3> QED BY <1>0, <3>2
  <2>2. ASSUME NEW i \in DOMAIN w, NEW j \in DOMAIN w,
               i < j, w[i] = w[j], w[i] \in Marks
        PROVE  \E k \in DOMAIN w : i < k /\ k < j /\ w[k] \in Marks \ {w[i]}
    <3>1. /\ i \in DOMAIN s /\ j \in DOMAIN s /\ s[i] = w[i] /\ s[j] = w[j]
      BY <1>0, <1>1, <2>2
    <3>2. PICK k \in DOMAIN s : i < k /\ k < j /\ s[k] \in Marks \ {s[i]}
      BY <1>2, <2>2, <3>1 DEF Alternate
    <3>3. k \in DOMAIN w /\ w[k] = s[k]
      BY <1>0, <1>1, <3>2
    <3> QED BY <3>1, <3>2, <3>3
  <2> QED BY <2>1, <2>2 DEF Alternate
<1>3. ASSUME SaysStop(s)
      PROVE  SaysStop(w)
  <2>1. PICK i \in DOMAIN s : s[i] = XOFF /\ \A j \in DOMAIN s : j > i => s[j] # XON
    BY <1>3 DEF SaysStop
  <2>2. i \in DOMAIN w /\ w[i] = XOFF
    BY <1>0, <2>1
  <2>3. \A j \in DOMAIN w : j > i => w[j] # XON
    BY <1>0, <2>1
  <2> QED BY <2>2, <2>3 DEF SaysStop
<1>4. ASSUME SaysStop(w)
      PROVE  SaysStop(s)
  <2>1. PICK i \in DOMAIN w : w[i] = XOFF /\ \A j \in DOMAIN w : j > i => w[j] # XON
    BY <1>4 DEF SaysStop
  <2>2. i \in DOMAIN s /\ s[i] = XOFF
    BY <1>0, <2>1
  <2>3. \A j \in DOMAIN s : j > i => s[j] # XON
    BY <1>0, <2>1
  <2> QED BY <2>2, <2>3 DEF SaysStop
<1> QED BY <1>2, <1>3, <1>4

\* What is no mark makes no difference at the end.
LEMMA UnmarkedEnd ==
  ASSUME NEW s \in Seq(Int), NEW t \in Seq(Int), Unmarked(t)
  PROVE  SameMarks(s, s \o t) /\ SameMarks(s \o t, s)
<1> DEFINE w == s \o t
           m == Len(s)
           n == Len(t)
<1>1. /\ DOMAIN s = 1 .. m /\ DOMAIN t = 1 .. n /\ m \in Nat /\ n \in Nat
      /\ DOMAIN w = 1 .. m + n
      /\ \A i \in 1 .. m : w[i] = s[i]
      /\ \A i \in 1 .. n : w[m + i] = t[i]
  BY Joined
<1> HIDE DEF w, m, n
<1>2. ASSUME NEW i \in 1 .. m + n, w[i] \in Marks
      PROVE  i \in 1 .. m
  <2>1. ASSUME i \notin 1 .. m
        PROVE  FALSE
    <3>1. i - m \in 1 .. n /\ m + (i - m) = i
      BY <1>1, <2>1
    <3>2. w[i] = t[i - m]
      BY <1>1, <3>1
    <3> QED BY <1>1, <1>2, <3>1, <3>2 DEF Unmarked
  <2> QED BY <2>1
<1>3. \A i \in 1 .. m : i \in 1 .. m + n
  BY <1>1
<1>4. MarkPlaces(s) = MarkPlaces(w)
  BY <1>1, <1>2, <1>3 DEF MarkPlaces
<1> QED BY <1>1, <1>4 DEF SameMarks, MarkPlaces, w

\* A mark at the end is the last word, and keeps the turns if it says something new.
LEMMA MarkAtEnd ==
  ASSUME NEW s \in Seq(Int), NEW c \in Marks, Alternate(s),
         c = XOFF <=> ~SaysStop(s)
  PROVE  LET w == s \o <<c>> IN
         Alternate(w) /\ (SaysStop(w) <=> c = XOFF)
<1> DEFINE t == <<c>>
           w == s \o t
           m == Len(s)
<1>0. XON # XOFF /\ XON \in Marks /\ XOFF \in Marks /\ c \in Int
      /\ (c = XON \/ c = XOFF) /\ \A x \in Marks : x = XON \/ x = XOFF
  BY Characters DEF Marks
<1>1. t \in Seq(Int) /\ Len(t) = 1 /\ t[1] = c
  BY <1>0, One
<1> HIDE DEF t
<1>2. /\ DOMAIN s = 1 .. m /\ m \in Nat /\ DOMAIN w = 1 .. m + 1
      /\ (\A i \in 1 .. m : w[i] = s[i]) /\ w[m + 1] = c
  <2>1. /\ DOMAIN s = 1 .. m /\ m \in Nat /\ DOMAIN w = 1 .. m + Len(t)
        /\ \A i \in 1 .. m : w[i] = s[i]
        /\ \A i \in 1 .. Len(t) : w[m + i] = t[i]
    BY <1>1, Joined
  <2>2. 1 \in 1 .. Len(t)
    BY <1>1
  <2> QED BY <1>1, <2>1, <2>2
<1> HIDE DEF w, m
<1>3. \A i \in 1 .. m + 1 : i \in 1 .. m \/ i = m + 1
  BY <1>2
<1>4. /\ \A i \in 1 .. m : i \in 1 .. m + 1 /\ i < m + 1 /\ ~(i > m + 1) /\ ~(m + 1 < i)
      /\ m + 1 \in 1 .. m + 1 /\ ~(m + 1 < m + 1) /\ ~(m + 1 > m + 1)
  BY <1>2
<1>5. ASSUME NEW j \in DOMAIN w, w[j] = XON
      PROVE  \E i \in DOMAIN w : i < j /\ w[i] = XOFF
  <2>1. CASE j \in 1 .. m
    <3>1. PICK i \in 1 .. m : i < j /\ s[i] = XOFF
      BY <1>2, <1>5, <2>1 DEF Alternate
    <3> QED BY <1>2, <1>4, <3>1
  <2>2. CASE j = m + 1
    <3>1. SaysStop(s)
      BY <1>0, <1>2, <1>5, <2>2
    <3>2. PICK i \in 1 .. m : s[i] = XOFF
      BY <1>2, <3>1 DEF SaysStop
    <3> QED BY <1>2, <1>4, <2>2, <3>2
  <2> QED BY <1>2, <1>3, <2>1, <2>2
<1>6. ASSUME NEW i \in DOMAIN w, NEW j \in DOMAIN w, i < j, w[i] = w[j], w[i] \in Marks
      PROVE  \E k \in DOMAIN w : i < k /\ k < j /\ w[k] \in Marks \ {w[i]}
  <2>1. i \in 1 .. m /\ w[i] = s[i]
    BY <1>2, <1>6
  <2>2. CASE j \in 1 .. m
    <3>1. s[i] = s[j] /\ s[i] \in Marks
      BY <1>2, <1>6, <2>1, <2>2
    <3>2. PICK k \in 1 .. m : i < k /\ k < j /\ s[k] \in Marks \ {s[i]}
      BY <1>2, <1>6, <2>1, <2>2, <3>1 DEF Alternate
    <3> QED BY <1>2, <1>4, <2>1, <3>2
  <2>3. CASE j = m + 1 /\ c = XOFF
    <3>1. s[i] = XOFF /\ ~SaysStop(s)
      BY <1>2, <1>6, <2>1, <2>3
    <3>2. PICK k \in 1 .. m : k > i /\ s[k] = XON
      BY <1>2, <2>1, <3>1 DEF SaysStop
    <3>3. i < k /\ k < j /\ k \in 1 .. m + 1
      BY <1>2, <2>1, <2>3, <3>2
    <3>4. w[k] \in Marks \ {w[i]}
      BY <1>0, <1>2, <2>1, <3>1, <3>2
    <3> QED BY <1>2, <3>3, <3>4
  <2>4. CASE j = m + 1 /\ c = XON
    <3>1. s[i] = XON /\ SaysStop(s)
      BY <1>0, <1>2, <1>6, <2>1, <2>4
    <3>2. PICK k \in 1 .. m : s[k] = XOFF /\ \A l \in 1 .. m : l > k => s[l] # XON
      BY <1>2, <3>1 DEF SaysStop
    <3>3. ~(i > k) /\ i # k
      BY <1>0, <2>1, <3>1, <3>2
    <3>4. i < k /\ k < j /\ k \in 1 .. m + 1
      BY <1>2, <2>1, <2>4, <3>2, <3>3
    <3>5. w[k] \in Marks \ {w[i]}
      BY <1>0, <1>2, <2>1, <3>1, <3>2
    <3> QED BY <1>2, <3>4, <3>5
  <2> QED BY <1>0, <1>2, <1>3, <2>2, <2>3, <2>4
<1>7. SaysStop(w) <=> c = XOFF
  <2>1. CASE c = XOFF
    <3>1. w[m + 1] = XOFF /\ \A j \in 1 .. m + 1 : j > m + 1 => w[j] # XON
      BY <1>2, <1>3, <1>4, <2>1
    <3> QED BY <1>2, <1>4, <2>1, <3>1 DEF SaysStop
  <2>2. CASE c = XON
    <3>1. ASSUME NEW i \in 1 .. m + 1, w[i] = XOFF,
                 \A j \in 1 .. m + 1 : j > i => w[j] # XON
          PROVE  FALSE
      <4>1. i # m + 1
        BY <1>0, <1>2, <2>2, <3>1
      <4>2. m + 1 > i /\ m + 1 \in 1 .. m + 1
        BY <1>2, <4>1
      <4> QED BY <1>2, <2>2, <3>1, <4>2
    <3> QED BY <1>0, <1>2, <2>2, <3>1 DEF SaysStop
  <2> QED BY <1>0, <2>1, <2>2
<1> QED BY <1>5, <1>6, <1>7 DEF Alternate, w, t

\* Sequences with the same marks as a third.
LEMMA SameMarksTwice ==
  ASSUME NEW r, NEW s, NEW w, SameMarks(r, s), SameMarks(s, w)
  PROVE  SameMarks(r, w)
BY DEF SameMarks

\* Every step leaves the marks sent as they are, but that which puts one in the FIFO.
LEMMA MarkedStep ==
  ASSUME Types, Transmitter, MarkFirst, Next
  PROVE  /\ Marked \in Seq(Int) /\ Marked' \in Seq(Int)
         /\ \/ SameMarks(Marked, Marked') /\ (IsrTransmit => Mark = <<>>)
            \/ /\ IsrTransmit
               /\ \E c \in Marks, kept \in Seq(Bytes) :
                    Mark = <<c>> /\ Marked' = Marked \o <<c>> \o kept
<1> DEFINE k == log.marks
           f == txFifo
<1>1. k \in Seq(Int) /\ f \in Seq(Int) /\ k \o f \in Seq(Int)
  <2>1. k \in Seq(Int) /\ f \in Seq(Int)
    BY CharSeq DEF Types, Log
  <2> QED BY ONLY <2>1, ConcatProperties
<1>2. k' \in Seq(Int) /\ f' \in Seq(Int) /\ k' \o f' \in Seq(Int)
  <2>0. Types'
    BY TypesStep
  <2>1. k' \in Seq(Int) /\ f' \in Seq(Int)
    BY <2>0, CharSeq DEF Types, Log
  <2> QED BY ONLY <2>1, ConcatProperties
<1>3. Marked = k \o f /\ Marked' = k' \o f'
  BY DEF Marked
<1>4. CASE f' = f /\ k' = k
  <2>1. SameMarks(Marked, Marked')
    BY <1>3, <1>4 DEF SameMarks
  <2>2. IsrTransmit => Mark = <<>>
    <3>1. ASSUME IsrTransmit
          PROVE  Mark = <<>>
      <4>1. /\ f = <<>> /\ Mark \in {<<>>, <<XON>>, <<XOFF>>}
            /\ \E kept \in Seq(Bytes) : f' = Mark \o kept
        BY <3>1, TransmitStep DEF Filled
      <4>2. PICK kept \in Seq(Bytes) : f' = Mark \o kept
        BY <4>1
      <4> DEFINE mk == Mark
      <4>3. mk \in Seq(Int) /\ kept \in Seq(Int) /\ mk \o kept = <<>>
        BY <1>4, <4>1, <4>2, CharSeq, MarkSeq
      <4> HIDE DEF mk
      <4>4. mk = <<>>
        BY <4>3, ConcatEqualIffEmpty
      <4> QED BY <4>4 DEF mk
    <3> QED BY <3>1
  <2> QED BY <1>1, <1>2, <1>3, <2>1, <2>2
<1>5. CASE IsrTransmit
  <2>1. PICK n \in 0 .. Len(xmit), kept \in Seq(Bytes), lost \in Seq(Bytes) :
          Filled(Mark, n, kept, lost)
    BY <1>5, TransmitStep
  <2>2. f = <<>> /\ Mark \in {<<>>, <<XON>>, <<XOFF>>}
    BY <1>5, TransmitStep
  <2>3. f' = Mark \o kept /\ k' = k
    BY <2>1, FilledLog DEF Filled
  <2> DEFINE mk == Mark
  <2>4. kept \in Seq(Int) /\ mk \in Seq(Int)
    BY <2>2, CharSeq, MarkSeq
  <2>5. k \o f = k
    BY <1>1, <2>2, ConcatEmptySeq
  <2>6. Unmarked(kept)
    BY Characters, ElementOfSeq, LenProperties DEF Unmarked
  <2>7. CASE mk = <<>>
    <3>1. mk \o kept = kept
      BY <2>4, <2>7, ConcatEmptySeq
    <3>2. k' \o f' = k \o kept
      BY <2>3, <3>1
    <3> HIDE DEF k, f, mk
    <3>3. SameMarks(k, k \o kept)
      BY <1>1, <2>4, <2>6, UnmarkedEnd
    <3>4. SameMarks(Marked, Marked')
      BY <1>3, <2>5, <3>2, <3>3
    <3> QED BY <1>1, <1>2, <1>3, <2>7, <3>4 DEF mk
  <2>8. ASSUME NEW c \in Marks, mk = <<c>>
        PROVE  Mark = <<c>> /\ Marked' = Marked \o <<c>> \o kept
    <3> HIDE DEF k, f, mk
    <3>1. (k \o mk) \o kept = k \o (mk \o kept)
      BY <1>1, <2>4, Associative, Zenon
    <3>2. Marked = k /\ Marked' = k \o (mk \o kept)
      BY <1>3, <2>3, <2>5 DEF mk
    <3>3. Marked' = Marked \o mk \o kept
      BY <3>1, <3>2
    <3> QED BY <2>8, <3>3 DEF mk
  <2>9. mk = <<>> \/ \E c \in Marks : mk = <<c>>
    BY <2>2, MarkSeq
  <2> QED BY <1>1, <1>2, <1>3, <1>5, <2>7, <2>8, <2>9
<1>6. CASE Drain
  <2> DEFINE c == Head(f)
             h == <<c>>
             t == Tail(f)
  <2>0. f # <<>> /\ f' = t
    BY <1>6 DEF Drain
  <2>1. h \in Seq(Int) /\ t \in Seq(Int) /\ f = h \o t /\ c \in Int
    BY <1>1, <2>0, HeadAndTail
  <2>2. /\ c \in Marks => k' = Append(k, c)
        /\ c \notin Marks => k' = k
    BY <1>6, DrainLog
  <2>3. ~IsrTransmit
    BY <1>6, <2>0 DEF IsrTransmit, Drain, flow, queues, Source, Transmitter, enable
  <2>4. \A i \in DOMAIN f : i > 1 => f[i] \notin Marks
    BY DEF MarkFirst
  <2>5. /\ Len(t) = Len(f) - 1 /\ DOMAIN t = 1 .. Len(t) /\ DOMAIN f = 1 .. Len(f)
        /\ (\A i \in 1 .. Len(t) : t[i] = f[i + 1]) /\ Len(f) \in Nat /\ f[1] = c
    BY <1>1, <2>0, HeadTailProperties, LenProperties
  <2> HIDE DEF k, f, c, h, t
  <2>6. CASE c \in Marks
    <3>1. k' = k \o h
      BY <1>1, <2>1, <2>2, <2>6, Appended DEF h
    <3>2. (k \o h) \o t = k \o (h \o t)
      <4>1. k \in Seq(Int) /\ h \in Seq(Int) /\ t \in Seq(Int)
        BY <1>1, <2>1
      <4> QED BY <4>1, Associative, Zenon
    <3>3. Marked' = Marked
      BY <1>3, <2>0, <2>1, <3>1, <3>2
    <3> QED BY <1>1, <1>2, <1>3, <2>3, <3>3 DEF SameMarks
  <2>7. CASE c \notin Marks
    <3>1. Unmarked(t)
      <4>1. ASSUME NEW i \in 1 .. Len(t)
            PROVE  t[i] \notin Marks
        <5>1. i + 1 \in 1 .. Len(f) /\ i + 1 > 1
          BY <2>5
        <5> QED BY <2>4, <2>5, <5>1
      <4> QED BY <2>5, <4>1 DEF Unmarked
    <3>2. Unmarked(f)
      <4>1. ASSUME NEW i \in 1 .. Len(f)
            PROVE  f[i] \notin Marks
        <5>1. i = 1 \/ i > 1
          OBVIOUS
        <5> QED BY <2>4, <2>5, <2>7, <5>1
      <4> QED BY <2>5, <4>1 DEF Unmarked
    <3>3. SameMarks(k \o f, k) /\ SameMarks(k, k \o t)
      BY <1>1, <2>1, <3>1, <3>2, UnmarkedEnd
    <3>4. SameMarks(k \o f, k \o t)
      BY <3>3, SameMarksTwice
    <3>5. SameMarks(Marked, Marked')
      BY <1>3, <2>0, <2>2, <2>7, <3>4
    <3> QED BY <1>1, <1>2, <1>3, <2>3, <3>5
  <2> QED BY <2>6, <2>7
<1>7. CASE LogTx' = LogTx /\ txFifo' = txFifo
  BY <1>4, <1>7 DEF LogTx
<1>8. CASE SendByte \/ FlushTxQueue \/ Receive \/ FlushRxQueue \/ IsrReceive
  <2>1. txFifo' = txFifo
    BY <1>8, ReceivedStep DEF SendByte, FlushTxQueue, Receive, FlushRxQueue
  <2>2. log'.marks = log.marks
    BY <1>8, SendByteLog, FlushTxLog, ReceiveLog, FlushRxLog, ReceivedStep DEF LogTx
  <2> QED BY <1>4, <2>1, <2>2
<1> QED BY <1>4, <1>5, <1>6, <1>8
        DEF Next, Program, Isr, Line, SendStart, SendTimeOut, SendLate, IsrEntry,
            IsrExit, IsrModem, PeerSend, PeerFlips

-----------------------------------------------------------------------------
(* The marks asked for.                                                    *)

\* What Mark says.
LEMMA MarkIs ==
  ASSUME Types
  PROVE  /\ Mark = <<>> <=> xoff = 0 /\ xon = 0
         /\ \A c \in Marks : Mark = <<c>> =>
              (c = XOFF /\ xoff = 1) \/ (c = XON /\ xoff = 0 /\ xon = 1)
<1>1. XON # XOFF /\ xon \in 0 .. 1 /\ xoff \in 0 .. 1
  BY Characters DEF Types
<1>2. CASE xoff = 1
  <2>1. Mark = <<XOFF>>
    BY <1>2 DEF Mark
  <2>2. ASSUME NEW c \in Marks, Mark = <<c>>
        PROVE  c = XOFF
    BY <2>1, <2>2
  <2> QED BY <1>2, <2>1, <2>2
<1>3. CASE xoff = 0 /\ xon = 1
  <2>1. Mark = <<XON>>
    BY <1>3 DEF Mark
  <2>2. ASSUME NEW c \in Marks, Mark = <<c>>
        PROVE  c = XON
    BY <2>1, <2>2
  <2> QED BY <1>3, <2>1, <2>2
<1>4. CASE xoff = 0 /\ xon = 0
  <2>1. Mark = <<>>
    BY <1>4 DEF Mark
  <2> QED BY <1>4, <2>1
<1> QED BY <1>1, <1>2, <1>3, <1>4

\* A mark is asked for if it says something new, and THREI enabled for it.
Asked ==
  /\ xon = 1 => xoff = 0 /\ ~xmitXon
  /\ xoff = 1 => xmitXon
  /\ xon = 1 \/ xoff = 1 => threi \/ ~rcvdXon

\* So it is after every step.
LEMMA AskedStep ==
  ASSUME Types, OtherControl, Asked, Next
  PROVE  Asked'
<1>0. /\ xon \in 0 .. 1 /\ xoff \in 0 .. 1 /\ xmitXon \in BOOLEAN /\ rcvdXon \in BOOLEAN
      /\ threi \in BOOLEAN
  BY DEF Types
<1>1. CASE xon' = xon /\ xoff' = xoff /\ xmitXon' = xmitXon /\ rcvdXon' = rcvdXon
           /\ (threi' = threi \/ threi' = TRUE)
  BY <1>0, <1>1 DEF Asked
<1>2. CASE SendStart \/ SendByte \/ SendTimeOut \/ SendLate \/ FlushTxQueue
           \/ IsrEntry \/ IsrExit \/ Line
  BY <1>1, <1>2 DEF SendStart, SendByte, SendTimeOut, SendLate, FlushTxQueue, IsrEntry,
                    IsrExit, Line, Drain, PeerSend, PeerFlips, flow, enable, SetThrei,
                    KeepThrei
<1>3. CASE Receive \/ FlushRxQueue
  <2>1. PICK q : Reopen(q)
    BY <1>3 DEF Receive, FlushRxQueue
  <2>2. xoff' = xoff /\ xmitXon' = xmitXon /\ rcvdXon' = rcvdXon
    BY <2>1 DEF Reopen
  <2>3. CASE AsksXon(q)
    <3>1. xon' = 1 /\ threi' = TRUE /\ ~xmitXon
      BY <2>1, <2>3 DEF Reopen, SetThrei, AsksXon
    <3>2. xoff = 0
      BY <1>0, <3>1 DEF Asked
    <3> QED BY <2>2, <3>1, <3>2 DEF Asked
  <2>4. CASE ~AsksXon(q)
    BY <1>1, <2>1, <2>2, <2>4 DEF Reopen, KeepThrei
  <2> QED BY <2>3, <2>4
<1>4. CASE IsrReceive
  <2>1. TakesMark \/ TakesByte \/ LosesByte
    BY <1>4, ReceivedStep
  <2>2. CASE TakesMark
    <3>1. /\ xon' = xon /\ xoff' = xoff /\ xmitXon' = xmitXon
          /\ rcvdXon' = (Incoming = XON) /\ SwitchThrei(Incoming)
      BY <2>2 DEF TakesMark
    <3>2. CASE Incoming = XON
      <4>1. threi' = TRUE
        BY <3>1, <3>2 DEF SwitchThrei, SetThrei
      <4> QED BY <3>1, <4>1 DEF Asked
    <3>3. CASE Incoming # XON
      <4>1. rcvdXon' = FALSE
        BY <3>1, <3>3
      <4> QED BY <3>1, <4>1 DEF Asked
    <3> QED BY <3>2, <3>3
  <2>3. CASE DataFlow
    <3>1. xon' = xon /\ xmitXon' = xmitXon /\ rcvdXon' = rcvdXon
      BY <2>3 DEF DataFlow
    <3>2. CASE xoff' = 1 /\ SetThrei /\ xmitXon
      <4>1. xon = 0 /\ threi' = TRUE
        BY <1>0, <3>2 DEF Asked, SetThrei
      <4> QED BY <3>1, <3>2, <4>1 DEF Asked
    <3>3. CASE UNCHANGED xoff /\ KeepThrei
      BY <1>1, <3>1, <3>3 DEF KeepThrei
    <3> QED BY <2>3, <3>2, <3>3 DEF DataFlow
  <2> QED BY <2>1, <2>2, <2>3 DEF TakesByte, LosesByte
<1>5. CASE IsrTransmit
  <2>1. CASE control = "XON_XOFF"
    <3>1. SendMark
      BY <1>5, <2>1 DEF IsrTransmit
    <3>2. xon' = 0 /\ xoff' = 0
      BY <1>0, <3>1 DEF SendMark, Asked
    <3> QED BY <3>2 DEF Asked
  <2>2. CASE control # "XON_XOFF"
    <3>1. xon' = 0 /\ xoff' = 0
      BY <1>5, <2>2 DEF IsrTransmit, OtherControl
    <3> QED BY <3>1 DEF Asked
  <2> QED BY <2>1, <2>2
<1>6. CASE IsrModem
  <2>1. xon' = xon /\ xoff' = xoff /\ xmitXon' = xmitXon /\ rcvdXon' = rcvdXon
    BY <1>6 DEF IsrModem
  <2>2. CASE control = "XON_XOFF"
    <3>1. KeepThrei
      BY <1>6, <2>2 DEF IsrModem
    <3> QED BY <1>1, <2>1, <3>1 DEF KeepThrei
  <2>3. CASE control # "XON_XOFF"
    <3>1. xon' = 0 /\ xoff' = 0
      BY <2>1, <2>3 DEF OtherControl
    <3> QED BY <3>1 DEF Asked
  <2> QED BY <2>2, <2>3
<1> QED BY <1>2, <1>3, <1>4, <1>5, <1>6 DEF Next, Program, Isr

\* The marks take turns.
LEMMA MarksInTurnStep ==
  ASSUME Types, OtherControl, MarkFirst, Transmitter, MarksInTurn, Next
  PROVE  MarksInTurn'
<1>0. /\ Asked /\ Alternate(Marked)
      /\ control = "XON_XOFF" => xmitXon = ~SaysStop(Marked)
      /\ xon \in 0 .. 1 /\ xoff \in 0 .. 1 /\ xmitXon \in BOOLEAN /\ control' = control
      /\ SaysStop(Marked) \in BOOLEAN
  BY DEF MarksInTurn, Asked, Types, Next, SaysStop
<1>1. Asked'
  BY <1>0, AskedStep
<1>2. SUFFICES Alternate(Marked') /\ (control = "XON_XOFF" => xmitXon' = ~SaysStop(Marked'))
  BY <1>0, <1>1 DEF MarksInTurn, Asked
<1>3. Marked \in Seq(Int) /\ Marked' \in Seq(Int)
  BY MarkedStep
<1>4. CASE SameMarks(Marked, Marked') /\ (IsrTransmit => Mark = <<>>)
  <2> DEFINE s == Marked
             w == Marked'
  <2>1. s \in Seq(Int) /\ w \in Seq(Int) /\ SameMarks(s, w) /\ Alternate(s)
    BY <1>0, <1>3, <1>4
  <2>2. Alternate(w) /\ (SaysStop(s) <=> SaysStop(w))
    <3> HIDE DEF s, w
    <3> QED BY <2>1, SaidBySame
  <2>3. xmitXon' = xmitXon
    <3>1. CASE IsrTransmit
      <4>1. xoff = 0 /\ xon = 0
        BY <1>4, <3>1, MarkIs
      <4>2. CASE control = "XON_XOFF"
        <5>1. SendMark
          BY <3>1, <4>2 DEF IsrTransmit
        <5> QED BY <1>0, <4>1, <5>1 DEF SendMark
      <4>3. CASE control # "XON_XOFF"
        BY <3>1, <4>3 DEF IsrTransmit
      <4> QED BY <4>2, <4>3
    <3>2. CASE IsrReceive
      <4>1. TakesMark \/ TakesByte \/ LosesByte
        BY <3>2, ReceivedStep
      <4> QED BY <4>1 DEF TakesMark, TakesByte, LosesByte, DataFlow
    <3>3. CASE ~IsrTransmit /\ ~IsrReceive
      BY <3>3 DEF Next, Program, Isr, Line, SendStart, SendByte, SendTimeOut, SendLate,
                  Receive, FlushRxQueue, FlushTxQueue, IsrEntry, IsrExit, IsrModem, Drain,
                  PeerSend, PeerFlips, flow, Reopen
    <3> QED BY <3>1, <3>2, <3>3
  <2>4. SaysStop(w) \in BOOLEAN /\ SaysStop(s) \in BOOLEAN
    BY DEF SaysStop
  <2>5. ASSUME control = "XON_XOFF"
        PROVE  xmitXon' = ~SaysStop(w)
    <3>1. xmitXon' = ~SaysStop(s)
      BY <1>0, <2>3, <2>5
    <3> HIDE DEF s, w
    <3> QED BY <2>2, <2>4, <3>1
  <2> QED BY <2>2, <2>5
<1>5. CASE /\ IsrTransmit
           /\ \E c \in Marks, kept \in Seq(Bytes) :
                Mark = <<c>> /\ Marked' = Marked \o <<c>> \o kept
  <2>1. PICK c \in Marks, kept \in Seq(Bytes) :
               Mark = <<c>> /\ Marked' = Marked \o <<c>> \o kept
    BY <1>5
  <2>2. (c = XOFF /\ xoff = 1) \/ (c = XON /\ xoff = 0 /\ xon = 1)
    BY <2>1, MarkIs
  <2>3. control = "XON_XOFF"
    BY <2>2 DEF OtherControl
  <2>4. SendMark
    BY <1>5, <2>3 DEF IsrTransmit
  <2>5. c = XOFF <=> ~SaysStop(Marked)
    <3>1. CASE c = XOFF /\ xoff = 1
      <4>1. xmitXon
        BY <1>0, <3>1 DEF Asked
      <4> QED BY <1>0, <2>3, <3>1, <4>1
    <3>2. CASE c = XON /\ xoff = 0 /\ xon = 1
      <4>1. ~xmitXon /\ c # XOFF
        BY <1>0, <3>2, Characters DEF Asked
      <4> QED BY <1>0, <2>3, <4>1
    <3> QED BY <2>2, <3>1, <3>2
  <2>6. xmitXon' = (c # XOFF)
    <3>1. CASE c = XOFF /\ xoff = 1
      BY <2>4, <3>1 DEF SendMark
    <3>2. CASE c = XON /\ xoff = 0 /\ xon = 1
      <4>1. c # XOFF
        BY <3>2, Characters
      <4>2. xmitXon' = (xon = 1 \/ xmitXon)
        BY <2>4, <3>2 DEF SendMark
      <4>3. xmitXon' = TRUE
        BY <3>2, <4>2
      <4> QED BY <4>1, <4>3
    <3> QED BY <2>2, <3>1, <3>2
  <2> DEFINE s == Marked
             w == s \o <<c>>
             v == w \o kept
  <2>7. Alternate(w) /\ (SaysStop(w) <=> c = XOFF)
    <3>1. s \in Seq(Int) /\ Alternate(s) /\ (c = XOFF <=> ~SaysStop(s))
      BY <1>0, <1>3, <2>5
    <3> HIDE DEF s
    <3> QED BY <3>1, MarkAtEnd
  <2>8. w \in Seq(Int) /\ kept \in Seq(Int) /\ v \in Seq(Int) /\ Unmarked(kept)
    <3> DEFINE t == <<c>>
    <3>1. s \in Seq(Int) /\ t \in Seq(Int) /\ kept \in Seq(Int)
      BY <1>3, Characters, CharSeq, One
    <3> HIDE DEF s, t
    <3>2. s \o t \in Seq(Int)
      BY ONLY <3>1, ConcatProperties
    <3>3. w \in Seq(Int)
      BY <3>2 DEF t
    <3> HIDE DEF w
    <3>4. v \in Seq(Int)
      BY ONLY <3>1, <3>3, ConcatProperties
    <3>5. Unmarked(kept)
      BY Characters, ElementOfSeq, LenProperties DEF Unmarked
    <3> QED BY <3>1, <3>3, <3>4, <3>5
  <2>9. Alternate(v) /\ (SaysStop(w) <=> SaysStop(v))
    <3> HIDE DEF w
    <3>1. SameMarks(w, w \o kept)
      BY <2>8, UnmarkedEnd
    <3> QED BY <2>7, <2>8, <3>1, SaidBySame
  <2>10. Marked' = v
    BY <2>1
  <2> HIDE DEF v, w, s
  <2>11. SaysStop(v) \in BOOLEAN
    BY DEF SaysStop
  <2>12. xmitXon' = ~SaysStop(v)
    BY <2>6, <2>7, <2>9, <2>11
  <2> QED BY <2>9, <2>10, <2>12
<1> QED BY <1>4, <1>5, MarkedStep

-----------------------------------------------------------------------------
(* The bytes sent.                                                         *)

\* The places of marks, and one more at the end.
LEMMA OneMoreMark ==
  ASSUME NEW s \in Seq(Int), NEW c \in Marks
  PROVE  /\ IsFiniteSet(MarkPlaces(s)) /\ Cardinality(MarkPlaces(s)) \in Nat
         /\ Cardinality(MarkPlaces(s \o <<c>>)) = Cardinality(MarkPlaces(s)) + 1
<1> DEFINE t == <<c>>
           w == s \o t
           m == Len(s)
<1>1. t \in Seq(Int) /\ Len(t) = 1 /\ t[1] = c
  BY Characters, One
<1> HIDE DEF t
<1>2. /\ DOMAIN s = 1 .. m /\ m \in Nat /\ DOMAIN w = 1 .. m + 1
      /\ (\A i \in 1 .. m : w[i] = s[i]) /\ w[m + 1] = c
  <2>1. /\ DOMAIN s = 1 .. m /\ m \in Nat /\ DOMAIN w = 1 .. m + Len(t)
        /\ \A i \in 1 .. m : w[i] = s[i]
        /\ \A i \in 1 .. Len(t) : w[m + i] = t[i]
    BY <1>1, Joined
  <2>2. 1 \in 1 .. Len(t)
    BY <1>1
  <2> QED BY <1>1, <2>1, <2>2
<1> HIDE DEF w, m
<1>3. /\ \A i \in 1 .. m + 1 : i \in 1 .. m \/ i = m + 1
      /\ \A i \in 1 .. m : i \in 1 .. m + 1
      /\ m + 1 \in 1 .. m + 1 /\ m + 1 \notin 1 .. m
  BY <1>2
<1>4. MarkPlaces(w) = MarkPlaces(s) \cup {m + 1}
  BY <1>2, <1>3 DEF MarkPlaces
<1>5. m + 1 \notin MarkPlaces(s) /\ MarkPlaces(s) \subseteq 1 .. m
  BY <1>2, <1>3 DEF MarkPlaces
<1>6. IsFiniteSet(1 .. m)
  BY <1>2, FS_Interval
<1>7. IsFiniteSet(MarkPlaces(s))
  BY <1>5, <1>6, FS_Subset
<1>8. Cardinality(MarkPlaces(s) \cup {m + 1}) = Cardinality(MarkPlaces(s)) + 1
  BY <1>5, <1>7, FS_AddElement
<1>9. Cardinality(MarkPlaces(s)) \in Nat
  BY <1>7, FS_CardinalityType
<1> QED BY <1>4, <1>7, <1>8, <1>9 DEF w, t

\* Bytes are lost only to marks: TxStream's last three conjuncts.
LossPaid ==
  /\ log.lostTx \subseteq Bytes
  /\ control # "XON_XOFF" \/ WFifo < Fifo => log.lostTx = {}
  /\ Cardinality(log.lostTx) <= Cardinality(MarkPlaces(Marked))

\* So it is after every step.
LEMMA LossPaidStep ==
  ASSUME Types, OtherControl, MarkFirst, Transmitter, LossPaid, IsFiniteSet(log.lostTx), Next
  PROVE  LossPaid'
<1> DEFINE L == log.lostTx
           P == MarkPlaces(Marked)
<1>0. /\ L \subseteq Bytes /\ IsFiniteSet(L) /\ control' = control
      /\ (control # "XON_XOFF" \/ WFifo < Fifo => L = {})
      /\ Cardinality(L) <= Cardinality(P)
  BY DEF LossPaid, Next
<1>1. Cardinality(L) \in Nat
  BY <1>0, FS_CardinalityType
<1>2. Marked \in Seq(Int) /\ Marked' \in Seq(Int)
  BY MarkedStep
<1>3. Cardinality(P) \in Nat
  BY <1>2, OneMoreMark, Characters DEF Marks
<1>4. CASE SameMarks(Marked, Marked') /\ (IsrTransmit => Mark = <<>>)
  <2>1. P' = P
    BY <1>4 DEF SameMarks
  <2>2. L' = L
    <3>1. CASE IsrTransmit
      <4>1. PICK n \in 0 .. Len(xmit), kept \in Seq(Bytes), lost \in Seq(Bytes) :
              Filled(Mark, n, kept, lost)
        BY <3>1, TransmitStep
      <4>2. lost = <<>>
        BY <1>4, <3>1, <4>1 DEF Filled
      <4>3. Range(lost) = {}
        BY <4>2, NoStream
      <4> QED BY <4>1, <4>3, FilledLog
    <3>2. CASE log' = log \/ LogTx' = LogTx
      BY <3>2 DEF LogTx
    <3>3. CASE SendByte \/ FlushTxQueue \/ Receive \/ FlushRxQueue \/ IsrReceive \/ Drain
      BY <3>2, <3>3, SendByteLog, FlushTxLog, ReceiveLog, FlushRxLog, ReceivedStep, DrainLog
    <3> QED BY <3>1, <3>2, <3>3
            DEF Next, Program, Isr, Line, SendStart, SendTimeOut, SendLate, IsrEntry,
                IsrExit, IsrModem, PeerSend, PeerFlips
  <2> QED BY <1>0, <2>1, <2>2 DEF LossPaid
<1>5. CASE /\ IsrTransmit
           /\ \E c \in Marks, kept \in Seq(Bytes) :
                Mark = <<c>> /\ Marked' = Marked \o <<c>> \o kept
  <2>1. PICK c \in Marks, k \in Seq(Bytes) :
               Mark = <<c>> /\ Marked' = Marked \o <<c>> \o k
    BY <1>5
  <2>2. control = "XON_XOFF"
    BY <2>1, MarkIs DEF OtherControl
  <2>3. PICK n \in 0 .. Len(xmit), kept \in Seq(Bytes), lost \in Seq(Bytes) :
          Filled(Mark, n, kept, lost)
    BY <1>5, TransmitStep
  <2>4. L' = L \cup Range(lost)
    BY <2>3, FilledLog
  <2>5. lost = <<>> \/ (WFifo = Fifo /\ \E x \in Bytes : lost = <<x>>)
    BY <2>3 DEF Filled
  <2> DEFINE w == Marked \o <<c>>
  <2>6. Cardinality(MarkPlaces(w)) = Cardinality(P) + 1
    BY <1>2, OneMoreMark
  <2>7. MarkPlaces(Marked') = MarkPlaces(w)
    <3> DEFINE t == <<c>>
    <3>1. t \in Seq(Int) /\ k \in Seq(Int)
      BY Characters, CharSeq, One
    <3>2. w = Marked \o t /\ Marked' = w \o k
      BY <2>1
    <3> HIDE DEF t
    <3>3. Marked \o t \in Seq(Int)
      BY ONLY <1>2, <3>1, ConcatProperties
    <3>4. Unmarked(k)
      BY Characters, ElementOfSeq, LenProperties DEF Unmarked
    <3>5. w \in Seq(Int)
      BY <3>2, <3>3
    <3> HIDE DEF w
    <3>6. SameMarks(w \o k, w)
      BY <3>1, <3>4, <3>5, UnmarkedEnd
    <3> QED BY <3>2, <3>6 DEF SameMarks
  <2>8. Cardinality(P') = Cardinality(P) + 1
    BY <2>6, <2>7
  <2> HIDE DEF L, P, w
  <2>9. CASE lost = <<>>
    <3>1. L' = L
      BY <2>4, <2>9, NoStream
    <3> QED BY <1>0, <1>1, <1>3, <2>8, <3>1 DEF LossPaid, L, P
  <2>10. ASSUME NEW x \in Bytes, lost = <<x>>, WFifo = Fifo
         PROVE  LossPaid'
    <3>1. Range(lost) = {x}
      BY <2>10, One, Characters
    <3>2. L' = L \cup {x}
      BY <2>4, <3>1
    <3>3. Cardinality(L \cup {x}) = IF x \in L THEN Cardinality(L) ELSE Cardinality(L) + 1
      BY <1>0, FS_AddElement
    <3>4. Cardinality(L') <= Cardinality(P')
      BY <1>0, <1>1, <1>3, <2>8, <3>2, <3>3
    <3>5. L' \subseteq Bytes
      BY <1>0, <3>2
    <3>6. control' = "XON_XOFF" /\ ~(WFifo < Fifo)
      BY <1>0, <2>2, <2>10, Numbers
    <3> QED BY <3>4, <3>5, <3>6 DEF LossPaid, L, P
  <2> QED BY <2>5, <2>9, <2>10
<1> QED BY <1>4, <1>5, MarkedStep

\* Where the bytes are.
LEMMA TxParts ==
  ASSUME Types
  PROVE  /\ log.wire \in Seq(Int) /\ txFifo \in Seq(Int) /\ xmit \in Seq(Int)
         /\ log.wire \o txFifo \in Seq(Int) /\ log.wire \o txFifo \o xmit \in Seq(Int)
         /\ log.queued \in Nat
<1>1. log.wire \in Seq(Int) /\ txFifo \in Seq(Int) /\ xmit \in Seq(Int)
  BY CharSeq DEF Types, Log
<1>2. log.wire \o txFifo \in Seq(Int)
  BY ONLY <1>1, ConcatProperties
<1>3. log.wire \o txFifo \o xmit \in Seq(Int)
  BY <1>1, <1>2, RangeOfThree
<1> QED BY <1>1, <1>2, <1>3 DEF Types, Log

\* What is on the wire, in the FIFO and queued.
Sent(w, f, x, n, W) == Carries(w \o f \o x, n, W) /\ W \subseteq 1 .. n

\* No step doubles, reorders or loses a byte on its way out of the port.
LEMMA SentStep ==
  ASSUME Types, Transmitter, Next,
         Sent(log.wire, txFifo, xmit, log.queued, log.flushedTx \cup log.lostTx)
  PROVE  Sent(log.wire, txFifo, xmit, log.queued, log.flushedTx \cup log.lostTx)'
<1> DEFINE w == log.wire
           f == txFifo
           x == xmit
           n == log.queued
           W == log.flushedTx \cup log.lostTx
<1>0. Sent(w, f, x, n, W)
  OBVIOUS
<1>1. SUFFICES Sent(w', f', x', n', W')
  OBVIOUS
<1>2. /\ w \in Seq(Int) /\ f \in Seq(Int) /\ x \in Seq(Int) /\ n \in Nat
      /\ w \o f \in Seq(Int) /\ w \o f \o x \in Seq(Int) /\ W \in SUBSET (1 .. n)
  BY <1>0, TxParts DEF Sent
<1>3. CASE w' = w /\ f' = f /\ x' = x /\ n' = n /\ W' = W
  BY <1>0, <1>3
<1>4. CASE (log' = log \/ LogTx' = LogTx) /\ txFifo' = txFifo /\ xmit' = xmit
  BY <1>3, <1>4 DEF LogTx
<1>5. CASE SendStart \/ SendTimeOut \/ SendLate \/ IsrEntry \/ IsrExit \/ IsrModem
           \/ PeerSend \/ PeerFlips
  BY <1>4, <1>5 DEF SendStart, SendTimeOut, SendLate, IsrEntry, IsrExit, IsrModem,
                    PeerSend, PeerFlips, queues
<1>6. CASE Receive \/ FlushRxQueue \/ IsrReceive
  <2>1. txFifo' = txFifo /\ xmit' = xmit
    BY <1>6, ReceivedStep DEF Receive, FlushRxQueue
  <2>2. LogTx' = LogTx
    BY <1>6, ReceiveLog, FlushRxLog, ReceivedStep
  <2> QED BY <1>4, <2>1, <2>2
<1>7. CASE SendByte
  <2> DEFINE k == n + 1
             e == <<k>>
             s == w \o f
  <2>1. x' = Append(x, k) /\ k \in Int /\ e \in Seq(Int) /\ f' = f
    BY <1>2, <1>7, One DEF SendByte, HasRoom
  <2>2. x' = x \o e
    BY <1>2, <2>1, Appended
  <2>3. w' = w /\ W' = W /\ n' = k
    BY <1>7, SendByteLog
  <2> HIDE DEF w, f, x, n, W, e, s
  <2>4. s \in Seq(Int) /\ s \o x \in Seq(Int) /\ Carries(s \o x, n, W)
    BY <1>0, <1>2 DEF s, Sent
  <2>5. Carries((s \o x) \o e, k, W)
    BY <1>2, <2>4, NextNumber DEF e
  <2>6. (s \o x) \o e = s \o x'
    <3>0. s \in Seq(Int) /\ x \in Seq(Int) /\ e \in Seq(Int)
      BY <1>2, <2>1, <2>4
    <3>1. (s \o x) \o e = s \o (x \o e)
      BY <3>0, Associative, Zenon
    <3> QED BY <2>2, <3>1
  <2>7. W \subseteq 1 .. k
    BY <1>2
  <2> HIDE DEF k
  <2> QED BY <2>1, <2>3, <2>5, <2>6, <2>7 DEF Sent, s
<1>8. CASE FlushTxQueue
  <2>1. x' = <<>> /\ w' = w /\ f' = f /\ n' = n /\ W' = W \cup Range(x)
    BY <1>8, FlushTxLog DEF FlushTxQueue
  <2>2. Range(x) \subseteq 1 .. n
    <3>1. Range(x) \subseteq Bytes
      BY CharSeq DEF Types
    <3>2. Range(w \o f \o x) = Range(w) \cup Range(f) \cup Range(x)
      BY <1>2, RangeOfThree
    <3>3. {y \in Range(w \o f \o x) : y > 0} \subseteq 1 .. n
      BY <1>0 DEF Sent, Carries
    <3>4. \A y \in Range(x) : y > 0
      BY <3>1, Characters
    <3> QED BY <3>2, <3>3, <3>4
  <2> DEFINE s == w \o f
  <2> HIDE DEF w, f, x, n, W
  <2>3. s \in Seq(Int) /\ Carries(s \o x, n, W)
    BY <1>0, <1>2 DEF Sent
  <2> HIDE DEF s
  <2>4. Carries(s, n, W \cup Range(x))
    BY <1>2, <2>3, TakenOff
  <2>5. s \o <<>> = s
    BY <2>3, ConcatEmptySeq
  <2>6. W \cup Range(x) \subseteq 1 .. n
    BY <1>2, <2>2
  <2> QED BY <2>1, <2>4, <2>5, <2>6 DEF Sent, s
<1>9. CASE IsrTransmit
  <2>1. PICK j \in 0 .. Len(xmit), a \in Seq(Bytes), l \in Seq(Bytes) :
          Filled(Mark, j, a, l)
    BY <1>9, TransmitStep
  <2> DEFINE mk == Mark
  <2>2. /\ f = <<>> /\ mk \in {<<>>, <<XON>>, <<XOFF>>}
        /\ f' = mk \o a /\ x = a \o l \o x' /\ x' \in Seq(Bytes)
        /\ w' = w /\ n' = n /\ W' = W \cup Range(l)
    BY <1>9, <2>1, TransmitStep, FilledLog DEF Filled
  <2>3. /\ a \in Seq(Int) /\ l \in Seq(Int) /\ x' \in Seq(Int) /\ mk \in Seq(Int)
        /\ Range(l) \subseteq Bytes
    BY <2>2, CharSeq, MarkSeq
  <2>4. mk = <<>> \/ \E c \in Marks : mk = <<c>>
    BY <2>2, MarkSeq
  <2> DEFINE y == x'
             al == a \o l
             wa == w \o a
             ay == a \o y
  <2> HIDE DEF mk, w, f, x, n, W
  <2>5. y \in Seq(Int)
    BY <2>3
  <2>6. w \o f = w
    BY <1>2, <2>2, ConcatEmptySeq
  <2>7. Carries(w \o x, n, W)
    BY <1>0, <2>6 DEF Sent
  <2>8. x = al \o y
    BY <2>2
  <2> HIDE DEF y
  <2>9. al \in Seq(Int) /\ wa \in Seq(Int) /\ ay \in Seq(Int)
    BY <1>2, <2>3, <2>5, ConcatProperties
  <2>10. w \o x = wa \o l \o y
    <3>0. w \in Seq(Int) /\ a \in Seq(Int) /\ l \in Seq(Int)
      BY <1>2, <2>3
    <3>1. w \o al = wa \o l
      BY <3>0, Associative, Zenon
    <3> HIDE DEF al, wa
    <3>2. (w \o al) \o y = w \o (al \o y)
      <4>1. w \in Seq(Int) /\ al \in Seq(Int) /\ y \in Seq(Int)
        BY <2>5, <2>9, <3>0
      <4> QED BY <4>1, Associative, Zenon
    <3> QED BY <2>8, <3>1, <3>2
  <2>11. Carries(wa \o y, n, W \cup Range(l)) /\ Range(l) \subseteq 1 .. n
    <3> HIDE DEF wa
    <3>1. Carries(wa \o l \o y, n, W)
      BY <2>7, <2>10
    <3>2. Carries(wa \o y, n, W \cup Range(l))
      BY <1>2, <2>3, <2>5, <2>9, <3>1, TakenOut
    <3>3. Range(wa \o l \o y) = Range(wa) \cup Range(l) \cup Range(y)
      BY <2>3, <2>5, <2>9, RangeOfThree
    <3>4. {v \in Range(wa \o l \o y) : v > 0} \subseteq 1 .. n
      BY <3>1 DEF Carries
    <3>5. \A v \in Range(l) : v > 0
      BY <2>3, Characters
    <3> QED BY <3>2, <3>3, <3>4, <3>5
  <2>12. wa \o y = w \o ay
    <3>0. w \in Seq(Int) /\ a \in Seq(Int) /\ y \in Seq(Int)
      BY <1>2, <2>3, <2>5
    <3> QED BY <3>0, Associative, Zenon
  <2>13. Carries(w \o mk \o ay, n, W \cup Range(l))
    <3> HIDE DEF ay, wa
    <3>1. Carries(w \o ay, n, W \cup Range(l))
      BY <2>11, <2>12
    <3>2. CASE mk = <<>>
      <4>1. w \o mk = w
        BY <1>2, <3>2, ConcatEmptySeq
      <4> QED BY <3>1, <4>1
    <3>3. ASSUME NEW c \in Marks, mk = <<c>>
          PROVE  Carries(w \o mk \o ay, n, W \cup Range(l))
      <4>1. c \in Int /\ c <= 0
        BY Characters
      <4>2. Carries(w \o <<c>> \o ay, n, W \cup Range(l))
        BY <1>2, <2>9, <3>1, <4>1, Inserted
      <4> QED BY <3>3, <4>2
    <3> QED BY <2>4, <3>2, <3>3
  <2>14. w \o mk \o ay = w \o (mk \o a) \o y
    <3> DEFINE wm == w \o mk
    <3>0. w \in Seq(Int) /\ a \in Seq(Int) /\ mk \in Seq(Int)
      BY <1>2, <2>3
    <3>1. (w \o mk) \o a = w \o (mk \o a)
      BY <3>0, Associative, Zenon
    <3>2. wm \in Seq(Int)
      BY ONLY <3>0, ConcatProperties
    <3> HIDE DEF wm
    <3>3. wm \in Seq(Int) /\ a \in Seq(Int) /\ y \in Seq(Int)
      BY <2>3, <2>5, <3>2
    <3>4. wm \o (a \o y) = (wm \o a) \o y
      BY <3>3, Associative, Zenon
    <3> QED BY <3>1, <3>4 DEF wm
  <2>15. W \cup Range(l) \subseteq 1 .. n
    BY <1>2, <2>11
  <2>16. Carries(w \o f' \o y, n, W \cup Range(l))
    BY <2>2, <2>13, <2>14
  <2> HIDE DEF ay, wa, al
  <2> QED BY <2>2, <2>15, <2>16 DEF Sent, y
<1>10. CASE Drain
  <2> DEFINE c == Head(f)
             h == <<c>>
             t == Tail(f)
             tx == t \o x
  <2>0. f # <<>> /\ f' = t /\ x' = x
    BY <1>10 DEF Drain, queues
  <2>1. h \in Seq(Int) /\ t \in Seq(Int) /\ f = h \o t /\ c \in Int
    BY <1>2, <2>0, HeadAndTail
  <2>2. /\ n' = n /\ W' = W
        /\ c \in Marks => w' = w
        /\ c \notin Marks => w' = Append(w, c)
    BY <1>10, DrainLog
  <2> HIDE DEF w, f, x, n, W, c, h, t
  <2>3. (w \o f) \o x = (w \o h) \o tx /\ tx \in Seq(Int) /\ w \o h \in Seq(Int)
    <3> DEFINE wh == w \o h
    <3>0. w \in Seq(Int) /\ h \in Seq(Int) /\ t \in Seq(Int)
      BY <1>2, <2>1
    <3>1. w \o (h \o t) = (w \o h) \o t
      BY <3>0, Associative, Zenon
    <3>2. wh \in Seq(Int)
      BY ONLY <3>0, ConcatProperties
    <3> HIDE DEF wh
    <3>3. wh \in Seq(Int) /\ t \in Seq(Int) /\ x \in Seq(Int)
      BY <1>2, <3>0, <3>2
    <3>4. (wh \o t) \o x = wh \o (t \o x)
      BY <3>3, Associative, Zenon
    <3>5. tx \in Seq(Int)
      BY ONLY <3>3, ConcatProperties DEF tx
    <3> QED BY <2>1, <3>1, <3>2, <3>4, <3>5 DEF wh
  <2>4. Carries((w \o h) \o tx, n, W) /\ W \subseteq 1 .. n
    BY <1>0, <2>3 DEF Sent
  <2>5. CASE c \notin Marks
    <3>1. w' = w \o h
      BY <1>2, <2>1, <2>2, <2>5, Appended DEF h
    <3>2. (w' \o t) \o x = w' \o tx
      <4>1. w' \in Seq(Int) /\ t \in Seq(Int) /\ x \in Seq(Int)
        BY <1>2, <2>1, <2>3, <3>1
      <4> QED BY <4>1, Associative, Zenon
    <3> HIDE DEF tx
    <3>3. Carries(w' \o t \o x, n, W)
      BY <2>4, <3>1, <3>2
    <3> QED BY <2>0, <2>2, <2>4, <3>3 DEF Sent
  <2>6. CASE c \in Marks
    <3>1. c <= 0
      BY <2>6, Characters
    <3>2. (w \o t) \o x = w \o tx
      <4>1. w \in Seq(Int) /\ t \in Seq(Int) /\ x \in Seq(Int)
        BY <1>2, <2>1
      <4> QED BY <4>1, Associative, Zenon
    <3> HIDE DEF tx
    <3>3. Carries(w \o tx, n, W)
      BY <1>2, <2>1, <2>3, <2>4, <3>1, Unmissed DEF h
    <3> QED BY <2>0, <2>2, <2>4, <2>6, <3>2, <3>3 DEF Sent
  <2> QED BY <2>5, <2>6
<1> QED BY <1>5, <1>6, <1>7, <1>8, <1>9, <1>10 DEF Next, Program, Isr, Line

\* TxBytes in two parts.
LEMMA TxBytesIs ==
  /\ TxBytes <=> /\ LossPaid
                 /\ Sent(log.wire, txFifo, xmit, log.queued, log.flushedTx \cup log.lostTx)
  /\ TxBytes' <=> /\ LossPaid'
                  /\ Sent(log.wire, txFifo, xmit, log.queued, log.flushedTx \cup log.lostTx)'
BY DEF TxBytes, TxStream, LossPaid, Sent, MarkPlaces

\* So TxBytes holds after every step.
LEMMA TxBytesStep ==
  ASSUME Types, OtherControl, MarkFirst, Transmitter, TxBytes, Next
  PROVE  TxBytes'
<1>1. LossPaid /\ Sent(log.wire, txFifo, xmit, log.queued, log.flushedTx \cup log.lostTx)
  BY TxBytesIs
<1>2. log.queued \in Nat /\ log.lostTx \subseteq 1 .. log.queued
  BY <1>1 DEF Sent, Types, Log
<1>3. IsFiniteSet(log.lostTx)
  <2> DEFINE n == log.queued
             L == log.lostTx
  <2>1. n \in Nat /\ L \subseteq 1 .. n
    BY <1>2
  <2> HIDE DEF n, L
  <2>2. IsFiniteSet(1 .. n)
    BY <2>1, FS_Interval
  <2>3. IsFiniteSet(L)
    BY <2>1, <2>2, FS_Subset
  <2> QED BY <2>3 DEF L
<1>4. LossPaid'
  BY <1>1, <1>3, LossPaidStep
<1>5. Sent(log.wire, txFifo, xmit, log.queued, log.flushedTx \cup log.lostTx)'
  BY <1>1, SentStep
<1> QED BY <1>4, <1>5, TxBytesIs

-----------------------------------------------------------------------------
(* The invariant.                                                          *)

\* It holds at first.
LEMMA InitInvariant == Init => IInv
<1> SUFFICES ASSUME Init
             PROVE  IInv
  OBVIOUS
<1>1. Types
  BY InitTypes
<1>2. /\ xmit = <<>> /\ rcvd = <<>> /\ txFifo = <<>> /\ rxFifo = <<>>
      /\ log.wire = <<>> /\ log.read = <<>> /\ log.marks = <<>>
      /\ log.queued = 0 /\ peer.sent = 0 /\ peer.slack = Slack
      /\ log.flushedTx = {} /\ log.lostTx = {} /\ log.flushedRx = {} /\ log.lostRx = {}
  BY DEF Init
<1>3. <<>> \in Seq(Int) /\ <<>> \o <<>> = <<>> /\ DOMAIN <<>> = {} /\ Len(<<>>) = 0
      /\ Range(<<>>) = {}
  BY EmptySeq, ConcatEmptySeq, NoStream
<1>4. OtherControl
  BY <1>2, <1>3 DEF OtherControl, Init
<1>5. MarkFirst
  BY <1>2, <1>3 DEF MarkFirst
<1>6. Transmitter
  BY <1>2 DEF Transmitter, Init
<1>7. Marked = <<>>
  BY <1>2, <1>3 DEF Marked
<1>8. TxBytes
  <2>1. Carries(log.wire \o txFifo \o xmit, log.queued, log.flushedTx \cup log.lostTx)
    BY <1>2, NoStream
  <2>2. Cardinality(log.lostTx) = 0 /\ MarkPlaces(Marked) = {} /\ Cardinality({}) = 0
    BY <1>2, <1>3, <1>7, FS_EmptySet DEF MarkPlaces
  <2>3. LossPaid
    BY <1>2, <2>2 DEF LossPaid
  <2>4. Sent(log.wire, txFifo, xmit, log.queued, log.flushedTx \cup log.lostTx)
    BY <1>2, <2>1 DEF Sent
  <2> QED BY <2>3, <2>4, TxBytesIs
<1>9. RxBytes
  <2>1. Carries(log.read \o rcvd \o rxFifo, peer.sent, log.flushedRx \cup log.lostRx)
    BY <1>2, NoStream
  <2>2. \A c \in Range(log.read \o rcvd) : c \notin Marks
    BY <1>2, <1>3
  <2> QED BY <1>2, <2>1, <2>2 DEF RxBytes, RxStream
<1>10. Room
  BY <1>2, <1>3, Numbers DEF Room
<1>11. NoRxLoss
  BY <1>2 DEF NoRxLoss
<1>12. MarksInTurn
  <2>1. Alternate(Marked) /\ ~SaysStop(Marked)
    BY <1>3, <1>7 DEF Alternate, SaysStop
  <2>2. xon = 0 /\ xoff = 0 /\ (control = "XON_XOFF" => xmitXon)
    BY DEF Init
  <2> QED BY <1>1, <2>1, <2>2 DEF MarksInTurn, Types
<1> QED BY <1>1, <1>4, <1>5, <1>6, <1>8, <1>9, <1>10, <1>11, <1>12 DEF IInv

\* It holds after every step.
LEMMA StepInvariant == IInv /\ [Next]_vars => IInv'
<1> SUFFICES ASSUME IInv, [Next]_vars
             PROVE  IInv'
  OBVIOUS
<1>1. CASE Next
  <2>1. /\ Types /\ OtherControl /\ MarkFirst /\ Transmitter /\ TxBytes /\ RxBytes
        /\ Room /\ NoRxLoss /\ MarksInTurn
    BY DEF IInv
  <2>2. Types' /\ OtherControl' /\ MarkFirst' /\ Transmitter'
    BY <1>1, <2>1, TypesStep, OtherControlStep, MarkFirstStep, TransmitterStep
  <2>3. TxBytes' /\ RxBytes'
    BY <1>1, <2>1, TxBytesStep, RxBytesStep
  <2>4. Room' /\ NoRxLoss' /\ MarksInTurn'
    BY <1>1, <2>1, RoomStep, NoRxLossStep, MarksInTurnStep
  <2> QED BY <2>2, <2>3, <2>4 DEF IInv
<1>2. CASE UNCHANGED vars
  <2>1. Types' /\ OtherControl' /\ MarkFirst'
    BY <1>2 DEF IInv, vars, Types, OtherControl, MarkFirst
  <2>2. Transmitter' /\ TxBytes' /\ RxBytes'
    BY <1>2 DEF IInv, vars, Transmitter, Permitted, TxBytes, TxStream, RxBytes, RxStream,
                Marked
  <2>3. Room' /\ NoRxLoss' /\ MarksInTurn'
    BY <1>2 DEF IInv, vars, Room, NoRxLoss, MarksInTurn, Marked
  <2> QED BY <2>1, <2>2, <2>3 DEF IInv
<1> QED BY <1>1, <1>2

\* In every state of a port all the parts of IInv hold.
THEOREM Invariant == Spec => []IInv
BY InitInvariant, StepInvariant, PTL DEF Spec

\* TypeOK: no queue and no FIFO overflows, and port->ier shows THREI only when the
\* register has it, but between the two steps of the time-out (uart.cpp:214).
THEOREM TypesOK == Spec => []TypeOK
<1>1. IInv => TypeOK
  BY DEF IInv, Types, TypeOK
<1> QED BY <1>1, Invariant, PTL

\* TxStream: the bytes given to uart_Send leave in order, each once, but those
\* flushed and those lost behind a mark in a FIFO filled to its depth, at most one
\* for each mark (uart.cpp:914-936).
THEOREM BytesAreSent == Spec => []TxStream
<1>1. IInv => TxStream
  BY DEF IInv, TxBytes
<1> QED BY <1>1, Invariant, PTL

\* RxStream: the bytes the peer sends are read in order, each once, but those
\* flushed and those that met a full queue, and no mark is read (uart.cpp:835-880).
THEOREM BytesAreReceived == Spec => []RxStream
<1>1. IInv => RxStream
  BY DEF IInv, RxBytes
<1> QED BY <1>1, Invariant, PTL

\* NoRxLoss: under RTS/CTS no byte meets a full queue, if NEAR_FULL_SIZE covers the
\* FIFO and what the peer still sends (uart.cpp:840-844).
THEOREM NothingLostUnderRts == Spec => []NoRxLoss
<1>1. IInv => NoRxLoss
  BY DEF IInv
<1> QED BY <1>1, Invariant, PTL

\* NoTxStall: with bytes queued that the peer takes, and the program not about to
\* act, the transmitter interrupt is enabled and pending, or will be when the FIFO
\* has drained (uart.cpp:214-245, 852, 883, 961).
THEOREM TransmitterNeverStalls == Spec => []NoTxStall
<1>1. IInv => NoTxStall
  <2> SUFFICES ASSUME IInv,
                      main = "idle" \/ (main = "send" /\ Len(xmit) = TxSize),
                      xmit # <<>> /\ Permitted
               PROVE  ien /\ (thri \/ txFifo # <<>>)
    BY DEF NoTxStall
  <2>1. ien
    BY DEF IInv, Transmitter
  <2>2. thri \/ txFifo # <<>>
    BY <2>1 DEF IInv, Transmitter
  <2> QED BY <2>1, <2>2
<1> QED BY <1>1, Invariant, PTL

\* MarksInTurn: the peer sees XOFF and XON in turn, and what it has seen, or will
\* see, is what the port remembers having sent (uart.cpp:182-185, 861-865, 914-923).
THEOREM MarksTakeTurns == Spec => []MarksInTurn
<1>1. IInv => MarksInTurn
  BY DEF IInv
<1> QED BY <1>1, Invariant, PTL
=============================================================================
