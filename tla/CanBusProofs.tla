----------------------------- MODULE CanBusProofs -----------------------------
(***************************************************************************)
(* What CanBus promises, for every number of mailboxes, every size of the  *)
(* queues and whether the bus-off handler resets the controller or not.    *)
(***************************************************************************)
EXTENDS CanBus, StreamProofs

Frame == Nat \ {0}
Log == [written : Nat, dropped : SUBSET Nat, aborted : SUBSET Int, loaded : Seq(Frame),
        sent : SUBSET Int, arrived : Nat, lost : SUBSET Nat, read : Seq(Frame),
        errors : Nat, offs : Nat, resets : Nat, missedTx : BOOLEAN, missedRx : BOOLEAN]

Types ==
  /\ xmit \in Seq(Frame) /\ rcvd \in Seq(Frame)
  /\ errors \in Nat /\ storeError \in BOOLEAN
  /\ round \in Box
  /\ main \in {"idle", "written", "tested", "reading", "disabling", "popping"}
  /\ jobs \subseteq RXI .. RBEI /\ phase \in {"serve", "clear"} /\ looked \in BOOLEAN
  /\ box \in [Box -> [status : {"idle", "busy", "done"}, frame : Int, error : BOOLEAN]]
  /\ txi \subseteq Box /\ rxi \in BOOLEAN /\ boi \in BOOLEAN /\ rei \in BOOLEAN
  /\ rx \in Nat /\ off \in BOOLEAN
  /\ log \in Log

\* Only frames that were written are dropped.
TxFrames == TxStream /\ log.dropped \subseteq 1 .. log.written

\* Only frames that arrived are lost.
RxFrames == RxStream /\ log.lost \subseteq 1 .. log.arrived

\* RXI is set while CAN_ISR is at it, and there is a frame until it is served.
RxPending ==
  /\ RXI \in jobs => rxi
  /\ rxi /\ ~Clearing(RXI) => rx # Nothing

\* The mailbox whose flag CAN_ISR is about to clear.
Cleared == {n \in Box : Clearing(n)}
Busy == \E n \in Box : box[n].status = "busy"

\* CAN_ISR starts with serving; a flag is that of a mailbox in use; the mailbox
\* looked at stays as it is.
TxPending ==
  /\ InIsr \/ phase = "serve"
  /\ \A n \in Box : n \in txi \cup jobs => box[n].status # "idle"
  /\ \A n \in Cleared : looked => box[n].status = "done"

\* While the program is not about to call can_RoundRobin, and also in CAN_ISR: with
\* frames queued, a mailbox is busy, or a flag is set that stays, or the flag about
\* to be cleared is one that will be missed.
TxMoves ==
  main \notin {"written", "tested"} /\ xmit # <<>> /\ ~log.missedTx =>
    \/ Busy
    \/ txi \ Cleared # {}
    \/ \E n \in Cleared : box[n].status = "done" /\ ~looked

IInv ==
  /\ Types /\ TxFrames /\ RxFrames /\ RxPending /\ NoRxStall
  /\ TxPending /\ TxMoves /\ NoStaleErrors

LogTx == <<log.written, log.dropped, log.aborted, log.loaded, log.sent>>
LogRx == <<log.arrived, log.lost, log.read>>

-----------------------------------------------------------------------------
(* Constants and helpers.                                                  *)

\* The flags of CAN_ISR and the mailboxes are numbers.
LEMMA Numbers ==
  /\ Boxes \in Nat \ {0} /\ TxSize \in Nat \ {0} /\ RxSize \in Nat \ {0}
  /\ RXI = 0 /\ BOI = Boxes + 1 /\ RBEI = Boxes + 2
  /\ \A n \in Box : n \in Nat \ {0} /\ n # RXI /\ n < BOI
  /\ Box \subseteq RXI .. RBEI /\ Garbage = -1 /\ Nothing = 0
BY CanAssumption DEF RXI, BOI, RBEI, Box, Garbage, Nothing

\* The round-robin stays among the mailboxes.
LEMMA RoundTurns ==
  ASSUME round \in Box
  PROVE  NextRound \in Box
<1>1. Boxes \in Nat \ {0} /\ round \in 1 .. Boxes
  BY Numbers DEF Box
<1>2. round % Boxes \in 0 .. Boxes - 1
  BY <1>1
<1> QED BY <1>1, <1>2 DEF NextRound, Box

\* At most one flag is the first.
LEMMA OneFirst ==
  ASSUME jobs \subseteq RXI .. RBEI, NEW i, NEW j, First(i), First(j)
  PROVE  i = j
<1>1. i \in Int /\ j \in Int /\ i <= j /\ j <= i
  BY Numbers DEF First
<1> QED BY <1>1

\* Frames are integers.
LEMMA IntFrames ==
  ASSUME NEW s \in Seq(Frame)
  PROVE  /\ s \in Seq(Int) /\ Range(s) \subseteq Frame
         /\ s # <<>> => Head(s) \in Frame /\ Tail(s) \in Seq(Frame)
<1>1. s \in Seq(Int)
  BY IntSeq DEF Frame
<1>2. Range(s) \subseteq Frame
  BY ElementOfSeq, LenProperties DEF Range
<1>3. s # <<>> => Head(s) \in Frame /\ Tail(s) \in Seq(Frame)
  BY HeadTailProperties
<1> QED BY <1>1, <1>2, <1>3

\* What a stream holds is of 1 .. n.
LEMMA StreamRange ==
  ASSUME NEW s, NEW n, NEW W, IsStream(s, n, W)
  PROVE  Range(s) \subseteq 1 .. n
BY DEF IsStream, Carries

-----------------------------------------------------------------------------
(* The log: what each action that writes it changes of it.                 *)

\* can_RoundRobin's section.
LEMMA LoadRoundLog ==
  ASSUME Types, LoadRound
  PROVE  /\ log' \in Log /\ LogRx' = LogRx /\ log'.written = log.written
         /\ log'.dropped = log.dropped /\ log'.aborted = log.aborted
         /\ log'.sent = log.sent /\ log'.missedTx = log.missedTx
         /\ log'.missedRx = log.missedRx
         /\ log'.loaded = IF BoxFree /\ xmit # <<>> THEN Append(log.loaded, Head(xmit))
                          ELSE log.loaded
<1> DEFINE s == IF BoxFree /\ xmit # <<>> THEN Append(log.loaded, Head(xmit))
                ELSE log.loaded
<1>1. log.loaded \in Seq(Frame)
  BY DEF Types, Log
<1>2. xmit # <<>> => Head(xmit) \in Frame /\ Head(xmit) # Garbage
  BY IntFrames DEF Types, Frame, Garbage
<1>3. s \in Seq(Frame)
  BY <1>1, <1>2
<1>4. BoxFree => log' = [log EXCEPT !.loaded = s]
  BY <1>2 DEF LoadRound, Popped
<1>5. ~BoxFree => log' = log /\ s = log.loaded
  BY DEF LoadRound
<1> HIDE DEF s
<1>6. CASE BoxFree
  <2>1. log' \in Log
    BY <1>3, <1>4, <1>6 DEF Types, Log
  <2>2. log'.loaded = s
    BY <1>4, <1>6 DEF Types, Log
  <2> QED BY <1>4, <1>6, <2>1, <2>2 DEF Types, Log, LogRx, s
<1>7. CASE ~BoxFree
  BY <1>5, <1>7 DEF Types, LogRx, s
<1> QED BY <1>6, <1>7

\* can_Reset.
LEMMA ResetLog ==
  ASSUME Types, NEW r \in Nat, Reset(r)
  PROVE  /\ log' \in Log /\ log'.written = log.written /\ log'.loaded = log.loaded
         /\ log'.dropped = log.dropped \cup Range(xmit)
         /\ log'.aborted = log.aborted \cup InBoxes /\ log'.sent = log.sent
         /\ log'.arrived = log.arrived /\ log'.read = log.read
         /\ log'.lost = log.lost \cup Range(rcvd) \cup ({rx} \ {Nothing})
         /\ log'.missedTx = log.missedTx /\ log'.missedRx = log.missedRx
<1> DEFINE d == log.dropped \cup Range(xmit)
           a == log.aborted \cup InBoxes
           l == log.lost \cup Range(rcvd) \cup ({rx} \ {Nothing})
<1>1. Range(xmit) \subseteq Nat /\ Range(rcvd) \subseteq Nat
  BY IntFrames DEF Types, Frame
<1>2. InBoxes \subseteq Int
  BY DEF Types, InBoxes
<1>3. d \in SUBSET Nat /\ a \in SUBSET Int /\ l \in SUBSET Nat
  BY <1>1, <1>2 DEF Types, Log
<1>4. log' = [log EXCEPT !.dropped = d, !.aborted = a, !.lost = l, !.resets = r]
  BY DEF Reset
<1> HIDE DEF d, a, l
<1>5. log' \in Log
  BY <1>3, <1>4 DEF Types, Log
<1>6. log'.dropped = d /\ log'.aborted = a /\ log'.lost = l
  BY <1>4 DEF Types, Log
<1> QED BY <1>4, <1>5, <1>6 DEF Types, Log, d, a, l

\* can_Write and can_Read.
LEMMA WriteLog ==
  ASSUME Types, Write
  PROVE  /\ log' \in Log /\ LogRx' = LogRx /\ log'.written = log.written + 1
         /\ log'.dropped = log.dropped /\ log'.aborted = log.aborted
         /\ log'.loaded = log.loaded /\ log'.sent = log.sent
         /\ log'.missedTx = log.missedTx /\ log'.missedRx = log.missedRx
<1> DEFINE n == log.written + 1
<1>1. n \in Nat
  BY DEF Types, Log
<1>2. log' = [log EXCEPT !.written = n]
  BY DEF Write
<1> HIDE DEF n
<1>3. log' \in Log
  BY <1>1, <1>2 DEF Types, Log
<1>4. log'.written = n
  BY <1>2 DEF Types, Log
<1> QED BY <1>2, <1>3, <1>4 DEF Types, Log, LogRx, n

\* What can_Read does to the log.
LEMMA ReadLog ==
  ASSUME Types, Read
  PROVE  /\ log' \in Log /\ LogTx' = LogTx /\ log'.arrived = log.arrived
         /\ log'.lost = log.lost
         /\ log'.read = IF rcvd = <<>> THEN log.read ELSE Append(log.read, Head(rcvd))
         /\ log'.missedTx = log.missedTx /\ log'.missedRx = log.missedRx
<1> DEFINE s == IF rcvd = <<>> THEN log.read ELSE Append(log.read, Head(rcvd))
<1>1. log.read \in Seq(Frame) /\ (rcvd # <<>> => Head(rcvd) \in Frame)
  BY IntFrames DEF Types, Log
<1>2. s \in Seq(Frame)
  BY <1>1
<1>3. log' = [log EXCEPT !.read = s]
  BY DEF Read
<1> HIDE DEF s
<1>4. log' \in Log
  BY <1>2, <1>3 DEF Types, Log
<1>5. log'.read = s
  BY <1>3 DEF Types, Log
<1> QED BY <1>3, <1>4, <1>5 DEF Types, Log, LogTx, s

\* The flushes.
LEMMA FlushTxLog ==
  ASSUME Types, FlushTxQueue
  PROVE  /\ log' \in Log /\ LogRx' = LogRx /\ log'.written = log.written
         /\ log'.dropped = log.dropped \cup Range(xmit) /\ log'.aborted = log.aborted
         /\ log'.loaded = log.loaded /\ log'.sent = log.sent
         /\ log'.missedTx = log.missedTx /\ log'.missedRx = log.missedRx
<1> DEFINE d == log.dropped \cup Range(xmit)
<1>1. d \in SUBSET Nat
  BY IntFrames DEF Types, Log, Frame
<1>2. log' = [log EXCEPT !.dropped = d]
  BY DEF FlushTxQueue
<1> HIDE DEF d
<1>3. log' \in Log
  BY <1>1, <1>2 DEF Types, Log
<1>4. log'.dropped = d
  BY <1>2 DEF Types, Log
<1> QED BY <1>2, <1>3, <1>4 DEF Types, Log, LogRx, d

\* What can_FlushRxQueue does to the log.
LEMMA FlushRxLog ==
  ASSUME Types, FlushRxQueue
  PROVE  /\ log' \in Log /\ LogTx' = LogTx /\ log'.arrived = log.arrived
         /\ log'.lost = log.lost \cup Range(rcvd) /\ log'.read = log.read
         /\ log'.missedTx = log.missedTx /\ log'.missedRx = log.missedRx
<1> DEFINE l == log.lost \cup Range(rcvd)
<1>1. l \in SUBSET Nat
  BY IntFrames DEF Types, Log, Frame
<1>2. log' = [log EXCEPT !.lost = l]
  BY DEF FlushRxQueue
<1> HIDE DEF l
<1>3. log' \in Log
  BY <1>1, <1>2 DEF Types, Log
<1>4. log'.lost = l
  BY <1>2 DEF Types, Log
<1> QED BY <1>2, <1>3, <1>4 DEF Types, Log, LogTx, l

\* CAN_ISR.
LEMMA ServeRxLog ==
  ASSUME Types, ServeRx
  PROVE  /\ log' \in Log /\ LogTx' = LogTx /\ log'.arrived = log.arrived
         /\ log'.lost = IF rcvd' = rcvd THEN log.lost \cup {rx} ELSE log.lost
         /\ log'.read = log.read
         /\ log'.missedTx = log.missedTx /\ log'.missedRx = log.missedRx
<1> DEFINE l == IF rcvd' = rcvd THEN log.lost \cup {rx} ELSE log.lost
<1>1. l \in SUBSET Nat
  BY DEF Types, Log
<1>2. log' = [log EXCEPT !.lost = l]
  BY DEF ServeRx
<1> HIDE DEF l
<1>3. log' \in Log
  BY <1>1, <1>2 DEF Types, Log
<1>4. log'.lost = l
  BY <1>2 DEF Types, Log
<1> QED BY <1>2, <1>3, <1>4 DEF Types, Log, LogTx, l

\* What clearing RXI does to the log.
LEMMA ClearRxLog ==
  ASSUME Types, ClearRx
  PROVE  /\ log' \in Log /\ LogTx' = LogTx /\ LogRx' = LogRx
         /\ log'.missedTx = log.missedTx
         /\ log'.missedRx = (log.missedRx \/ rx # Nothing)
<1> DEFINE m == log.missedRx \/ rx # Nothing
<1>1. m \in BOOLEAN
  OBVIOUS
<1>2. log' = [log EXCEPT !.missedRx = m]
  BY DEF ClearRx
<1> HIDE DEF m
<1>3. log' \in Log
  BY <1>1, <1>2 DEF Types, Log
<1>4. log'.missedRx = m
  BY <1>2 DEF Types, Log
<1> QED BY <1>2, <1>3, <1>4 DEF Types, Log, LogTx, LogRx, m

\* What clearing a mailbox's flag does to the log.
LEMMA ClearTxLog ==
  ASSUME Types, NEW n \in Box, ClearTx(n)
  PROVE  /\ log' \in Log /\ LogTx' = LogTx /\ LogRx' = LogRx
         /\ log'.missedTx = (log.missedTx \/ (box[n].status = "done" /\ ~looked))
         /\ log'.missedRx = log.missedRx
<1> DEFINE m == log.missedTx \/ (box[n].status = "done" /\ ~looked)
<1>1. m \in BOOLEAN
  OBVIOUS
<1>2. log' = [log EXCEPT !.missedTx = m]
  BY DEF ClearTx
<1> HIDE DEF m
<1>3. log' \in Log
  BY <1>1, <1>2 DEF Types, Log
<1>4. log'.missedTx = m
  BY <1>2 DEF Types, Log
<1> QED BY <1>2, <1>3, <1>4 DEF Types, Log, LogTx, LogRx, m

\* The controller and the bus.
LEMMA SentLog ==
  ASSUME Types, NEW n \in Box, Sent(n)
  PROVE  /\ log' \in Log /\ LogRx' = LogRx /\ log'.written = log.written
         /\ log'.dropped = log.dropped /\ log'.aborted = log.aborted
         /\ log'.loaded = log.loaded /\ log'.sent = log.sent \cup {box[n].frame}
         /\ log'.missedTx = log.missedTx /\ log'.missedRx = log.missedRx
<1> DEFINE t == log.sent \cup {box[n].frame}
<1>1. t \in SUBSET Int
  BY DEF Types, Log
<1>2. log' = [log EXCEPT !.sent = t]
  BY DEF Sent
<1> HIDE DEF t
<1>3. log' \in Log
  BY <1>1, <1>2 DEF Types, Log
<1>4. log'.sent = t
  BY <1>2 DEF Types, Log
<1> QED BY <1>2, <1>3, <1>4 DEF Types, Log, LogRx, t

\* What an error on the bus does to the log.
LEMMA ErrorLog ==
  ASSUME Types, RxError \/ BusOff \/ \E n \in Box : TxError(n)
  PROVE  /\ log' \in Log /\ LogTx' = LogTx /\ LogRx' = LogRx
         /\ log'.missedTx = log.missedTx /\ log'.missedRx = log.missedRx
<1> DEFINE e == log.errors + 1
           o == log.offs + 1
<1>1. e \in Nat /\ o \in Nat
  BY DEF Types, Log
<1>2. log' = [log EXCEPT !.errors = e] \/ log' = [log EXCEPT !.offs = o]
  BY DEF RxError, BusOff, TxError
<1> HIDE DEF e, o
<1>3. CASE log' = [log EXCEPT !.errors = e]
  BY <1>1, <1>3 DEF Types, Log, LogTx, LogRx
<1>4. CASE log' = [log EXCEPT !.offs = o]
  BY <1>1, <1>4 DEF Types, Log, LogTx, LogRx
<1> QED BY <1>2, <1>3, <1>4

\* What a frame that arrives does to the log.
LEMMA ArriveLog ==
  ASSUME Types, Arrive
  PROVE  /\ log' \in Log /\ LogTx' = LogTx /\ log'.arrived = log.arrived + 1
         /\ log'.lost = IF rx = Nothing THEN log.lost
                        ELSE log.lost \cup {log.arrived + 1}
         /\ log'.read = log.read
         /\ log'.missedTx = log.missedTx /\ log'.missedRx = log.missedRx
<1> DEFINE a == log.arrived + 1
           l == IF rx = Nothing THEN log.lost ELSE log.lost \cup {a}
<1>1. a \in Nat
  BY DEF Types, Log
<1>2. l \in SUBSET Nat
  BY <1>1 DEF Types, Log
<1>3. log' = [log EXCEPT !.arrived = a, !.lost = l]
  BY DEF Arrive
<1> HIDE DEF l, a
<1>4. log' \in Log
  BY <1>1, <1>2, <1>3 DEF Types, Log
<1>5. log'.arrived = a /\ log'.lost = l
  BY <1>3 DEF Types, Log
<1> QED BY <1>3, <1>4, <1>5 DEF Types, Log, LogTx, l, a

-----------------------------------------------------------------------------
(* Types.                                                                  *)

Mailbox == [status : {"idle", "busy", "done"}, frame : Int, error : BOOLEAN]

\* can_RoundRobin's section: what it does to a free mailbox.
LEMMA LoadRoundBox ==
  ASSUME Types, LoadRound
  PROVE  /\ BoxFree =>
              box' = [box EXCEPT ![round] =
                        [status |-> "busy", frame |-> Popped, error |-> FALSE]]
         /\ ~BoxFree => box' = box
         /\ xmit' = IF BoxFree /\ xmit # <<>> THEN Tail(xmit) ELSE xmit
         /\ Popped \in Int /\ round \in Box
         /\ box' \in [Box -> Mailbox] /\ xmit' \in Seq(Frame) /\ round' \in Box
<1>1. /\ BoxFree =>
           box' = [box EXCEPT ![round] =
                     [status |-> "busy", frame |-> Popped, error |-> FALSE]]
      /\ ~BoxFree => box' = box
      /\ xmit' = IF BoxFree /\ xmit # <<>> THEN Tail(xmit) ELSE xmit
      /\ round' = round \/ round' = NextRound
  BY DEF LoadRound
<1>2. Popped \in Int
  BY IntFrames DEF Types, Popped, Garbage, Frame
<1>3. xmit' \in Seq(Frame)
  BY <1>1, IntFrames DEF Types
<1>4. box' \in [Box -> Mailbox]
  <2>1. box \in [Box -> Mailbox]
    BY DEF Types, Mailbox
  <2>2. [status |-> "busy", frame |-> Popped, error |-> FALSE] \in Mailbox
    BY <1>2 DEF Mailbox
  <2> QED BY <1>1, <2>1, <2>2
<1> QED BY <1>1, <1>2, <1>3, <1>4, RoundTurns DEF Types

\* The types after a reset.
LEMMA ResetTypes ==
  ASSUME Types, NEW r \in Nat, Reset(r)
  PROVE  /\ xmit' = <<>> /\ rcvd' = <<>> /\ errors' = 0 /\ storeError' = storeError
         /\ xmit' \in Seq(Frame) /\ rcvd' \in Seq(Frame) /\ errors' \in Nat
         /\ round' \in Box
         /\ box' = [n \in Box |-> EmptyBox] /\ box' \in [Box -> Mailbox]
         /\ txi' = {} /\ ~rxi' /\ ~boi' /\ ~rei' /\ rxi' \in BOOLEAN
         /\ boi' \in BOOLEAN /\ rei' \in BOOLEAN
         /\ rx' = Nothing /\ off' = FALSE
<1>1. /\ xmit' = <<>> /\ rcvd' = <<>> /\ errors' = 0 /\ storeError' = storeError
      /\ round' = 1 /\ box' = [n \in Box |-> EmptyBox]
      /\ txi' = {} /\ rxi' = FALSE /\ boi' = FALSE /\ rei' = FALSE
      /\ rx' = Nothing /\ off' = FALSE
  BY DEF Reset
<1>2. 1 \in Box
  BY Numbers DEF Box
<1>3. EmptyBox \in Mailbox
  BY DEF EmptyBox, Mailbox, Nothing
<1>4. <<>> \in Seq(Frame)
  BY EmptySeq
<1> QED BY <1>1, <1>2, <1>3, <1>4

\* The number of errors stored.
LEMMA Stored ==
  ASSUME Types
  PROVE  StoredError \in Nat /\ (~storeError => StoredError = errors)
BY DEF Types, StoredError

\* The contents of the queue of received frames.
LEMMA PushedFrame ==
  ASSUME NEW q \in Seq(Frame), NEW f \in Frame
  PROVE  /\ Pushed(q, f) \in Seq(Frame)
         /\ Pushed(q, f) = q \/ (Pushed(q, f) = q \o <<f>> /\ Pushed(q, f) # q)
<1>1. Append(q, f) \in Seq(Frame) /\ Append(q, f) = q \o <<f>>
  BY AppendIsConcat
<1>2. Append(q, f) # q
  <2>1. Len(Append(q, f)) = Len(q) + 1 /\ Len(q) \in Nat
    BY AppendProperties, LenProperties
  <2> QED BY <2>1
<1> QED BY <1>1, <1>2 DEF Pushed

\* What the controller does keeps the types.
LEMMA BusTypes ==
  ASSUME Types, Bus
  PROVE  Types'
<1>1. CASE \E n \in Box : Sent(n) \/ TxError(n)
  <2>1. PICK n \in Box : Sent(n) \/ TxError(n)
    BY <1>1
  <2>2. log' \in Log
    BY <2>1, SentLog, ErrorLog
  <2>3. \/ box' = [box EXCEPT ![n].status = "done", ![n].error = FALSE]
        \/ box' = [box EXCEPT ![n].error = TRUE]
    BY <2>1 DEF Sent, TxError
  <2>4. box' \in [Box -> [status : {"idle", "busy", "done"}, frame : Int, error : BOOLEAN]]
    <3>1. PICK b : box' = [box EXCEPT ![n] = b] /\ b \in Mailbox
      <4>1. box[n] \in Mailbox
        BY DEF Types, Mailbox
      <4>2. /\ [box[n] EXCEPT !.status = "done", !.error = FALSE] \in Mailbox
            /\ [box[n] EXCEPT !.error = TRUE] \in Mailbox
        BY <4>1 DEF Mailbox
      <4>3. \/ box' = [box EXCEPT ![n] = [box[n] EXCEPT !.status = "done", !.error = FALSE]]
            \/ box' = [box EXCEPT ![n] = [box[n] EXCEPT !.error = TRUE]]
        BY <2>3 DEF Types
      <4> QED BY <4>2, <4>3
    <3> QED BY <3>1 DEF Types, Mailbox
  <2>5. txi' \subseteq Box
    BY <2>1 DEF Sent, TxError, Types
  <2>6. UNCHANGED <<queues, round, main, handler, rxi, boi, rei, rx, off>>
    BY <2>1 DEF Sent, TxError
  <2> QED BY <2>2, <2>4, <2>5, <2>6 DEF Types, queues, handler
<1>2. CASE RxError
  <2>1. log' \in Log
    BY <1>2, ErrorLog
  <2> QED BY <1>2, <2>1 DEF RxError, Types, queues, handler
<1>3. CASE Arrive
  <2>1. log' \in Log
    BY <1>3, ArriveLog
  <2>2. rx' \in Nat /\ rxi' \in BOOLEAN
    <3>1. log.arrived + 1 \in Nat
      BY DEF Types, Log
    <3>2. (rx' = log.arrived + 1 /\ rxi' = TRUE) \/ (rx' = rx /\ rxi' = rxi)
      BY <1>3 DEF Arrive
    <3> QED BY <3>1, <3>2 DEF Types
  <2>3. UNCHANGED <<queues, round, main, handler, box, txi, boi, rei, off>>
    BY <1>3 DEF Arrive
  <2> QED BY <2>1, <2>2, <2>3 DEF Types, queues, handler
<1>4. CASE BusOff
  <2>1. log' \in Log
    BY <1>4, ErrorLog
  <2> QED BY <1>4, <2>1 DEF BusOff, Types, queues, handler
<1>5. CASE Recover
  BY <1>5 DEF Recover, Types, queues, handler, flags
<1> QED BY <1>1, <1>2, <1>3, <1>4, <1>5 DEF Bus

\* What the program does keeps the types.
LEMMA ProgramTypes ==
  ASSUME Types, Program
  PROVE  Types'
<1>1. CASE Write
  <2>1. log' \in Log
    BY <1>1, WriteLog
  <2>2. xmit' \in Seq(Frame)
    <3>1. log.written + 1 \in Frame
      BY DEF Types, Log, Frame
    <3>2. xmit' = Append(xmit, log.written + 1)
      BY <1>1 DEF Write
    <3> QED BY <3>1, <3>2 DEF Types
  <2>3. main' = "written" /\ UNCHANGED <<rcvd, errors, storeError, round, handler, hardware>>
    BY <1>1 DEF Write
  <2> QED BY <2>1, <2>2, <2>3 DEF Types, handler, hardware
<1>2. CASE TestQueue
  BY <1>2 DEF TestQueue, Types, queues, handler, hardware
<1>3. CASE LoadTested
  <2>1. log' \in Log
    BY <1>3, LoadRoundLog DEF LoadTested
  <2>2. /\ box' \in [Box -> Mailbox] /\ xmit' \in Seq(Frame) /\ round' \in Box
    BY <1>3, LoadRoundBox DEF LoadTested
  <2>3. main' = "idle" /\ UNCHANGED <<rcvd, errors, storeError, handler, flags, rx, off>>
    BY <1>3 DEF LoadTested
  <2> QED BY <2>1, <2>2, <2>3 DEF Types, Mailbox, handler, flags
<1>4. CASE TestRcvd
  BY <1>4 DEF TestRcvd, Types, queues, handler, hardware
<1>5. CASE Read
  <2>1. log' \in Log
    BY <1>5, ReadLog
  <2>2. rcvd' \in Seq(Frame)
    BY <1>5, IntFrames DEF Read, Types
  <2>3. main' = "idle" /\ UNCHANGED <<xmit, errors, storeError, round, handler, hardware>>
    BY <1>5 DEF Read
  <2> QED BY <2>1, <2>2, <2>3 DEF Types, handler, hardware
<1>6. CASE FlushTxQueue
  <2>1. log' \in Log /\ <<>> \in Seq(Frame)
    BY <1>6, FlushTxLog, EmptySeq
  <2> QED BY <1>6, <2>1 DEF FlushTxQueue, Types, handler, hardware
<1>7. CASE FlushRxQueue
  <2>1. log' \in Log /\ <<>> \in Seq(Frame)
    BY <1>7, FlushRxLog, EmptySeq
  <2> QED BY <1>7, <2>1 DEF FlushRxQueue, Types, handler, hardware
<1>8. CASE EnableStoreError
  BY <1>8 DEF EnableStoreError, Types, handler, hardware
<1>9. CASE DisableStoreError
  <2>1. /\ storeError' \in BOOLEAN /\ errors' \in Nat /\ main' \in {"idle", "disabling"}
        /\ UNCHANGED <<xmit, rcvd, round, handler, hardware, log>>
    <3>1. UNCHANGED <<xmit, rcvd, round, handler, hardware, log>>
      BY <1>9 DEF DisableStoreError
    <3>2. TwoStepDisable
      BY <1>9 DEF DisableStoreError
    <3>3. /\ (storeError' = FALSE /\ errors' = errors)
                \/ (errors' = 0 /\ storeError' = storeError)
          /\ main' = "disabling" \/ main' = "idle"
      BY <3>2 DEF TwoStepDisable, StopStoring, ClearErrors
    <3>4. storeError' \in BOOLEAN /\ errors' \in Nat
      <4>1. storeError \in BOOLEAN /\ errors \in Nat /\ 0 \in Nat
        BY DEF Types
      <4>2. storeError' \in BOOLEAN
        BY <3>3, <4>1, Zenon
      <4>3. errors' \in Nat
        BY <3>3, <4>1, Zenon
      <4> QED BY <4>2, <4>3
    <3> QED BY <3>1, <3>3, <3>4
  <2> QED BY <2>1 DEF Types, handler, hardware
<1>10. CASE TestErrors \/ PopError
  <2>1. CASE TestErrors
    BY <2>1 DEF TestErrors, Types, queues, handler, hardware
  <2>2. CASE PopError
    <3>1. errors' \in Nat
      BY <2>2 DEF PopError, Types
    <3> QED BY <2>2, <3>1 DEF PopError, Types, handler, hardware
  <2> QED BY <1>10, <2>1, <2>2
<1>11. CASE ResetByProgram
  <2>1. PICK r \in Nat : Reset(r)
    BY <1>11 DEF ResetByProgram, Types, Log
  <2>2. UNCHANGED <<main, handler>>
    BY <1>11 DEF ResetByProgram
  <2> QED BY <2>1, <2>2, ResetTypes, ResetLog DEF Types, Mailbox, handler, Nothing
<1> QED BY <1>1, <1>2, <1>3, <1>4, <1>5, <1>6, <1>7, <1>8, <1>9, <1>10, <1>11 DEF Program

\* What a mailbox's part of CAN_ISR does to the queue and the mailboxes.
LEMMA Refilled ==
  ASSUME NEW n \in Box, ServeTx(n)
  PROVE  \/ /\ box[n].status = "done" /\ xmit # <<>> /\ LoadRound
         \/ /\ UNCHANGED <<box, xmit, round, log>>
            /\ box[n].status = "done" => xmit = <<>>
BY DEF ServeTx, Refill, RoundRobin

\* What CAN_ISR does keeps the types: it finds a frame when it looks for one.
LEMMA IsrTypes ==
  ASSUME Types, RxPending, Isr
  PROVE  Types'
<1>1. CASE IsrEntry
  <2>1. jobs' \subseteq RXI .. RBEI
    BY <1>1 DEF IsrEntry, Flagged
  <2> QED BY <1>1, <2>1 DEF IsrEntry, Types, queues, flags
<1>2. CASE ServeRx
  <2>1. rx \in Frame
    <3>1. RXI \in jobs /\ phase = "serve"
      BY <1>2 DEF ServeRx, Serving, First
    <3> QED BY <3>1 DEF RxPending, Clearing, Types, Frame, Nothing
  <2>2. log' \in Log
    BY <1>2, ServeRxLog
  <2>3. rcvd' \in Seq(Frame)
    BY <1>2, <2>1, PushedFrame DEF ServeRx, Types
  <2>4. /\ rx' = Nothing /\ phase' = "clear"
        /\ UNCHANGED <<xmit, errors, storeError, round, main, jobs, looked, box, flags, off>>
    BY <1>2 DEF ServeRx
  <2> QED BY <2>2, <2>3, <2>4 DEF Types, flags, Nothing
<1>3. CASE ClearRx
  <2>1. log' \in Log
    BY <1>3, ClearRxLog
  <2>2. jobs' \subseteq RXI .. RBEI
    BY <1>3 DEF ClearRx, Done, Types
  <2> QED BY <1>3, <2>1, <2>2 DEF ClearRx, Types, queues
<1>4. ASSUME NEW n \in Box, ServeTx(n)
      PROVE  Types'
  <2>1. \/ LoadRound
        \/ UNCHANGED <<box, xmit, round, log>>
    BY <1>4, Refilled
  <2>2. /\ box' \in [Box -> Mailbox] /\ xmit' \in Seq(Frame) /\ round' \in Box
        /\ log' \in Log
    BY <2>1, LoadRoundBox, LoadRoundLog DEF Types, Mailbox
  <2>3. errors' \in Nat
    BY <1>4, Stored DEF ServeTx, Types
  <2>4. /\ looked' \in BOOLEAN /\ phase' = "clear"
        /\ UNCHANGED <<rcvd, storeError, main, jobs, flags, rx, off>>
    BY <1>4 DEF ServeTx
  <2> QED BY <2>2, <2>3, <2>4 DEF Types, Mailbox, flags
<1>5. ASSUME NEW n \in Box, ClearTx(n)
      PROVE  Types'
  <2>1. log' \in Log
    BY <1>5, ClearTxLog
  <2>2. jobs' \subseteq RXI .. RBEI /\ txi' \subseteq Box /\ rxi' = rxi
    BY <1>5 DEF ClearTx, ClearsOne, Done, Types
  <2> QED BY <1>5, <2>1, <2>2 DEF ClearTx, Types, queues
<1>6. CASE ServeBusOff
  <2>1. jobs' \subseteq RXI .. RBEI /\ UNCHANGED <<main, phase, looked>>
    BY <1>6 DEF ServeBusOff, Done, Types
  <2>2. \/ Reset(log.resets)
        \/ boi' = FALSE /\ UNCHANGED <<queues, round, box, txi, rxi, rei, rx, off, log>>
    BY <1>6 DEF ServeBusOff
  <2>3. CASE Reset(log.resets)
    <3>1. log.resets \in Nat
      BY DEF Types, Log
    <3> QED BY <2>1, <2>3, <3>1, ResetTypes, ResetLog DEF Types, Mailbox, Nothing
  <2>4. CASE boi' = FALSE /\ UNCHANGED <<queues, round, box, txi, rxi, rei, rx, off, log>>
    BY <2>1, <2>4 DEF Types, queues
  <2> QED BY <2>2, <2>3, <2>4
<1>7. CASE ServeRxError
  <2>1. jobs' \subseteq RXI .. RBEI /\ errors' \in Nat
    BY <1>7, Stored DEF ServeRxError, Done, Types
  <2> QED BY <1>7, <2>1 DEF ServeRxError, Types
<1> QED BY <1>1, <1>2, <1>3, <1>4, <1>5, <1>6, <1>7 DEF Isr

-----------------------------------------------------------------------------
(* Frames to transmit.                                                     *)

\* The frame of mailbox m, if it is busy with one that was written.
LEMMA InBoxesAre ==
  ASSUME Types
  PROVE  /\ \A f : f \in InBoxes <=>
              f # Garbage /\ \E m \in Box : box[m].status = "busy" /\ f = box[m].frame
         /\ \A f : f \in InBoxes' <=>
              f # Garbage /\ \E m \in Box : box'[m].status = "busy" /\ f = box'[m].frame
BY DEF InBoxes

\* A round of can_RoundRobin moves the oldest frame from the queue to a mailbox.
LEMMA LoadRoundTx ==
  ASSUME Types, TxFrames, LoadRound
  PROVE  TxFrames'
<1> DEFINE s == log.loaded
           f == Head(xmit)
<1>1. /\ s \in Seq(Frame) /\ xmit \in Seq(Frame)
  BY DEF Types, Log
<1>2. /\ log'.written = log.written /\ log'.dropped = log.dropped
      /\ log'.aborted = log.aborted /\ log'.sent = log.sent
      /\ log'.loaded = IF BoxFree /\ xmit # <<>> THEN Append(s, f) ELSE s
  BY LoadRoundLog
<1>3. /\ BoxFree =>
           box' = [box EXCEPT ![round] =
                     [status |-> "busy", frame |-> Popped, error |-> FALSE]]
      /\ ~BoxFree => box' = box
      /\ xmit' = IF BoxFree /\ xmit # <<>> THEN Tail(xmit) ELSE xmit
  BY LoadRoundBox
<1>4. /\ IsStream(s \o xmit, log.written, log.dropped)
      /\ Range(s) = (log.sent \ {Garbage}) \cup InBoxes \cup log.aborted
      /\ log.dropped \subseteq 1 .. log.written
  BY DEF TxFrames, TxStream
<1>5. CASE ~BoxFree
  <2>1. xmit' = xmit /\ log'.loaded = s /\ box' = box
    BY <1>2, <1>3, <1>5
  <2>2. InBoxes' = InBoxes
    BY <2>1 DEF InBoxes
  <2> QED BY <1>2, <1>4, <2>1, <2>2 DEF TxFrames, TxStream
<1>6. CASE BoxFree
  <2>1. box' = [box EXCEPT ![round] =
                     [status |-> "busy", frame |-> Popped, error |-> FALSE]]
    BY <1>3, <1>6
  <2>2. round \in Box /\ box \in [Box -> Mailbox] /\ box[round].status # "busy"
    BY <1>6 DEF BoxFree, Types, Mailbox
  <2>3. /\ box'[round].status = "busy" /\ box'[round].frame = Popped
        /\ \A m \in Box : m # round => box'[m] = box[m]
    BY <2>1, <2>2
  <2>4. InBoxes' = InBoxes \cup ({Popped} \ {Garbage})
    <3>1. ASSUME NEW g
          PROVE  g \in InBoxes' <=> g \in InBoxes \/ (g # Garbage /\ g = Popped)
      BY <2>2, <2>3, InBoxesAre
    <3> QED BY <3>1
  <2>5. CASE xmit = <<>>
    <3>1. InBoxes' = InBoxes /\ log'.loaded = s /\ xmit' = xmit
      BY <1>2, <1>3, <2>4, <2>5 DEF Popped
    <3> QED BY <1>2, <1>4, <3>1 DEF TxFrames, TxStream
  <2>6. CASE xmit # <<>>
    <3>1. /\ f \in Frame /\ Tail(xmit) \in Seq(Frame) /\ <<f>> \o Tail(xmit) = xmit
          /\ <<f>> \in Seq(Frame)
      BY <1>1, <2>6, HeadAndTail
    <3>2. /\ log'.loaded = s \o <<f>> /\ xmit' = Tail(xmit)
      BY <1>1, <1>2, <1>3, <1>6, <2>6, <3>1, AppendIsConcat
    <3>3. Popped = f /\ f # Garbage
      BY <2>6, <3>1 DEF Popped, Frame, Garbage
    <3> DEFINE h == <<f>>
               t == Tail(xmit)
    <3>4. /\ s \in Seq(Int) /\ h \in Seq(Int) /\ t \in Seq(Int) /\ h \o t = xmit
          /\ Range(h) = {f}
      BY <1>1, <3>1, IntFrames, One DEF Frame
    <3>5. log'.loaded = s \o h /\ xmit' = t
      BY <3>2
    <3> HIDE DEF h, t, s, f
    <3>6. log'.loaded \o xmit' = s \o xmit
      <4>1. s \o h \o t = s \o (h \o t)
        BY <3>4, Associative, Zenon
      <4> QED BY <3>4, <3>5, <4>1
    <3>7. Range(log'.loaded) = Range(s) \cup {f}
      BY <3>4, <3>5, Joined
    <3>8. Range(log'.loaded) = (log'.sent \ {Garbage}) \cup InBoxes' \cup log'.aborted
      BY <1>2, <1>4, <2>4, <3>3, <3>7
    <3> QED BY <1>2, <1>4, <3>6, <3>8 DEF TxFrames, TxStream
  <2> QED BY <2>5, <2>6
<1> QED BY <1>5, <1>6

\* What was queued is thrown away.
LEMMA Thrown ==
  ASSUME Types, TxFrames
  PROVE  LET d == log.dropped \cup Range(xmit) IN
         /\ IsStream(log.loaded \o <<>>, log.written, d)
         /\ d \subseteq 1 .. log.written
<1> DEFINE s == log.loaded
<1>1. /\ s \in Seq(Int) /\ xmit \in Seq(Int) /\ log.written \in Nat
      /\ s \o <<>> = s
  <2>1. s \in Seq(Frame) /\ xmit \in Seq(Frame) /\ log.written \in Nat
    BY DEF Types, Log
  <2>2. s \in Seq(Int) /\ xmit \in Seq(Int)
    BY <2>1, IntFrames
  <2> QED BY <2>1, <2>2, ConcatEmptySeq
<1>2. IsStream(s \o xmit, log.written, log.dropped) /\ log.dropped \subseteq 1 .. log.written
  BY DEF TxFrames, TxStream
<1> HIDE DEF s
<1>3. IsStream(s, log.written, log.dropped \cup Range(xmit))
  BY <1>1, <1>2, TakenOff
<1>4. Range(xmit) \subseteq 1 .. log.written
  <2>1. Range(s \o xmit) \subseteq 1 .. log.written
    BY <1>2, StreamRange
  <2> QED BY <1>1, <2>1, Joined
<1> QED BY <1>1, <1>2, <1>3, <1>4 DEF s

\* can_Reset: frames in mailboxes are aborted.
LEMMA ResetTx ==
  ASSUME Types, TxFrames, NEW r \in Nat, Reset(r)
  PROVE  TxFrames'
<1>1. /\ log'.written = log.written /\ log'.loaded = log.loaded
      /\ log'.dropped = log.dropped \cup Range(xmit)
      /\ log'.aborted = log.aborted \cup InBoxes /\ log'.sent = log.sent
  BY ResetLog
<1>2. xmit' = <<>> /\ box' = [n \in Box |-> EmptyBox]
  BY ResetTypes
<1>3. InBoxes' = {}
  <2>1. \A m \in Box : box'[m].status # "busy"
    BY <1>2 DEF EmptyBox
  <2> QED BY <2>1, InBoxesAre
<1>4. Range(log'.loaded) = (log'.sent \ {Garbage}) \cup InBoxes' \cup log'.aborted
  BY <1>1, <1>3 DEF TxFrames, TxStream
<1> QED BY <1>1, <1>2, <1>4, Thrown DEF TxFrames, TxStream

\* can_Write.
LEMMA WriteTx ==
  ASSUME Types, TxFrames, Write
  PROVE  TxFrames'
<1> DEFINE s == log.loaded
           n == log.written
           h == <<n + 1>>
<1>1. /\ log'.written = n + 1 /\ log'.dropped = log.dropped
      /\ log'.aborted = log.aborted /\ log'.loaded = s /\ log'.sent = log.sent
  BY WriteLog
<1>2. box' = box /\ xmit' = Append(xmit, n + 1)
  BY DEF Write, hardware
<1>3. /\ s \in Seq(Int) /\ xmit \in Seq(Int) /\ n \in Nat
  BY IntFrames DEF Types, Log
<1>4. xmit' = xmit \o h /\ h \in Seq(Int)
  BY <1>2, <1>3, AppendIsConcat, One
<1>5. IsStream(s \o xmit, n, log.dropped) /\ log.dropped \subseteq 1 .. n
  BY DEF TxFrames, TxStream
<1>6. IsStream(s \o xmit \o h, n + 1, log.dropped)
  <2> DEFINE w == s \o xmit
  <2>1. w \in Seq(Int) /\ log.dropped \in SUBSET (1 .. n) /\ IsStream(w, n, log.dropped)
    BY <1>3, <1>5, ConcatProperties
  <2> HIDE DEF w, n, s
  <2> QED BY <1>3, <2>1, NextNumber DEF w
<1>7. s \o xmit \o h = s \o (xmit \o h)
  <2> HIDE DEF s, h
  <2> QED BY <1>3, <1>4, Associative, Zenon
<1>8. IsStream(log'.loaded \o xmit', n + 1, log.dropped)
  BY <1>1, <1>4, <1>6, <1>7
<1>9. InBoxes' = InBoxes
  BY <1>2 DEF InBoxes
<1>10. log.dropped \subseteq 1 .. n + 1
  BY <1>3, <1>5
<1> QED BY <1>1, <1>8, <1>9, <1>10 DEF TxFrames, TxStream

\* A frame is sent, or a try fails.
LEMMA SentTx ==
  ASSUME Types, TxFrames, NEW n \in Box, Sent(n) \/ TxError(n)
  PROVE  TxFrames'
<1>1. box \in [Box -> Mailbox] /\ box[n].status = "busy" /\ xmit' = xmit
  BY DEF Types, Mailbox, Sent, TxError, queues
<1>2. CASE Sent(n)
  <2>1. box' = [box EXCEPT ![n].status = "done", ![n].error = FALSE]
    BY <1>2 DEF Sent
  <2>2. box'[n].status = "done" /\ \A m \in Box : m # n => box'[m] = box[m]
    BY <1>1, <2>1 DEF Mailbox
  <2>3. InBoxes \subseteq InBoxes' \cup ({box[n].frame} \ {Garbage})
    BY <2>2, InBoxesAre
  <2>4. InBoxes' \subseteq InBoxes /\ ({box[n].frame} \ {Garbage}) \subseteq InBoxes
    BY <1>1, <2>2, InBoxesAre
  <2>5. /\ log'.written = log.written /\ log'.dropped = log.dropped
        /\ log'.aborted = log.aborted
        /\ log'.loaded = log.loaded /\ log'.sent = log.sent \cup {box[n].frame}
    BY <1>2, SentLog
  <2>6. Range(log'.loaded) = (log'.sent \ {Garbage}) \cup InBoxes' \cup log'.aborted
    BY <2>3, <2>4, <2>5 DEF TxFrames, TxStream
  <2> QED BY <1>1, <2>5, <2>6 DEF TxFrames, TxStream
<1>3. CASE TxError(n)
  <2>1. box' = [box EXCEPT ![n].error = TRUE]
    BY <1>3 DEF TxError
  <2>2. \A m \in Box : box'[m].status = box[m].status /\ box'[m].frame = box[m].frame
    BY <1>1, <2>1 DEF Mailbox
  <2>3. InBoxes' = InBoxes
    <3>1. ASSUME NEW f PROVE f \in InBoxes' <=> f \in InBoxes
      BY <2>2, InBoxesAre
    <3> QED BY <3>1
  <2>4. LogTx' = LogTx
    BY <1>3, ErrorLog
  <2> QED BY <1>1, <2>3, <2>4 DEF TxFrames, TxStream, LogTx
<1> QED BY <1>2, <1>3

\* No other step moves a frame to transmit.
LEMMA TxQuiet ==
  ASSUME Types,
         \/ TestQueue \/ TestRcvd \/ Read \/ FlushRxQueue \/ EnableStoreError
         \/ DisableStoreError \/ TestErrors \/ PopError \/ IsrEntry \/ ServeRx \/ ClearRx
         \/ \E n \in Box : ClearTx(n)
         \/ ServeRxError \/ RxError \/ Arrive \/ BusOff \/ Recover
         \/ UNCHANGED vars
  PROVE  LogTx' = LogTx /\ xmit' = xmit /\ box' = box
<1>1. xmit' = xmit /\ box' = box
  BY DEF TestQueue, TestRcvd, Read, FlushRxQueue, EnableStoreError, DisableStoreError,
         TestErrors, PopError, IsrEntry, ServeRx, ClearRx, ClearTx, ServeRxError, RxError,
         Arrive,
         BusOff, Recover, queues, hardware, vars
<1>2. CASE \/ TestQueue \/ TestRcvd \/ EnableStoreError \/ DisableStoreError
           \/ TestErrors \/ PopError \/ IsrEntry \/ ServeRxError \/ Recover
           \/ UNCHANGED vars
  <2>1. log' = log
    BY <1>2 DEF TestQueue, TestRcvd, EnableStoreError, DisableStoreError, TestErrors,
                PopError,
                IsrEntry, ServeRxError, Recover, vars
  <2> QED BY <1>1, <2>1 DEF LogTx
<1>3. CASE \/ Read \/ FlushRxQueue \/ ServeRx \/ ClearRx \/ RxError \/ Arrive \/ BusOff
           \/ \E n \in Box : ClearTx(n)
  BY <1>1, <1>3, ReadLog, FlushRxLog, ServeRxLog, ClearRxLog, ErrorLog, ArriveLog,
     ClearTxLog
<1> QED BY <1>2, <1>3

\* Every step keeps track of the frames to transmit.
LEMMA TxStep ==
  ASSUME Types, TxFrames, [Next]_vars
  PROVE  TxFrames'
<1>1. CASE LoadTested \/ \E n \in Box : ServeTx(n)
  <2>1. LoadRound \/ UNCHANGED <<box, xmit, round, log>>
    BY <1>1, Refilled DEF LoadTested
  <2>2. CASE UNCHANGED <<box, xmit, round, log>>
    BY <2>2 DEF TxFrames, TxStream, InBoxes
  <2> QED BY <2>1, <2>2, LoadRoundTx
<1>2. CASE ResetByProgram \/ ServeBusOff
  <2>1. log.resets \in Nat /\ log.resets + 1 \in Nat
    BY DEF Types, Log
  <2>2. (\E r \in Nat : Reset(r)) \/ UNCHANGED <<xmit, box, log>>
    BY <1>2, <2>1 DEF ResetByProgram, ServeBusOff, queues
  <2>3. CASE UNCHANGED <<xmit, box, log>>
    BY <2>3 DEF TxFrames, TxStream, InBoxes
  <2> QED BY <2>2, <2>3, ResetTx
<1>3. CASE Write
  BY <1>3, WriteTx
<1>4. CASE FlushTxQueue
  <2>1. xmit' = <<>> /\ box' = box
    BY <1>4 DEF FlushTxQueue, hardware
  <2>2. InBoxes' = InBoxes
    BY <2>1 DEF InBoxes
  <2> QED BY <1>4, <2>1, <2>2, FlushTxLog, Thrown DEF TxFrames, TxStream
<1>5. CASE \E n \in Box : Sent(n) \/ TxError(n)
  BY <1>5, SentTx
<1>6. CASE /\ LogTx' = LogTx /\ xmit' = xmit /\ box' = box
  <2>1. InBoxes' = InBoxes
    BY <1>6 DEF InBoxes
  <2> QED BY <1>6, <2>1 DEF TxFrames, TxStream, LogTx
<1> QED
  BY <1>1, <1>2, <1>3, <1>4, <1>5, <1>6, TxQuiet DEF Next, Program, Isr, Bus

-----------------------------------------------------------------------------
(* Received frames.                                                        *)

\* What the controller holds.
LEMMA HeldFrame ==
  ASSUME Types
  PROVE  /\ Held \in Seq(Int) /\ Range(Held) = {rx} \ {Nothing}
         /\ rx # Nothing => rx \in Frame /\ Held = <<rx>>
         /\ rx = Nothing => Held = <<>>
<1>1. CASE rx = Nothing
  BY <1>1, EmptySeq, NoStream DEF Held
<1>2. CASE rx # Nothing
  BY <1>2, One DEF Held, Types, Frame, Nothing
<1> QED BY <1>1, <1>2

\* The parts of the stream of received frames.
LEMMA RxParts ==
  ASSUME Types, RxFrames
  PROVE  /\ log.read \in Seq(Int) /\ rcvd \in Seq(Int) /\ Held \in Seq(Int)
         /\ log.arrived \in Nat /\ log.lost \in SUBSET (1 .. log.arrived)
         /\ IsStream(log.read \o rcvd \o Held, log.arrived, log.lost)
         /\ Range(rcvd) \subseteq 1 .. log.arrived
         /\ Range(Held) \subseteq 1 .. log.arrived
<1> DEFINE s == log.read
<1>1. s \in Seq(Int) /\ rcvd \in Seq(Int) /\ Held \in Seq(Int) /\ log.arrived \in Nat
  BY IntFrames, HeldFrame DEF Types, Log
<1>2. IsStream(s \o rcvd \o Held, log.arrived, log.lost) /\ log.lost \subseteq 1 .. log.arrived
  BY DEF RxFrames, RxStream
<1>3. Range(s \o rcvd \o Held) \subseteq 1 .. log.arrived
  BY <1>2, StreamRange
<1> HIDE DEF s
<1>4. Range(s \o rcvd \o Held) = Range(s) \cup Range(rcvd) \cup Range(Held)
  BY <1>1, RangeOfThree
<1> QED BY <1>1, <1>2, <1>3, <1>4 DEF s

\* The queue is thrown away, or with it what the controller holds.
LEMMA Emptied ==
  ASSUME Types, RxFrames
  PROVE  LET l == log.lost \cup Range(rcvd) IN
         /\ IsStream(log.read \o <<>> \o Held, log.arrived, l)
         /\ l \subseteq 1 .. log.arrived
         /\ IsStream(log.read \o <<>> \o <<>>, log.arrived, l \cup ({rx} \ {Nothing}))
         /\ l \cup ({rx} \ {Nothing}) \subseteq 1 .. log.arrived
<1> DEFINE s == log.read
           n == log.arrived
           l == log.lost \cup Range(rcvd)
           h == Held
<1>1. /\ s \in Seq(Int) /\ rcvd \in Seq(Int) /\ h \in Seq(Int) /\ n \in Nat
      /\ IsStream(s \o rcvd \o h, n, log.lost)
      /\ l \subseteq 1 .. n /\ Range(h) \subseteq 1 .. n /\ Range(h) = {rx} \ {Nothing}
  BY RxParts, HeldFrame
<1>2. IsStream(s \o h, n, l)
  <2> HIDE DEF s, n, h
  <2> QED BY <1>1, TakenOut
<1>3. IsStream(s, n, l \cup Range(h))
  <2> HIDE DEF s, n, l, h
  <2> QED BY <1>1, <1>2, TakenOff
<1>4. s \o <<>> = s
  <2> HIDE DEF s
  <2> QED BY <1>1, ConcatEmptySeq
<1> QED BY <1>1, <1>2, <1>3, <1>4

\* can_Reset.
LEMMA ResetRx ==
  ASSUME Types, RxFrames, NEW r \in Nat, Reset(r)
  PROVE  RxFrames'
<1>1. /\ log'.arrived = log.arrived /\ log'.read = log.read
      /\ log'.lost = log.lost \cup Range(rcvd) \cup ({rx} \ {Nothing})
  BY ResetLog
<1>2. rcvd' = <<>> /\ Held' = <<>>
  BY ResetTypes DEF Held
<1> QED BY <1>1, <1>2, Emptied DEF RxFrames, RxStream

\* can_FlushRxQueue.
LEMMA FlushRx ==
  ASSUME Types, RxFrames, FlushRxQueue
  PROVE  RxFrames'
<1>1. /\ log'.arrived = log.arrived /\ log'.read = log.read
      /\ log'.lost = log.lost \cup Range(rcvd)
  BY FlushRxLog
<1>2. rcvd' = <<>> /\ rx' = rx
  BY DEF FlushRxQueue, hardware
<1>3. Held' = Held
  BY <1>2 DEF Held
<1> QED BY <1>1, <1>2, <1>3, Emptied DEF RxFrames, RxStream

\* can_Read moves the oldest frame of the queue to the program.
LEMMA ReadRx ==
  ASSUME Types, RxFrames, Read
  PROVE  RxFrames'
<1> DEFINE s == log.read
<1>1. /\ s \in Seq(Frame) /\ rcvd \in Seq(Frame)
  BY DEF Types, Log
<1>2. /\ log'.arrived = log.arrived /\ log'.lost = log.lost
      /\ log'.read = IF rcvd = <<>> THEN s ELSE Append(s, Head(rcvd))
  BY ReadLog
<1>3. rcvd' = (IF rcvd = <<>> THEN rcvd ELSE Tail(rcvd)) /\ rx' = rx
  BY DEF Read, hardware
<1>4. Held' = Held
  BY <1>3 DEF Held
<1>5. log'.read \o rcvd' = s \o rcvd
  <2>1. CASE rcvd = <<>>
    BY <1>2, <1>3, <2>1
  <2>2. CASE rcvd # <<>>
    <3> DEFINE h == <<Head(rcvd)>>
               t == Tail(rcvd)
    <3>1. h \in Seq(Frame) /\ t \in Seq(Frame) /\ h \o t = rcvd /\ Head(rcvd) \in Frame
      BY <1>1, <2>2, HeadAndTail
    <3>2. log'.read = s \o h /\ rcvd' = t
      BY <1>1, <1>2, <1>3, <2>2, <3>1, AppendIsConcat
    <3>3. s \in Seq(Int) /\ h \in Seq(Int) /\ t \in Seq(Int)
      BY <1>1, <3>1, IntFrames
    <3> HIDE DEF s, h, t
    <3>4. s \o h \o t = s \o (h \o t)
      BY <3>3, Associative, Zenon
    <3> QED BY <3>1, <3>2, <3>4
  <2> QED BY <2>1, <2>2
<1> QED BY <1>2, <1>4, <1>5 DEF RxFrames, RxStream

\* CAN_ISR moves the frame from the controller to the queue, or drops it.
LEMMA ServeRxStream ==
  ASSUME Types, RxFrames, RxPending, ServeRx
  PROVE  RxFrames'
<1> DEFINE s == log.read
           n == log.arrived
           h == <<rx>>
<1>1. rx # Nothing
  <2>1. RXI \in jobs /\ phase = "serve"
    BY DEF ServeRx, Serving, First
  <2> QED BY <2>1 DEF RxPending, Clearing
<1>2. rx \in Frame /\ Held = h /\ Range(h) = {rx}
  BY <1>1, HeldFrame
<1>3. /\ s \in Seq(Int) /\ rcvd \in Seq(Int) /\ h \in Seq(Int)
      /\ n \in Nat /\ log.lost \in SUBSET (1 .. n)
      /\ IsStream(s \o rcvd \o h, n, log.lost) /\ Range(h) \subseteq 1 .. n
  BY <1>2, RxParts
<1>4. Held' = <<>>
  BY DEF ServeRx, Held
<1>5. /\ log'.arrived = n /\ log'.read = s
      /\ log'.lost = IF rcvd' = rcvd THEN log.lost \cup {rx} ELSE log.lost
  BY ServeRxLog
<1>6. rcvd' = rcvd \/ (rcvd' = rcvd \o h /\ rcvd' # rcvd)
  BY <1>2, PushedFrame DEF ServeRx, Types
<1>7. s \o rcvd \in Seq(Int) /\ s \o rcvd \o h \in Seq(Int) /\ rcvd \o h \in Seq(Int)
  BY <1>3, ConcatProperties
<1>8. CASE rcvd' = rcvd
  <2> DEFINE w == s \o rcvd
  <2>1. IsStream(w, n, log.lost \cup Range(h))
    <3> HIDE DEF h, w, n
    <3> QED BY <1>3, <1>7, TakenOff DEF w
  <2>2. s \o rcvd \o <<>> = s \o rcvd
    <3> HIDE DEF s
    <3> QED BY <1>7, ConcatEmptySeq
  <2>3. log'.lost = log.lost \cup {rx} /\ log'.lost \subseteq 1 .. n
    BY <1>2, <1>3, <1>5, <1>8
  <2> QED BY <1>2, <1>4, <1>5, <1>8, <2>1, <2>2, <2>3 DEF RxFrames, RxStream
<1>9. CASE rcvd' = rcvd \o h /\ rcvd' # rcvd
  <2>1. s \o rcvd' \o <<>> = s \o rcvd \o h
    <3> HIDE DEF s, h
    <3>1. s \o rcvd \o h = s \o (rcvd \o h)
      BY <1>3, Associative, Zenon
    <3>2. s \o rcvd' = s \o rcvd \o h
      BY <1>9, <3>1
    <3>3. s \o rcvd \o h \o <<>> = s \o rcvd \o h
      BY <1>7, ConcatEmptySeq
    <3> QED BY <3>2, <3>3
  <2>2. log'.lost = log.lost
    BY <1>5, <1>9
  <2> QED BY <1>3, <1>4, <1>5, <2>1, <2>2 DEF RxFrames, RxStream
<1> QED BY <1>6, <1>8, <1>9

\* A frame comes in, or is overrun.
LEMMA ArriveRx ==
  ASSUME Types, RxFrames, Arrive
  PROVE  RxFrames'
<1> DEFINE s == log.read
           n == log.arrived
           w == s \o rcvd
           h == <<n + 1>>
<1>1. /\ s \in Seq(Int) /\ rcvd \in Seq(Int) /\ Held \in Seq(Int)
      /\ n \in Nat /\ log.lost \in SUBSET (1 .. n)
      /\ IsStream(w \o Held, n, log.lost)
  BY RxParts
<1>2. w \in Seq(Int) /\ w \o Held \in Seq(Int)
  BY <1>1, ConcatProperties
<1>3. /\ log'.arrived = n + 1 /\ log'.read = s
      /\ log'.lost = IF rx = Nothing THEN log.lost ELSE log.lost \cup {n + 1}
  BY ArriveLog
<1>4. rcvd' = rcvd
  BY DEF Arrive, queues
<1>5. CASE rx = Nothing
  <2>1. Held = <<>> /\ Held' = h
    BY <1>1, <1>5 DEF Arrive, Held, Nothing
  <2>2. IsStream(w, n, log.lost)
    <3> HIDE DEF w
    <3> QED BY <1>1, <1>2, <2>1, ConcatEmptySeq
  <2>3. IsStream(w \o h, n + 1, log.lost)
    <3> HIDE DEF w, n
    <3> QED BY <1>1, <1>2, <2>2, NextNumber
  <2>4. log'.lost = log.lost /\ log.lost \subseteq 1 .. n + 1
    BY <1>1, <1>3, <1>5
  <2> QED BY <1>3, <1>4, <2>1, <2>3, <2>4 DEF RxFrames, RxStream
<1>6. CASE rx # Nothing
  <2>1. Held' = Held
    BY <1>6 DEF Arrive, Held
  <2>2. IsStream(w \o Held, n + 1, log.lost \cup {n + 1})
    <3> DEFINE v == w \o Held
    <3>1. IsStream(v, n, log.lost)
      BY <1>1
    <3> HIDE DEF v, n
    <3> QED BY <1>1, <3>1, LostNumber DEF v
  <2>3. log'.lost = log.lost \cup {n + 1} /\ log.lost \cup {n + 1} \subseteq 1 .. n + 1
    BY <1>1, <1>3, <1>6
  <2> QED BY <1>3, <1>4, <2>1, <2>2, <2>3 DEF RxFrames, RxStream
<1> QED BY <1>5, <1>6

\* No other step moves a received frame.
LEMMA RxQuiet ==
  ASSUME Types,
         \/ Write \/ TestQueue \/ TestRcvd \/ FlushTxQueue \/ EnableStoreError
         \/ DisableStoreError \/ TestErrors \/ PopError \/ IsrEntry \/ ClearRx
         \/ \E n \in Box : ClearTx(n) \/ Sent(n) \/ TxError(n)
         \/ ServeRxError \/ RxError \/ BusOff \/ Recover
         \/ UNCHANGED vars
  PROVE  LogRx' = LogRx /\ rcvd' = rcvd /\ rx' = rx
<1>1. rcvd' = rcvd /\ rx' = rx
  BY DEF Write, TestQueue, TestRcvd, FlushTxQueue, EnableStoreError, DisableStoreError,
         TestErrors, PopError, IsrEntry, ClearRx, ClearTx, Sent, TxError, ServeRxError,
         RxError,
         BusOff, Recover, queues, hardware, vars
<1>2. CASE \/ TestQueue \/ TestRcvd \/ EnableStoreError \/ DisableStoreError
           \/ TestErrors \/ PopError \/ IsrEntry \/ ServeRxError \/ Recover
           \/ UNCHANGED vars
  <2>1. log' = log
    BY <1>2 DEF TestQueue, TestRcvd, EnableStoreError, DisableStoreError, TestErrors,
                PopError,
                IsrEntry, ServeRxError, Recover, vars
  <2> QED BY <1>1, <2>1 DEF LogRx
<1>3. CASE \/ Write \/ FlushTxQueue \/ ClearRx \/ RxError \/ BusOff
           \/ \E n \in Box : ClearTx(n) \/ Sent(n) \/ TxError(n)
  BY <1>1, <1>3, WriteLog, FlushTxLog, ClearRxLog, ErrorLog, ClearTxLog, SentLog
<1> QED BY <1>2, <1>3

\* Every step keeps track of the received frames.
LEMMA RxStep ==
  ASSUME Types, RxFrames, RxPending, [Next]_vars
  PROVE  RxFrames'
<1>1. CASE LoadTested \/ \E n \in Box : ServeTx(n)
  <2>1. LoadRound \/ log' = log
    BY <1>1, Refilled DEF LoadTested
  <2>2. LogRx' = LogRx
    BY <2>1, LoadRoundLog DEF LogRx
  <2>3. rcvd' = rcvd /\ rx' = rx
    BY <1>1 DEF LoadTested, ServeTx
  <2>4. Held' = Held
    BY <2>3 DEF Held
  <2> QED BY <2>2, <2>3, <2>4 DEF RxFrames, RxStream, LogRx
<1>2. CASE ResetByProgram \/ ServeBusOff
  <2>1. log.resets \in Nat /\ log.resets + 1 \in Nat
    BY DEF Types, Log
  <2>2. (\E r \in Nat : Reset(r)) \/ UNCHANGED <<rcvd, rx, log>>
    BY <1>2, <2>1 DEF ResetByProgram, ServeBusOff, queues
  <2>3. CASE UNCHANGED <<rcvd, rx, log>>
    BY <2>3 DEF RxFrames, RxStream, Held
  <2> QED BY <2>2, <2>3, ResetRx
<1>3. CASE Read
  BY <1>3, ReadRx
<1>4. CASE FlushRxQueue
  BY <1>4, FlushRx
<1>5. CASE ServeRx
  BY <1>5, ServeRxStream
<1>6. CASE Arrive
  BY <1>6, ArriveRx
<1>7. CASE LogRx' = LogRx /\ rcvd' = rcvd /\ rx' = rx
  <2>1. Held' = Held
    BY <1>7 DEF Held
  <2> QED BY <1>7, <2>1 DEF RxFrames, RxStream, LogRx
<1> QED
  BY <1>1, <1>2, <1>3, <1>4, <1>5, <1>6, <1>7, RxQuiet DEF Next, Program, Isr, Bus

-----------------------------------------------------------------------------
(* The interrupt of received frames.                                       *)

\* While another flag is the first, CAN_ISR is through with RXI.
LEMMA RxServed ==
  ASSUME Types, NEW j \in 1 .. RBEI, First(j)
  PROVE  RXI \notin jobs
BY Numbers DEF First

\* A step that leaves the frame, its flag and CAN_ISR where they are.
LEMMA RxQuietFlag ==
  ASSUME Types,
         \/ Write \/ TestQueue \/ LoadTested \/ TestRcvd \/ Read \/ FlushTxQueue
         \/ FlushRxQueue \/ EnableStoreError \/ DisableStoreError \/ TestErrors \/ PopError
         \/ RxError \/ BusOff \/ Recover \/ \E n \in Box : Sent(n) \/ TxError(n)
         \/ UNCHANGED vars
  PROVE  UNCHANGED <<jobs, phase, looked, rxi, rx>> /\ log'.missedRx = log.missedRx
<1>1. UNCHANGED <<jobs, phase, looked, rxi, rx>>
  BY DEF Write, TestQueue, LoadTested, TestRcvd, Read, FlushTxQueue, FlushRxQueue,
         EnableStoreError, DisableStoreError, TestErrors, PopError, RxError, BusOff,
         Recover, Sent,
         TxError, handler, hardware, flags, vars
<1>2. CASE \/ TestQueue \/ TestRcvd \/ EnableStoreError \/ DisableStoreError
           \/ TestErrors \/ PopError \/ Recover \/ UNCHANGED vars
  BY <1>1, <1>2 DEF TestQueue, TestRcvd, EnableStoreError, DisableStoreError, TestErrors,
                    PopError,
                    Recover, vars
<1>3. CASE \/ Write \/ LoadTested \/ Read \/ FlushTxQueue \/ FlushRxQueue
           \/ RxError \/ BusOff \/ \E n \in Box : Sent(n) \/ TxError(n)
  BY <1>1, <1>3, WriteLog, LoadRoundLog, ReadLog, FlushTxLog, FlushRxLog, ErrorLog,
     SentLog DEF LoadTested
<1> QED BY <1>2, <1>3

\* Another part of CAN_ISR leaves the frame and its flag.
LEMMA RxOtherJob ==
  ASSUME Types,
         \/ \E n \in Box : ServeTx(n) \/ ClearTx(n)
         \/ ServeRxError
         \/ ServeBusOff /\ UNCHANGED <<rxi, rx, log>>
  PROVE  /\ RXI \notin jobs /\ RXI \notin jobs' /\ UNCHANGED <<rxi, rx>>
         /\ log'.missedRx = log.missedRx
<1>1. CASE \E n \in Box : ServeTx(n) \/ ClearTx(n)
  <2>1. PICK n \in Box : ServeTx(n) \/ ClearTx(n)
    BY <1>1
  <2>2. First(n) /\ n \in 1 .. RBEI
    BY <2>1, Numbers DEF ServeTx, ClearTx, Serving, Clearing, Box
  <2>3. RXI \notin jobs
    BY <2>2, RxServed
  <2>4. jobs' \subseteq jobs /\ UNCHANGED <<rxi, rx>>
    BY <2>1 DEF ServeTx, ClearTx, ClearsOne, Done, flags
  <2>5. log'.missedRx = log.missedRx
    <3>1. CASE ServeTx(n)
      BY <3>1, Refilled, LoadRoundLog
    <3>2. CASE ClearTx(n)
      BY <3>2, ClearTxLog
    <3> QED BY <2>1, <3>1, <3>2
  <2> QED BY <2>3, <2>4, <2>5
<1>2. CASE ServeRxError
  <2>1. First(RBEI) /\ RBEI \in 1 .. RBEI
    BY <1>2, Numbers DEF ServeRxError, Serving
  <2> QED BY <1>2, <2>1, RxServed DEF ServeRxError, Done
<1>3. CASE ServeBusOff /\ UNCHANGED <<rxi, rx, log>>
  <2>1. First(BOI) /\ BOI \in 1 .. RBEI
    BY <1>3, Numbers DEF ServeBusOff, Serving
  <2> QED BY <1>3, <2>1, RxServed DEF ServeBusOff, Done
<1> QED BY <1>1, <1>2, <1>3

\* A reset comes when CAN_ISR is through with the frames, or does not run.
LEMMA ResetComes ==
  ASSUME Types, ResetByProgram \/ ServeBusOff
  PROVE  /\ RXI \notin jobs' /\ \A n \in Box : n \notin jobs'
         /\ \/ \E r \in Nat : Reset(r)
            \/ /\ ServeBusOff /\ boi' = FALSE
               /\ UNCHANGED <<queues, round, box, txi, rxi, rei, rx, off, log>>
<1>1. CASE ResetByProgram
  <2>1. log.resets + 1 \in Nat
    BY DEF Types, Log
  <2> QED BY <1>1, <2>1 DEF ResetByProgram, InIsr, handler
<1>2. CASE ServeBusOff
  <2>1. First(BOI) /\ BOI \in 1 .. RBEI /\ jobs' = jobs \ {BOI}
    BY <1>2, Numbers DEF ServeBusOff, Serving, Done
  <2>2. \A n \in Box : n \notin jobs
    BY <2>1, Numbers DEF First
  <2>3. log.resets \in Nat
    BY DEF Types, Log
  <2> QED BY <1>2, <2>1, <2>2, <2>3, RxServed DEF ServeBusOff
<1> QED BY <1>1, <1>2

\* Every step keeps the frame and its flag together.
LEMMA RxPendingStep ==
  ASSUME Types, RxPending, NoRxStall, [Next]_vars
  PROVE  RxPending' /\ NoRxStall'
<1>1. CASE UNCHANGED <<jobs, phase, looked, rxi, rx>> /\ log'.missedRx = log.missedRx
  BY <1>1 DEF RxPending, NoRxStall, Clearing, First
<1>2. CASE /\ RXI \notin jobs /\ RXI \notin jobs' /\ UNCHANGED <<rxi, rx>>
           /\ log'.missedRx = log.missedRx
  BY <1>2 DEF RxPending, NoRxStall, Clearing, First
<1>3. CASE ResetByProgram \/ ServeBusOff
  <2>1. CASE \E r \in Nat : Reset(r)
    BY <1>3, <2>1, ResetComes, ResetTypes DEF RxPending, NoRxStall
  <2>2. CASE ServeBusOff /\ UNCHANGED <<rxi, rx, log>>
    BY <1>2, <2>2, RxOtherJob
  <2> QED BY <1>3, <2>1, <2>2, ResetComes
<1>4. CASE IsrEntry
  <2>1. UNCHANGED <<rxi, rx, log>> /\ jobs = {} /\ (RXI \in jobs' => rxi)
    BY <1>4, Numbers DEF IsrEntry, InIsr, Flagged, Pending, flags, Types
  <2>2. ~Clearing(RXI)
    BY <2>1 DEF Clearing, First
  <2> QED BY <2>1, <2>2 DEF RxPending, NoRxStall
<1>5. CASE ServeRx
  <2>1. First(RXI) /\ jobs' = jobs /\ phase' = "clear" /\ rxi' = rxi /\ rx' = Nothing
    BY <1>5 DEF ServeRx, Serving, flags
  <2>2. Clearing(RXI)' /\ rxi
    BY <2>1 DEF Clearing, First, RxPending
  <2> QED BY <2>1, <2>2 DEF RxPending, NoRxStall
<1>6. CASE ClearRx
  <2>1. rxi' = FALSE /\ rx' = rx /\ RXI \notin jobs'
    BY <1>6 DEF ClearRx, Done
  <2>2. log'.missedRx = (log.missedRx \/ rx # Nothing)
    BY <1>6, ClearRxLog
  <2> QED BY <2>1, <2>2 DEF RxPending, NoRxStall
<1>7. CASE Arrive
  <2>1. UNCHANGED <<jobs, phase>>
    BY <1>7 DEF Arrive, handler
  <2>2. /\ rx = Nothing => rx' # Nothing /\ rxi'
        /\ rx # Nothing => rx' = rx /\ rxi' = rxi
    BY <1>7 DEF Arrive, Types, Log, Nothing
  <2>3. log'.missedRx = log.missedRx
    BY <1>7, ArriveLog
  <2> QED BY <2>1, <2>2, <2>3 DEF RxPending, NoRxStall, Clearing, First
<1> QED
  BY <1>1, <1>2, <1>3, <1>4, <1>5, <1>6, <1>7, RxQuietFlag, RxOtherJob
     DEF Next, Program, Isr, Bus

-----------------------------------------------------------------------------
(* The interrupts of the mailboxes.                                        *)

\* Which mailbox's flag is about to be cleared.
LEMMA ClearedIs ==
  ASSUME Types
  PROVE  /\ phase = "serve" \/ jobs = {} => Cleared = {}
         /\ phase' = "serve" \/ jobs' = {} => Cleared' = {}
         /\ UNCHANGED <<jobs, phase>> => Cleared' = Cleared
         /\ \A n \in Box : Clearing(n) => Cleared = {n}
<1>1. /\ phase = "serve" \/ jobs = {} => Cleared = {}
      /\ phase' = "serve" \/ jobs' = {} => Cleared' = {}
      /\ UNCHANGED <<jobs, phase>> => Cleared' = Cleared
  BY DEF Cleared, Clearing, First
<1>2. ASSUME NEW n \in Box, Clearing(n)
      PROVE  Cleared = {n}
  <2>1. ASSUME NEW m \in Box, Clearing(m)
        PROVE  m = n
    BY <1>2, <2>1, OneFirst DEF Clearing, Types
  <2> QED BY <1>2, <2>1 DEF Cleared
<1> QED BY <1>1, <1>2

\* Nobody's is while CAN_ISR is at another flag.
LEMMA NoneCleared ==
  ASSUME Types, NEW j, First(j), j \notin Box
  PROVE  Cleared = {} /\ (UNCHANGED jobs => Cleared' = {})
<1>1. ASSUME NEW n \in Box, First(n)
      PROVE  FALSE
  BY <1>1, OneFirst DEF Types
<1>2. UNCHANGED jobs => \A n \in Box : First(n)' => First(n)
  BY DEF First
<1> QED BY <1>1, <1>2 DEF Cleared, Clearing

\* can_RoundRobin's section leaves a mailbox busy.
LEMMA LoadRoundBusy ==
  ASSUME Types, LoadRound
  PROVE  /\ Busy'
         /\ \A n \in Box : box[n].status # "idle" => box'[n].status # "idle"
<1>1. box \in [Box -> Mailbox] /\ round \in Box
  BY DEF Types, Mailbox
<1>2. CASE BoxFree
  <2>1. box' = [box EXCEPT ![round] =
                     [status |-> "busy", frame |-> Popped, error |-> FALSE]]
    BY <1>2, LoadRoundBox
  <2>2. box'[round].status = "busy" /\ \A m \in Box : m # round => box'[m] = box[m]
    BY <1>1, <2>1
  <2> QED BY <1>1, <2>2 DEF Busy
<1>3. CASE ~BoxFree
  <2>1. box' = box /\ box[round].status = "busy"
    BY <1>3, LoadRoundBox DEF BoxFree
  <2> QED BY <1>1, <2>1 DEF Busy
<1> QED BY <1>2, <1>3

\* A step that leaves the mailboxes, their flags and CAN_ISR where they are, and
\* does not bring the program out of can_Write.
LEMMA TxQuietFlag ==
  ASSUME Types,
         \/ TestRcvd \/ Read \/ FlushRxQueue \/ EnableStoreError \/ DisableStoreError
         \/ TestErrors \/ PopError \/ RxError \/ Arrive \/ BusOff \/ Recover
         \/ UNCHANGED vars
  PROVE  /\ UNCHANGED <<jobs, phase, looked, txi, box, xmit>>
         /\ log'.missedTx = log.missedTx
         /\ main \in {"written", "tested"} => main' \in {"written", "tested"}
<1>1. /\ UNCHANGED <<jobs, phase, looked, txi, box, xmit>>
      /\ main \in {"written", "tested"} => main' \in {"written", "tested"}
  BY DEF TestRcvd, Read, FlushRxQueue, EnableStoreError, DisableStoreError,
         TwoStepDisable, TestErrors, PopError, RxError, Arrive, BusOff, Recover, queues,
         handler,
         hardware, flags, vars
<1>2. CASE \/ TestRcvd \/ EnableStoreError \/ DisableStoreError \/ TestErrors \/ PopError \/ Recover
           \/ UNCHANGED vars
  BY <1>1, <1>2 DEF TestRcvd, EnableStoreError, DisableStoreError, TestErrors, PopError,
                    Recover, vars
<1>3. CASE Read \/ FlushRxQueue \/ RxError \/ Arrive \/ BusOff
  BY <1>1, <1>3, ReadLog, FlushRxLog, ErrorLog, ArriveLog
<1> QED BY <1>2, <1>3

\* Write and TestQueue bring the program into can_RoundRobin, or find nothing.
LEMMA TxEntered ==
  ASSUME Types, Write \/ TestQueue \/ FlushTxQueue
  PROVE  /\ UNCHANGED <<jobs, phase, looked, txi, box>>
         /\ main' \in {"written", "tested"} \/ xmit' = <<>>
BY DEF Write, TestQueue, FlushTxQueue, queues, handler, hardware

\* Every step keeps the flags with the mailboxes in use.
LEMMA TxPendingStep ==
  ASSUME Types, TxPending, [Next]_vars
  PROVE  TxPending'
<1> USE ClearedIs
<1>1. CASE UNCHANGED <<jobs, phase, looked, txi, box>>
  BY <1>1 DEF TxPending, InIsr
<1>2. CASE LoadTested
  <2>1. UNCHANGED <<jobs, phase, txi>> /\ jobs = {} /\ LoadRound
    BY <1>2 DEF LoadTested, handler, flags, InIsr
  <2> QED BY <2>1, LoadRoundBusy DEF TxPending, InIsr
<1>3. CASE ResetByProgram \/ ServeBusOff
  <2>1. phase = "serve" /\ phase' = phase
    BY <1>3 DEF ResetByProgram, ServeBusOff, Serving, TxPending, InIsr, handler
  <2>2. \A n \in Box : n \notin jobs'
    BY <1>3, ResetComes
  <2>3. txi' = {} \/ UNCHANGED <<txi, box>>
    BY <1>3, ResetComes, ResetTypes
  <2> QED BY <2>1, <2>2, <2>3 DEF TxPending
<1>4. CASE IsrEntry
  <2>1. /\ jobs = {} /\ jobs' # {} /\ UNCHANGED <<phase, txi, box>>
        /\ \A n \in Box : n \in jobs' => n \in txi
    BY <1>4, Numbers DEF IsrEntry, InIsr, Flagged, Pending, flags
  <2> QED BY <2>1 DEF TxPending, InIsr
<1>5. CASE ServeRx
  <2>1. First(RXI) /\ UNCHANGED <<jobs, txi, box>>
    BY <1>5 DEF ServeRx, Serving, flags
  <2>2. RXI \notin Box /\ jobs # {}
    BY <2>1, Numbers DEF First
  <2>3. Cleared' = {}
    BY <2>1, <2>2, NoneCleared
  <2> QED BY <2>1, <2>2, <2>3 DEF TxPending, InIsr
<1>6. CASE ClearRx
  <2>1. phase' = "serve" /\ jobs' \subseteq jobs /\ UNCHANGED <<txi, box>>
    BY <1>6 DEF ClearRx, Done
  <2> QED BY <2>1 DEF TxPending
<1>7. ASSUME NEW n \in Box, ServeTx(n)
      PROVE  TxPending'
  <2>1. /\ First(n) /\ UNCHANGED <<jobs, txi>> /\ jobs # {}
        /\ looked' = (box'[n].status = "done") /\ phase' = "clear"
    BY <1>7 DEF ServeTx, Serving, First, flags
  <2>2. Cleared' = {n}
    <3>1. ASSUME NEW m \in Box PROVE First(m)' <=> m = n
      <4>1. First(m)' <=> First(m)
        BY <2>1 DEF First
      <4> QED BY <2>1, <4>1, OneFirst DEF Types
    <3> QED BY <2>1, <3>1 DEF Cleared, Clearing
  <2>3. \A m \in Box : box[m].status # "idle" => box'[m].status # "idle"
    BY <1>7, Refilled, LoadRoundBusy
  <2> QED BY <2>1, <2>2, <2>3 DEF TxPending, InIsr
<1>8. ASSUME NEW n \in Box, ClearTx(n)
      PROVE  TxPending'
  <2>1. phase' = "serve" /\ jobs' \subseteq jobs /\ txi' \subseteq txi /\ box' = box
    BY <1>8 DEF ClearTx, ClearsOne, Done
  <2> QED BY <2>1 DEF TxPending
<1>9. CASE ServeRxError
  <2>1. /\ phase = "serve" /\ phase' = phase /\ jobs' \subseteq jobs
        /\ UNCHANGED <<txi, box>>
    BY <1>9 DEF ServeRxError, Serving, Done
  <2> QED BY <2>1 DEF TxPending
<1>10. ASSUME NEW n \in Box, Sent(n) \/ TxError(n)
       PROVE  TxPending'
  <2>1. /\ UNCHANGED <<jobs, phase, looked>> /\ txi' = txi \cup {n}
        /\ box[n].status = "busy"
    BY <1>10 DEF Sent, TxError, handler
  <2>2. /\ box'[n].status # "idle" /\ (Sent(n) => box'[n].status = "done")
        /\ \A m \in Box : m # n => box'[m] = box[m]
    <3>1. box \in [Box -> Mailbox]
      BY DEF Types, Mailbox
    <3> QED BY <1>10, <3>1 DEF Sent, TxError, Mailbox
  <2>3. \A m \in Box : m \in txi' \cup jobs' => box'[m].status # "idle"
    BY <2>1, <2>2 DEF TxPending
  <2>4. ASSUME NEW m \in Cleared', looked'
        PROVE  box'[m].status = "done"
    <3>1. m \in Cleared /\ looked /\ m \in Box
      BY <2>1, <2>4 DEF Cleared
    <3>2. box[m].status = "done"
      BY <3>1 DEF TxPending
    <3> QED BY <2>1, <2>2, <3>1, <3>2
  <2>5. InIsr' \/ phase' = "serve"
    BY <2>1 DEF TxPending, InIsr
  <2> QED BY <2>3, <2>4, <2>5 DEF TxPending
<1> QED
  BY <1>1, <1>2, <1>3, <1>4, <1>5, <1>6, <1>7, <1>8, <1>9, <1>10, TxEntered, TxQuietFlag
     DEF Next, Program, Isr, Bus

\* Every step but a missed interrupt keeps the queue moving.
LEMMA TxMovesStep ==
  ASSUME Types, TxPending, TxMoves, [Next]_vars
  PROVE  TxMoves'
<1> USE ClearedIs
<1>1. CASE /\ UNCHANGED <<jobs, phase, looked, txi, box, xmit>>
           /\ log'.missedTx = log.missedTx
           /\ main \in {"written", "tested"} => main' \in {"written", "tested"}
  BY <1>1 DEF TxMoves, Busy
<1>2. CASE main' \in {"written", "tested"} \/ xmit' = <<>>
  BY <1>2 DEF TxMoves
<1>3. CASE LoadTested
  BY <1>3, LoadRoundBusy DEF LoadTested, TxMoves
<1>4. CASE ResetByProgram \/ ServeBusOff
  <2>1. CASE \E r \in Nat : Reset(r)
    BY <1>2, <2>1, ResetTypes
  <2>2. CASE /\ ServeBusOff
             /\ UNCHANGED <<queues, round, box, txi, rxi, rei, rx, off, log>>
    <3>1. phase = "serve" /\ UNCHANGED <<phase, main>>
      BY <2>2 DEF ServeBusOff, Serving
    <3> QED BY <2>2, <3>1 DEF TxMoves, Busy, queues
  <2> QED BY <1>4, <2>1, <2>2, ResetComes
<1>5. CASE IsrEntry
  <2>1. jobs = {} /\ phase = "serve" /\ UNCHANGED <<phase, main, xmit, txi, box, log>>
    BY <1>5 DEF IsrEntry, InIsr, TxPending, queues, flags
  <2> QED BY <2>1 DEF TxMoves, Busy
<1>6. CASE ServeRx
  <2>1. First(RXI) /\ UNCHANGED <<jobs, txi, box, xmit, main>>
    BY <1>6 DEF ServeRx, Serving, flags
  <2>2. RXI \notin Box
    BY Numbers
  <2>3. Cleared = {} /\ Cleared' = {}
    BY <2>1, <2>2, NoneCleared
  <2>4. log'.missedTx = log.missedTx
    BY <1>6, ServeRxLog
  <2> QED BY <2>1, <2>3, <2>4 DEF TxMoves, Busy
<1>7. CASE ClearRx
  <2>1. First(RXI) /\ phase' = "serve" /\ UNCHANGED <<txi, box, xmit, main>>
    BY <1>7 DEF ClearRx, Clearing, queues
  <2>2. RXI \notin Box
    BY Numbers
  <2>3. Cleared = {} /\ Cleared' = {}
    BY <2>1, <2>2, NoneCleared
  <2>4. log'.missedTx = log.missedTx
    BY <1>7, ClearRxLog
  <2> QED BY <2>1, <2>3, <2>4 DEF TxMoves, Busy
<1>8. ASSUME NEW n \in Box, ServeTx(n)
      PROVE  TxMoves'
  <2>1. CASE LoadRound
    BY <2>1, LoadRoundBusy DEF TxMoves
  <2>2. CASE UNCHANGED <<box, xmit>> /\ (box[n].status = "done" => xmit = <<>>)
    <3>1. n \in jobs /\ box[n].status \in {"idle", "busy", "done"}
      BY <1>8 DEF ServeTx, Serving, First, Types
    <3>2. box[n].status # "idle"
      BY <3>1 DEF TxPending
    <3>3. xmit' = <<>> \/ box'[n].status = "busy"
      BY <2>2, <3>1, <3>2
    <3> QED BY <3>3 DEF TxMoves, Busy
  <2> QED BY <1>8, <2>1, <2>2, Refilled
<1>9. ASSUME NEW n \in Box, ClearTx(n)
      PROVE  TxMoves'
  <2>1. Cleared = {n} /\ phase' = "serve"
    BY <1>9 DEF ClearTx
  <2>2. txi' = txi \ {n} /\ UNCHANGED <<box, xmit, main>> /\ Cleared' = {}
    BY <1>9, <2>1 DEF ClearTx, ClearsOne, queues
  <2>3. log'.missedTx = (log.missedTx \/ (box[n].status = "done" /\ ~looked))
    BY <1>9, ClearTxLog
  <2> QED BY <2>1, <2>2, <2>3 DEF TxMoves, Busy
<1>10. CASE ServeRxError
  <2>1. phase = "serve" /\ UNCHANGED <<phase, main, xmit, txi, box, log>>
    BY <1>10 DEF ServeRxError, Serving
  <2> QED BY <2>1 DEF TxMoves, Busy
<1>11. ASSUME NEW n \in Box, Sent(n)
       PROVE  TxMoves'
  <2>1. /\ UNCHANGED <<jobs, phase, looked, xmit, main>> /\ txi' = txi \cup {n}
        /\ box[n].status = "busy"
        /\ box' = [box EXCEPT ![n].status = "done", ![n].error = FALSE]
    BY <1>11 DEF Sent, handler, queues
  <2>2. box'[n].status = "done"
    <3>1. box \in [Box -> Mailbox]
      BY DEF Types, Mailbox
    <3> QED BY <2>1, <3>1 DEF Mailbox
  <2>3. CASE n \in Cleared
    <3>1. ~looked' /\ n \in Cleared'
      BY <2>1, <2>3 DEF TxPending
    <3> QED BY <2>2, <3>1 DEF TxMoves
  <2>4. CASE n \notin Cleared
    <3>1. n \in txi' \ Cleared'
      BY <2>1, <2>4
    <3> QED BY <3>1 DEF TxMoves
  <2> QED BY <2>3, <2>4
<1>12. ASSUME NEW n \in Box, TxError(n)
       PROVE  TxMoves'
  <2>1. box[n].status = "busy" /\ box' = [box EXCEPT ![n].error = TRUE]
    BY <1>12 DEF TxError
  <2>2. box'[n].status = "busy"
    <3>1. box \in [Box -> Mailbox]
      BY DEF Types, Mailbox
    <3> QED BY <2>1, <3>1 DEF Mailbox
  <2> QED BY <2>2 DEF TxMoves, Busy
<1> QED
  BY <1>1, <1>2, <1>3, <1>4, <1>5, <1>6, <1>7, <1>8, <1>9, <1>10, <1>11, <1>12,
     TxEntered, TxQuietFlag
     DEF Next, Program, Isr, Bus

-----------------------------------------------------------------------------
(* Errors.                                                                 *)

\* Errors are stored only while they are to be.
LEMMA ErrorsStep ==
  ASSUME Types, NoStaleErrors, [Next]_vars
  PROVE  NoStaleErrors'
<1>1. CASE errors' = errors /\ storeError' = storeError
           /\ (main = "disabling" => main' = "disabling")
  BY <1>1 DEF NoStaleErrors
<1>2. CASE errors' = 0
  BY <1>2 DEF NoStaleErrors
<1>3. CASE storeError' = storeError /\ main' = main /\ (~storeError => errors' = errors)
  BY <1>3 DEF NoStaleErrors
<1>4. CASE \/ Write \/ TestQueue \/ LoadTested \/ TestRcvd \/ Read \/ FlushTxQueue
           \/ FlushRxQueue \/ IsrEntry \/ ServeRx \/ ClearRx
           \/ \E n \in Box : ClearTx(n) \/ Sent(n) \/ TxError(n)
           \/ RxError \/ Arrive \/ BusOff \/ Recover \/ UNCHANGED vars
  <2>1. /\ errors' = errors /\ storeError' = storeError
        /\ main = "disabling" => main' = "disabling"
    BY <1>4 DEF Write, TestQueue, LoadTested, TestRcvd, Read, FlushTxQueue,
         FlushRxQueue, IsrEntry, ServeRx, ClearRx, ClearTx, Sent, TxError, RxError,
         Arrive, BusOff, Recover, queues, vars
  <2> QED BY <1>1, <2>1
<1>5. CASE (\E n \in Box : ServeTx(n)) \/ ServeRxError
  <2>1. storeError' = storeError /\ main' = main /\ errors' \in {errors, StoredError}
    BY <1>5 DEF ServeTx, ServeRxError
  <2> QED BY <1>3, <2>1, Stored
<1>6. CASE EnableStoreError
  BY <1>6 DEF EnableStoreError, NoStaleErrors
<1>7. CASE DisableStoreError
  <2>1. main' = "disabling" \/ errors' = 0
    BY <1>7 DEF DisableStoreError, TwoStepDisable, ClearErrors
  <2> QED BY <2>1 DEF NoStaleErrors
<1>8. CASE PopError
  <2>1. main = "popping" /\ (errors = 0 => errors' = 0) /\ storeError' = storeError
    BY <1>8 DEF PopError, Types
  <2> QED BY <2>1 DEF NoStaleErrors
<1>10. CASE TestErrors
  <2>1. main = "idle" /\ UNCHANGED <<errors, storeError>>
    BY <1>10 DEF TestErrors, queues
  <2> QED BY <2>1 DEF NoStaleErrors
<1>9. CASE ResetByProgram \/ ServeBusOff
  <2>1. CASE \E r \in Nat : Reset(r)
    BY <1>2, <2>1, ResetTypes
  <2>2. CASE ServeBusOff /\ UNCHANGED queues
    BY <1>3, <2>2 DEF ServeBusOff, queues
  <2> QED BY <1>9, <2>1, <2>2, ResetComes DEF queues
<1> QED
  BY <1>4, <1>5, <1>6, <1>7, <1>8, <1>9, <1>10 DEF Next, Program, Isr, Bus

-----------------------------------------------------------------------------
(* The theorems.                                                           *)

\* What can_Init leaves behind.
LEMMA InitIInv == Init => IInv
<1> SUFFICES ASSUME Init PROVE IInv
  OBVIOUS
<1>1. <<>> \in Seq(Frame)
  BY EmptySeq
<1>2. 1 \in Box /\ RXI \notin {}
  BY Numbers DEF Box
<1>3. log \in Log
  BY <1>1 DEF Init, Log
<1>4. EmptyBox \in Mailbox
  BY DEF EmptyBox, Mailbox, Nothing
<1>5. box \in [Box -> Mailbox] /\ \A n \in Box : box[n].status = "idle"
  BY <1>4 DEF Init, EmptyBox
<1>6. Types
  BY <1>1, <1>2, <1>3, <1>5 DEF Init, Types, Mailbox, Nothing
<1>7. TxFrames
  <2>1. InBoxes = {}
    BY <1>5 DEF InBoxes
  <2> QED BY <2>1, NoStream DEF Init, TxFrames, TxStream
<1>8. RxFrames
  <2>1. Held = <<>>
    BY DEF Init, Held
  <2> QED BY <2>1, NoStream DEF Init, RxFrames, RxStream
<1>9. RxPending /\ NoRxStall /\ NoStaleErrors
  BY DEF Init, RxPending, NoRxStall, NoStaleErrors
<1>10. TxPending /\ TxMoves
  <2>1. Cleared = {}
    BY DEF Init, Cleared, Clearing
  <2> QED BY <2>1 DEF Init, TxPending, TxMoves
<1> QED BY <1>6, <1>7, <1>8, <1>9, <1>10 DEF IInv

\* Every step of the program, of CAN_ISR and of the bus keeps the invariant.
LEMMA StepIInv == IInv /\ [Next]_vars => IInv'
<1> SUFFICES ASSUME IInv, [Next]_vars PROVE IInv'
  OBVIOUS
<1>1. /\ Types /\ TxFrames /\ RxFrames /\ RxPending /\ NoRxStall
      /\ TxPending /\ TxMoves /\ NoStaleErrors
  BY DEF IInv
<1>2. Types'
  <2>1. CASE UNCHANGED vars
    BY <1>1, <2>1 DEF Types, vars
  <2> QED BY <1>1, <2>1, ProgramTypes, IsrTypes, BusTypes DEF Next
<1> QED
  BY <1>1, <1>2, TxStep, RxStep, RxPendingStep, TxPendingStep, TxMovesStep, ErrorsStep
     DEF IInv

\* The inductive invariant holds in every state: what the queues, the mailboxes, the
\* interrupt flags and CAN_ISR's place have to do with one another (can.cpp:59-202).
THEOREM Invariant == Spec => []IInv
<1> QED BY InitIInv, StepIInv, PTL DEF Spec

\* Frames to transmit leave the queue in order and none is written over in its
\* mailbox, however many mailboxes there are (can.cpp:67-80).
THEOREM FramesAreSent == Spec => []TxStream
<1>1. IInv => TxStream
  BY DEF IInv, TxFrames
<1> QED BY <1>1, Invariant, PTL

\* Received frames are read in order and lost only where the code drops them
\* (can.cpp:97-110).
THEOREM FramesAreReceived == Spec => []RxStream
<1>1. IInv => RxStream
  BY DEF IInv, RxFrames
<1> QED BY <1>1, Invariant, PTL

\* Frames are left queued with nobody to send them only after an interrupt that was
\* cleared unseen (can.cpp:117-126).
THEOREM TransmitterNeverStalls == Spec => []NoTxStall
<1>1. IInv => NoTxStall
  <2> SUFFICES ASSUME IInv PROVE NoTxStall
    OBVIOUS
  <2>1. ~InIsr => Cleared = {}
    BY DEF InIsr, Cleared, Clearing, First
  <2> QED BY <2>1 DEF IInv, TxMoves, NoTxStall, Busy
<1> QED BY <1>1, Invariant, PTL

\* A frame is left with the controller only after an interrupt that was cleared
\* unseen (can.cpp:109-110).
THEOREM ReceiverNeverStalls == Spec => []NoRxStall
<1>1. IInv => NoRxStall
  BY DEF IInv
<1> QED BY <1>1, Invariant, PTL

\* No error is stored while none is to be (can.cpp:784-785, 121).
THEOREM ErrorsAreFresh == Spec => []NoStaleErrors
<1>1. IInv => NoStaleErrors
  BY DEF IInv
<1> QED BY <1>1, Invariant, PTL
=============================================================================
