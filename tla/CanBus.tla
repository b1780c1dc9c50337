------------------------------- MODULE CanBus --------------------------------
(***************************************************************************)
(* The CAN bus of 86DUINO/core/can.cpp: CAN_ISR and the program share the  *)
(* queue of frames to transmit, the round-robin of the controller's        *)
(* transmit mailboxes, the queue of received frames and that of errors.    *)
(*                                                                         *)
(* The program runs only while the ISR does not; the controller works at   *)
(* any time.  Its interrupt flags are latched until the ISR clears them.   *)
(* Frames are numbered in the order they are handed over; errors are only  *)
(* counted.                                                                *)
(***************************************************************************)
EXTENDS Integers, Sequences, Streams

CONSTANTS
  Boxes,          (* transmit mailboxes, 3 in the code                      *)
  TxSize,         (* CAN_TX_QUEUE_SIZE                                      *)
  RxSize,         (* CAN_RX_QUEUE_SIZE                                      *)
  ErrSize,        (* CAN_ERR_QUEUE_SIZE                                     *)
  ResetsOnBusOff, (* whether busoff_handler calls can_Reset                 *)
  MaxWrite,       (* bound: frames the program writes                       *)
  MaxArrive,      (* bound: frames that come in                             *)
  MaxError,       (* bound: errors on the bus                               *)
  MaxOff,         (* bound: how often the bus goes off                      *)
  MaxReset        (* bound: resets by the program                           *)

ASSUME CanAssumption ==
  /\ {Boxes, TxSize, RxSize, ErrSize} \subseteq Nat \ {0}
  /\ {MaxWrite, MaxArrive, MaxError, MaxOff, MaxReset} \subseteq Nat
  /\ ResetsOnBusOff \in BOOLEAN

VARIABLES
  xmit, rcvd,     (* the queues of frames, oldest first                     *)
  errors,         (* how many errors the queue Error holds                  *)
  storeError,     (* can->StoreError                                        *)
  round,          (* can->round, 1 .. Boxes here                            *)
  main,           (* the program: "idle", or where in an operation          *)
  jobs, phase,    (* CAN_ISR: the flags it read and is not through with,    *)
                  (* and whether it has to serve or to clear the first one  *)
  looked,         (* the mailbox was found done and not filled again        *)
  box,            (* the mailboxes: status, frame, error of its last try    *)
  txi, rxi, boi, rei, (* flags: of mailboxes, RXI, BOI, RBEI                *)
  rx,             (* the received frame the controller holds, or Nothing    *)
  off,            (* the controller is in the state bus-off                 *)
  log             (* for the properties and the bounds                      *)

queues == <<xmit, rcvd, errors, storeError>>
handler == <<jobs, phase, looked>>
flags == <<txi, rxi, boi, rei>>
hardware == <<box, txi, rxi, boi, rei, rx, off>>
vars == <<xmit, rcvd, errors, storeError, round, main, jobs, phase, looked, box,
          txi, rxi, boi, rei, rx, off, log>>

Nothing == 0
Garbage == -1   \* the contents of an uninitialized CANFrame
Box == 1 .. Boxes
EmptyBox == [status |-> "idle", frame |-> Nothing, error |-> FALSE]

Init ==
  /\ xmit = <<>> /\ rcvd = <<>> /\ errors = 0 /\ storeError = FALSE
  /\ round = 1 /\ main = "idle"
  /\ jobs = {} /\ phase = "serve" /\ looked = FALSE
  /\ box = [n \in Box |-> EmptyBox]
  /\ txi = {} /\ rxi = FALSE /\ boi = FALSE /\ rei = FALSE
  /\ rx = Nothing /\ off = FALSE
  /\ log = [written |-> 0, dropped |-> {}, aborted |-> {},
            loaded |-> <<>>, sent |-> {},
            arrived |-> 0, lost |-> {}, read |-> <<>>, errors |-> 0, offs |-> 0,
            resets |-> 0, missedTx |-> FALSE, missedRx |-> FALSE]

InIsr == jobs # {}
Held == IF rx = Nothing THEN <<>> ELSE <<rx>>
InBoxes == {box[n].frame : n \in {m \in Box : box[m].status = "busy"}} \ {Garbage}

-----------------------------------------------------------------------------
(* can_RoundRobin.                                                         *)

\* The queue is known to hold a frame: it was tested, but outside of
\* DisableINT/RestoreINT.  PopBufQueue leaves temp as it is if the queue is
\* empty after all.
Popped == IF xmit = <<>> THEN Garbage ELSE Head(xmit)

AnyBox == TRUE
BoxFree == box[round].status # "busy"

NextRound == (round % Boxes) + 1

\* The section between DisableINT and RestoreINT.
LoadRound ==
  IF BoxFree
  THEN /\ box' = [box EXCEPT ![round] =
                    [status |-> "busy", frame |-> Popped, error |-> FALSE]]
       /\ xmit' = IF xmit = <<>> THEN xmit ELSE Tail(xmit)
       /\ round' = NextRound
       /\ log' = [log EXCEPT !.loaded =
                    IF Popped = Garbage THEN @ ELSE Append(@, Popped)]
  ELSE UNCHANGED <<box, xmit, round, log>>

\* can_RoundRobin, when nothing can come in between.
RoundRobin ==
  IF xmit = <<>> THEN UNCHANGED <<box, xmit, round, log>> ELSE LoadRound

\* can_Reset: registers, fields and queues.
Reset(resets) ==
  /\ box' = [n \in Box |-> EmptyBox] /\ rx' = Nothing /\ off' = FALSE
  /\ txi' = {} /\ rxi' = FALSE /\ boi' = FALSE /\ rei' = FALSE
  /\ xmit' = <<>> /\ rcvd' = <<>> /\ errors' = 0
  /\ round' = 1
  /\ log' = [log EXCEPT
       !.dropped = @ \cup Range(xmit), !.aborted = @ \cup InBoxes,
       !.lost = @ \cup Range(rcvd) \cup ({rx} \ {Nothing}), !.resets = resets]
  /\ UNCHANGED storeError

-----------------------------------------------------------------------------
(* The program.                                                            *)

\* can_Write up to PushBufQueue, the queue having room.
Write ==
  /\ ~InIsr /\ main = "idle"
  /\ log.written < MaxWrite /\ Len(xmit) < TxSize
  /\ xmit' = Append(xmit, log.written + 1)
  /\ log' = [log EXCEPT !.written = @ + 1]
  /\ main' = "written"
  /\ UNCHANGED <<rcvd, errors, storeError, round, handler, hardware>>

\* can_RoundRobin called by can_Write: the test, then the section.
TestQueue ==
  /\ ~InIsr /\ main = "written"
  /\ main' = IF xmit = <<>> THEN "idle" ELSE "tested"
  /\ UNCHANGED <<queues, round, handler, hardware, log>>

LoadTested ==
  /\ ~InIsr /\ main = "tested"
  /\ LoadRound
  /\ main' = "idle"
  /\ UNCHANGED <<rcvd, errors, storeError, handler, flags, rx, off>>

\* can_Read: the wait for a frame, then PopBufQueue.
TestRcvd ==
  /\ ~InIsr /\ main = "idle" /\ rcvd # <<>>
  /\ main' = "reading"
  /\ UNCHANGED <<queues, round, handler, hardware, log>>

Read ==
  /\ ~InIsr /\ main = "reading"
  /\ rcvd' = IF rcvd = <<>> THEN rcvd ELSE Tail(rcvd)
  /\ log' = [log EXCEPT !.read = IF rcvd = <<>> THEN @ ELSE Append(@, Head(rcvd))]
  /\ main' = "idle"
  /\ UNCHANGED <<xmit, errors, storeError, round, handler, hardware>>

FlushTxQueue ==
  /\ ~InIsr /\ main = "idle"
  /\ xmit' = <<>>
  /\ log' = [log EXCEPT !.dropped = @ \cup Range(xmit)]
  /\ UNCHANGED <<rcvd, errors, storeError, round, main, handler, hardware>>

FlushRxQueue ==
  /\ ~InIsr /\ main = "idle"
  /\ rcvd' = <<>>
  /\ log' = [log EXCEPT !.lost = @ \cup Range(rcvd)]
  /\ UNCHANGED <<xmit, errors, storeError, round, main, handler, hardware>>

EnableStoreError ==
  /\ ~InIsr /\ main = "idle" /\ ~storeError
  /\ storeError' = TRUE
  /\ UNCHANGED <<xmit, rcvd, errors, round, main, handler, hardware, log>>

StopStoring == storeError' = FALSE /\ UNCHANGED errors
ClearErrors == errors' = 0 /\ UNCHANGED storeError

SwappedDisable ==
  \/ main = "idle" /\ storeError /\ ClearErrors /\ main' = "disabling"
  \/ main = "disabling" /\ StopStoring /\ main' = "idle"

\* can_DisableStoreError: the two statements, in this order.
TwoStepDisable ==
  \/ main = "idle" /\ storeError /\ StopStoring /\ main' = "disabling"
  \/ main = "disabling" /\ ClearErrors /\ main' = "idle"

DisableStoreError ==
  /\ ~InIsr
  /\ TwoStepDisable
  /\ UNCHANGED <<xmit, rcvd, round, handler, hardware, log>>

\* can_PopError: the test, then PopQueue, which leaves an empty queue alone.
TestErrors ==
  /\ ~InIsr /\ main = "idle" /\ errors > 0
  /\ main' = "popping"
  /\ UNCHANGED <<queues, round, handler, hardware, log>>

PopError ==
  /\ ~InIsr /\ main = "popping"
  /\ errors' = IF errors = 0 THEN 0 ELSE errors - 1
  /\ main' = "idle"
  /\ UNCHANGED <<xmit, rcvd, storeError, round, handler, hardware, log>>

\* The reset of the registers disables the interrupts of the controller.
ResetByProgram ==
  /\ ~InIsr /\ main = "idle" /\ log.resets < MaxReset
  /\ Reset(log.resets + 1) /\ UNCHANGED <<main, handler>>

-----------------------------------------------------------------------------
(* CAN_ISR.                                                                *)

\* The flags in the order CAN_ISR looks at them; that of mailbox n is n.
RXI == 0
BOI == Boxes + 1
RBEI == Boxes + 2

Pending(j) ==
  \/ j = RXI /\ rxi
  \/ j \in txi
  \/ j = BOI /\ boi
  \/ j = RBEI /\ rei
Flagged == {j \in RXI .. RBEI : Pending(j)}

IsrEntry ==
  /\ ~InIsr
  /\ jobs' = Flagged /\ jobs' # {}
  /\ UNCHANGED <<queues, round, main, phase, looked, box, flags, rx, off, log>>

First(j) == j \in jobs /\ \A k \in jobs : j <= k
Serving(j) == First(j) /\ phase = "serve"
Clearing(j) == First(j) /\ phase = "clear"
Done(j) == jobs' = jobs \ {j}

\* PushBufQueue: a full queue keeps what it holds.
PushedOver(q, f) == IF Len(q) < RxSize THEN Append(q, f) ELSE Append(Tail(q), f)
Pushed(q, f) == IF Len(q) < RxSize THEN Append(q, f) ELSE q

\* The frame is queued and the controller's buffer released.
ServeRx ==
  /\ Serving(RXI)
  /\ rcvd' = Pushed(rcvd, rx)
  /\ log' = [log EXCEPT !.lost = IF rcvd' = rcvd THEN @ \cup {rx} ELSE @]
  /\ rx' = Nothing /\ phase' = "clear"
  /\ UNCHANGED <<xmit, errors, storeError, round, main, jobs, looked, box, flags, off>>

\* RXI is cleared, also if the next frame has come in since.
ClearRx ==
  /\ Clearing(RXI)
  /\ rxi' = FALSE
  /\ log' = [log EXCEPT !.missedRx = @ \/ rx # Nothing]
  /\ Done(RXI) /\ phase' = "serve"
  /\ UNCHANGED <<queues, round, main, looked, box, txi, boi, rei, rx, off>>

StoredError == IF storeError /\ errors < ErrSize THEN errors + 1 ELSE errors

\* An error of the last try is stored; a mailbox that is done makes room for
\* the next frame, in the mailbox whose turn it is.
NoRefill == UNCHANGED <<box, xmit, round, log>>
Refill == RoundRobin

ServeTx(n) ==
  /\ Serving(n)
  /\ errors' = IF box[n].error THEN StoredError ELSE errors
  /\ IF box[n].status = "done" THEN Refill ELSE UNCHANGED <<box, xmit, round, log>>
  /\ looked' = (box'[n].status = "done")
  /\ phase' = "clear"
  /\ UNCHANGED <<rcvd, storeError, main, jobs, flags, rx, off>>

ClearsAll(n) == txi' = {} /\ rxi' = FALSE
ClearsOne(n) == txi' = txi \ {n} /\ UNCHANGED rxi

\* TXnI is cleared, also if the mailbox has been done (again) since.
ClearTx(n) ==
  /\ Clearing(n)
  /\ ClearsOne(n)
  /\ log' = [log EXCEPT !.missedTx = @ \/ (box[n].status = "done" /\ ~looked)]
  /\ Done(n) /\ phase' = "serve"
  /\ UNCHANGED <<queues, round, main, looked, box, boi, rei, rx, off>>

\* BOI is cleared and the handler called.
ServeBusOff ==
  /\ Serving(BOI)
  /\ Done(BOI)
  /\ IF ResetsOnBusOff THEN Reset(log.resets)
     ELSE /\ boi' = FALSE
          /\ UNCHANGED <<queues, round, box, txi, rxi, rei, rx, off, log>>
  /\ UNCHANGED <<main, phase, looked>>

ServeRxError ==
  /\ Serving(RBEI)
  /\ errors' = StoredError
  /\ rei' = FALSE
  /\ Done(RBEI)
  /\ UNCHANGED <<xmit, rcvd, storeError, round, main, phase, looked, box, txi, rxi,
                 boi, rx, off, log>>

-----------------------------------------------------------------------------
(* The controller and the bus.                                             *)

Sent(n) ==
  /\ box[n].status = "busy" /\ ~off
  /\ box' = [box EXCEPT ![n].status = "done", ![n].error = FALSE]
  /\ txi' = txi \cup {n}
  /\ log' = [log EXCEPT !.sent = @ \cup {box[n].frame}]
  /\ UNCHANGED <<queues, round, main, handler, rxi, boi, rei, rx, off>>

\* A try fails; the controller will try again.
TxError(n) ==
  /\ box[n].status = "busy" /\ ~off /\ log.errors < MaxError
  /\ box' = [box EXCEPT ![n].error = TRUE]
  /\ txi' = txi \cup {n}
  /\ log' = [log EXCEPT !.errors = @ + 1]
  /\ UNCHANGED <<queues, round, main, handler, rxi, boi, rei, rx, off>>

RxError ==
  /\ ~off /\ log.errors < MaxError
  /\ rei' = TRUE
  /\ log' = [log EXCEPT !.errors = @ + 1]
  /\ UNCHANGED <<queues, round, main, handler, box, txi, rxi, boi, rx, off>>

\* A frame comes in; it is overrun if the last one has not been released.
Arrive ==
  /\ ~off /\ log.arrived < MaxArrive
  /\ IF rx = Nothing THEN rx' = log.arrived + 1 /\ rxi' = TRUE
     ELSE UNCHANGED <<rx, rxi>>
  /\ log' = [log EXCEPT !.arrived = @ + 1,
                        !.lost = IF rx = Nothing THEN @ ELSE @ \cup {log.arrived + 1}]
  /\ UNCHANGED <<queues, round, main, handler, box, txi, boi, rei, off>>

BusOff ==
  /\ ~off /\ log.offs < MaxOff
  /\ off' = TRUE /\ boi' = TRUE
  /\ log' = [log EXCEPT !.offs = @ + 1]
  /\ UNCHANGED <<queues, round, main, handler, box, txi, rxi, rei, rx>>

Recover ==
  /\ off /\ off' = FALSE
  /\ UNCHANGED <<queues, round, main, handler, box, flags, rx, log>>

Program ==
  \/ Write \/ TestQueue \/ LoadTested \/ TestRcvd \/ Read
  \/ FlushTxQueue \/ FlushRxQueue
  \/ EnableStoreError \/ DisableStoreError \/ TestErrors \/ PopError
  \/ ResetByProgram
Isr ==
  \/ IsrEntry \/ ServeRx \/ ClearRx
  \/ \E n \in Box : ServeTx(n) \/ ClearTx(n)
  \/ ServeBusOff \/ ServeRxError
Bus ==
  \/ \E n \in Box : Sent(n) \/ TxError(n)
  \/ RxError \/ Arrive \/ BusOff \/ Recover

Next == Program \/ Isr \/ Bus

Spec == Init /\ [][Next]_vars
-----------------------------------------------------------------------------
\* The frames put in mailboxes and those still queued are, in this order, the
\* frames given to can_Write but those a flush or a reset threw out of the
\* queue; and each of the former has been sent, is in a mailbox, or was in one
\* when the controller was reset: none is written over (can.cpp:67-80).
TxStream ==
  /\ IsStream(log.loaded \o xmit, log.written, log.dropped)
  /\ Range(log.loaded) = (log.sent \ {Garbage}) \cup InBoxes \cup log.aborted

\* The same for what comes in: read, queued and held by the controller, in
\* order, but for overruns, a full queue, flushes and resets (can.cpp:97-110).
RxStream == IsStream(log.read \o rcvd \o Held, log.arrived, log.lost)

\* When the program and CAN_ISR are idle and frames are queued, a mailbox is busy
\* or its interrupt pending, so that the queue moves on: the only way to stall
\* is a mailbox that is done between the look at its status and the clearing
\* of its flag (can.cpp:117-126).
NoTxStall ==
  ~InIsr /\ main = "idle" /\ xmit # <<>> /\ ~log.missedTx =>
    txi # {} \/ \E n \in Box : box[n].status = "busy"

\* A frame the controller holds has its interrupt pending, unless it came in
\* between the release of the last one and the clearing of RXI (can.cpp:109-110).
NoRxStall == rx # Nothing /\ ~log.missedRx => rxi

\* While errors are not to be stored, none is (can.cpp:784-785, 121).
NoStaleErrors == ~storeError /\ main # "disabling" => errors = 0

\* Every frame the controller is given was checked and queued by can_Write.
OnlyWritten == \A n \in Box : box[n].frame # Garbage
=============================================================================
