--------------------------------- MODULE Twi ---------------------------------
(***************************************************************************)
(* libraries/Wire/utility/twi.cpp: the program in twi_writeTo or           *)
(* twi_readFrom, I2C_ISR, the I2C controller, the slave it talks to and    *)
(* another master that talks to us.                                        *)
(*                                                                         *)
(* I2C_ISR runs on a level-triggered line, is not entered again and waits  *)
(* for the STOP bit it sets: it is one step.  An interrupt is taken before *)
(* the program's next instruction.  The program is interrupted between the *)
(* assignments of a call; those that nothing can tell apart are one step.  *)
(*                                                                         *)
(* Of the controller the code expects that it requests one thing at a time *)
(* but for two pairs, a byte received and the STOP after it, a byte sent   *)
(* and the request of the next one; and that it tells of the end of every  *)
(* transfer with us as a slave, in either direction, by a STOP: only that  *)
(* makes twi_state TWI_READY again.  What it does when a byte comes in and *)
(* the last one is still unread is not known from the code: it holds the   *)
(* clock, for ever, or writes over it.                                     *)
(*                                                                         *)
(* After sendStop = FALSE I2C_ISR starts the next transaction itself, with *)
(* the address of the last one and in the direction it expects.  Four ways *)
(* to go astray, when both roles are used at once or from there, are named *)
(* in the variable astray.  The model stops there: in the first the call   *)
(* has failed, and after the others what the controller would do is not    *)
(* known from the code.                                                    *)
(***************************************************************************)
EXTENDS Integers, Sequences

CONSTANTS
  Buffer,    (* TWI_BUFFER_LENGTH                                    *)
  MaxCalls,  (* bound: calls of twi_writeTo and twi_readFrom         *)
  MaxOthers, (* bound: transactions of the other master with us      *)
  MaxBytes   (* bound: bytes it transfers in one of them             *)

ASSUME TwiAssumption ==
  Buffer \in Nat \ {0} /\ {MaxCalls, MaxOthers, MaxBytes} \subseteq Nat

VARIABLES
  state,          (* twi_state                                            *)
  sendStop, inRepStart, error, sendAddr,  (* twi_..., send_twi_addr       *)
  index, length, buffer,  (* twi_masterBufferIndex, ...Length, and ...    *)
  rx,             (* the first twi_rxBufferIndex bytes of twi_rxBuffer    *)
  txIndex, txLength,      (* twi_txBufferIndex, twi_txBufferLength        *)
  pc, call,       (* the program: where it is in the call, its arguments  *)
  ctl,            (* the controller as a master: whether it owns the bus, *)
                  (*   the direction, its job and what is to follow it    *)
  status,         (* the interrupt it requests                            *)
  byte,           (* its data register                                    *)
  other,          (* the other master's transaction with us               *)
  astray,         (* see above                                            *)
  last            (* what the last call returned, for the properties      *)

master == <<sendStop, inRepStart, error, sendAddr, index, length, buffer>>
slave == <<rx, txIndex, txLength>>
program == <<pc, call, last>>
vars == <<state, sendStop, inRepStart, error, sendAddr, index, length, buffer, rx,
          txIndex, txLength, pc, call, ctl, status, byte, other, astray, last>>

Dummy == <<0, 0>>      \* DUMMY_VAL, and what is in a buffer at first
Nobody == [kind |-> "write", phase |-> "over", number |-> 0, bytes |-> <<>>,
           joined |-> FALSE, told |-> <<>>, unread |-> FALSE, held |-> FALSE]
Free == [own |-> FALSE, dir |-> "W", job |-> "none", then |-> "go"]

Init ==
  /\ state = "READY" /\ sendStop = TRUE /\ inRepStart = FALSE
  /\ error = "none" /\ sendAddr = FALSE
  /\ index = 0 /\ length = 0 /\ buffer = [i \in 0 .. Buffer |-> Dummy]
  /\ rx = <<>> /\ txIndex = 0 /\ txLength = 0
  /\ pc = "idle"
  /\ call = [op |-> "write", number |-> 0, len |-> 0, stop |-> TRUE,
             started |-> FALSE, moved |-> <<>>, fate |-> "none"]
  /\ ctl = Free /\ status = "none" /\ byte = Dummy
  /\ other = Nobody /\ astray = "no"
  /\ last = [call |-> call, error |-> "none", data |-> <<>>]

-----------------------------------------------------------------------------
(* The registers of the controller, as twi.cpp uses them.                  *)

\* i2cmaster_WriteAddrREG: START and the address; while bytes are read it is
\* kept until the last one.
WriteAddr(c, d) ==
  IF c.own /\ c.dir = "R" THEN [c EXCEPT !.then = d] ELSE [c EXCEPT !.job = d]

\* i2c_WriteDataREG: a byte is sent or, with any value, the next one is read.
WriteData(c) == [c EXCEPT !.job = IF c.dir = "R" THEN "read" ELSE "send"]

-----------------------------------------------------------------------------
(* The program: twi_writeTo and twi_readFrom.                              *)

Ready == status = "none"
Busy == state \in {"MT_TX", "MT_RX"}

Call(op, n, stop) ==
  /\ Ready /\ pc = "idle" /\ call.number < MaxCalls
  /\ op = "read" => n > 0   \* requestFrom
  /\ call' = [op |-> op, number |-> call.number + 1, len |-> n, stop |-> stop,
              started |-> FALSE, moved |-> <<>>, fate |-> "none"]
  /\ pc' = "test"
  /\ UNCHANGED <<state, master, slave, ctl, status, byte, other, astray, last>>

\* while (TWI_READY != twi_state)
Test ==
  /\ Ready /\ pc = "test" /\ state = "READY"
  /\ pc' = "claim"
  /\ UNCHANGED <<state, master, slave, call, last, ctl, status, byte, other, astray>>

Claim ==
  /\ Ready /\ pc = "claim"
  /\ state' = IF call.op = "write" THEN "MT_TX" ELSE "MT_RX"
  /\ pc' = "prepare"
  /\ UNCHANGED <<master, slave, call, last, ctl, status, byte, other, astray>>

Prepare ==
  /\ Ready /\ pc = "prepare"
  /\ sendStop' = call.stop /\ error' = "none"
  /\ index' = 0 /\ length' = call.len
  /\ buffer' = IF call.op = "read" THEN buffer
               ELSE [i \in 0 .. Buffer |->
                       IF i < call.len THEN <<call.number, i + 1>> ELSE buffer[i]]
  /\ pc' = "start"
  /\ UNCHANGED <<state, inRepStart, sendAddr, slave, call, last, ctl, status, byte,
                 other, astray>>

\* What I2C_ISR has begun is what the call is to do (or it is another slave).
Expected(op) ==
  IF op = "read" THEN ctl.job = "R" ELSE "W" \in {ctl.job, ctl.then}

Start ==
  /\ Ready /\ pc = "start" /\ pc' = "wait"
  /\ inRepStart' = FALSE
  /\ call' = [call EXCEPT !.moved = <<>>]
  /\ IF inRepStart
     THEN /\ astray' \in IF Expected(call.op) THEN {"no", "turned"} ELSE {"turned"}
          /\ UNCHANGED <<ctl, sendAddr>>
     ELSE /\ ctl' = WriteAddr(ctl, IF call.op = "write" THEN "W" ELSE "R")
          /\ sendAddr' = (sendAddr \/ call.op = "write")
          /\ UNCHANGED astray
  /\ UNCHANGED <<state, sendStop, error, index, length, buffer, slave, last, status,
                 byte, other>>

\* The loop ends: the call returns the error, or the bytes that were read.
Finish ==
  /\ Ready /\ pc = "wait" /\ ~Busy
  /\ pc' = "idle"
  /\ last' = [call |-> call, error |-> error,
              data |-> IF call.op = "write" THEN <<>>
                       ELSE [i \in 1 .. (IF index < call.len THEN index ELSE call.len)
                               |-> buffer[i - 1]]]
  /\ UNCHANGED <<state, master, slave, call, ctl, status, byte, other, astray>>

-----------------------------------------------------------------------------
(* I2C_ISR: the master.                                                    *)

\* The transaction ends with this byte of a read: with STOP, for which I2C_ISR
\* waits, so that the byte has come in; or with the START of a write.  The
\* program goes on at once.
Received == <<call.number, Len(call.moved) + 1>>
Moved(b) == [call EXCEPT !.moved = Append(@, b)]
ReadLast ==
  /\ state' = "READY"
  /\ IF sendStop
     THEN /\ ctl' = Free /\ status' = "MT_RXRDY" /\ byte' = Received /\ call' = Moved(Received)
          /\ UNCHANGED <<inRepStart, sendAddr>>
     ELSE /\ ctl' = WriteData(WriteAddr(ctl, "W")) /\ status' = "none"
          /\ inRepStart' = TRUE /\ sendAddr' = TRUE
          /\ UNCHANGED <<byte, call>>

ReadMore ==
  /\ ctl' = WriteData(ctl) /\ status' = "none"
  /\ UNCHANGED <<state, inRepStart, sendAddr, byte, call>>

IsrReadStarts ==
  /\ status = "MT_TX_DONE" /\ state = "MT_RX"
  /\ IF length > 1 THEN ReadMore ELSE ReadLast
  /\ UNCHANGED <<sendStop, error, index, length, buffer, slave, pc, last, other,
                 astray>>

\* twi_stop, or the START of a read.
EndWrite ==
  /\ state' = "READY"
  /\ IF sendStop THEN ctl' = Free /\ UNCHANGED inRepStart
     ELSE ctl' = WriteAddr(ctl, "R") /\ inRepStart' = TRUE
  /\ UNCHANGED <<index, byte>>

\* Mutant: the next byte is looked for before the index moves on.
SendPrevious == buffer[IF index = 0 THEN 0 ELSE index - 1]
NextByte == buffer[index]

IsrWriteGoesOn ==
  /\ status = "MT_TX_DONE" /\ state # "MT_RX" /\ status' = "none"
  /\ sendAddr' = FALSE
  /\ IF index < length
     THEN /\ byte' = NextByte /\ index' = index + 1
          /\ ctl' = WriteData(ctl)
          /\ UNCHANGED <<state, inRepStart>>
     ELSE EndWrite
  /\ UNCHANGED <<sendStop, error, length, buffer, slave, program, other, astray>>

IsrNack ==
  /\ status = "MT_TXDONE_NACK" /\ status' = "none"
  /\ error' = IF sendAddr THEN "addr" ELSE "data"
  /\ sendAddr' = FALSE
  /\ state' = "READY" /\ ctl' = Free
  /\ UNCHANGED <<sendStop, inRepStart, index, length, buffer, slave, program, byte,
                 other, astray>>

\* twi_releaseBus (mutant: it does not end the call)
StaysBusy == state
Released == "READY"
IsrArbLost ==
  /\ status = "MT_ARB_LOST" /\ status' = "none"
  /\ error' = "arb"
  /\ state' = Released /\ ctl' = Free
  /\ UNCHANGED <<sendStop, inRepStart, sendAddr, index, length, buffer, slave,
                 program, byte, other, astray>>

\* The next to last byte has come in (mutant: the last one).
IsLast == index' = length
IsNextToLast == index' = length - 1

IsrRxRdy ==
  /\ status = "MT_RXRDY"
  /\ buffer' = [buffer EXCEPT ![index] = byte]
  /\ index' = index + 1
  /\ IF IsNextToLast THEN ReadLast
     ELSE IF index' < length THEN ReadMore
     ELSE /\ status' = "none"
          /\ UNCHANGED <<state, inRepStart, sendAddr, ctl, byte, call>>
  /\ UNCHANGED <<sendStop, error, length, slave, pc, last, other, astray>>

-----------------------------------------------------------------------------
(* I2C_ISR: the slave.  The n-th byte of a transaction is the number n.    *)

SlaveServed ==
  /\ astray' = IF pc = "claim" \/ Busy THEN "raced" ELSE "no"
  /\ UNCHANGED <<master, program, ctl>>

\* With a full buffer the byte is not taken from the data register.
RxFull == state = "SL_RX" /\ Len(rx) >= Buffer
IsrSlRx ==
  /\ status = "SL_RXRDY" /\ status' = "none"
  /\ state' = "SL_RX"
  /\ rx' = IF RxFull THEN rx
           ELSE IF state = "SL_RX" THEN Append(rx, byte[2])
           ELSE <<byte[2]>>
  /\ other' = [other EXCEPT !.unread = RxFull]
  /\ SlaveServed /\ UNCHANGED <<txIndex, txLength, byte>>

\* twi_onSlaveReceive, whether bytes were received or sent.  The byte that came
\* together with the STOP (I2CSTAT_RXRDY + SL_GET_STOP) is not read.
IsrSlStop ==
  /\ status \in {"SL_GET_STOP", "SL_RX_STOP"} /\ status' = "none"
  /\ other' = [other EXCEPT !.told = rx, !.phase = "over",
                            !.unread = @ \/ status = "SL_RX_STOP"]
  /\ rx' = <<>> /\ state' = "READY"
  /\ SlaveServed /\ UNCHANGED <<txIndex, txLength, byte>>

\* i2c_WriteDataREG(0, twi_txBuffer[i])
Transmit(i) == byte' = <<0, i + 1>> /\ other' = [other EXCEPT !.phase = "moving"]

\* twi_onSlaveTransmit, which calls twi_transmit with n bytes or not at all
\* (mutant: the index is not reset).
Continued == txIndex
FirstIndex == 0
IsrSlNeed ==
  /\ status = "SL_NEEDTOW" /\ status' = "none"
  /\ state' = "SL_TX"
  /\ IF state # "SL_TX"
     THEN /\ \E n \in 0 .. Buffer : txLength' = IF n = 0 THEN 1 ELSE n
          /\ Transmit(FirstIndex) /\ txIndex' = FirstIndex + 1
     ELSE Transmit(txIndex) /\ txIndex' = txIndex + 1 /\ UNCHANGED txLength
  /\ SlaveServed /\ UNCHANGED rx

Clamped(i) == IF i >= txLength THEN txLength - 1 ELSE i

IsrSlDone ==
  /\ status = "SL_TX_DONE" /\ status' = "none"
  /\ txIndex' = Clamped(txIndex)
  /\ SlaveServed /\ UNCHANGED <<state, rx, txLength, byte, other>>

\* I2CSTAT_SLAVEWREQ + SL_TX_DONE
IsrSlNeedDone ==
  /\ status = "SL_NEED_DONE" /\ status' = "none"
  /\ Transmit(txIndex) /\ txIndex' = Clamped(txIndex + 1)
  /\ SlaveServed /\ UNCHANGED <<state, rx, txLength>>

Isr ==
  \/ IsrReadStarts \/ IsrWriteGoesOn \/ IsrNack \/ IsrArbLost \/ IsrRxRdy
  \/ IsrSlRx \/ IsrSlStop \/ IsrSlNeed \/ IsrSlDone \/ IsrSlNeedDone

-----------------------------------------------------------------------------
(* The controller and the slave it talks to.                               *)

Stray(how) ==
  /\ astray' = how
  /\ UNCHANGED <<state, master, slave, program, ctl, status, byte, other>>

Raise(s) ==
  /\ status' = s
  /\ UNCHANGED <<state, master, slave, pc, last, astray>>

\* START and the address, when the bus is ours or free.  The slave that was
\* addressed again does not wait for the call it is meant for.
AddressSent ==
  /\ Ready /\ ctl.job \in {"W", "R"} /\ (ctl.own \/ other.phase = "over")
  /\ \/ inRepStart /\ Stray("early")
     \/ /\ ~inRepStart
        /\ ctl' = [ctl EXCEPT !.own = TRUE, !.dir = ctl.job, !.job = "none"]
        /\ UNCHANGED <<byte, other>>
        /\ \/ /\ call' = [call EXCEPT !.started = (ctl.job = "W") = (call.op = "write")]
              /\ Raise("MT_TX_DONE")
           \/ call' = [call EXCEPT !.fate = "addr"] /\ Raise("MT_TXDONE_NACK")
     \/ /\ ~ctl.own
        /\ call' = [call EXCEPT !.fate = "arb"]
        /\ Raise("MT_ARB_LOST") /\ UNCHANGED <<ctl, byte, other>>

ByteSent ==
  /\ Ready /\ ctl.job = "send"
  /\ ctl' = [ctl EXCEPT !.job = "none"]
  /\ \/ call' = Moved(byte) /\ Raise("MT_TX_DONE")
     \/ call' = [call EXCEPT !.fate = "data"] /\ Raise("MT_TXDONE_NACK")
  /\ UNCHANGED <<byte, other>>

\* The last byte of a read without STOP finds the index of the next call.
IsLate == ctl.then # "go" /\ (pc = "start" \/ ~inRepStart)

ByteRead ==
  /\ Ready /\ ctl.job = "read"
  /\ \/ IsLate /\ Stray("late")
     \/ /\ ~IsLate
        /\ byte' = Received /\ call' = Moved(Received)
        /\ ctl' = [ctl EXCEPT !.job = IF ctl.then = "go" THEN "none" ELSE ctl.then,
                              !.then = "go"]
        /\ Raise("MT_RXRDY") /\ UNCHANGED other

Controller == AddressSent \/ ByteSent \/ ByteRead

-----------------------------------------------------------------------------
(* The other master, which writes to us or reads from us.                  *)

OtherStarts ==
  /\ Ready /\ other.phase = "over" /\ ~ctl.own /\ other.number < MaxOthers
  /\ \E kind \in {"write", "read"} :
       /\ other' = [Nobody EXCEPT !.phase = "on", !.number = other.number + 1,
                                  !.kind = kind, !.unread = other.unread]
       /\ Raise(IF kind = "write" THEN "none" ELSE "SL_NEEDTOW")
  /\ UNCHANGED <<ctl, byte, call>>

Writing == Ready /\ other.phase = "on" /\ other.kind = "write" /\ ~other.held

\* A byte, with the STOP right after it or not.
OtherWrites ==
  /\ Writing /\ Len(other.bytes) < MaxBytes
  /\ byte' = <<0, Len(other.bytes) + 1>>
  /\ \E stop \in BOOLEAN :
       /\ other' = [other EXCEPT !.bytes = Append(@, byte'[2]), !.joined = stop,
                                 !.phase = IF stop THEN "stopped" ELSE "on"]
       /\ Raise(IF stop THEN "SL_RX_STOP" ELSE "SL_RXRDY")
  /\ UNCHANGED <<ctl, call>>

\* The clock is held while a byte is unread.
OtherHeld ==
  /\ Writing /\ Len(other.bytes) < MaxBytes /\ other.unread
  /\ other' = [other EXCEPT !.held = TRUE]
  /\ Raise(status) /\ UNCHANGED <<ctl, byte, call>>

\* It takes the byte and asks for more, of which one or two interrupts tell,
\* or it has enough.
OtherReads ==
  /\ Ready /\ other.phase = "moving"
  /\ \E next \in {"stopping"} \cup (IF Len(other.bytes) + 1 < MaxBytes
                                    THEN {"asking", "on"} ELSE {}) :
       /\ other' = [other EXCEPT !.bytes = Append(@, byte[2]), !.phase = next]
       /\ Raise(CASE next = "stopping" -> "none"
                  [] next = "asking" -> "SL_TX_DONE"
                  [] next = "on" -> "SL_NEED_DONE")
  /\ UNCHANGED <<ctl, byte, call>>

OtherAsks ==
  /\ Ready /\ other.phase = "asking"
  /\ other' = [other EXCEPT !.phase = "on"]
  /\ Raise("SL_NEEDTOW") /\ UNCHANGED <<ctl, byte, call>>

OtherStops ==
  /\ Writing \/ (Ready /\ other.phase = "stopping")
  /\ other' = [other EXCEPT !.phase = "stopped"]
  /\ Raise("SL_GET_STOP") /\ UNCHANGED <<ctl, byte, call>>

OtherGoesOn == OtherWrites \/ OtherHeld \/ OtherReads \/ OtherAsks \/ OtherStops

-----------------------------------------------------------------------------

Program ==
  Test \/ Claim \/ Prepare \/ Start \/ Finish

Next ==
  /\ astray = "no"
  /\ \/ \E op \in {"write", "read"}, n \in 0 .. Buffer, stop \in BOOLEAN :
          Call(op, n, stop)
     \/ Program \/ Isr \/ Controller \/ OtherStarts \/ OtherGoesOn

Spec == Init /\ [][Next]_vars

\* The processor runs, the controller finishes what it was told to do, and the
\* other master does not stop in the middle of a transaction.
Unless(A) == astray = "no" /\ A
FairSpec ==
  /\ Spec
  /\ WF_vars(Unless(Program)) /\ WF_vars(Unless(Isr))
  /\ WF_vars(Unless(Controller)) /\ WF_vars(Unless(OtherGoesOn))

-----------------------------------------------------------------------------
(* Properties.                                                             *)

Bytes(c) == [i \in 1 .. c.len |-> <<c.number, i>>]
Prefix(s, n) == SubSeq(s, 1, n)

\* A call that ends with STOP or with an error leaves the bus to others.
GivenBack(c) == pc = "idle" /\ (c.stop \/ c.fate # "none") => ctl = Free

\* twi_writeTo tells what happened: with 0 the slave has acknowledged its
\* address and all the bytes, in order; with 2, 3 or 4 it did not acknowledge
\* the address or a byte, or the arbitration was lost.  The bus is given back.
Writes ==
  LET c == last.call IN
  c.op = "write" =>
    /\ last.error = c.fate
    /\ c.moved = Prefix(Bytes(c), Len(c.moved))
    /\ c.number > 0 /\ c.fate = "none" => c.started /\ Len(c.moved) = c.len
    /\ GivenBack(c)

\* twi_readFrom returns the bytes the slave sent in this transaction, in order:
\* all that were asked for if the slave was there, but without STOP the last
\* one may be missing.  No more are clocked out of the slave than were asked
\* for, and the bus is given back.
Reads ==
  LET c == last.call IN
  c.op = "read" =>
    /\ last.data = Prefix(c.moved, Len(last.data))
    /\ Len(c.moved) <= c.len
    /\ c.fate = "none" => Len(last.data) + (IF c.stop THEN 0 ELSE 1) >= c.len
    /\ GivenBack(c)

\* The callback gets the bytes the other master wrote, in order, from the first
\* one on: all but those the buffer had no room for and one that came together
\* with the STOP, which I2C_ISR does not read (twi.cpp:745).  What the other
\* master reads is our reply, in order and from its first byte on, for as long
\* as the reply is.
SlaveSide ==
  /\ other.phase = "over" =>
       other.told = IF other.kind = "read" THEN <<>>
                    ELSE LET n == Len(other.bytes) - (IF other.joined THEN 1 ELSE 0)
                         IN Prefix(other.bytes, IF n < Buffer THEN n ELSE Buffer)
  /\ other.kind = "read" =>
       \A k \in DOMAIN other.bytes : k <= txLength => other.bytes[k] = k

\* Asked for more than the reply holds, the slave sends its last byte again:
\* twi.cpp:792, "if too many SL_NEEDTOW command, send the last byte to master".
LastByteAgain ==
  other.kind = "read" =>
    \A k \in DOMAIN other.bytes : k > txLength => other.bytes[k] = txLength

\* Every call returns: its wait for TWI_READY and its wait for the transaction
\* end, unless the other master is held in the middle of its write.
CallsReturn == pc # "idle" ~> pc = "idle" \/ astray # "no" \/ other.held
=============================================================================
