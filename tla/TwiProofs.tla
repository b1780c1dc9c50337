------------------------------ MODULE TwiProofs -------------------------------
(***************************************************************************)
(* Proofs about Twi, for a buffer of any size and any number of calls, of  *)
(* transactions of the other master and of bytes in them.                  *)
(*                                                                         *)
(* twi_state, the interrupt requested and the controller's registers are   *)
(* three accounts of one transaction.  The invariant lists the ways in     *)
(* which they may agree, while a call is waiting (AtWork) and while none   *)
(* is (AtRest), where I2C_ISR may have begun the next transaction.  The    *)
(* slave's half says where the byte under way is: in the data register,    *)
(* where it may stay unread, in twi_rxBuffer or before twi_txBufferIndex.  *)
(***************************************************************************)
EXTENDS Twi, SequenceTheorems, TLAPS

-----------------------------------------------------------------------------
(* The inductive invariant.                                                *)

Errors == {"none", "addr", "data", "arb"}
Pairs == Nat \X Nat
CallRecords ==
  [op : {"write", "read"}, number : Nat, len : 0 .. Buffer, stop : BOOLEAN,
   started : BOOLEAN, moved : Seq(Pairs), fate : Errors]
Controls == [own : BOOLEAN, dir : {"W", "R"},
             job : {"none", "W", "R", "send", "read"}, then : {"go", "W", "R"}]
Transactions ==
  [kind : {"write", "read"},
   phase : {"over", "on", "moving", "asking", "stopping", "stopped"},
   number : Nat, bytes : Seq(Nat), joined : BOOLEAN, told : Seq(Nat),
   unread : BOOLEAN, held : BOOLEAN]
MtStatus == {"MT_TX_DONE", "MT_TXDONE_NACK", "MT_ARB_LOST", "MT_RXRDY"}
SlStatus == {"SL_RXRDY", "SL_GET_STOP", "SL_RX_STOP", "SL_NEEDTOW", "SL_TX_DONE",
             "SL_NEED_DONE"}

\* What the variables range over.
Types ==
  /\ state \in {"READY", "MT_TX", "MT_RX", "SL_TX", "SL_RX"}
  /\ sendStop \in BOOLEAN /\ inRepStart \in BOOLEAN /\ sendAddr \in BOOLEAN
  /\ error \in Errors
  /\ index \in 0 .. Buffer /\ length \in 0 .. Buffer
  /\ buffer \in [0 .. Buffer -> Pairs]
  /\ rx \in Seq(Nat) /\ txIndex \in Nat /\ txLength \in 0 .. Buffer
  /\ pc \in {"idle", "test", "claim", "prepare", "start", "wait"}
  /\ call \in CallRecords
  /\ ctl \in Controls
  /\ status \in {"none"} \cup MtStatus \cup SlStatus
  /\ byte \in Pairs
  /\ other \in Transactions
  /\ astray \in {"no", "turned", "raced", "early", "late"}
  /\ last \in [call : CallRecords, error : Errors, data : Seq(Pairs)]

Letter == IF call.op = "write" THEN "W" ELSE "R"
Owned(d, j, t) == [own |-> TRUE, dir |-> d, job |-> j, then |-> t]
Moves == Len(call.moved)

\* The controller when no transaction of a call is under way: it has nothing to
\* do; or the last byte of a read has come in and I2C_ISR has not seen it;
Quiet == ctl = Free /\ ~inRepStart /\ status \notin MtStatus
LastWaits ==
  /\ ctl = Free /\ ~inRepStart /\ status = "MT_RXRDY"
  /\ pc = "wait" /\ call.op = "read" /\ index = length - 1
\* or, without STOP, it has the address to send again, or before that the last
\* byte of a read to receive or to deliver.
Again ==
  /\ \E d \in {"W", "R"}, j \in {"W", "R"} :
       ctl = Owned(d, j, "go") /\ (j = "W" => sendAddr)
  /\ inRepStart /\ status = "none"
LastComes ==
  /\ ctl = Owned("R", "read", "W") /\ inRepStart /\ sendAddr /\ status = "none"
  /\ pc # "start" => index = length - 1
LastCame ==
  /\ ctl = Owned("R", "W", "go") /\ inRepStart /\ sendAddr /\ status = "MT_RXRDY"
  /\ pc # "start" /\ index = length - 1
AtRest == Quiet \/ LastWaits \/ Again \/ LastComes \/ LastCame

\* The controller in a transaction: the address is to be sent, in the direction
\* of the call unless the last byte of a read without STOP is still to come,
Fresh == call.fate = "none" /\ call.moved = <<>> /\ index = 0
Addressing ==
  /\ ctl.job = Letter /\ ctl.then = "go" /\ Fresh
  /\ status \notin MtStatus
  /\ call.op = "write" => sendAddr
Misled ==
  /\ ctl = Owned("R", "read", "W") /\ call.op = "write" /\ status = "none"
\* the address or a byte was acknowledged, a byte is sent,
Acknowledged ==
  /\ status = "MT_TX_DONE" /\ ctl = Owned(Letter, "none", "go")
  /\ call.fate = "none" /\ call.started /\ index = Moves
  /\ call.op = "read" => index = 0
Sending ==
  /\ status = "none" /\ ctl = Owned("W", "send", "go") /\ ~sendAddr
  /\ call.op = "write" /\ call.fate = "none" /\ call.started
  /\ index = Moves + 1 /\ byte = <<call.number, index>>
\* a byte that is not the last one is to come or has come,
Reading ==
  /\ status = "none" /\ ctl = Owned("R", "read", "go")
  /\ call.op = "read" /\ call.fate = "none"
  /\ index = Moves /\ index < length - 1
ByteCame ==
  /\ status = "MT_RXRDY" /\ ctl = Owned("R", "none", "go")
  /\ call.op = "read" /\ call.fate = "none"
  /\ Moves = index + 1 /\ index < length - 1
\* or it failed.
Refused ==
  /\ status = "MT_TXDONE_NACK" /\ call.fate \in {"addr", "data"}
  /\ call.op = "write" => (call.fate = "addr" <=> sendAddr)
  /\ Moves <= length
  /\ call.op = "read" => Moves = 0 /\ index = 0
BusLost ==
  status = "MT_ARB_LOST" /\ call.fate = "arb" /\ Moves = 0 /\ index = 0
AtWork ==
  \/ Addressing \/ Misled \/ Acknowledged \/ Sending \/ Reading \/ ByteCame
  \/ Refused \/ BusLost

Waiting == pc = "wait" /\ Busy
Master ==
  /\ pc \in {"prepare", "start"} \/ Waiting
       => state = IF call.op = "write" THEN "MT_TX" ELSE "MT_RX"
  /\ pc \in {"idle", "test", "claim"} => ~Busy
  /\ pc = "claim" => state = "READY"
  /\ ~Waiting => AtRest
  /\ Waiting => AtWork /\ ~inRepStart /\ error = "none"

\* What the call has been told of, and what it has moved.
Arguments ==
  /\ pc \in {"start", "wait"} =>
       /\ length = call.len /\ sendStop = call.stop
       /\ call.op = "write" =>
            \A i \in 0 .. Buffer : i < length => buffer[i] = <<call.number, i + 1>>
  /\ pc \in {"test", "claim", "prepare", "start"} => call.fate = "none"
  /\ pc = "start" => error = "none" /\ index = 0
  /\ call.op = "read" => call.len > 0
  /\ \A k \in DOMAIN call.moved : call.moved[k] = <<call.number, k>>
  /\ index <= length
BytesIn ==
  pc = "wait" /\ call.op = "read" =>
    /\ \A i \in 0 .. Buffer : i < index => buffer[i] = <<call.number, i + 1>>
    /\ status = "MT_RXRDY" => byte = <<call.number, index + 1>>

\* The transaction is over and the call has not returned.
Ended ==
  pc = "wait" /\ ~Busy =>
    /\ call.stop \/ call.fate # "none" => ctl = Free
    /\ call.op = "write" =>
         /\ error = call.fate /\ Moves <= length
         /\ call.fate = "none" => call.started /\ Moves = length
         /\ ctl = Free \/ ctl.job = "R"
         /\ status # "MT_RXRDY"
    /\ call.op = "read" =>
         /\ Moves = IF status = "MT_RXRDY" THEN index + 1 ELSE index
         /\ call.fate = "none" =>
              index = length \/ (index = length - 1 /\ (~call.stop \/ status = "MT_RXRDY"))

\* The other master writes to us: what I2C_ISR was told of before is in
\* twi_rxBuffer, as far as there is room; the last byte may wait in the register.
Deaf ==
  /\ ctl.own => other.phase = "over"
  /\ other.phase = "over" =>
       state \in {"READY", "MT_TX", "MT_RX"} /\ status \notin SlStatus
  /\ state # "SL_RX" \/ other.kind = "read" \/ other.phase = "over" => rx = <<>>
  /\ status \in {"SL_GET_STOP", "SL_RX_STOP"} <=> other.phase = "stopped"
Taken == Len(other.bytes)
Pending == status \in {"SL_RXRDY", "SL_RX_STOP"}
Before == IF Pending THEN Taken - 1 ELSE Taken
Written ==
  /\ other.held => other.kind = "write" /\ other.phase = "on" /\ status \notin SlStatus
  /\ other.kind = "write" => other.phase \in {"over", "on", "stopped"}
  /\ status = "SL_RXRDY" => other.kind = "write" /\ other.phase = "on"
  /\ status = "SL_RX_STOP" => other.kind = "write"
  /\ other.kind = "write" /\ other.phase # "over" =>
       /\ other.joined <=> status = "SL_RX_STOP"
       /\ Pending => Taken > 0 /\ byte[2] = other.bytes[Taken]
       /\ Len(rx) = IF Before < Buffer THEN Before ELSE Buffer
       /\ \A k \in DOMAIN rx : rx[k] = other.bytes[k]

\* It reads from us: where twi_txBufferIndex is.
Told ==
  /\ status \in {"SL_NEEDTOW", "SL_NEED_DONE"} => other.kind = "read" /\ other.phase = "on"
  /\ status = "SL_TX_DONE" => other.kind = "read" /\ other.phase = "asking"
  /\ other.kind = "read" /\ other.phase = "on" =>
       \/ status = "SL_NEEDTOW"
       \/ status = "SL_NEED_DONE" /\ Taken > 0
Reply ==
  other.kind = "read" /\ other.phase # "over" =>
    /\ other.phase = "on" /\ Taken = 0 => state # "SL_TX"
    /\ other.phase = "asking" => Taken > 0
    /\ other.phase = "moving" \/ Taken > 0 => state = "SL_TX" /\ txLength > 0
    /\ other.phase = "moving" =>
         /\ IF Taken < txLength THEN byte[2] = Taken + 1
            ELSE byte[2] \in {txLength, txLength + 1}
         /\ IF Taken + 1 < txLength THEN txIndex = Taken + 1
            ELSE txIndex \in {txLength - 1, txLength}
    /\ other.phase \in {"on", "asking"} /\ Taken > 0 =>
         IF Taken < txLength THEN txIndex = Taken
         ELSE /\ txIndex \in {txLength - 1, txLength}
              /\ status \notin {"SL_TX_DONE", "SL_NEED_DONE"} => txIndex = txLength - 1

Inv ==
  astray = "no" =>
    Master /\ Arguments /\ BytesIn /\ Ended /\ Deaf /\ Written /\ Told /\ Reply
IInv == Types /\ Inv /\ Writes /\ Reads /\ SlaveSide

-----------------------------------------------------------------------------
(* Types.                                                                  *)

\* A call's record keeps its type when a byte moves or the transaction fails.
LEMMA CallTypes ==
  ASSUME call \in CallRecords
  PROVE  /\ \A b \in Pairs : Moved(b) \in CallRecords
         /\ \A f \in Errors : [call EXCEPT !.fate = f] \in CallRecords
         /\ \A s \in BOOLEAN : [call EXCEPT !.started = s] \in CallRecords
         /\ [call EXCEPT !.moved = <<>>] \in CallRecords
         /\ Received \in Pairs /\ call \in CallRecords
<1>1. call.moved \in Seq(Pairs) /\ call.number \in Nat
  BY DEF CallRecords
<1>2. \A b \in Pairs : Append(call.moved, b) \in Seq(Pairs)
  BY <1>1
<1>3. Received \in Pairs
  BY <1>1 DEF Received, Pairs
<1>4. \A b \in Pairs : Moved(b) \in CallRecords
  BY <1>2 DEF CallRecords, Moved
<1>5. \A f \in Errors : [call EXCEPT !.fate = f] \in CallRecords
  BY DEF CallRecords
<1>6. \A s \in BOOLEAN : [call EXCEPT !.started = s] \in CallRecords
  BY DEF CallRecords
<1>7. <<>> \in Seq(Pairs)
  OBVIOUS
<1>8. [call EXCEPT !.moved = <<>>] \in CallRecords
  BY <1>7 DEF CallRecords
<1> QED BY <1>3, <1>4, <1>5, <1>6, <1>8

\* The program's steps keep the types.
LEMMA ProgramTypes ==
  ASSUME Types,
         \/ \E op \in {"write", "read"}, n \in 0 .. Buffer, stop \in BOOLEAN : Call(op, n, stop)
         \/ Program
  PROVE  Types'
<1>0. Buffer \in Nat
  BY TwiAssumption
<1>1. ASSUME NEW op \in {"write", "read"}, NEW n \in 0 .. Buffer, NEW stop \in BOOLEAN,
             Call(op, n, stop)
      PROVE  Types'
  <2>1. call' \in CallRecords
    <3>1. call.number + 1 \in Nat /\ <<>> \in Seq(Pairs)
      BY DEF Types, CallRecords
    <3> QED BY <1>1, <3>1 DEF Call, CallRecords, Errors
  <2> QED BY <1>1, <2>1 DEF Types, Call, master, slave
<1>2. CASE Test
  BY <1>2 DEF Types, Test, master, slave
<1>3. CASE Claim
  BY <1>3 DEF Types, Claim, master, slave
<1>4. CASE Prepare
  <2>1. call.len \in 0 .. Buffer /\ call.stop \in BOOLEAN /\ call.number \in Nat
    BY DEF Types, CallRecords
  <2>2. \A i \in 0 .. Buffer : <<call.number, i + 1>> \in Pairs /\ buffer[i] \in Pairs
    <3>1. \A i \in 0 .. Buffer : i + 1 \in Nat
      BY <1>0
    <3>2. \A i \in 0 .. Buffer : <<call.number, i + 1>> \in Pairs
      BY <2>1, <3>1 DEF Pairs
    <3> QED BY <3>2 DEF Types
  <2>3. buffer' \in [0 .. Buffer -> Pairs]
    BY <1>4, <2>2 DEF Types, Prepare
  <2> QED BY <1>4, <1>0, <2>1, <2>3 DEF Types, Prepare, slave, Errors
<1>5. CASE Start
  <2>1. call' \in CallRecords
    BY <1>5, CallTypes DEF Types, Start
  <2>2. ctl' \in Controls
    BY <1>5 DEF Types, Start, WriteAddr, Controls
  <2>3. sendAddr' \in BOOLEAN /\ astray' \in {"no", "turned", "raced", "early", "late"}
    BY <1>5 DEF Types, Start
  <2> QED BY <1>5, <2>1, <2>2, <2>3 DEF Types, Start, slave
<1>6. CASE Finish
  <2>1. \A n \in 0 .. Buffer : [i \in 1 .. n |-> buffer[i - 1]] \in Seq(Pairs)
    <3>1. ASSUME NEW n \in 0 .. Buffer
          PROVE  [i \in 1 .. n |-> buffer[i - 1]] \in Seq(Pairs)
      <4>1. n \in Nat /\ \A i \in 1 .. n : buffer[i - 1] \in Pairs
        BY <1>0 DEF Types
      <4> QED BY <4>1, IsASeq
    <3> QED BY <3>1
  <2>2. (IF index < call.len THEN index ELSE call.len) \in 0 .. Buffer /\ <<>> \in Seq(Pairs)
    BY DEF Types, CallRecords
  <2>3. (IF call.op = "write" THEN <<>>
         ELSE [i \in 1 .. (IF index < call.len THEN index ELSE call.len) |-> buffer[i - 1]])
          \in Seq(Pairs)
    BY <2>1, <2>2
  <2>4. last' \in [call : CallRecords, error : Errors, data : Seq(Pairs)]
    BY <1>6, <2>3 DEF Types, Finish
  <2> QED BY <1>6, <2>4 DEF Types, Finish, master, slave
<1> QED BY <1>1, <1>2, <1>3, <1>4, <1>5, <1>6 DEF Program

\* I2C_ISR's steps as the master keep the types.
LEMMA MasterTypes ==
  ASSUME Types, Arguments, astray = "no",
         IsrReadStarts \/ IsrWriteGoesOn \/ IsrNack \/ IsrArbLost \/ IsrRxRdy,
         status = "MT_RXRDY" => index < length
  PROVE  Types'
<1>0. Buffer \in Nat
  BY TwiAssumption
<1>1. /\ call \in CallRecords /\ Received \in Pairs /\ Moved(Received) \in CallRecords
      /\ byte \in Pairs /\ ctl \in Controls
  BY CallTypes DEF Types
<1>2. /\ WriteData(WriteAddr(ctl, "W")) \in Controls /\ WriteData(ctl) \in Controls
      /\ WriteAddr(ctl, "R") \in Controls /\ Free \in Controls
  BY <1>1 DEF WriteData, WriteAddr, Free, Controls
<1>3. ASSUME ReadMore \/ ReadLast
      PROVE  /\ ctl' \in Controls /\ state' \in {"READY", state} /\ inRepStart' \in BOOLEAN
             /\ sendAddr' \in BOOLEAN /\ byte' \in Pairs /\ call' \in CallRecords
             /\ status' \in {"none", "MT_RXRDY"}
  BY <1>1, <1>2, <1>3 DEF ReadMore, ReadLast, Types
<1>4. CASE IsrReadStarts
  BY <1>4, <1>3 DEF IsrReadStarts, Types, slave, MtStatus
<1>5. CASE IsrWriteGoesOn
  <2>1. index < length => index + 1 \in 0 .. Buffer /\ buffer[index] \in Pairs
    BY <1>0 DEF Types
  <2>2. /\ ctl' \in Controls /\ state' \in {"READY", state} /\ inRepStart' \in BOOLEAN
        /\ byte' \in Pairs /\ index' \in 0 .. Buffer
    BY <1>5, <1>1, <1>2, <2>1 DEF IsrWriteGoesOn, EndWrite, NextByte, Types
  <2> QED BY <1>5, <2>2 DEF IsrWriteGoesOn, Types, slave, program
<1>6. CASE IsrNack
  <2>1. error' \in Errors /\ ctl' \in Controls /\ status' = "none" /\ state' = "READY" /\ sendAddr' = FALSE
    BY <1>6, <1>2 DEF IsrNack, Errors
  <2> QED BY <1>6, <2>1 DEF IsrNack, Types, slave, program
<1>7. CASE IsrArbLost
  BY <1>7, <1>2 DEF IsrArbLost, Types, slave, program, Errors, Released
<1>8. CASE IsrRxRdy
  <2>1. index' \in 0 .. Buffer /\ buffer' \in [0 .. Buffer -> Pairs]
    <3>1. index < length /\ index' = index + 1 /\ buffer' = [buffer EXCEPT ![index] = byte]
      BY <1>8 DEF IsrRxRdy
    <3> QED BY <1>0, <1>1, <3>1 DEF Types
  <2>2. /\ ctl' \in Controls /\ state' \in {"READY", state} /\ inRepStart' \in BOOLEAN
        /\ sendAddr' \in BOOLEAN /\ byte' \in Pairs /\ call' \in CallRecords
        /\ status' \in {"none", "MT_RXRDY"}
    BY <1>8, <1>1, <1>3 DEF IsrRxRdy, Types
  <2> QED BY <1>8, <2>1, <2>2 DEF IsrRxRdy, Types, slave, MtStatus
<1> QED BY <1>4, <1>5, <1>6, <1>7, <1>8

\* I2C_ISR's steps as a slave keep the types.
LEMMA SlaveTypes ==
  ASSUME Types, astray = "no", status \in {"SL_TX_DONE", "SL_NEED_DONE"} => txLength > 0,
         IsrSlRx \/ IsrSlStop \/ IsrSlNeed \/ IsrSlDone \/ IsrSlNeedDone
  PROVE  Types'
<1>0. Buffer \in Nat /\ TwiAssumption
  BY TwiAssumption DEF TwiAssumption
<1>1. astray' \in {"no", "raced"} /\ UNCHANGED <<master, program, ctl>>
  BY DEF IsrSlRx, IsrSlStop, IsrSlNeed, IsrSlDone, IsrSlNeedDone, SlaveServed
<1>2. byte[2] \in Nat /\ other \in Transactions /\ txIndex \in Nat /\ txLength \in 0 .. Buffer
  BY DEF Types, Pairs
<1>3. ASSUME NEW i \in Nat, Transmit(i)
      PROVE  byte' \in Pairs /\ other' \in Transactions
  <2>1. i + 1 \in Nat
    OBVIOUS
  <2>2. byte' \in Pairs
    BY <1>3, <2>1 DEF Transmit, Pairs
  <2>3. other' \in Transactions
    BY <1>2, <1>3 DEF Transmit, Transactions
  <2> QED BY <2>2, <2>3
<1>4. CASE IsrSlRx
  <2>1. <<byte[2]>> \in Seq(Nat) /\ Append(rx, byte[2]) \in Seq(Nat)
    BY <1>2 DEF Types
  <2>2. rx' \in Seq(Nat) /\ other' \in Transactions
    BY <1>4, <1>2, <2>1 DEF IsrSlRx, RxFull, Types, Transactions
  <2> QED BY <1>4, <1>1, <2>2 DEF IsrSlRx, Types, master, program
<1>5. CASE IsrSlStop
  <2>1. rx' \in Seq(Nat) /\ rx \in Seq(Nat) /\ other' = [other EXCEPT !.told = rx, !.phase = "over",
                               !.unread = @ \/ status = "SL_RX_STOP"]
    BY <1>5 DEF IsrSlStop, Types
  <2>2. other' \in Transactions
    BY <1>2, <2>1 DEF Transactions
  <2> QED BY <1>5, <1>1, <2>1, <2>2 DEF IsrSlStop, Types, master, program
<1>6. CASE IsrSlNeed
  <2>1. txIndex' \in Nat /\ txLength' \in 0 .. Buffer
    BY <1>6, <1>0, <1>2 DEF IsrSlNeed, FirstIndex, TwiAssumption
  <2>2. byte' \in Pairs /\ other' \in Transactions
    BY <1>6, <1>2, <1>3 DEF IsrSlNeed, FirstIndex
  <2> QED BY <1>6, <1>1, <2>1, <2>2 DEF IsrSlNeed, Types, master, program
<1>7. CASE IsrSlDone
  <2>1. txIndex' \in Nat
    BY <1>7, <1>0, <1>2 DEF IsrSlDone, Clamped
  <2> QED BY <1>7, <1>1, <2>1 DEF IsrSlDone, Types, master, program
<1>8. CASE IsrSlNeedDone
  <2>1. txIndex' \in Nat
    BY <1>8, <1>0, <1>2 DEF IsrSlNeedDone, Clamped
  <2>2. byte' \in Pairs /\ other' \in Transactions
    BY <1>8, <1>2, <1>3 DEF IsrSlNeedDone
  <2> QED BY <1>8, <1>1, <2>1, <2>2 DEF IsrSlNeedDone, Types, master, program
<1> QED BY <1>4, <1>5, <1>6, <1>7, <1>8

\* The controller's and the other master's steps keep the types.
LEMMA BusTypes ==
  ASSUME Types, Controller \/ OtherStarts \/ OtherGoesOn
  PROVE  Types'
<1> DEFINE Stati == {"none"} \cup MtStatus \cup SlStatus
<1>1. byte \in Pairs /\ byte[2] \in Nat /\ other \in Transactions /\ ctl \in Controls /\ Received \in Pairs
  BY CallTypes DEF Types, Pairs
<1>2. ASSUME NEW s \in Stati, Raise(s), ctl' \in Controls, byte' \in Pairs, other' \in Transactions,
             call' \in CallRecords
      PROVE  Types'
  BY <1>2 DEF Raise, Types, master, slave
<1>3. ASSUME NEW how \in {"early", "late"}, Stray(how)
      PROVE  Types'
  BY <1>3 DEF Stray, Types, master, slave, program
<1>4. CASE AddressSent
  <2>1. CASE Stray("early")
    BY <2>1, <1>3
  <2>2. CASE ~Stray("early")
    <3>1. ctl' \in Controls /\ byte' = byte /\ other' = other
      BY <1>4, <2>2, <1>1 DEF AddressSent, Controls
    <3>2. \E s \in {"MT_TX_DONE", "MT_TXDONE_NACK", "MT_ARB_LOST"} : Raise(s)
      BY <1>4, <2>2 DEF AddressSent
    <3>3. call' \in CallRecords
      <4>1. ((ctl.job = "W") = (call.op = "write")) \in BOOLEAN /\ "addr" \in Errors /\ "arb" \in Errors
        BY DEF Errors
      <4>2. \/ call' = [call EXCEPT !.started = ((ctl.job = "W") = (call.op = "write"))]
            \/ call' = [call EXCEPT !.fate = "addr"]
            \/ call' = [call EXCEPT !.fate = "arb"]
        BY <1>4, <2>2 DEF AddressSent
      <4>3. call \in CallRecords
        BY DEF Types
      <4> QED BY <4>1, <4>2, <4>3, CallTypes
    <3> QED BY <3>1, <3>2, <3>3, <1>1, <1>2 DEF MtStatus
  <2> QED BY <2>1, <2>2
<1>5. CASE ByteSent
  <2>1. ctl' \in Controls /\ byte' = byte /\ other' = other
    BY <1>5, <1>1 DEF ByteSent, Controls
  <2>2. \E s \in {"MT_TX_DONE", "MT_TXDONE_NACK"} : Raise(s)
    BY <1>5 DEF ByteSent
  <2>3. call' \in CallRecords
    BY <1>5, <1>1, CallTypes DEF ByteSent, Types, Errors
  <2> QED BY <2>1, <2>2, <2>3, <1>1, <1>2 DEF MtStatus
<1>6. CASE ByteRead
  <2>1. CASE Stray("late")
    BY <2>1, <1>3
  <2>2. CASE ~Stray("late")
    <3>1. ctl' \in Controls /\ byte' = Received /\ other' = other /\ Raise("MT_RXRDY")
      BY <1>6, <2>2, <1>1 DEF ByteRead, Controls
    <3>2. call' \in CallRecords
      BY <1>6, <2>2, <1>1, CallTypes DEF ByteRead, Types
    <3> QED BY <3>1, <3>2, <1>1, <1>2 DEF MtStatus
  <2> QED BY <2>1, <2>2
<1>7. CASE OtherStarts
  <2>1. other.number + 1 \in Nat /\ other.unread \in BOOLEAN /\ <<>> \in Seq(Nat)
    BY <1>1 DEF Transactions
  <2>2. other' \in Transactions /\ ctl' = ctl /\ byte' = byte /\ call' = call
    <3>1. PICK kind \in {"write", "read"} :
            other' = [Nobody EXCEPT !.phase = "on", !.number = other.number + 1,
                                    !.kind = kind, !.unread = other.unread]
      BY <1>7 DEF OtherStarts
    <3>2. other' = [kind |-> kind, phase |-> "on", number |-> other.number + 1,
                    bytes |-> <<>>, joined |-> FALSE, told |-> <<>>,
                    unread |-> other.unread, held |-> FALSE]
      BY <3>1 DEF Nobody
    <3>3. other' \in Transactions
      BY <2>1, <3>2 DEF Transactions
    <3> QED BY <1>7, <3>3 DEF OtherStarts
  <2>3. \E s \in {"none", "SL_NEEDTOW"} : Raise(s)
    BY <1>7 DEF OtherStarts
  <2> QED BY <2>2, <2>3, <1>1, <1>2 DEF SlStatus, Types
<1>8. CASE OtherWrites
  <2>1. byte' = <<0, Len(other.bytes) + 1>> /\ byte' \in Pairs
    BY <1>8, <1>1 DEF OtherWrites, Pairs, Transactions
  <2>2. byte'[2] \in Nat /\ Append(other.bytes, byte'[2]) \in Seq(Nat)
    BY <1>1, <2>1 DEF Pairs, Transactions
  <2>3. PICK stop \in BOOLEAN :
          /\ other' = [other EXCEPT !.bytes = Append(@, byte'[2]), !.joined = stop,
                                    !.phase = IF stop THEN "stopped" ELSE "on"]
          /\ Raise(IF stop THEN "SL_RX_STOP" ELSE "SL_RXRDY")
    BY <1>8 DEF OtherWrites
  <2>4. other' \in Transactions /\ ctl' = ctl /\ call' = call
    BY <1>8, <1>1, <2>2, <2>3 DEF OtherWrites, Transactions
  <2>5. \E s \in {"SL_RX_STOP", "SL_RXRDY"} : Raise(s)
    BY <2>3
  <2> QED BY <2>1, <2>4, <2>5, <1>1, <1>2 DEF SlStatus, Types
<1>9. CASE OtherReads
  <2>1. Append(other.bytes, byte[2]) \in Seq(Nat)
    BY <1>1 DEF Transactions
  <2>2. PICK next \in {"stopping", "asking", "on"} :
          /\ other' = [other EXCEPT !.bytes = Append(@, byte[2]), !.phase = next]
          /\ Raise(CASE next = "stopping" -> "none"
                     [] next = "asking" -> "SL_TX_DONE"
                     [] next = "on" -> "SL_NEED_DONE")
    BY <1>9 DEF OtherReads
  <2>3. (CASE next = "stopping" -> "none"
           [] next = "asking" -> "SL_TX_DONE"
           [] next = "on" -> "SL_NEED_DONE") \in Stati
    BY DEF SlStatus
  <2>4. other' \in Transactions /\ ctl' = ctl /\ byte' = byte /\ call' = call
    BY <1>1, <1>9, <2>1, <2>2 DEF OtherReads, Transactions
  <2> QED BY <2>2, <2>3, <2>4, <1>1, <1>2 DEF Types
<1>10. CASE OtherAsks
  <2>1. other' \in Transactions /\ ctl' = ctl /\ byte' = byte /\ call' = call /\ Raise("SL_NEEDTOW")
    BY <1>1, <1>10 DEF OtherAsks, Transactions
  <2> QED BY <2>1, <1>1, <1>2 DEF Types, SlStatus
<1>11. CASE OtherStops
  <2>1. other' \in Transactions /\ ctl' = ctl /\ byte' = byte /\ call' = call /\ Raise("SL_GET_STOP")
    BY <1>1, <1>11 DEF OtherStops, Transactions
  <2> QED BY <2>1, <1>1, <1>2 DEF Types, SlStatus
<1>12. CASE OtherHeld
  <2>1. other' \in Transactions /\ ctl' = ctl /\ byte' = byte /\ call' = call /\ Raise(status)
    BY <1>1, <1>12 DEF OtherHeld, Transactions
  <2>2. status \in Stati
    BY DEF Types
  <2> QED BY <2>1, <2>2, <1>1, <1>2 DEF Types
<1> QED BY <1>4, <1>5, <1>6, <1>7, <1>8, <1>9, <1>10, <1>11, <1>12 DEF Controller, OtherGoesOn

-----------------------------------------------------------------------------
(* What the steps of one role leave alone in the other.                    *)

\* A sequence that agrees with another is a prefix of it.
LEMMA PrefixOf ==
  ASSUME NEW S, NEW s \in Seq(S), NEW t \in Seq(S), Len(s) <= Len(t),
         \A k \in DOMAIN s : s[k] = t[k]
  PROVE  s = Prefix(t, Len(s))
<1>1. /\ Prefix(t, Len(s)) \in Seq(S) /\ Len(Prefix(t, Len(s))) = Len(s)
      /\ \A k \in 1 .. Len(s) : Prefix(t, Len(s))[k] = t[k]
  BY DEF Prefix
<1>2. DOMAIN s = 1 .. Len(s)
  OBVIOUS
<1> HIDE DEF Prefix
<1> QED BY <1>1, <1>2, SeqEqual

\* The slave's half of the invariant.
Slave == Deaf /\ Written /\ Told /\ Reply

\* A step of the program, or of the transaction that is the master's, leaves the
\* slave's half as it is: it owns the bus, or touches none of what it speaks of.
LEMMA SlaveUntouched ==
  ASSUME Types, Types', Slave, SlaveSide, UNCHANGED <<other, slave>>,
         ctl'.own => other.phase = "over",
         state' = state \/ {state, state'} \subseteq {"READY", "MT_TX", "MT_RX"},
         status' = status \/ (status \notin SlStatus /\ status' \notin SlStatus),
         byte' = byte \/ other.phase = "over"
  PROVE  Slave' /\ SlaveSide'
<1>1. other' = other /\ rx' = rx /\ txIndex' = txIndex /\ txLength' = txLength
  BY DEF slave
<1>2. Deaf'
  BY <1>1 DEF Slave, Deaf, SlStatus
<1>3. Written'
  BY <1>1 DEF Slave, Written, Deaf, SlStatus, Taken, Pending, Before
<1>4. Told'
  BY <1>1 DEF Slave, Told, Taken, SlStatus
<1>5. Reply'
  <2>1. Taken' = Taken
    BY <1>1 DEF Taken
  <2>2. SUFFICES ASSUME other.kind = "read", other.phase # "over"
                 PROVE  Reply'
    BY <1>1 DEF Reply
  <2>3. byte' = byte
    BY <2>2
  <2>4. state = "SL_TX" <=> state' = "SL_TX"
    OBVIOUS
  <2>5. status' \in {"SL_TX_DONE", "SL_NEED_DONE"} <=> status \in {"SL_TX_DONE", "SL_NEED_DONE"}
    BY DEF SlStatus
  <2> QED BY <1>1, <2>1, <2>2, <2>3, <2>4, <2>5 DEF Slave, Reply
<1>6. SlaveSide'
  BY <1>1 DEF SlaveSide
<1> QED BY <1>2, <1>3, <1>4, <1>5, <1>6 DEF Slave

\* The master's half.
Mastery == Master /\ Arguments /\ BytesIn /\ Ended /\ Writes /\ Reads

\* While we do not own the bus, a step of the other master, or of ours as a slave,
\* leaves the master's half as it is, unless it changes twi_state under a call.
LEMMA MasterUntouched ==
  ASSUME Types, Types', Mastery, ~ctl.own, UNCHANGED <<master, program, ctl>>,
         status \notin MtStatus, status' \notin MtStatus,
         \/ state' = state
         \/ ~Busy /\ pc # "claim" /\ state' \in {"READY", "SL_RX", "SL_TX"}
  PROVE  Mastery'
<1>1. /\ pc' = pc /\ call' = call /\ last' = last /\ ctl' = ctl /\ sendStop' = sendStop
      /\ inRepStart' = inRepStart /\ error' = error /\ sendAddr' = sendAddr
      /\ index' = index /\ length' = length /\ buffer' = buffer
  BY DEF master, program
<1>2. Busy' <=> Busy
  BY DEF Busy
<1>3. Writes' /\ Reads'
  BY <1>1 DEF Mastery, Writes, Reads, GivenBack
<1>4. Arguments'
  BY <1>1 DEF Mastery, Arguments
<1>5. BytesIn'
  BY <1>1 DEF Mastery, BytesIn, MtStatus
<1>6. Ended'
  <2>1. status # "MT_RXRDY" /\ status' # "MT_RXRDY" /\ Moves' = Moves
    BY <1>1 DEF MtStatus, Moves
  <2> QED BY <1>1, <1>2, <2>1 DEF Mastery, Ended
<1>7. Master'
  <2>1. Waiting' <=> Waiting
    BY <1>1, <1>2 DEF Waiting
  <2>2. ~Waiting => Quiet'
    <3>1. ~Waiting => Quiet
      BY DEF Mastery, Master, AtRest, LastWaits, Again, LastComes, LastCame, Owned, MtStatus
    <3> QED BY <1>1, <3>1 DEF Quiet
  <2>3. Waiting => Addressing'
    <3>1. Waiting => Addressing
      BY DEF Mastery, Master, AtWork, Misled, Acknowledged, Sending, Reading, ByteCame, Refused,
             BusLost, Owned, MtStatus
    <3> QED BY <1>1, <3>1 DEF Addressing, Fresh, Letter
  <2>4. pc \in {"prepare", "start"} \/ Waiting => state' = state
    BY DEF Mastery, Master, Busy
  <2> QED BY <1>1, <1>2, <2>1, <2>2, <2>3, <2>4 DEF Mastery, Master, AtRest, AtWork, Busy
<1> QED BY <1>3, <1>4, <1>5, <1>6, <1>7 DEF Mastery

-----------------------------------------------------------------------------
(* The slave.                                                              *)

\* What I2C_ISR does as a slave leaves the master's half alone, or is noted.
LEMMA SlaveStepsLeaveMaster ==
  ASSUME Types, Types', Mastery, Slave,
         \/ IsrSlRx \/ IsrSlStop \/ IsrSlNeed \/ IsrSlDone \/ IsrSlNeedDone
         \/ OtherStarts \/ OtherGoesOn
  PROVE  astray' = "no" => Mastery'
<1>1. CASE IsrSlRx \/ IsrSlStop \/ IsrSlNeed \/ IsrSlDone \/ IsrSlNeedDone
  <2>1. /\ UNCHANGED <<master, program, ctl>> /\ status \in SlStatus /\ status' = "none"
        /\ state' \in {state, "READY", "SL_RX", "SL_TX"}
        /\ astray' = IF pc = "claim" \/ Busy THEN "raced" ELSE "no"
    BY <1>1 DEF IsrSlRx, IsrSlStop, IsrSlNeed, IsrSlDone, IsrSlNeedDone, SlaveServed, SlStatus
  <2>2. ~ctl.own /\ status \notin MtStatus /\ status' \notin MtStatus
    BY <2>1 DEF Slave, Deaf, SlStatus, MtStatus
  <2> QED BY <2>1, <2>2, MasterUntouched
<1>2. CASE OtherStarts \/ OtherGoesOn
  <2>1. \E s \in {"none"} \cup SlStatus : status' = s /\ Raise(s) /\ ctl' = ctl /\ call' = call
    <3>1. CASE OtherReads
      <4>1. PICK next \in {"stopping", "asking", "on"} :
              Raise(CASE next = "stopping" -> "none"
                      [] next = "asking" -> "SL_TX_DONE"
                      [] next = "on" -> "SL_NEED_DONE")
        BY <3>1 DEF OtherReads
      <4>2. (CASE next = "stopping" -> "none"
               [] next = "asking" -> "SL_TX_DONE"
               [] next = "on" -> "SL_NEED_DONE") \in {"none"} \cup SlStatus
        BY DEF SlStatus
      <4> QED BY <3>1, <4>1, <4>2 DEF OtherReads, Raise
    <3>2. CASE OtherStarts \/ OtherWrites \/ OtherAsks \/ OtherStops
      BY <3>2 DEF OtherStarts, OtherWrites, OtherAsks, OtherStops, Raise, SlStatus
    <3>3. CASE OtherHeld
      BY <3>3 DEF OtherHeld, Writing, Ready, Raise
    <3> QED BY <1>2, <3>1, <3>2, <3>3 DEF OtherGoesOn
  <2>2. ~ctl.own /\ Ready
    BY <1>2 DEF OtherStarts, OtherGoesOn, OtherWrites, OtherHeld, OtherReads, OtherAsks, OtherStops,
                Writing, Slave, Deaf
  <2>3. status \notin MtStatus /\ status' \notin MtStatus
    BY <2>1, <2>2 DEF Ready, MtStatus, SlStatus
  <2>4. UNCHANGED <<master, program, ctl>> /\ state' = state
    BY <2>1 DEF Raise, program
  <2> QED BY <2>2, <2>3, <2>4, MasterUntouched
<1> QED BY <1>1, <1>2

\* A byte the other master has written goes into twi_rxBuffer, unless it is full.
LEMMA ByteWritten ==
  ASSUME Types, Types', Slave, SlaveSide, IsrSlRx
  PROVE  Slave' /\ SlaveSide'
<1> DEFINE n == Taken
<1>1. /\ status = "SL_RXRDY" /\ status' = "none" /\ state' = "SL_RX" /\ byte' = byte /\ ctl' = ctl
      /\ txIndex' = txIndex /\ txLength' = txLength /\ other' = [other EXCEPT !.unread = RxFull]
  BY DEF IsrSlRx, SlaveServed
<1>2. /\ other.kind = "write" /\ other.phase = "on" /\ ~other.held /\ ~ctl.own /\ ~other.joined
      /\ n > 0 /\ byte[2] = other.bytes[n]
      /\ Len(rx) = IF n - 1 < Buffer THEN n - 1 ELSE Buffer
      /\ \A k \in DOMAIN rx : rx[k] = other.bytes[k]
  BY <1>1 DEF Slave, Deaf, Written, SlStatus, Pending, Before
<1>3. /\ other'.kind = "write" /\ other'.phase = "on" /\ other'.bytes = other.bytes
      /\ ~other'.held /\ ~other'.joined /\ n' = n
  BY <1>1, <1>2 DEF Types, Transactions, Taken
<1>4. n \in Nat /\ Len(rx) \in Nat /\ rx \in Seq(Nat) /\ byte[2] \in Nat /\ Buffer \in Nat \ {0}
  <2>1. other.bytes \in Seq(Nat) /\ rx \in Seq(Nat) /\ byte[2] \in Nat
    BY DEF Types, Transactions, Pairs
  <2> QED BY <2>1, TwiAssumption DEF Taken
<1>5. rx' = IF Len(rx) >= Buffer THEN rx ELSE Append(rx, byte[2])
  <2>1. CASE state # "SL_RX"
    <3>1. rx = <<>> /\ rx' = <<byte[2]>> /\ Len(rx) = 0
      BY <2>1 DEF Slave, Deaf, IsrSlRx, RxFull
    <3>2. Append(rx, byte[2]) = <<byte[2]>>
      BY <3>1
    <3> QED BY <1>4, <3>1, <3>2
  <2>2. CASE state = "SL_RX"
    BY <2>2 DEF IsrSlRx, RxFull
  <2> QED BY <2>1, <2>2
<1>6. /\ Len(rx') = IF n < Buffer THEN n ELSE Buffer
      /\ \A k \in DOMAIN rx' : rx'[k] = other.bytes[k]
  <2> HIDE DEF n
  <2>1. CASE Len(rx) >= Buffer
    BY <1>2, <1>4, <1>5, <2>1
  <2>2. CASE ~(Len(rx) >= Buffer)
    <3>1. rx' = Append(rx, byte[2]) /\ Len(rx) = n - 1 /\ n <= Buffer
      BY <1>2, <1>4, <1>5, <2>2
    <3>2. /\ Len(rx') = n /\ DOMAIN rx' = 1 .. n /\ rx'[n] = byte[2]
          /\ \A k \in 1 .. n - 1 : k \in DOMAIN rx /\ rx'[k] = rx[k]
      BY <1>4, <3>1
    <3>3. ASSUME NEW k \in 1 .. n
          PROVE  rx'[k] = other.bytes[k]
      <4>1. CASE k = n
        BY <1>2, <3>2, <4>1
      <4>2. CASE k # n
        <5>1. k \in 1 .. n - 1
          BY <1>4, <4>2
        <5> QED BY <1>2, <3>2, <5>1
      <4> QED BY <4>1, <4>2
    <3> QED BY <1>4, <3>1, <3>2, <3>3
  <2> QED BY <2>1, <2>2
<1>7. Deaf'
  BY <1>1, <1>2, <1>3 DEF Slave, Deaf, SlStatus
<1>8. Written'
  <2>1. ~Pending' /\ Before' = n
    BY <1>1, <1>3, <1>4 DEF Pending, Before
  <2> QED BY <1>1, <1>3, <1>6, <2>1 DEF Written, SlStatus
<1>9. Told' /\ Reply'
  BY <1>1, <1>3 DEF Told, Reply
<1>10. SlaveSide'
  BY <1>3 DEF SlaveSide
<1> QED BY <1>7, <1>8, <1>9, <1>10 DEF Slave

\* The end of the transaction: the callback gets what is in twi_rxBuffer.
LEMMA StopSeen ==
  ASSUME Types, Types', Slave, SlaveSide, IsrSlStop
  PROVE  Slave' /\ SlaveSide'
<1>1. /\ status \in {"SL_GET_STOP", "SL_RX_STOP"} /\ status' = "none" /\ state' = "READY"
      /\ rx' = <<>>
      /\ other' = [other EXCEPT !.told = rx, !.phase = "over",
                                !.unread = @ \/ status = "SL_RX_STOP"]
      /\ byte' = byte /\ ctl' = ctl /\ txIndex' = txIndex /\ txLength' = txLength
  BY DEF IsrSlStop, SlaveServed
<1>2. /\ other'.phase = "over" /\ other'.told = rx /\ other'.kind = other.kind
      /\ other'.bytes = other.bytes /\ other'.held = other.held /\ other'.joined = other.joined
  BY <1>1 DEF Types, Transactions
<1>3. other.phase = "stopped" /\ ~other.held
  BY <1>1 DEF Slave, Deaf, Written
<1>4. other.kind = "read" => rx = <<>>
  BY <1>1, <1>3 DEF Slave, Deaf
<1>5. ASSUME other.kind = "write"
      PROVE  LET n == Len(other.bytes) - (IF other.joined THEN 1 ELSE 0)
             IN rx = Prefix(other.bytes, IF n < Buffer THEN n ELSE Buffer)
  <2> DEFINE m == Len(other.bytes) - (IF other.joined THEN 1 ELSE 0)
  <2>1. /\ other.joined <=> Pending
        /\ Len(rx) = IF Before < Buffer THEN Before ELSE Buffer
        /\ \A k \in DOMAIN rx : rx[k] = other.bytes[k]
    BY <1>1, <1>3, <1>5 DEF Slave, Written, Pending
  <2>2. m = Before
    <3>1. Len(other.bytes) \in Nat
      BY DEF Types, Transactions
    <3>2. CASE other.joined
      BY <2>1, <3>1, <3>2 DEF Before, Taken
    <3>3. CASE ~other.joined
      BY <2>1, <3>1, <3>3 DEF Before, Taken
    <3> QED BY <3>2, <3>3
  <2>3. rx \in Seq(Nat) /\ other.bytes \in Seq(Nat) /\ Buffer \in Nat
    BY TwiAssumption DEF Types, Transactions
  <2>4. Len(rx) <= Len(other.bytes)
    <3>1. Before <= Len(other.bytes) /\ Before \in Int
      <4>1. Taken \in Nat /\ Taken = Len(other.bytes)
        BY <2>3 DEF Taken
      <4>2. Before = Taken \/ Before = Taken - 1
        BY <4>1 DEF Before, Pending
      <4> QED BY <4>1, <4>2
    <3>2. Len(rx) <= Before
      BY <2>1, <2>3, <3>1
    <3> HIDE DEF Before
    <3> QED BY <2>3, <3>1, <3>2
  <2>5. rx = Prefix(other.bytes, Len(rx))
    BY <2>1, <2>3, <2>4, PrefixOf
  <2> QED BY <2>1, <2>2, <2>5
<1>6. Deaf'
  BY <1>1, <1>2 DEF Deaf, SlStatus
<1>7. Written' /\ Told' /\ Reply'
  BY <1>1, <1>2, <1>3 DEF Written, Told, Reply
<1>8. SlaveSide'
  <2>1. other.kind \in {"read", "write"}
    BY DEF Types, Transactions
  <2>2. other'.kind = "read" =>
          \A k \in DOMAIN other'.bytes : k <= txLength' => other'.bytes[k] = k
    BY <1>1, <1>2 DEF SlaveSide
  <2> QED BY <1>2, <1>4, <1>5, <2>1, <2>2 DEF SlaveSide
<1> QED BY <1>6, <1>7, <1>8 DEF Slave

\* The other master asks for a byte: the callback is called for the first one.
LEMMA ByteAskedFor ==
  ASSUME Types, Types', Slave, SlaveSide, IsrSlNeed
  PROVE  Slave' /\ SlaveSide'
<1> DEFINE L == txLength
           n == Taken
           i == IF state # "SL_TX" THEN 0 ELSE txIndex
<1>1. /\ status = "SL_NEEDTOW" /\ status' = "none" /\ state' = "SL_TX" /\ rx' = rx /\ ctl' = ctl
      /\ byte' = <<0, i + 1>> /\ other' = [other EXCEPT !.phase = "moving"]
      /\ txIndex' = i + 1
  BY DEF IsrSlNeed, SlaveServed, Transmit, FirstIndex
<1>2. /\ other'.phase = "moving" /\ other'.kind = other.kind /\ other'.bytes = other.bytes
      /\ other'.held = other.held /\ other.kind = "read" /\ other.phase = "on" /\ ~other.held
  BY <1>1 DEF Types, Transactions, Slave, Told, Written, SlStatus
<1>3. n \in Nat /\ txIndex \in Nat /\ L \in Nat /\ L' \in Nat /\ n' = n /\ byte'[2] = i + 1
  BY <1>1, <1>2, TwiAssumption DEF Taken, Types, Transactions
<1>4. /\ n = 0 => state # "SL_TX"
      /\ n > 0 => state = "SL_TX" /\ L > 0 /\ txIndex = IF n < L THEN n ELSE L - 1
  BY <1>1, <1>2, <1>3 DEF Slave, Reply
<1>5. L' > 0 /\ (n > 0 => L' = L)
  BY <1>3, <1>4 DEF IsrSlNeed
<1>6. i \in Nat /\ (IF n < L' THEN i = n ELSE i = L' - 1)
  <2>1. CASE n = 0
    BY <1>3, <1>4, <1>5, <2>1
  <2>2. CASE n > 0
    <3>1. i = txIndex /\ L' = L /\ L > 0
      BY <1>4, <1>5, <2>2
    <3>2. IF n < L THEN i = n ELSE i = L - 1
      BY <1>4, <2>2, <3>1
    <3> HIDE DEF i, L, n
    <3> QED BY <1>3, <3>1, <3>2
  <2>3. n = 0 \/ n > 0
    BY <1>3
  <2> HIDE DEF i, L, n
  <2> QED BY <2>1, <2>2, <2>3
<1>7. Deaf' /\ Written' /\ Told'
  <2>1. rx = <<>> /\ ~ctl.own
    BY <1>2 DEF Slave, Deaf
  <2> QED BY <1>1, <1>2, <2>1 DEF Deaf, Written, Told, SlStatus
<1>8. Reply'
  <2>1. /\ IF n < L' THEN byte'[2] = n + 1 ELSE byte'[2] \in {L', L' + 1}
        /\ IF n + 1 < L' THEN txIndex' = n + 1 ELSE txIndex' \in {L' - 1, L'}
    BY <1>1, <1>3, <1>5, <1>6
  <2> QED BY <1>1, <1>2, <1>3, <1>5, <2>1 DEF Reply
<1>9. SlaveSide'
  <2>1. \A k \in DOMAIN other.bytes : k <= L => other.bytes[k] = k
    BY <1>2 DEF SlaveSide
  <2>2. n = 0 => DOMAIN other.bytes = {}
    BY DEF Taken, Types, Transactions
  <2>3. \A k \in DOMAIN other.bytes : k <= L' => other.bytes[k] = k
    BY <1>3, <1>5, <2>1, <2>2
  <2> QED BY <1>2, <2>3 DEF SlaveSide
<1> QED BY <1>7, <1>8, <1>9 DEF Slave

\* The byte has gone: the index does not go past the end.
LEMMA ByteGone ==
  ASSUME Types, Types', Slave, SlaveSide, IsrSlDone
  PROVE  Slave' /\ SlaveSide'
<1> DEFINE L == txLength
           n == Taken
<1>1. /\ status = "SL_TX_DONE" /\ status' = "none" /\ state' = state /\ rx' = rx /\ ctl' = ctl
      /\ byte' = byte /\ other' = other /\ txIndex' = Clamped(txIndex) /\ L' = L
  BY DEF IsrSlDone, SlaveServed
<1>2. other.kind = "read" /\ other.phase = "asking" /\ ~other.held /\ rx = <<>> /\ ~ctl.own
  BY <1>1 DEF Slave, Told, Written, Deaf, SlStatus
<1>3. n \in Nat /\ txIndex \in Nat /\ L \in Nat /\ n' = n
  BY <1>1, TwiAssumption DEF Taken, Types, Transactions
<1>4. /\ n > 0 /\ L > 0 /\ state = "SL_TX"
      /\ IF n < L THEN txIndex = n ELSE txIndex \in {L - 1, L}
  BY <1>2, <1>3 DEF Slave, Reply
<1>5. txIndex' = IF n < L THEN n ELSE L - 1
  BY <1>1, <1>3, <1>4 DEF Clamped
<1>6. Deaf' /\ Written' /\ Told'
  BY <1>1, <1>2 DEF Deaf, Written, Told, SlStatus
<1>7. Reply'
  BY <1>1, <1>2, <1>3, <1>4, <1>5 DEF Reply
<1>8. SlaveSide'
  BY <1>1 DEF SlaveSide
<1> QED BY <1>6, <1>7, <1>8 DEF Slave

\* Both at once: the next byte is given before the index is looked at.
LEMMA ByteGoneAndAskedFor ==
  ASSUME Types, Types', Slave, SlaveSide, IsrSlNeedDone
  PROVE  Slave' /\ SlaveSide'
<1> DEFINE L == txLength
           n == Taken
<1>1. /\ status = "SL_NEED_DONE" /\ status' = "none" /\ state' = state /\ rx' = rx /\ ctl' = ctl
      /\ byte' = <<0, txIndex + 1>> /\ other' = [other EXCEPT !.phase = "moving"]
      /\ txIndex' = Clamped(txIndex + 1) /\ L' = L
  BY DEF IsrSlNeedDone, SlaveServed, Transmit
<1>2. /\ other'.phase = "moving" /\ other'.kind = other.kind /\ other'.bytes = other.bytes
      /\ other'.held = other.held /\ other.kind = "read" /\ other.phase = "on" /\ ~other.held
      /\ rx = <<>> /\ ~ctl.own
  BY <1>1 DEF Types, Transactions, Slave, Told, Written, Deaf, SlStatus
<1>3. n \in Nat /\ txIndex \in Nat /\ L \in Nat /\ n' = n /\ byte'[2] = txIndex + 1
  BY <1>1, <1>2, TwiAssumption DEF Taken, Types, Transactions
<1>4. n > 0
  BY <1>1, <1>2 DEF Slave, Told
<1>5. /\ L > 0 /\ state = "SL_TX"
      /\ IF n < L THEN txIndex = n ELSE txIndex \in {L - 1, L}
  BY <1>2, <1>3, <1>4 DEF Slave, Reply
<1>6. /\ IF n < L THEN byte'[2] = n + 1 ELSE byte'[2] \in {L, L + 1}
      /\ IF n + 1 < L THEN txIndex' = n + 1 ELSE txIndex' \in {L - 1, L}
  BY <1>1, <1>3, <1>4, <1>5 DEF Clamped
<1>7. Deaf' /\ Written' /\ Told'
  BY <1>1, <1>2 DEF Deaf, Written, Told, SlStatus
<1>8. Reply'
  BY <1>1, <1>2, <1>3, <1>4, <1>5, <1>6 DEF Reply
<1>9. SlaveSide'
  BY <1>1, <1>2 DEF SlaveSide
<1> QED BY <1>7, <1>8, <1>9 DEF Slave

\* The other master's steps leave the slave's half.
LEMMA OtherSteps ==
  ASSUME Types, Types', Slave, SlaveSide, OtherStarts \/ OtherGoesOn
  PROVE  Slave' /\ SlaveSide'
<1> DEFINE L == txLength
           n == Taken
<1>1. /\ Ready /\ ctl' = ctl /\ state' = state /\ rx' = rx /\ txIndex' = txIndex /\ L' = L
      /\ ~ctl.own
  BY DEF OtherStarts, OtherGoesOn, OtherWrites, OtherHeld, OtherReads, OtherAsks, OtherStops,
         Writing, Raise, slave, Slave, Deaf
<1>2. n \in Nat /\ txIndex \in Nat /\ L \in Nat /\ byte[2] \in Nat
  BY TwiAssumption DEF Taken, Types, Transactions, Pairs
<1>3. CASE OtherStarts
  <2>1. /\ other'.phase = "on" /\ other'.bytes = <<>> /\ ~other'.held /\ ~other'.joined
        /\ byte' = byte
        /\ \/ other'.kind = "write" /\ status' = "none"
           \/ other'.kind = "read" /\ status' = "SL_NEEDTOW"
    BY <1>3 DEF OtherStarts, Nobody, Raise
  <2>2. rx = <<>> /\ state \in {"READY", "MT_TX", "MT_RX"} /\ n' = 0
    BY <1>3, <2>1 DEF OtherStarts, Slave, Deaf, Taken
  <2>3. Deaf' /\ Written' /\ Told'
    <3>1. Len(rx') = 0 /\ DOMAIN rx' = {} /\ 0 < Buffer
      BY <1>1, <2>2, TwiAssumption
    <3>2. ~Pending' /\ Before' = 0
      <4>1. status' \notin {"SL_RXRDY", "SL_RX_STOP"} /\ Taken' = 0
        BY <2>1, <2>2
      <4> QED BY <4>1 DEF Before, Pending
    <3>3. Deaf' /\ Told'
      BY <1>1, <2>1, <2>2 DEF Deaf, Told, SlStatus
    <3>4. Written'
      BY <2>1, <3>1, <3>2 DEF Written, SlStatus
    <3> QED BY <3>3, <3>4
  <2>4. Reply' /\ SlaveSide'
    BY <1>1, <2>1, <2>2 DEF Reply, SlaveSide
  <2> QED BY <2>3, <2>4 DEF Slave
<1>4. CASE OtherWrites
  <2> DEFINE b == byte'[2]
  <2>1. PICK stop \in BOOLEAN :
          /\ other' = [other EXCEPT !.bytes = Append(@, b), !.joined = stop,
                                    !.phase = IF stop THEN "stopped" ELSE "on"]
          /\ status' = IF stop THEN "SL_RX_STOP" ELSE "SL_RXRDY"
    BY <1>4 DEF OtherWrites, Raise
  <2>2. other.phase = "on" /\ other.kind = "write" /\ ~other.held
    BY <1>4 DEF OtherWrites, Writing
  <2>3. /\ other'.phase = (IF stop THEN "stopped" ELSE "on") /\ other'.kind = "write"
        /\ ~other'.held /\ (other'.joined <=> stop) /\ other'.bytes = Append(other.bytes, b)
    BY <2>1, <2>2 DEF Types, Transactions
  <2>4. other.bytes \in Seq(Nat) /\ rx \in Seq(Nat) /\ Buffer \in Nat
    BY TwiAssumption DEF Types, Transactions
  <2>5. /\ n' = n + 1 /\ other'.bytes[n + 1] = b
        /\ \A k \in 1 .. n : other'.bytes[k] = other.bytes[k]
    BY <2>3, <2>4 DEF Taken
  <2>6. /\ Len(rx) = IF n < Buffer THEN n ELSE Buffer
        /\ \A k \in DOMAIN rx : rx[k] = other.bytes[k]
    BY <1>1, <1>2, <2>2 DEF Slave, Written, Ready, Pending, Before
  <2>7. Deaf' /\ Told'
    BY <1>1, <2>1, <2>2, <2>3 DEF Slave, Deaf, Told, SlStatus
  <2>8. Written'
    <3>1. Pending' /\ Before' = n
      BY <1>2, <2>1, <2>5 DEF Pending, Before
    <3>2. n' > 0 /\ byte'[2] = other'.bytes[n']
      BY <1>2, <2>5
    <3>3. \A k \in DOMAIN rx : k \in 1 .. n
      BY <1>2, <2>4, <2>6
    <3>4. /\ Len(rx') = IF n < Buffer THEN n ELSE Buffer
          /\ \A k \in DOMAIN rx' : rx'[k] = other'.bytes[k]
      BY <1>1, <2>5, <2>6, <3>3
    <3> QED BY <2>1, <2>3, <3>1, <3>2, <3>4 DEF Written, SlStatus
  <2>9. Reply' /\ SlaveSide'
    BY <2>3 DEF Reply, SlaveSide
  <2> QED BY <2>7, <2>8, <2>9 DEF Slave
<1>5. CASE OtherReads
  <2>1. PICK next \in {"stopping", "asking", "on"} :
          /\ other' = [other EXCEPT !.bytes = Append(@, byte[2]), !.phase = next]
          /\ Raise(CASE next = "stopping" -> "none"
                     [] next = "asking" -> "SL_TX_DONE"
                     [] next = "on" -> "SL_NEED_DONE")
    BY <1>5 DEF OtherReads
  <2>2. /\ next = "stopping" => status' = "none"
        /\ next = "asking" => status' = "SL_TX_DONE"
        /\ next = "on" => status' = "SL_NEED_DONE"
    BY <2>1 DEF Raise
  <2>3. other.bytes \in Seq(Nat) /\ Append(other.bytes, byte[2]) \in Seq(Nat)
    BY <1>2 DEF Types, Transactions
  <2>4. /\ other'.phase = next /\ other'.kind = other.kind /\ other'.held = other.held
        /\ other'.bytes = Append(other.bytes, byte[2]) /\ byte' = byte
    BY <1>5, <2>1 DEF Types, Transactions, OtherReads
  <2>5. other.kind = "read" /\ ~other.held /\ other.phase = "moving" /\ rx = <<>>
    BY <1>5 DEF OtherReads, Slave, Written, Deaf, Types, Transactions
  <2>6. n' = n + 1
    BY <2>3, <2>4 DEF Taken
  <2>7. /\ state = "SL_TX" /\ L > 0
        /\ IF n < L THEN byte[2] = n + 1 ELSE byte[2] \in {L, L + 1}
        /\ IF n + 1 < L THEN txIndex = n + 1 ELSE txIndex \in {L - 1, L}
    BY <2>5 DEF Slave, Reply
  <2>8. Deaf' /\ Written' /\ Told'
    BY <1>1, <1>2, <2>1, <2>2, <2>4, <2>5, <2>6 DEF Deaf, Written, Told, SlStatus
  <2>9. Reply'
    <3>1. next \in {"asking", "on"} => status' \in {"SL_TX_DONE", "SL_NEED_DONE"}
      BY <2>1, <2>2
    <3> HIDE DEF L, n
    <3>2. IF n' < L' THEN txIndex' = n' ELSE txIndex' \in {L' - 1, L'}
      BY <1>1, <1>2, <2>6, <2>7
    <3>3. n' > 0 /\ L' > 0
      BY <1>1, <1>2, <2>6, <2>7
    <3> USE DEF L, n
    <3> QED BY <1>1, <2>1, <2>4, <2>7, <3>1, <3>2, <3>3 DEF Reply
  <2>10. SlaveSide'
    <3>1. \A k \in DOMAIN other.bytes : k <= L => other.bytes[k] = k
      BY <2>5 DEF SlaveSide
    <3>2. /\ DOMAIN other.bytes = 1 .. n /\ DOMAIN other'.bytes = 1 .. n + 1
          /\ \A k \in 1 .. n : other'.bytes[k] = other.bytes[k]
          /\ other'.bytes[n + 1] = byte[2]
      BY <2>3, <2>4 DEF Taken
    <3> HIDE DEF L, n
    <3>3. \A k \in DOMAIN other'.bytes : k <= L => other'.bytes[k] = k
      <4>1. ASSUME NEW k \in 1 .. n + 1
            PROVE  k <= L => other'.bytes[k] = k
        <5>1. CASE k \in 1 .. n
          BY <3>1, <3>2, <5>1
        <5>2. CASE k = n + 1
          BY <1>2, <2>7, <3>2, <5>2
        <5> QED BY <1>2, <5>1, <5>2
      <4> QED BY <3>2, <4>1
    <3> USE DEF L, n
    <3> QED BY <1>1, <2>1, <2>4, <3>3 DEF SlaveSide
  <2> QED BY <2>8, <2>9, <2>10 DEF Slave
<1>6. CASE OtherAsks
  <2>1. /\ other' = [other EXCEPT !.phase = "on"] /\ status' = "SL_NEEDTOW" /\ byte' = byte
        /\ other.phase = "asking" /\ status = "none"
    BY <1>6 DEF OtherAsks, Raise, Ready
  <2>2. other.kind = "read" /\ ~other.held /\ rx = <<>>
    BY <2>1 DEF Slave, Written, Deaf, Types, Transactions
  <2>3. /\ other'.phase = "on" /\ other'.kind = "read" /\ ~other'.held
        /\ other'.bytes = other.bytes /\ n' = n
    BY <2>1, <2>2 DEF Types, Transactions, Taken
  <2>4. /\ n > 0 /\ L > 0 /\ state = "SL_TX"
        /\ IF n < L THEN txIndex = n ELSE txIndex = L - 1
    BY <1>2, <2>1, <2>2 DEF Slave, Reply
  <2>5. Deaf' /\ Written' /\ Told'
    BY <1>1, <2>1, <2>2, <2>3 DEF Deaf, Written, Told, SlStatus
  <2>6. Reply'
    BY <1>1, <1>2, <2>1, <2>3, <2>4 DEF Reply
  <2>7. SlaveSide'
    BY <1>1, <2>1, <2>2, <2>3 DEF SlaveSide
  <2> QED BY <2>5, <2>6, <2>7 DEF Slave
<1>7. CASE OtherStops
  <2>1. /\ other' = [other EXCEPT !.phase = "stopped"] /\ status' = "SL_GET_STOP" /\ byte' = byte
        /\ \/ other.phase = "on" /\ other.kind = "write" /\ ~other.held
           \/ other.phase = "stopping"
    BY <1>7 DEF OtherStops, Writing, Raise
  <2>2. /\ other'.phase = "stopped" /\ other'.kind = other.kind /\ other'.held = other.held
        /\ other'.bytes = other.bytes /\ n' = n
    BY <2>1 DEF Types, Transactions, Taken
  <2>3. /\ ~other.held /\ other.phase # "over"
        /\ other.kind = "read" => other.phase = "stopping" /\ rx = <<>>
    BY <1>1, <2>1 DEF Slave, Written, Deaf, Ready, Types, Transactions
  <2>4. Deaf' /\ Written' /\ Told'
    <3>1. ~Pending /\ ~Pending' /\ Before' = Before /\ other'.joined = other.joined
      BY <1>1, <2>1, <2>2 DEF Pending, Before, Ready, Types, Transactions
    <3> QED BY <1>1, <2>1, <2>2, <2>3, <3>1 DEF Slave, Deaf, Written, Told, SlStatus, Ready
  <2>5. Reply'
    BY <1>1, <1>2, <2>1, <2>2, <2>3 DEF Slave, Reply
  <2>6. SlaveSide'
    BY <1>1, <2>1, <2>2, <2>3 DEF SlaveSide
  <2> QED BY <2>4, <2>5, <2>6 DEF Slave
<1>8. CASE OtherHeld
  <2>1. /\ other' = [other EXCEPT !.held = TRUE] /\ status' = status /\ byte' = byte
        /\ other.phase = "on" /\ other.kind = "write" /\ status = "none"
    BY <1>8 DEF OtherHeld, Writing, Ready, Raise
  <2>2. /\ other'.phase = "on" /\ other'.kind = "write" /\ other'.bytes = other.bytes
        /\ other'.joined = other.joined /\ n' = n
    BY <2>1 DEF Types, Transactions, Taken
  <2>3. Deaf' /\ Told'
    BY <1>1, <2>1, <2>2 DEF Slave, Deaf, Told, SlStatus
  <2>4. Written'
    <3>1. ~Pending' /\ Before' = Before
      BY <2>1, <2>2 DEF Pending, Before
    <3> QED BY <1>1, <2>1, <2>2, <3>1 DEF Slave, Written, SlStatus
  <2>5. Reply' /\ SlaveSide'
    BY <2>2 DEF Reply, SlaveSide
  <2> QED BY <2>3, <2>4, <2>5 DEF Slave
<1> QED BY <1>3, <1>4, <1>5, <1>6, <1>7, <1>8 DEF OtherGoesOn

-----------------------------------------------------------------------------
(* The program.                                                            *)

\* Which of the situations an interrupt, or what the controller has to do, belongs to.
LEMMA Situation ==
  ASSUME Types, Mastery
  PROVE  /\ status = "MT_TX_DONE" => Waiting /\ Acknowledged
         /\ status = "MT_TXDONE_NACK" => Waiting /\ Refused
         /\ status = "MT_ARB_LOST" => Waiting /\ BusLost
         /\ status = "MT_RXRDY" =>
              (Waiting /\ ByteCame) \/ (~Waiting /\ LastWaits) \/ (~Waiting /\ LastCame)
         /\ Ready /\ ctl.job \in {"W", "R"} => (Waiting /\ Addressing) \/ (~Waiting /\ Again)
         /\ Ready /\ ctl.job = "send" => Waiting /\ Sending
         /\ Ready /\ ctl.job = "read" =>
              \/ Waiting /\ (Reading \/ Misled)
              \/ ~Waiting /\ LastComes
<1>1. Waiting => AtWork
  BY DEF Mastery, Master
<1>2. ~Waiting => AtRest
  BY DEF Mastery, Master
<1>3. /\ Quiet => status \notin MtStatus /\ ctl.job = "none"
      /\ LastWaits => status = "MT_RXRDY"
      /\ Again => status = "none" /\ ctl.job \in {"W", "R"}
      /\ LastComes => status = "none" /\ ctl.job = "read"
      /\ LastCame => status = "MT_RXRDY"
  BY DEF Quiet, LastWaits, Again, LastComes, LastCame, Owned, Free
<1>4. /\ Addressing => status \notin MtStatus /\ ctl.job \in {"W", "R"}
      /\ Misled => status = "none" /\ ctl.job = "read"
      /\ Acknowledged => status = "MT_TX_DONE"
      /\ Sending => status = "none" /\ ctl.job = "send"
      /\ Reading => status = "none" /\ ctl.job = "read"
      /\ ByteCame => status = "MT_RXRDY"
      /\ Refused => status = "MT_TXDONE_NACK"
      /\ BusLost => status = "MT_ARB_LOST"
  BY DEF Addressing, Misled, Acknowledged, Sending, Reading, ByteCame, Refused, BusLost, Owned,
         Letter
<1> QED BY <1>1, <1>2, <1>3, <1>4 DEF AtWork, AtRest, MtStatus, Ready

\* What the last call returned stays as it is, and the bus that was given back stays so.
LEMMA LastKept ==
  ASSUME Writes, Reads, last' = last, pc' = "idle" => pc = "idle" /\ (ctl' = ctl \/ ctl # Free)
  PROVE  Writes' /\ Reads'
BY DEF Writes, Reads, GivenBack

\* The program's steps leave the slave's half alone.
LEMMA ProgramLeavesSlave ==
  ASSUME Types, Types', Mastery, Slave, SlaveSide,
         \/ \E op \in {"write", "read"}, n \in 0 .. Buffer, stop \in BOOLEAN : Call(op, n, stop)
         \/ Program
  PROVE  Slave' /\ SlaveSide'
<1>1. UNCHANGED <<other, slave>> /\ status' = status /\ byte' = byte
  BY DEF Program, Call, Test, Claim, Prepare, Start, Finish
<1>2. ctl'.own = ctl.own
  <2>1. CASE Start
    BY <2>1 DEF Start, WriteAddr, Types, Controls
  <2>2. CASE ~Start
    BY <2>2 DEF Program, Call, Test, Claim, Prepare, Finish
  <2> QED BY <2>1, <2>2
<1>3. state' = state \/ (state = "READY" /\ state' \in {"MT_TX", "MT_RX"})
  <2>1. CASE Claim
    BY <2>1 DEF Claim, Mastery, Master
  <2>2. CASE ~Claim
    BY <2>2 DEF Program, Call, Test, Prepare, Start, Finish
  <2> QED BY <2>1, <2>2
<1>4. ctl.own => other.phase = "over"
  BY DEF Slave, Deaf
<1> QED BY <1>1, <1>2, <1>3, <1>4, SlaveUntouched

\* A call begins.
LEMMA CallKept ==
  ASSUME Types, Types', Mastery,
         NEW op \in {"write", "read"}, NEW n \in 0 .. Buffer, NEW stop \in BOOLEAN,
         Call(op, n, stop)
  PROVE  Mastery'
<1>1. /\ pc = "idle" /\ pc' = "test" /\ Ready /\ state' = state /\ ctl' = ctl /\ status' = status
      /\ UNCHANGED master
      /\ call' = [op |-> op, number |-> call.number + 1, len |-> n, stop |-> stop,
                  started |-> FALSE, moved |-> <<>>, fate |-> "none"]
      /\ op = "read" => n > 0
  BY DEF Call
<1>2. Writes' /\ Reads'
  BY <1>1, LastKept DEF Mastery, Call
<1>3. BytesIn' /\ Ended'
  BY <1>1 DEF BytesIn, Ended
<1>4. Arguments'
  <2>1. index' <= length'
    BY <1>1 DEF master, Mastery, Arguments
  <2>2. call'.fate = "none" /\ call'.op = op /\ call'.len = n /\ call'.moved = <<>>
    BY <1>1
  <2> QED BY <1>1, <2>1, <2>2 DEF Arguments
<1>5. Master'
  <2>1. ~Waiting /\ ~Waiting' /\ ~Busy /\ ~Busy'
    BY <1>1 DEF Waiting, Busy, Mastery, Master
  <2>2. AtRest'
    BY <1>1, <2>1 DEF Mastery, Master, AtRest, Quiet, LastWaits, Again, LastComes, LastCame, Ready,
                      master
  <2> QED BY <1>1, <2>1, <2>2 DEF Master
<1> QED BY <1>2, <1>3, <1>4, <1>5 DEF Mastery

\* The call waits for its turn and takes it.
LEMMA TestKept ==
  ASSUME Types, Types', Mastery, Test
  PROVE  Mastery'
<1>1. /\ pc = "test" /\ pc' = "claim" /\ Ready /\ state = "READY" /\ state' = state
      /\ ctl' = ctl /\ status' = status /\ call' = call /\ UNCHANGED master
  BY DEF Test
<1>2. Writes' /\ Reads'
  BY <1>1, LastKept DEF Mastery, Test
<1>3. BytesIn' /\ Ended' /\ Arguments'
  BY <1>1 DEF BytesIn, Ended, Arguments, Mastery, master
<1>4. ~Waiting /\ ~Waiting' /\ ~Busy /\ ~Busy'
  BY <1>1 DEF Waiting, Busy
<1>5. AtRest'
  BY <1>1, <1>4 DEF Mastery, Master, AtRest, Quiet, LastWaits, Again, LastComes, LastCame, Ready,
                    master
<1>6. Master'
  BY <1>1, <1>4, <1>5 DEF Master
<1> QED BY <1>2, <1>3, <1>6 DEF Mastery

\* twi_state says so.
LEMMA ClaimKept ==
  ASSUME Types, Types', Mastery, Claim
  PROVE  Mastery'
<1>1. /\ pc = "claim" /\ pc' = "prepare" /\ Ready
      /\ state' = IF call.op = "write" THEN "MT_TX" ELSE "MT_RX"
      /\ ctl' = ctl /\ status' = status /\ call' = call /\ UNCHANGED master
  BY DEF Claim
<1>2. Writes' /\ Reads'
  BY <1>1, LastKept DEF Mastery, Claim
<1>3. BytesIn' /\ Ended' /\ Arguments'
  BY <1>1 DEF BytesIn, Ended, Arguments, Mastery, master
<1>4. ~Waiting /\ ~Waiting'
  BY <1>1 DEF Waiting
<1>5. AtRest'
  BY <1>1, <1>4 DEF Mastery, Master, AtRest, Quiet, LastWaits, Again, LastComes, LastCame, Ready,
                    master
<1>6. Master'
  BY <1>1, <1>4, <1>5 DEF Master
<1> QED BY <1>2, <1>3, <1>6 DEF Mastery

\* Its arguments go to the variables I2C_ISR uses.
LEMMA PrepareKept ==
  ASSUME Types, Types', Mastery, Prepare
  PROVE  Mastery'
<1>1. /\ pc = "prepare" /\ pc' = "start" /\ Ready /\ state' = state /\ call' = call
      /\ ctl' = ctl /\ status' = status /\ inRepStart' = inRepStart /\ sendAddr' = sendAddr
      /\ sendStop' = call.stop /\ error' = "none" /\ index' = 0 /\ length' = call.len
  BY DEF Prepare
<1>2. Writes' /\ Reads'
  BY <1>1, LastKept DEF Mastery, Prepare
<1>3. BytesIn' /\ Ended'
  BY <1>1 DEF BytesIn, Ended
<1>4. Arguments'
  <2>1. call.op = "write" =>
          \A i \in 0 .. Buffer : i < call.len => buffer'[i] = <<call.number, i + 1>>
    BY DEF Prepare
  <2>2. 0 <= call.len
    BY TwiAssumption DEF Types, CallRecords
  <2> QED BY <1>1, <2>1, <2>2 DEF Mastery, Arguments
<1>5. ~Waiting /\ ~Waiting'
  BY <1>1 DEF Waiting
<1>6. AtRest'
  BY <1>1, <1>5 DEF Mastery, Master, AtRest, Quiet, LastWaits, Again, LastComes, LastCame, Ready
<1>7. Master'
  BY <1>1, <1>5, <1>6 DEF Mastery, Master
<1> QED BY <1>2, <1>3, <1>4, <1>7 DEF Mastery

\* The transaction begins, or goes on with what I2C_ISR has begun.
LEMMA StartKept ==
  ASSUME Types, Types', Mastery, Start
  PROVE  Writes' /\ Reads' /\ (astray' = "no" => Mastery')
<1>1. /\ pc = "start" /\ pc' = "wait" /\ Ready /\ state' = state /\ status' = status
      /\ inRepStart' = FALSE /\ call' = [call EXCEPT !.moved = <<>>]
      /\ sendStop' = sendStop /\ error' = error /\ index' = index /\ length' = length
      /\ buffer' = buffer /\ byte' = byte
  BY DEF Start
<1>2. /\ call'.op = call.op /\ call'.number = call.number /\ call'.len = call.len
      /\ call'.stop = call.stop /\ call'.fate = call.fate /\ call'.moved = <<>>
  BY <1>1 DEF Types, CallRecords
<1>3. Writes' /\ Reads'
  BY <1>1, LastKept DEF Mastery, Start
<1>4. /\ call.fate = "none" /\ index = 0 /\ error = "none"
      /\ state = IF call.op = "write" THEN "MT_TX" ELSE "MT_RX"
  BY <1>1 DEF Mastery, Arguments, Master
<1>5. ~Waiting /\ Waiting' /\ Busy' /\ Letter' = Letter
  BY <1>1, <1>2, <1>4 DEF Waiting, Busy, Letter
<1>6. Arguments'
  BY <1>1, <1>2 DEF Mastery, Arguments
<1>7. BytesIn' /\ Ended'
  <2>1. \A i \in 0 .. Buffer : ~(i < 0)
    BY TwiAssumption
  <2> QED BY <1>1, <1>4, <1>5, <2>1 DEF BytesIn, Ended, Ready
<1>8. ASSUME astray' = "no"
      PROVE  AtWork'
  <2>1. Fresh' /\ status' = "none"
    BY <1>1, <1>2, <1>4 DEF Fresh, Ready
  <2>2. CASE ~inRepStart
    <3>1. ctl = Free
      BY <1>1, <1>5, <2>2 DEF Mastery, Master, AtRest, Quiet, LastWaits, Again, LastComes, LastCame
    <3>2. ctl'.job = Letter /\ ctl'.then = "go" /\ (call.op = "write" => sendAddr')
      BY <2>2, <3>1 DEF Start, WriteAddr, Free, Letter
    <3> QED BY <1>2, <1>5, <2>1, <3>2 DEF Addressing, AtWork, MtStatus
  <2>3. CASE inRepStart
    <3>1. Expected(call.op) /\ ctl' = ctl /\ sendAddr' = sendAddr
      BY <1>8, <2>3 DEF Start
    <3>2. CASE Again
      <4>0. ctl.then = "go" /\ ctl.job \in {"W", "R"} /\ (ctl.job = "W" => sendAddr)
        BY <3>2 DEF Again, Owned
      <4>1. ctl.then = "go" /\ ctl.job = Letter /\ (call.op = "write" => sendAddr)
        BY <3>1, <4>0 DEF Expected, Letter, Types, CallRecords
      <4> QED BY <1>2, <1>5, <2>1, <3>1, <4>1 DEF Addressing, AtWork, MtStatus
    <3>3. CASE LastComes
      <4>1. ctl = Owned("R", "read", "W") /\ call.op = "write"
        BY <3>1, <3>3 DEF LastComes, Owned, Expected, Types, CallRecords
      <4> QED BY <1>2, <2>1, <3>1, <4>1 DEF Misled, AtWork, Owned
    <3> QED BY <1>1, <1>5, <2>3, <3>2, <3>3 DEF Mastery, Master, AtRest, Quiet, LastWaits, LastCame
  <2> QED BY <2>2, <2>3
<1>9. astray' = "no" => Master'
  BY <1>1, <1>2, <1>4, <1>5, <1>8 DEF Master
<1> QED BY <1>3, <1>6, <1>7, <1>9 DEF Mastery

\* The call returns.
LEMMA FinishKept ==
  ASSUME Types, Types', Mastery, Finish
  PROVE  Mastery'
<1>1. /\ pc = "wait" /\ pc' = "idle" /\ Ready /\ ~Busy /\ state' = state /\ status' = status
      /\ call' = call /\ ctl' = ctl /\ UNCHANGED master /\ byte' = byte
  BY DEF Finish
<1>2. Ended /\ Arguments /\ BytesIn /\ status = "none"
  BY <1>1 DEF Mastery, Ready
<1>3. /\ call.moved \in Seq(Pairs) /\ call.len \in Nat /\ call.number \in Nat /\ index \in Nat
      /\ length = call.len /\ index <= call.len /\ Buffer \in Nat /\ length <= Buffer
  BY <1>1, <1>2, TwiAssumption DEF Types, CallRecords, Arguments
<1>4. call.stop \/ call.fate # "none" => ctl' = Free
  BY <1>1, <1>2 DEF Ended
<1>5. ASSUME call.op = "write"
      PROVE  Writes' /\ Reads'
  <2>1. last' = [call |-> call, error |-> error, data |-> <<>>]
    BY <1>5 DEF Finish
  <2>2. last'.call = call /\ last'.error = error
    BY <2>1
  <2>3. /\ error = call.fate /\ Len(call.moved) <= call.len
        /\ call.fate = "none" => call.started /\ Len(call.moved) = call.len
    BY <1>1, <1>2, <1>3, <1>5 DEF Ended, Moves
  <2>4. call.moved = Prefix(Bytes(call), Len(call.moved))
    <3>1. \A i \in 1 .. call.len : <<call.number, i>> \in Pairs
      BY <1>3 DEF Pairs
    <3>2. Bytes(call) \in Seq(Pairs) /\ Len(Bytes(call)) = call.len
      BY <1>3, <3>1, IsASeq DEF Bytes
    <3>3. \A k \in DOMAIN call.moved : call.moved[k] = Bytes(call)[k]
      <4>1. \A k \in DOMAIN call.moved : k \in 1 .. call.len
        BY <1>3, <2>3
      <4> QED BY <1>2, <4>1 DEF Arguments, Bytes
    <3> HIDE DEF Bytes
    <3> QED BY <1>3, <2>3, <3>2, <3>3, PrefixOf
  <2>5. GivenBack(last.call)'
    BY <1>4, <2>2 DEF GivenBack
  <2>6. Reads'
    BY <1>5, <2>2 DEF Reads
  <2> QED BY <2>2, <2>3, <2>4, <2>5, <2>6 DEF Writes
<1>6. ASSUME call.op = "read"
      PROVE  Writes' /\ Reads'
  <2> DEFINE d == [i \in 1 .. index |-> buffer[i - 1]]
  <2>1. last' = [call |-> call, error |-> error, data |-> d]
    <3>1. (IF index < call.len THEN index ELSE call.len) = index
      BY <1>3
    <3> QED BY <1>6, <3>1 DEF Finish
  <2>2. last'.call = call /\ last'.data = d
    BY <2>1
  <2>3. \A i \in 1 .. index : i - 1 \in 0 .. Buffer /\ i - 1 < index
    BY <1>3
  <2>4. \A i \in 1 .. index : d[i] = <<call.number, i>>
    <3>1. \A i \in 1 .. index : buffer[i - 1] = <<call.number, (i - 1) + 1>>
      BY <1>1, <1>2, <1>6, <2>3 DEF BytesIn
    <3>2. \A i \in 1 .. index : (i - 1) + 1 = i
      BY <1>3
    <3> QED BY <3>1, <3>2
  <2>5. d \in Seq(Pairs) /\ Len(d) = index
    <3>1. \A i \in 1 .. index : buffer[i - 1] \in Pairs
      BY <2>3 DEF Types
    <3> QED BY <1>3, <3>1, IsASeq
  <2>6. Len(call.moved) = index
    BY <1>1, <1>2, <1>6 DEF Ended, Moves
  <2>7. d = Prefix(call.moved, Len(d))
    <3>1. \A k \in DOMAIN d : d[k] = call.moved[k]
      <4>1. DOMAIN d = 1 .. index /\ DOMAIN call.moved = 1 .. index
        BY <1>3, <2>6
      <4>2. \A k \in 1 .. index : call.moved[k] = <<call.number, k>>
        BY <1>2, <4>1 DEF Arguments
      <4> HIDE DEF d
      <4> QED BY <2>4, <4>1, <4>2
    <3>2. call.moved \in Seq(Pairs) /\ Len(d) <= Len(call.moved)
      BY <1>3, <2>5, <2>6 DEF Types, CallRecords
    <3> HIDE DEF d
    <3> QED BY <2>5, <3>1, <3>2, PrefixOf
  <2>8. call.fate = "none" => index + (IF call.stop THEN 0 ELSE 1) >= call.len
    BY <1>1, <1>2, <1>3, <1>6 DEF Ended
  <2>9. GivenBack(last.call)'
    BY <1>4, <2>2 DEF GivenBack
  <2>10. Writes'
    BY <1>6, <2>2 DEF Writes
  <2> HIDE DEF d
  <2>11. Len(call.moved) <= call.len
    BY <1>3, <2>6
  <2> QED BY <2>2, <2>5, <2>7, <2>8, <2>9, <2>10, <2>11 DEF Reads
<1>7. BytesIn' /\ Ended' /\ Arguments'
  BY <1>1, <1>2 DEF BytesIn, Ended, Arguments, master
<1>8. ~Waiting /\ ~Waiting' /\ ~Busy'
  BY <1>1 DEF Waiting, Busy
<1>9. AtRest'
  BY <1>1, <1>8 DEF Mastery, Master, AtRest, Quiet, LastWaits, Again, LastComes, LastCame, Ready,
                    master
<1>10. Master'
  BY <1>1, <1>8, <1>9 DEF Master
<1>11. call.op \in {"write", "read"}
  BY DEF Types, CallRecords
<1> QED BY <1>5, <1>6, <1>7, <1>10, <1>11 DEF Mastery

-----------------------------------------------------------------------------
(* The master: I2C_ISR and the controller.                                 *)

MasterIsr == IsrReadStarts \/ IsrWriteGoesOn \/ IsrNack \/ IsrArbLost \/ IsrRxRdy

\* The last byte of a read that ended with STOP is only taken out of the register.
LEMMA LastTaken ==
  ASSUME Types, Mastery, IsrRxRdy, LastWaits \/ LastCame
  PROVE  /\ state' = state /\ status' = "none" /\ ctl' = ctl /\ byte' = byte /\ call' = call
         /\ inRepStart' = inRepStart /\ sendAddr' = sendAddr
         /\ index' = length /\ index' = index + 1
<1>1. index' = index + 1 /\ index = length - 1 /\ index \in Nat /\ length \in Nat
  BY TwiAssumption DEF IsrRxRdy, LastWaits, LastCame, Types
<1>2. index' = length /\ ~IsNextToLast /\ ~(index' < length)
  BY <1>1 DEF IsNextToLast
<1> QED BY <1>1, <1>2 DEF IsrRxRdy

\* As the master, I2C_ISR and the controller leave the slave's half alone.
LEMMA MasterLeavesSlave ==
  ASSUME Types, Types', Mastery, Slave, SlaveSide, MasterIsr \/ Controller
  PROVE  Slave' /\ SlaveSide'
<1>1. ctl.own => other.phase = "over"
  BY DEF Slave, Deaf
<1>2. UNCHANGED <<other, slave>>
  BY DEF MasterIsr, IsrReadStarts, IsrWriteGoesOn, IsrNack, IsrArbLost, IsrRxRdy, Controller,
         AddressSent, ByteSent, ByteRead, Stray, Raise
<1>3. CASE IsrReadStarts \/ IsrWriteGoesOn
  <2>1. status = "MT_TX_DONE" /\ status' \notin SlStatus /\ state' \in {state, "READY"}
    BY <1>3 DEF IsrReadStarts, IsrWriteGoesOn, ReadMore, ReadLast, EndWrite, SlStatus
  <2>2. Waiting /\ ctl.own
    BY <2>1, Situation DEF Acknowledged, Owned
  <2> QED BY <1>1, <1>2, <2>1, <2>2, SlaveUntouched DEF Waiting, Busy, SlStatus
<1>4. CASE IsrNack \/ IsrArbLost
  <2>1. /\ status \in {"MT_TXDONE_NACK", "MT_ARB_LOST"} /\ status' = "none" /\ state' = "READY"
        /\ ctl' = Free /\ byte' = byte
    BY <1>4 DEF IsrNack, IsrArbLost, Released
  <2>2. Waiting
    BY <2>1, Situation
  <2> QED BY <1>1, <1>2, <2>1, <2>2, SlaveUntouched DEF Waiting, Busy, SlStatus, Free
<1>5. CASE IsrRxRdy
  <2>1. status = "MT_RXRDY" /\ status' \notin SlStatus
    BY <1>5 DEF IsrRxRdy, ReadLast, ReadMore, SlStatus
  <2>2. CASE LastWaits \/ LastCame
    BY <1>1, <1>2, <1>5, <2>1, <2>2, LastTaken, SlaveUntouched DEF SlStatus
  <2>3. CASE Waiting /\ ByteCame
    <3>1. ctl.own /\ state' \in {state, "READY"}
      BY <1>5, <2>3 DEF ByteCame, Owned, IsrRxRdy, ReadLast, ReadMore
    <3> QED BY <1>1, <1>2, <2>1, <2>3, <3>1, SlaveUntouched DEF Waiting, Busy, SlStatus
  <2> QED BY <2>1, <2>2, <2>3, Situation
<1>6. CASE Controller
  <2>1. state' = state /\ status = "none" /\ status' \notin SlStatus
    BY <1>6 DEF Controller, AddressSent, ByteSent, ByteRead, Stray, Raise, Ready, SlStatus
  <2>2. CASE AddressSent
    BY <1>1, <1>2, <2>1, <2>2, SlaveUntouched DEF AddressSent, Stray, SlStatus
  <2>3. CASE ByteSent \/ ByteRead
    <3>1. Ready /\ ctl.job \in {"send", "read"}
      BY <2>3 DEF ByteSent, ByteRead
    <3>2. ctl.own
      BY <3>1, Situation DEF Sending, Reading, Misled, LastComes, Owned
    <3> QED BY <1>1, <1>2, <2>1, <3>2, SlaveUntouched DEF SlStatus
  <2> QED BY <1>6, <2>2, <2>3 DEF Controller
<1> QED BY <1>3, <1>4, <1>5, <1>6 DEF MasterIsr

\* What Moved does to the call.
LEMMA MovedFields ==
  ASSUME Types, NEW b \in Pairs
  PROVE  /\ Moved(b).op = call.op /\ Moved(b).number = call.number /\ Moved(b).len = call.len
         /\ Moved(b).stop = call.stop /\ Moved(b).started = call.started
         /\ Moved(b).fate = call.fate /\ Len(Moved(b).moved) = Moves + 1 /\ Moves \in Nat
         /\ (\A k \in DOMAIN call.moved : call.moved[k] = <<call.number, k>>)
              /\ b = <<call.number, Moves + 1>> =>
            \A k \in DOMAIN Moved(b).moved : Moved(b).moved[k] = <<call.number, k>>
<1> DEFINE s == call.moved
<1>1. /\ Moved(b).op = call.op /\ Moved(b).number = call.number /\ Moved(b).len = call.len
      /\ Moved(b).stop = call.stop /\ Moved(b).started = call.started
      /\ Moved(b).fate = call.fate /\ Moved(b).moved = Append(s, b)
  BY DEF Types, CallRecords, Moved
<1>2. s \in Seq(Pairs)
  BY DEF Types, CallRecords
<1>3. /\ Len(s) \in Nat /\ DOMAIN s = 1 .. Len(s) /\ Len(Append(s, b)) = Len(s) + 1
      /\ DOMAIN Append(s, b) = 1 .. Len(s) + 1
      /\ \A k \in 1 .. Len(s) : Append(s, b)[k] = s[k]
      /\ Append(s, b)[Len(s) + 1] = b
  BY <1>2
<1>4. ASSUME \A k \in DOMAIN s : s[k] = <<call.number, k>>, b = <<call.number, Len(s) + 1>>,
             NEW k \in 1 .. Len(s) + 1
      PROVE  Append(s, b)[k] = <<call.number, k>>
  <2>1. CASE k \in 1 .. Len(s)
    BY <1>3, <1>4, <2>1
  <2>2. CASE k = Len(s) + 1
    BY <1>3, <1>4, <2>2
  <2> QED BY <1>3, <2>1, <2>2
<1> HIDE DEF s
<1>5. Moves = Len(s)
  BY DEF Moves, s
<1> QED BY <1>1, <1>3, <1>4, <1>5 DEF s

\* I2C_ISR ends a read with the next byte.
LEMMA ReadEnds ==
  ASSUME Types, Types', Mastery, ReadLast, Waiting, call.op = "read", call.fate = "none",
         ctl = Owned("R", "none", "go"), Moves = index', index' = length - 1,
         UNCHANGED <<sendStop, error, length, pc, last>>,
         \A i \in 0 .. Buffer : i < index' => buffer'[i] = <<call.number, i + 1>>
  PROVE  Mastery'
<1>1. /\ pc = "wait" /\ pc' = "wait" /\ sendStop' = sendStop /\ error' = error
      /\ length' = length /\ last' = last /\ state' = "READY" /\ ~inRepStart /\ error = "none"
      /\ ~Waiting' /\ ~Busy'
  BY DEF Waiting, Mastery, Master, ReadLast, Busy
<1>2. /\ length = call.len /\ sendStop = call.stop
      /\ \A k \in DOMAIN call.moved : call.moved[k] = <<call.number, k>>
  BY <1>1 DEF Mastery, Arguments
<1>3. index' \in Nat /\ length \in Nat /\ Moves \in Nat /\ index' <= length' /\ Received \in Pairs
      /\ Received = <<call.number, Moves + 1>>
  <2>1. call \in CallRecords /\ Buffer \in Nat
    BY TwiAssumption DEF Types
  <2>2. Received \in Pairs
    BY <2>1, CallTypes
  <2>3. Moves \in Nat
    BY <2>2, MovedFields
  <2>4. index' \in Nat /\ length \in Nat
    BY <2>1 DEF Types
  <2>5. Received = <<call.number, Moves + 1>>
    BY DEF Received, Moves
  <2> QED BY <1>1, <2>2, <2>3, <2>4, <2>5
<1>4. Writes' /\ Reads'
  BY <1>1, LastKept DEF Mastery
<1>5. CASE sendStop
  <2>1. /\ ctl' = Free /\ status' = "MT_RXRDY" /\ byte' = Received /\ call' = Moved(Received)
        /\ inRepStart' = inRepStart
    BY <1>5 DEF ReadLast
  <2>2. /\ call'.op = "read" /\ call'.number = call.number /\ call'.len = call.len
        /\ call'.stop = call.stop /\ call'.fate = "none" /\ Moves' = Moves + 1
        /\ \A k \in DOMAIN call'.moved : call'.moved[k] = <<call.number, k>>
    BY <1>2, <1>3, <2>1, MovedFields DEF Moves
  <2>3. Arguments'
    BY <1>1, <1>2, <1>3, <2>2 DEF Mastery, Arguments
  <2>4. BytesIn'
    BY <1>1, <1>3, <2>1, <2>2 DEF BytesIn
  <2>5. Ended'
    BY <1>1, <1>2, <1>3, <2>1, <2>2 DEF Ended
  <2>6. Master'
    <3>1. LastWaits'
      BY <1>1, <2>1, <2>2 DEF LastWaits
    <3> QED BY <1>1, <3>1 DEF Master, AtRest
  <2> QED BY <1>4, <2>3, <2>4, <2>5, <2>6 DEF Mastery
<1>6. CASE ~sendStop
  <2>1. /\ ctl' = WriteData(WriteAddr(ctl, "W")) /\ status' = "none" /\ call' = call
        /\ inRepStart' = TRUE /\ sendAddr' = TRUE
    BY <1>6 DEF ReadLast
  <2>2. ctl' = Owned("R", "read", "W")
    BY <2>1 DEF WriteData, WriteAddr, Owned
  <2>3. Arguments'
    BY <1>1, <1>2, <1>3, <2>1 DEF Mastery, Arguments
  <2>4. BytesIn'
    BY <1>1, <2>1 DEF BytesIn
  <2>5. Ended'
    <3>1. Moves' = Moves
      BY <2>1 DEF Moves
    <3> QED BY <1>1, <1>2, <1>6, <2>1, <3>1 DEF Ended
  <2>6. Master'
    <3>1. LastComes'
      BY <1>1, <2>1, <2>2 DEF LastComes, Owned
    <3> QED BY <1>1, <3>1 DEF Master, AtRest
  <2> QED BY <1>4, <2>3, <2>4, <2>5, <2>6 DEF Mastery
<1>7. sendStop \in BOOLEAN
  BY DEF Types
<1> QED BY <1>5, <1>6, <1>7

\* I2C_ISR asks for the next byte, which is not the last one.
LEMMA ReadGoesOn ==
  ASSUME Types, Types', Mastery, ReadMore, Waiting, call.op = "read", call.fate = "none",
         ctl = Owned("R", "none", "go"), Moves = index', index' < length - 1,
         UNCHANGED <<sendStop, error, length, pc, last>>,
         \A i \in 0 .. Buffer : i < index' => buffer'[i] = <<call.number, i + 1>>
  PROVE  Mastery'
<1>1. /\ pc = "wait" /\ pc' = "wait" /\ sendStop' = sendStop /\ error' = error
      /\ length' = length /\ last' = last /\ state' = state /\ ~inRepStart /\ error = "none"
      /\ ctl' = WriteData(ctl) /\ status' = "none" /\ call' = call /\ inRepStart' = inRepStart
      /\ Waiting' /\ Busy'
  BY DEF Waiting, Mastery, Master, ReadMore, Busy
<1>2. ctl' = Owned("R", "read", "go") /\ Moves' = Moves
  BY <1>1 DEF WriteData, Owned, Moves
<1>3. Writes' /\ Reads'
  BY <1>1, LastKept DEF Mastery
<1>4. index' \in Nat /\ length \in Nat /\ index' <= length
  BY <1>1, TwiAssumption DEF Types
<1>5. Arguments'
  BY <1>1, <1>4 DEF Mastery, Arguments
<1>6. BytesIn' /\ Ended'
  BY <1>1 DEF BytesIn, Ended
<1>7. Reading'
  BY <1>1, <1>2 DEF Reading, Owned
<1>8. Master'
  BY <1>1, <1>7 DEF Mastery, Master, AtWork
<1> QED BY <1>3, <1>5, <1>6, <1>8 DEF Mastery

\* The slave has acknowledged its address: the first byte is asked for.
LEMMA ReadStartsKept ==
  ASSUME Types, Types', Mastery, IsrReadStarts
  PROVE  Mastery'
<1>1. status = "MT_TX_DONE" /\ Waiting /\ Acknowledged /\ state = "MT_RX"
  BY Situation DEF IsrReadStarts
<1>2. call.op = "read" /\ Letter = "R"
  <2>1. state = IF call.op = "write" THEN "MT_TX" ELSE "MT_RX"
    BY <1>1 DEF Mastery, Master
  <2> QED BY <1>1, <2>1 DEF Letter, Types, CallRecords
<1>3. /\ ctl = Owned("R", "none", "go") /\ call.fate = "none" /\ Moves = 0 /\ index = 0
      /\ index' = 0 /\ UNCHANGED <<sendStop, error, length, pc, last>>
      /\ IF length > 1 THEN ReadMore ELSE ReadLast
  BY <1>1, <1>2 DEF Acknowledged, IsrReadStarts
<1>4. length \in Nat /\ length > 0
  BY <1>1, <1>2, TwiAssumption DEF Mastery, Arguments, Waiting, Types
<1>5. \A i \in 0 .. Buffer : i < index' => buffer'[i] = <<call.number, i + 1>>
  BY <1>3, TwiAssumption
<1>6. CASE length > 1
  BY <1>1, <1>2, <1>3, <1>4, <1>5, <1>6, ReadGoesOn
<1>7. CASE ~(length > 1)
  <2>1. index' = length - 1
    BY <1>3, <1>4, <1>7
  <2> QED BY <1>1, <1>2, <1>3, <1>5, <1>7, <2>1, ReadEnds
<1> QED BY <1>6, <1>7

\* A byte has come in.
LEMMA RxRdyKept ==
  ASSUME Types, Types', Mastery, IsrRxRdy
  PROVE  Mastery'
<1>1. /\ status = "MT_RXRDY" /\ index' = index + 1 /\ buffer' = [buffer EXCEPT ![index] = byte]
      /\ UNCHANGED <<sendStop, error, length, slave, pc, last, other, astray>>
  BY DEF IsrRxRdy
<1>2. /\ index \in 0 .. Buffer /\ length \in Nat /\ Buffer \in Nat
      /\ buffer \in [0 .. Buffer -> Pairs]
  BY TwiAssumption DEF Types
<1>3. \A i \in 0 .. Buffer : buffer'[i] = IF i = index THEN byte ELSE buffer[i]
  BY <1>1, <1>2
<1>4. ASSUME pc = "wait", call.op = "read"
      PROVE  \A i \in 0 .. Buffer : i < index' => buffer'[i] = <<call.number, i + 1>>
  <2>1. \A i \in 0 .. Buffer : i < index => buffer[i] = <<call.number, i + 1>>
    BY <1>4 DEF Mastery, BytesIn
  <2>2. byte = <<call.number, index + 1>>
    BY <1>1, <1>4 DEF Mastery, BytesIn
  <2>3. \A i \in 0 .. Buffer : i < index' <=> i < index \/ i = index
    BY <1>1, <1>2
  <2> QED BY <1>3, <2>1, <2>2, <2>3
<1>5. CASE Waiting /\ ByteCame
  <2>1. /\ pc = "wait" /\ call.op = "read" /\ call.fate = "none" /\ ctl = Owned("R", "none", "go")
        /\ Moves = index' /\ index < length - 1
    BY <1>1, <1>5 DEF Waiting, ByteCame
  <2>2. CASE index' = length - 1
    <3>1. ReadLast
      BY <2>2 DEF IsrRxRdy, IsNextToLast
    <3> QED BY <1>1, <1>4, <1>5, <2>1, <2>2, <3>1, ReadEnds
  <2>3. CASE index' # length - 1
    <3>1. index' < length - 1 /\ index' < length
      BY <1>1, <1>2, <2>1, <2>3
    <3>2. ReadMore
      BY <2>3, <3>1 DEF IsrRxRdy, IsNextToLast
    <3> QED BY <1>1, <1>4, <1>5, <2>1, <3>1, <3>2, ReadGoesOn
  <2> QED BY <2>2, <2>3
<1>6. CASE ~Waiting /\ (LastWaits \/ LastCame)
  <2>1. /\ state' = state /\ status' = "none" /\ ctl' = ctl /\ byte' = byte /\ call' = call
        /\ inRepStart' = inRepStart /\ sendAddr' = sendAddr /\ index' = length
    BY <1>6, LastTaken
  <2>2. pc # "start" /\ (pc = "wait" => call.op = "read")
    BY <1>1, <1>6 DEF LastWaits, LastCame, Mastery, Ended, Waiting, Types, CallRecords
  <2>3. Writes' /\ Reads'
    BY <1>1, <2>1, LastKept DEF Mastery
  <2>4. Arguments'
    BY <1>1, <1>2, <2>1, <2>2 DEF Mastery, Arguments
  <2>5. BytesIn'
    BY <1>1, <1>4, <2>1 DEF BytesIn
  <2>6. Ended'
    <3>1. Moves' = Moves /\ (Busy' <=> Busy)
      BY <2>1 DEF Moves, Busy
    <3> QED BY <1>1, <2>1, <2>2, <3>1 DEF Mastery, Ended
  <2>7. Master'
    <3>1. Quiet' \/ Again'
      BY <1>6, <2>1 DEF LastWaits, LastCame, Quiet, Again, Owned, MtStatus
    <3>2. (Busy' <=> Busy) /\ (Waiting' <=> Waiting)
      BY <1>1, <2>1 DEF Busy, Waiting
    <3> QED BY <1>1, <1>6, <2>1, <3>1, <3>2 DEF Mastery, Master, AtRest
  <2> QED BY <2>3, <2>4, <2>5, <2>6, <2>7 DEF Mastery
<1> QED BY <1>1, <1>5, <1>6, Situation

\* The slave has acknowledged its address or a byte of a write.
LEMMA WriteGoesOnKept ==
  ASSUME Types, Types', Mastery, IsrWriteGoesOn
  PROVE  Mastery'
<1>1. /\ status = "MT_TX_DONE" /\ Waiting /\ Acknowledged /\ state # "MT_RX"
      /\ pc = "wait" /\ ~inRepStart /\ error = "none"
  BY Situation DEF IsrWriteGoesOn, Waiting, Mastery, Master
<1>2. call.op = "write" /\ Letter = "W"
  BY <1>1 DEF Mastery, Master, Letter
<1>3. /\ status' = "none" /\ sendAddr' = FALSE /\ pc' = pc /\ last' = last /\ call' = call
      /\ sendStop' = sendStop /\ error' = error /\ length' = length /\ buffer' = buffer
  BY DEF IsrWriteGoesOn, program
<1>4. /\ ctl = Owned("W", "none", "go") /\ call.fate = "none" /\ index = Moves /\ call.started
      /\ Moves' = Moves /\ Letter' = "W"
  BY <1>1, <1>2, <1>3 DEF Acknowledged, Moves, Letter
<1>5. index \in 0 .. Buffer /\ Buffer \in Nat /\ length \in Nat /\ index <= length
  BY TwiAssumption DEF Types, Mastery, Arguments
<1>6. /\ length = call.len /\ sendStop = call.stop
      /\ \A i \in 0 .. Buffer : i < length => buffer[i] = <<call.number, i + 1>>
  BY <1>1, <1>2 DEF Mastery, Arguments
<1>7. Writes' /\ Reads'
  BY <1>1, <1>3, LastKept DEF Mastery
<1>8. BytesIn'
  BY <1>2, <1>3 DEF BytesIn
<1>9. CASE index < length
  <2>1. /\ byte' = buffer[index] /\ index' = index + 1 /\ ctl' = WriteData(ctl)
        /\ state' = state /\ inRepStart' = inRepStart
    BY <1>9 DEF IsrWriteGoesOn, NextByte
  <2>2. ctl' = Owned("W", "send", "go") /\ byte' = <<call.number, index'>>
    BY <1>4, <1>5, <1>6, <1>9, <2>1 DEF WriteData, Owned
  <2>3. Waiting' /\ Busy'
    BY <1>1, <1>3, <2>1 DEF Waiting, Busy
  <2>4. index' <= length
    BY <1>5, <1>9, <2>1
  <2>5. Arguments' /\ Ended'
    BY <1>1, <1>3, <2>3, <2>4 DEF Mastery, Arguments, Ended
  <2>6. Sending'
    BY <1>2, <1>3, <1>4, <2>1, <2>2 DEF Sending
  <2>7. Master'
    BY <1>1, <1>3, <2>1, <2>3, <2>6 DEF Mastery, Master, AtWork
  <2> QED BY <1>7, <1>8, <2>5, <2>7 DEF Mastery
<1>10. CASE ~(index < length)
  <2>1. /\ state' = "READY" /\ index' = index
        /\ IF sendStop THEN ctl' = Free /\ inRepStart' = inRepStart
           ELSE ctl' = WriteAddr(ctl, "R") /\ inRepStart' = TRUE
    BY <1>10 DEF IsrWriteGoesOn, EndWrite
  <2>2. Moves' = length
    BY <1>4, <1>5, <1>10
  <2>3. IF sendStop THEN ctl' = Free /\ ~inRepStart'
        ELSE ctl' = Owned("W", "R", "go") /\ inRepStart'
    BY <1>1, <1>4, <2>1 DEF WriteAddr, Owned
  <2>4. ~Busy' /\ ~Waiting'
    BY <2>1 DEF Busy, Waiting
  <2>5. Arguments'
    BY <1>1, <1>3, <1>5, <2>1 DEF Mastery, Arguments
  <2>6. Ended'
    <3>1. ctl' = Free \/ ctl'.job = "R"
      BY <2>3 DEF Owned
    <3> QED BY <1>1, <1>2, <1>3, <1>4, <1>5, <1>6, <2>2, <2>3, <3>1 DEF Ended
  <2>7. Master'
    <3>1. Quiet' \/ Again'
      BY <1>3, <2>3 DEF Quiet, Again, MtStatus, Owned
    <3> QED BY <1>1, <1>3, <2>4, <3>1 DEF Master, AtRest
  <2> QED BY <1>7, <1>8, <2>5, <2>6, <2>7 DEF Mastery
<1> QED BY <1>9, <1>10

\* The slave has not, or the arbitration was lost.
LEMMA FailureKept ==
  ASSUME Types, Types', Mastery, IsrNack \/ IsrArbLost
  PROVE  Mastery'
<1>1. /\ status' = "none" /\ state' = "READY" /\ ctl' = Free /\ pc' = pc /\ last' = last
      /\ call' = call /\ byte' = byte /\ sendStop' = sendStop /\ inRepStart' = inRepStart
      /\ index' = index /\ length' = length /\ buffer' = buffer
  BY DEF IsrNack, IsrArbLost, Released, program
<1>2. Waiting /\ ~inRepStart /\ pc = "wait"
  BY Situation DEF IsrNack, IsrArbLost, Mastery, Master, Waiting
<1>3. /\ call.fate # "none" /\ Moves' = Moves
      /\ call.op = "write" => error' = call.fate /\ Moves <= length
      /\ call.op = "read" => Moves = 0 /\ index = 0
  <2>1. CASE IsrNack
    BY <1>1, <2>1, Situation DEF IsrNack, Refused, Moves
  <2>2. CASE IsrArbLost
    BY <1>1, <2>2, Situation, TwiAssumption DEF IsrArbLost, BusLost, Moves, Types
  <2> QED BY <2>1, <2>2
<1>4. ~Busy' /\ ~Waiting'
  BY <1>1 DEF Busy, Waiting
<1>5. Writes' /\ Reads'
  BY <1>1, <1>2, LastKept DEF Mastery
<1>6. BytesIn' /\ Arguments'
  BY <1>1, <1>2 DEF Mastery, BytesIn, Arguments
<1>7. Ended'
  BY <1>1, <1>3 DEF Ended
<1>8. Master'
  <2>1. Quiet'
    BY <1>1, <1>2 DEF Quiet, MtStatus
  <2> QED BY <1>1, <1>2, <1>4, <2>1 DEF Master, AtRest
<1> QED BY <1>5, <1>6, <1>7, <1>8 DEF Mastery

\* Where the model stops, what the last call returned stands.
LEMMA StrayKept ==
  ASSUME Mastery, NEW how, Stray(how)
  PROVE  Writes' /\ Reads'
<1>1. last' = last /\ pc' = pc /\ ctl' = ctl
  BY DEF Stray, program
<1> QED BY <1>1, LastKept DEF Mastery

\* The address has been sent, and somebody acknowledged it or not.
LEMMA AddressSentKept ==
  ASSUME Types, Types', Mastery, AddressSent
  PROVE  Writes' /\ Reads' /\ (astray' = "no" => Mastery')
<1>1. CASE Stray("early")
  BY <1>1, StrayKept DEF Stray
<1>2. CASE ~Stray("early")
  <2>1. /\ Ready /\ ctl.job \in {"W", "R"} /\ byte' = byte /\ (inRepStart => ~ctl.own)
        /\ state' = state /\ UNCHANGED master /\ pc' = pc /\ last' = last
    BY <1>2 DEF AddressSent, Raise
  <2>2. Waiting /\ Addressing /\ pc = "wait"
    <3>1. Again => ctl.own /\ inRepStart
      BY DEF Again, Owned
    <3> QED BY <2>1, <3>1, Situation DEF Waiting
  <2>3. /\ ctl.job = Letter /\ ctl.then = "go" /\ call.fate = "none" /\ call.moved = <<>>
        /\ index = 0 /\ (call.op = "write" => sendAddr) /\ ctl \in Controls
    BY <2>2 DEF Addressing, Fresh, Types
  <2>4. /\ call'.op = call.op /\ call'.number = call.number /\ call'.len = call.len
        /\ call'.stop = call.stop /\ call'.moved = <<>> /\ Moves' = 0 /\ Letter' = Letter
    <3>1. \/ call' = [call EXCEPT !.started = ((ctl.job = "W") = (call.op = "write"))]
          \/ call' = [call EXCEPT !.fate = "addr"]
          \/ call' = [call EXCEPT !.fate = "arb"]
      BY <1>2 DEF AddressSent
    <3>2. /\ call'.op = call.op /\ call'.number = call.number /\ call'.len = call.len
          /\ call'.stop = call.stop /\ call'.moved = call.moved
      <4>1. call \in CallRecords
        BY DEF Types
      <4>2. CASE call' = [call EXCEPT !.started = ((ctl.job = "W") = (call.op = "write"))]
        BY <4>1, <4>2 DEF CallRecords
      <4>3. CASE call' = [call EXCEPT !.fate = "addr"]
        BY <4>1, <4>3 DEF CallRecords
      <4>4. CASE call' = [call EXCEPT !.fate = "arb"]
        BY <4>1, <4>4 DEF CallRecords
      <4> QED BY <3>1, <4>2, <4>3, <4>4
    <3> QED BY <2>3, <3>2 DEF Moves, Letter
  <2>5. Waiting' /\ Busy' /\ 0 <= length'
    BY <2>1, <2>2, TwiAssumption DEF Waiting, Busy, Types
  <2>6. Writes' /\ Reads'
    BY <2>1, <2>2, LastKept DEF Mastery
  <2>7. Arguments'
    BY <2>1, <2>2, <2>4 DEF Mastery, Arguments, master
  <2>8. BytesIn'
    <3>1. \A i \in 0 .. Buffer : ~(i < 0)
      BY TwiAssumption
    <3>2. status' # "MT_RXRDY" /\ index' = 0
      BY <1>2, <2>1, <2>3 DEF AddressSent, Raise, master
    <3> QED BY <3>1, <3>2 DEF BytesIn
  <2>9. Ended'
    BY <2>5 DEF Ended
  <2>10. AtWork'
    <3>1. index' = 0 /\ sendAddr' = sendAddr /\ length' = length
      BY <2>1, <2>3 DEF master
    <3>2. \/ /\ ctl' = [ctl EXCEPT !.own = TRUE, !.dir = ctl.job, !.job = "none"]
             /\ call' = [call EXCEPT !.started = ((ctl.job = "W") = (call.op = "write"))]
             /\ status' = "MT_TX_DONE"
          \/ call' = [call EXCEPT !.fate = "addr"] /\ status' = "MT_TXDONE_NACK"
          \/ call' = [call EXCEPT !.fate = "arb"] /\ status' = "MT_ARB_LOST"
      BY <1>2, <2>1 DEF AddressSent, Raise
    <3>3. CASE /\ ctl' = [ctl EXCEPT !.own = TRUE, !.dir = ctl.job, !.job = "none"]
               /\ call' = [call EXCEPT !.started = ((ctl.job = "W") = (call.op = "write"))]
               /\ status' = "MT_TX_DONE"
      <4>1. ctl' = Owned(Letter, "none", "go")
        BY <2>3, <3>3 DEF Owned, Controls
      <4>2. (ctl.job = "W") <=> (call.op = "write")
        BY <2>3 DEF Letter
      <4>3. call'.started = ((ctl.job = "W") = (call.op = "write")) /\ call'.fate = call.fate
        BY <3>3 DEF Types, CallRecords
      <4>4. call'.started
        BY <4>2, <4>3
      <4> QED BY <2>3, <2>4, <3>1, <3>3, <4>1, <4>3, <4>4 DEF Acknowledged, AtWork
    <3>4. CASE call' = [call EXCEPT !.fate = "addr"] /\ status' = "MT_TXDONE_NACK"
      <4>1. call'.fate = "addr"
        BY <3>4 DEF Types, CallRecords
      <4> QED BY <2>3, <2>4, <2>5, <3>1, <3>4, <4>1 DEF Refused, AtWork
    <3>5. CASE call' = [call EXCEPT !.fate = "arb"] /\ status' = "MT_ARB_LOST"
      <4>1. call'.fate = "arb"
        BY <3>5 DEF Types, CallRecords
      <4> QED BY <2>4, <3>1, <3>5, <4>1 DEF BusLost, AtWork
    <3> QED BY <3>2, <3>3, <3>4, <3>5
  <2>11. Master'
    BY <2>1, <2>2, <2>4, <2>5, <2>10 DEF Mastery, Master, Waiting, master
  <2> QED BY <2>6, <2>7, <2>8, <2>9, <2>11 DEF Mastery
<1> QED BY <1>1, <1>2

\* A byte of a write has been sent.
LEMMA ByteSentKept ==
  ASSUME Types, Types', Mastery, ByteSent
  PROVE  Mastery'
<1>1. /\ Ready /\ ctl.job = "send" /\ ctl' = [ctl EXCEPT !.job = "none"] /\ byte' = byte
      /\ state' = state /\ UNCHANGED master /\ pc' = pc /\ last' = last
      /\ \/ call' = Moved(byte) /\ status' = "MT_TX_DONE"
         \/ call' = [call EXCEPT !.fate = "data"] /\ status' = "MT_TXDONE_NACK"
  BY DEF ByteSent, Raise
<1>2. Waiting /\ Sending /\ pc = "wait"
  BY <1>1, Situation DEF Waiting
<1>3. /\ ctl' = Owned("W", "none", "go") /\ ~sendAddr /\ call.op = "write" /\ call.fate = "none"
      /\ call.started /\ index = Moves + 1 /\ byte = <<call.number, Moves + 1>> /\ byte \in Pairs
  BY <1>1, <1>2 DEF Sending, Owned, Types
<1>4. /\ call'.op = "write" /\ call'.number = call.number /\ call'.len = call.len
      /\ call'.stop = call.stop /\ Letter' = "W"
      /\ \A k \in DOMAIN call'.moved : call'.moved[k] = <<call.number, k>>
  <2>1. \A k \in DOMAIN call.moved : call.moved[k] = <<call.number, k>>
    BY DEF Mastery, Arguments
  <2>2. CASE call' = Moved(byte)
    BY <1>3, <2>1, <2>2, MovedFields DEF Letter
  <2>3. CASE call' = [call EXCEPT !.fate = "data"]
    BY <1>3, <2>1, <2>3 DEF Types, CallRecords, Letter
  <2> QED BY <1>1, <2>2, <2>3
<1>5. Waiting' /\ Busy'
  BY <1>1, <1>2 DEF Waiting, Busy
<1>6. Writes' /\ Reads'
  BY <1>1, <1>2, LastKept DEF Mastery
<1>7. Arguments'
  BY <1>1, <1>2, <1>3, <1>4 DEF Mastery, Arguments, master
<1>8. BytesIn' /\ Ended'
  BY <1>4, <1>5 DEF BytesIn, Ended
<1>9. AtWork'
  <2>1. index' = index /\ sendAddr' = sendAddr /\ length' = length /\ index <= length
    BY <1>1 DEF master, Mastery, Arguments
  <2>2. CASE call' = Moved(byte) /\ status' = "MT_TX_DONE"
    <3>1. call'.fate = "none" /\ call'.started /\ Moves' = Moves + 1
      BY <1>3, <2>2, MovedFields DEF Moves
    <3> QED BY <1>3, <1>4, <2>1, <2>2, <3>1 DEF Acknowledged, AtWork
  <2>3. CASE call' = [call EXCEPT !.fate = "data"] /\ status' = "MT_TXDONE_NACK"
    <3>1. call'.fate = "data" /\ Moves' = Moves
      BY <2>3 DEF Types, CallRecords, Moves
    <3>2. Moves \in Nat /\ length \in Nat /\ index \in Nat /\ Moves <= length
      <4>1. Moves \in Nat
        BY <1>3, MovedFields
      <4>2. length \in Nat /\ index \in Nat
        BY TwiAssumption DEF Types
      <4> QED BY <1>3, <2>1, <4>1, <4>2
    <3> QED BY <1>3, <1>4, <2>1, <2>3, <3>1, <3>2 DEF Refused, AtWork
  <2> QED BY <1>1, <2>2, <2>3
<1>10. Master'
  BY <1>1, <1>2, <1>3, <1>4, <1>5, <1>9 DEF Mastery, Master, Waiting, master
<1> QED BY <1>6, <1>7, <1>8, <1>10 DEF Mastery

\* A byte of a read has come in.
LEMMA ByteReadKept ==
  ASSUME Types, Types', Mastery, ByteRead
  PROVE  Writes' /\ Reads' /\ (astray' = "no" => Mastery')
<1>1. CASE Stray("late")
  BY <1>1, StrayKept DEF Stray
<1>2. CASE ~Stray("late")
  <2>1. /\ Ready /\ ctl.job = "read" /\ ~IsLate /\ byte' = Received /\ call' = Moved(Received)
        /\ ctl' = [ctl EXCEPT !.job = IF ctl.then = "go" THEN "none" ELSE ctl.then,
                              !.then = "go"]
        /\ status' = "MT_RXRDY" /\ state' = state /\ UNCHANGED master /\ pc' = pc /\ last' = last
    BY <1>2 DEF ByteRead, Raise
  <2>2. /\ index' = index /\ length' = length /\ inRepStart' = inRepStart /\ error' = error
        /\ sendAddr' = sendAddr /\ buffer' = buffer /\ sendStop' = sendStop
    BY <2>1 DEF master
  <2>3. /\ call'.op = call.op /\ call'.number = call.number /\ call'.len = call.len
        /\ call'.stop = call.stop /\ call'.fate = call.fate /\ Moves' = Moves + 1
        /\ call'.started = call.started
        /\ \A k \in DOMAIN call'.moved : call'.moved[k] = <<call.number, k>>
    <3>1. Received \in Pairs /\ Received = <<call.number, Moves + 1>>
      BY CallTypes DEF Types, Received, Moves
    <3>2. \A k \in DOMAIN call.moved : call.moved[k] = <<call.number, k>>
      BY DEF Mastery, Arguments
    <3> QED BY <2>1, <3>1, <3>2, MovedFields DEF Moves
  <2>4. (Waiting' <=> Waiting) /\ (Busy' <=> Busy)
    BY <2>1 DEF Waiting, Busy
  <2>5. byte' = <<call.number, Moves + 1>>
    BY <2>1 DEF Received, Moves
  <2>6. \/ Waiting /\ Reading
        \/ ~Waiting /\ LastComes /\ pc # "start"
    <3>1. Misled => ctl.then # "go"
      BY DEF Misled, Owned
    <3>2. LastComes => ctl.then # "go"
      BY DEF LastComes, Owned
    <3>3. Waiting => ~inRepStart
      BY DEF Mastery, Master
    <3> QED BY <2>1, <3>1, <3>2, <3>3, Situation DEF IsLate
  <2>7. pc = "wait" => call.op = "read" /\ Moves = index
    <3>1. CASE Waiting /\ Reading
      BY <3>1 DEF Reading
    <3>2. CASE ~Waiting /\ LastComes
      <4>1. ctl.job = "read" /\ status # "MT_RXRDY" /\ ctl # Free
        BY <3>2 DEF LastComes, Owned, Free
      <4> QED BY <3>2, <4>1 DEF Waiting, Mastery, Ended, Types, CallRecords
    <3> QED BY <2>6, <3>1, <3>2
  <2>8. Writes' /\ Reads'
    <3>1. ctl # Free
      BY <2>1 DEF Free
    <3> QED BY <2>1, <3>1, LastKept DEF Mastery
  <2>9. Arguments'
    BY <2>1, <2>2, <2>3 DEF Mastery, Arguments
  <2>10. BytesIn'
    BY <2>1, <2>2, <2>3, <2>5, <2>7 DEF Mastery, BytesIn
  <2>11. Ended'
    <3>1. status = "none" /\ ctl # Free
      BY <2>1 DEF Ready, Free
    <3> QED BY <2>1, <2>2, <2>3, <2>4, <2>7, <3>1 DEF Mastery, Ended
  <2>12. Master'
    <3>1. ASSUME Waiting
          PROVE  ByteCame'
      <4>1. Reading
        BY <2>6, <3>1
      <4>2. ctl' = Owned("R", "none", "go")
        BY <2>1, <4>1 DEF Reading, Owned
      <4> QED BY <2>1, <2>2, <2>3, <4>1, <4>2 DEF Reading, ByteCame
    <3>2. ASSUME ~Waiting
          PROVE  LastCame'
      <4>1. LastComes /\ pc # "start"
        BY <2>6, <3>2
      <4>2. ctl' = Owned("R", "W", "go")
        BY <2>1, <4>1 DEF LastComes, Owned
      <4> QED BY <2>1, <2>2, <4>1, <4>2 DEF LastComes, LastCame
    <3> QED BY <2>1, <2>2, <2>3, <2>4, <3>1, <3>2 DEF Mastery, Master, AtWork, AtRest
  <2> QED BY <2>8, <2>9, <2>10, <2>11, <2>12 DEF Mastery
<1> QED BY <1>1, <1>2

-----------------------------------------------------------------------------
(* The invariant.                                                          *)

\* The forms the invariant is stated and used in.
LEMMA Halves ==
  /\ IInv /\ astray = "no" => Types /\ Mastery /\ Slave /\ SlaveSide
  /\ Types /\ Writes /\ Reads /\ SlaveSide /\ (astray = "no" => Mastery /\ Slave) => IInv
BY DEF IInv, Inv, Mastery, Slave

\* The initial state: no call, no transaction.
LEMMA InitIInv == Init => IInv
<1> SUFFICES ASSUME Init
             PROVE  IInv
  OBVIOUS
<1>1. /\ state = "READY" /\ sendStop = TRUE /\ inRepStart = FALSE /\ error = "none"
      /\ sendAddr = FALSE /\ index = 0 /\ length = 0
      /\ buffer = [i \in 0 .. Buffer |-> Dummy] /\ rx = <<>> /\ txIndex = 0 /\ txLength = 0
      /\ pc = "idle" /\ ctl = Free /\ status = "none" /\ byte = Dummy /\ other = Nobody
      /\ astray = "no" /\ last = [call |-> call, error |-> "none", data |-> <<>>]
  BY DEF Init
<1>2. /\ call.op = "write" /\ call.number = 0 /\ call.len = 0 /\ call.stop = TRUE
      /\ call.started = FALSE /\ call.moved = <<>> /\ call.fate = "none"
  BY DEF Init
<1>3. Buffer \in Nat /\ 0 \in 0 .. Buffer
  BY TwiAssumption
<1>4. Types
  <2>1. call \in CallRecords
    BY <1>3 DEF Init, CallRecords, Errors
  <2>2. Dummy \in Pairs /\ ctl \in Controls /\ other \in Transactions
    BY <1>1 DEF Dummy, Pairs, Free, Controls, Nobody, Transactions
  <2>3. last \in [call : CallRecords, error : Errors, data : Seq(Pairs)]
    BY <1>1, <2>1 DEF Errors
  <2> QED BY <1>1, <1>3, <2>1, <2>2, <2>3 DEF Types, Errors
<1>5. Mastery
  <2>1. last.call = call /\ last.error = "none" /\ ~Busy /\ ~Waiting
    BY <1>1 DEF Busy, Waiting
  <2>2. Writes
    <3>1. Prefix(Bytes(call), Len(call.moved)) = <<>>
      BY <1>2 DEF Prefix
    <3> QED BY <1>1, <1>2, <2>1, <3>1 DEF Writes, GivenBack
  <2>3. Reads
    BY <1>2, <2>1 DEF Reads
  <2>4. Master
    BY <1>1, <2>1 DEF Master, AtRest, Quiet, MtStatus
  <2>5. Arguments /\ BytesIn /\ Ended
    BY <1>1, <1>2 DEF Arguments, BytesIn, Ended
  <2> QED BY <2>2, <2>3, <2>4, <2>5 DEF Mastery
<1>6. Slave /\ SlaveSide
  <2>1. /\ other.kind = "write" /\ other.phase = "over" /\ other.bytes = <<>> /\ other.told = <<>>
        /\ other.held = FALSE /\ ~ctl.own
        /\ other.joined = FALSE
    BY <1>1 DEF Nobody, Free
  <2>2. Prefix(<<>>, 0) = <<>> /\ Len(<<>>) = 0
    BY DEF Prefix
  <2>3. SlaveSide
    <3>1. 0 < Buffer
      BY TwiAssumption
    <3> QED BY <2>1, <2>2, <3>1 DEF SlaveSide
  <2> QED BY <1>1, <2>1, <2>3 DEF Slave, Deaf, Written, Told, Reply, SlStatus
<1> QED BY <1>4, <1>5, <1>6, Halves DEF Mastery

\* Every step keeps it.
LEMMA NextIInv == IInv /\ [Next]_vars => IInv'
<1> SUFFICES ASSUME IInv, [Next]_vars
             PROVE  IInv'
  OBVIOUS
<1>1. ASSUME Types', Writes', Reads', SlaveSide', astray' = "no" => Mastery' /\ Slave'
      PROVE  IInv'
  BY <1>1 DEF IInv, Inv, Mastery, Slave
<1>2. CASE UNCHANGED vars
  <2>1. Types'
    BY <1>2 DEF vars, IInv, Types
  <2>2. Writes' /\ Reads'
    BY <1>2 DEF vars, IInv, Writes, Reads, GivenBack
  <2>3. SlaveSide'
    BY <1>2 DEF vars, IInv, SlaveSide
  <2>4. Inv' <=> Inv
    <3>1. (Master' <=> Master) /\ (Arguments' <=> Arguments) /\ (BytesIn' <=> BytesIn)
      BY <1>2 DEF vars, Master, Arguments, BytesIn, AtRest, AtWork, Waiting, Busy, Quiet, LastWaits,
                  Again, LastComes, LastCame, Addressing, Misled, Acknowledged, Sending, Reading,
                  ByteCame, Refused, BusLost, Fresh, Letter, Moves
    <3>2. (Ended' <=> Ended) /\ (Deaf' <=> Deaf) /\ (Written' <=> Written)
      BY <1>2 DEF vars, Ended, Busy, Moves, Deaf, Written, Taken, Pending, Before
    <3>3. (Told' <=> Told) /\ (Reply' <=> Reply)
      BY <1>2 DEF vars, Told, Reply, Taken
    <3> QED BY <1>2, <3>1, <3>2, <3>3 DEF vars, Inv
  <2> QED BY <2>1, <2>2, <2>3, <2>4 DEF IInv
<1>3. CASE Next
  <2>0. Types /\ Mastery /\ Slave /\ SlaveSide /\ astray = "no"
    BY <1>3, Halves DEF Next
  <2>1. CASE \/ \E op \in {"write", "read"}, n \in 0 .. Buffer, stop \in BOOLEAN : Call(op, n, stop)
             \/ Program
    <3>1. Types'
      BY <2>0, <2>1, ProgramTypes
    <3>2. Slave' /\ SlaveSide'
      BY <2>0, <2>1, <3>1, ProgramLeavesSlave
    <3>3. Writes' /\ Reads' /\ (astray' = "no" => Mastery')
      <4>1. CASE Start
        BY <2>0, <3>1, <4>1, StartKept
      <4>2. CASE ~Start
        <5>1. Mastery'
          BY <2>0, <2>1, <3>1, <4>2, CallKept, TestKept, ClaimKept, PrepareKept, FinishKept
             DEF Program
        <5> QED BY <5>1 DEF Mastery
      <4> QED BY <4>1, <4>2
    <3> QED BY <1>1, <3>1, <3>2, <3>3
  <2>2. CASE MasterIsr
    <3>1. Types'
      <4>1. status = "MT_RXRDY" => index < length
        <5>1. index \in Nat /\ length \in Nat
          BY <2>0, TwiAssumption DEF Types
        <5> QED BY <2>0, <5>1, Situation DEF ByteCame, LastWaits, LastCame
      <4> QED BY <2>0, <2>2, <4>1, MasterTypes DEF MasterIsr, Mastery
    <3>2. Slave' /\ SlaveSide'
      BY <2>0, <2>2, <3>1, MasterLeavesSlave
    <3>3. Mastery'
      BY <2>0, <2>2, <3>1, ReadStartsKept, WriteGoesOnKept, FailureKept, RxRdyKept DEF MasterIsr
    <3> QED BY <1>1, <3>1, <3>2, <3>3 DEF Mastery
  <2>3. CASE IsrSlRx \/ IsrSlStop \/ IsrSlNeed \/ IsrSlDone \/ IsrSlNeedDone
    <3>1. Types'
      <4>1. status \in {"SL_TX_DONE", "SL_NEED_DONE"} => txLength > 0
        BY <2>0 DEF Slave, Told, Reply
      <4> QED BY <2>0, <2>3, <4>1, SlaveTypes
    <3>2. Slave' /\ SlaveSide'
      BY <2>0, <2>3, <3>1, ByteWritten, StopSeen, ByteAskedFor, ByteGone, ByteGoneAndAskedFor
    <3>3. astray' = "no" => Mastery'
      BY <2>0, <2>3, <3>1, SlaveStepsLeaveMaster
    <3>4. Writes' /\ Reads'
      <4>1. last' = last /\ pc' = pc /\ ctl' = ctl
        BY <2>3 DEF IsrSlRx, IsrSlStop, IsrSlNeed, IsrSlDone, IsrSlNeedDone, SlaveServed, program
      <4> QED BY <2>0, <4>1, LastKept DEF Mastery
    <3> QED BY <1>1, <3>1, <3>2, <3>3, <3>4
  <2>4. CASE Controller
    <3>1. Types'
      BY <2>0, <2>4, BusTypes
    <3>2. Slave' /\ SlaveSide'
      BY <2>0, <2>4, <3>1, MasterLeavesSlave
    <3>3. Writes' /\ Reads' /\ (astray' = "no" => Mastery')
      BY <2>0, <2>4, <3>1, AddressSentKept, ByteSentKept, ByteReadKept DEF Controller, Mastery
    <3> QED BY <1>1, <3>1, <3>2, <3>3
  <2>5. CASE OtherStarts \/ OtherGoesOn
    <3>1. Types'
      BY <2>0, <2>5, BusTypes
    <3>2. Slave' /\ SlaveSide'
      BY <2>0, <2>5, <3>1, OtherSteps
    <3>3. astray' = "no" => Mastery'
      BY <2>0, <2>5, <3>1, SlaveStepsLeaveMaster
    <3>4. astray' = astray
      BY <2>5 DEF OtherStarts, OtherGoesOn, OtherWrites, OtherHeld, OtherReads, OtherAsks,
                  OtherStops, Raise
    <3> QED BY <1>1, <2>0, <3>1, <3>2, <3>3, <3>4 DEF Mastery
  <2> QED BY <1>3, <2>1, <2>2, <2>3, <2>4, <2>5 DEF Next, Isr, MasterIsr
<1> QED BY <1>2, <1>3

\* The invariant holds.
LEMMA Invariance == Spec => []IInv
<1>1. Init => IInv
  BY InitIInv
<1>2. IInv /\ [Next]_vars => IInv'
  BY NextIInv
<1> QED BY <1>1, <1>2, PTL DEF Spec

-----------------------------------------------------------------------------
(* The theorems.                                                           *)

\* twi_writeTo tells what happened to the bytes, and gives the bus back.
THEOREM WritesTellWhatHappened == Spec => []Writes
<1>1. IInv => Writes
  BY DEF IInv
<1> QED BY <1>1, Invariance, PTL

\* twi_readFrom returns the bytes the slave sent, in order, clocks out no more than it
\* was asked for, and gives the bus back.
THEOREM ReadsReturnWhatCame == Spec => []Reads
<1>1. IInv => Reads
  BY DEF IInv
<1> QED BY <1>1, Invariance, PTL

\* As a slave we hand over what the other master wrote, in order and from the first
\* byte on, but for what the buffer had no room for and a byte that came together
\* with the STOP; and it reads our reply in order for as long as the reply is.
THEOREM SlaveIsServed == Spec => []SlaveSide
<1>1. IInv => SlaveSide
  BY DEF IInv
<1> QED BY <1>1, Invariance, PTL
=============================================================================
