----------------------------- MODULE EepromBlock -----------------------------
(***************************************************************************)
(* libraries/EEPROM/Block.cpp on the flash of libraries/EEPROM/SPIFlash.cpp *)
(*                                                                         *)
(* A block of 1 KB lives in four flash sectors.  _data and _data_redundancy *)
(* take turns: the active one holds an image of the array and, behind it,  *)
(* the writes made since, one record of three bytes each.  When it is full *)
(* the other one gets a fresh image and becomes active, by clearing one    *)
(* more bit of _counter, whose parity says which sector is active.  When   *)
(* _counter is full it is erased, and a pair of bits of _counter_flag says *)
(* that this is under way (01) or done (00).                               *)
(*                                                                         *)
(* The power may fail between any two flash operations and during each of  *)
(* them.  What is assumed of the flash:                                    *)
(*   - an erase that is cut off leaves anything in the sector;             *)
(*   - programming a byte can only clear bits; if it is cut off, any byte  *)
(*     is left, except that programming the first byte of a record, whose  *)
(*     valid bit is cleared by it, and programming a single bit of         *)
(*     _counter or _counter_flag, happen or do not.                        *)
(* TornFullFlag says whether the erase of a full _counter_flag when the    *)
(* board is turned on may be cut off as well.                              *)
(***************************************************************************)
EXTENDS Integers

CONSTANTS
  DataSize,      (* DATASIZE: bytes in a block                         *)
  Slots,         (* records in a sector: (SECTORSIZE - DATASIZE) / 3   *)
  Radix,         (* values of a byte: 256                              *)
  BYTESIZE,      (* bits of a byte of _counter and _counter_flag       *)
  CounterBytes,  (* bytes of _counter: SECTORSIZE                      *)
  FlagBytes,     (* bytes of _counter_flag: SECTORSIZE                 *)
  TornFullFlag,
  None

ASSUME BlockAssumption ==
  /\ DataSize \in Nat \ {0} /\ Slots \in Nat \ {0}
  /\ Radix \in Nat \ {0, 1} /\ DataSize <= Radix * (Radix \div 2)
  /\ BYTESIZE \in Nat \ {0} /\ BYTESIZE % 2 = 0
  /\ CounterBytes \in Nat \ {0} /\ FlagBytes \in Nat \ {0}
  /\ TornFullFlag \in BOOLEAN

Address == 0 .. DataSize - 1
Slot == 1 .. Slots
Byte == 0 .. Radix - 1
ASSUME NoneAssumption ==
  None \notin [Address -> Byte] \cup [addr : Address, val : Byte]
Erased == Radix - 1               \* 0xff
CounterBits == CounterBytes * BYTESIZE
FlagBits == FlagBytes * BYTESIZE

VARIABLES
  data,             (* data[0] is _data, data[1] is _data_redundancy        *)
  counter,          (* how many leading bits of _counter are cleared        *)
  flag,             (* the same of _counter_flag                            *)
  at,               (* the flash operation that comes next                  *)
  request,          (* the arguments of the write under way                 *)
  buffer,           (* the first DATASIZE bytes of _data_buffer             *)
  position,         (* _data_position, as the number of a record            *)
  redundancy,       (* _redundancy: the number of the active sector         *)
  counterPosition,  (* _counter_position, _counter_flag_position: the first *)
  flagPosition,     (*   byte that is not all zero                          *)
  copied            (* i of the loop that writes the image                  *)

flash == <<data, counter, flag>>
ram == <<buffer, position, redundancy, counterPosition, flagPosition, copied>>
vars == <<flash, at, request, ram>>

\* A sector that is neither leading zeros nor followed by ones only: what an
\* erase that was cut off may leave, besides any number of leading zeros.
Broken == -1
CounterValue == 0 .. CounterBits \cup {Broken}
FlagValue == 0 .. FlagBits \cup {Broken}

\* A record: the valid bit and the high bits of the address, the low byte of
\* the address, the value.
Record == [hi : Byte, lo : Byte, val : Byte]
Blank == [hi |-> Erased, lo |-> Erased, val |-> Erased]
RecordOf(r) ==
  [hi |-> r.addr \div Radix, lo |-> r.addr % Radix, val |-> r.val]
IsValid(r) == r.hi < Radix \div 2
AddressOf(r) == r.hi * Radix + r.lo

\* torn: an erase or a copy was cut off, the contents are anything.
Sector == [torn : BOOLEAN, image : [Address -> Byte], slots : [Slot -> Record]]
ErasedSector == [torn |-> FALSE, image |-> [a \in Address |-> Erased],
                 slots |-> [k \in Slot |-> Blank]]
TornSector == [torn |-> TRUE, image |-> ErasedSector.image,
               slots |-> ErasedSector.slots]

-----------------------------------------------------------------------------
\* CalculateRealData: the records up to the first blank one, later ones over
\* earlier ones; a record whose valid bit is not cleared is abandoned.
End(s) ==
  CHOOSE k \in 1 .. Slots + 1 :
    /\ k = Slots + 1 \/ s.slots[k] = Blank
    /\ \A j \in 1 .. k - 1 : s.slots[j] # Blank
RecordsOf(s, a) ==
  {k \in 1 .. End(s) - 1 : IsValid(s.slots[k]) /\ AddressOf(s.slots[k]) = a}
Latest(s, a) ==
  CHOOSE k \in RecordsOf(s, a) : \A j \in RecordsOf(s, a) : j <= k
RealData(s) ==
  [a \in Address |-> IF RecordsOf(s, a) = {} THEN s.image[a]
                     ELSE s.slots[Latest(s, a)].val]

\* Clearing the leading one of byte p of a sector with the first n bits cleared.
ClearLeadingOne(n, p) ==
  IF n >= (p + 1) * BYTESIZE THEN n
  ELSE IF n >= p * BYTESIZE THEN n + 1 ELSE Broken
\* The last bit of byte p is next to be cleared, so that the position moves on
\* (mutant: it moves on one bit too late).
IsFull(n, p) == n = (p + 1) * BYTESIZE
IsLastBit(n, p) == n = (p + 1) * BYTESIZE - 1

Spare == 1 - redundancy

Init ==
  /\ data = [s \in {0, 1} |-> ErasedSector]
  /\ counter = 0 /\ flag = 0
  /\ at = "Off" /\ request = None
  /\ buffer = None /\ position = 1 /\ redundancy = 0
  /\ counterPosition = 0 /\ flagPosition = 0 /\ copied = 0

-----------------------------------------------------------------------------
(* The constructor. *)

PowerOn ==
  /\ at = "Off" /\ at' = "CheckFlag"
  /\ UNCHANGED <<flash, request, ram>>

\* CheckCounterFlag: _counter_flag is erased if it is full or broken.
FlagIsBad == flag \in {FlagBits, Broken}
CheckCounterFlag ==
  /\ at = "CheckFlag" /\ at' = "CheckReset"
  /\ flag' = IF FlagIsBad THEN 0 ELSE flag
  /\ UNCHANGED <<data, counter, request, ram>>

\* CheckCounterResetState: the first pair of bits that is not 00.  11: nothing
\* to do; 01: _counter was being erased, do it again and then clear the pair.
CounterInReset == flag % 2 = 1

\* Mutant: the pair is cleared and _counter left as it is.
TrustCounter ==
  /\ at = "CheckReset"
  /\ IF CounterInReset THEN at' = "FinishFlag" /\ UNCHANGED flagPosition
     ELSE at' = "Load" /\ flagPosition' = flag \div BYTESIZE
  /\ UNCHANGED <<flash, request, buffer, position, redundancy, counterPosition,
                 copied>>

CheckCounterResetState ==
  /\ at = "CheckReset"
  /\ IF CounterInReset
     THEN at' = "FinishFlag" /\ counter' = 0 /\ UNCHANGED flagPosition
     ELSE /\ at' = "Load" /\ flagPosition' = flag \div BYTESIZE
          /\ UNCHANGED counter
  /\ UNCHANGED <<data, flag, request, buffer, position, redundancy,
                 counterPosition, copied>>

FinishFlag ==
  /\ at = "FinishFlag"
  /\ flag' = flag + 1
  /\ IF flag' = FlagBits THEN at' = "WrapFlag" /\ UNCHANGED flagPosition
     ELSE at' = "Load" /\ flagPosition' = flag' \div BYTESIZE
  /\ UNCHANGED <<data, counter, request, buffer, position, redundancy,
                 counterPosition, copied>>

WrapFlag ==
  /\ at = "WrapFlag" /\ at' = "Load"
  /\ flag' = 0 /\ flagPosition' = 0
  /\ UNCHANGED <<data, counter, request, buffer, position, redundancy,
                 counterPosition, copied>>

\* SetRedundancyFlag, then the active sector is read.
Load ==
  /\ at = "Load" /\ at' = "Idle"
  /\ IF counter = Broken
     THEN redundancy' \in {0, 1} /\ counterPosition' \in 0 .. CounterBytes
     ELSE redundancy' = counter % 2 /\ counterPosition' = counter \div BYTESIZE
  /\ LET s == data[redundancy'] IN
       IF s.torn
       THEN buffer' \in [Address -> Byte] /\ position' \in 1 .. Slots + 1
       ELSE buffer' = RealData(s) /\ position' = End(s)
  /\ UNCHANGED <<flash, request, flagPosition, copied>>

-----------------------------------------------------------------------------
(* write. *)

Write(a, v) ==
  /\ at = "Idle"
  /\ request' = [addr |-> a, val |-> v]
  /\ at' = IF position > Slots THEN "EraseSpare" ELSE "ProgramValue"
  /\ UNCHANGED <<flash, ram>>

\* The active sector is full: the array is copied to the other one.
EraseSpare ==
  /\ at = "EraseSpare" /\ at' = "Copy"
  /\ data' = [data EXCEPT ![Spare] = ErasedSector]
  /\ copied' = 0
  /\ UNCHANGED <<counter, flag, request, buffer, position, redundancy,
                 counterPosition, flagPosition>>

AfterCopy ==
  IF counterPosition < CounterBytes THEN "Count"
  ELSE IF flagPosition < FlagBytes THEN "MarkFlag" ELSE "ResetFlag"
CopyByte ==
  /\ at = "Copy"
  /\ data' = [data EXCEPT ![Spare].image[copied] = buffer[copied]]
  /\ copied' = copied + 1
  /\ at' = IF copied' = DataSize THEN AfterCopy ELSE at
  /\ UNCHANGED <<counter, flag, request, buffer, position, redundancy,
                 counterPosition, flagPosition>>

\* WriteCounter, when _counter is full.
ResetFlag ==
  /\ at = "ResetFlag" /\ at' = "MarkFlag"
  /\ flag' = 0 /\ flagPosition' = 0
  /\ UNCHANGED <<data, counter, request, buffer, position, redundancy,
                 counterPosition, copied>>

MarkFlag ==
  /\ at = "MarkFlag" /\ at' = "ResetCounter"
  /\ flag' = ClearLeadingOne(flag, flagPosition)
  /\ UNCHANGED <<data, counter, request, ram>>

ResetCounter ==
  /\ at = "ResetCounter" /\ at' = "UnmarkFlag"
  /\ counter' = 0 /\ counterPosition' = 0
  /\ UNCHANGED <<data, flag, request, buffer, position, redundancy,
                 flagPosition, copied>>

UnmarkFlag ==
  /\ at = "UnmarkFlag" /\ at' = "Count"
  /\ flag' = ClearLeadingOne(flag, flagPosition)
  /\ flagPosition' = IF IsLastBit(flag, flagPosition) THEN flagPosition + 1
                     ELSE flagPosition
  /\ UNCHANGED <<data, counter, request, buffer, position, redundancy,
                 counterPosition, copied>>

\* WriteCounter: the other sector becomes the active one.
Count ==
  /\ at = "Count" /\ at' = "ProgramValue"
  /\ counter' = ClearLeadingOne(counter, counterPosition)
  /\ counterPosition' = IF IsLastBit(counter, counterPosition)
                        THEN counterPosition + 1 ELSE counterPosition
  /\ redundancy' = Spare
  /\ position' = 1
  /\ UNCHANGED <<data, flag, request, buffer, flagPosition, copied>>

\* The record is programmed from its last byte to its first.
Current == data[redundancy].slots[position]
Program(r) == data' = [data EXCEPT ![redundancy].slots[position] = r]

ProgramValue ==
  /\ at = "ProgramValue" /\ at' = "ProgramLow"
  /\ Program([Current EXCEPT !.val = request.val])
  /\ buffer' = [buffer EXCEPT ![request.addr] = request.val]
  /\ UNCHANGED <<counter, flag, request, position, redundancy,
                 counterPosition, flagPosition, copied>>

ProgramLow ==
  /\ at = "ProgramLow" /\ at' = "ProgramHigh"
  /\ Program([Current EXCEPT !.lo = RecordOf(request).lo])
  /\ UNCHANGED <<counter, flag, request, ram>>

ProgramHigh ==
  /\ at = "ProgramHigh" /\ at' = "Idle"
  /\ Program([Current EXCEPT !.hi = RecordOf(request).hi])
  /\ position' = position + 1
  /\ request' = None
  /\ UNCHANGED <<counter, flag, buffer, redundancy, counterPosition,
                 flagPosition, copied>>

-----------------------------------------------------------------------------
\* What is left of the flash operation that was under way.
CutOff ==
  \/ UNCHANGED flash
  \/ /\ \/ at \in {"WrapFlag", "ResetFlag"}
        \/ at = "CheckFlag" /\ (flag = Broken \/ (flag = FlagBits /\ TornFullFlag))
     /\ flag' \in FlagValue
     /\ UNCHANGED <<data, counter>>
  \/ /\ at = "ResetCounter" \/ (at = "CheckReset" /\ CounterInReset)
     /\ counter' \in CounterValue
     /\ UNCHANGED <<data, flag>>
  \/ /\ at \in {"EraseSpare", "Copy"}
     /\ data' = [data EXCEPT ![Spare] = TornSector]
     /\ UNCHANGED <<counter, flag>>
  \/ /\ \E b \in Byte :
          \/ at = "ProgramValue" /\ Program([Current EXCEPT !.val = b])
          \/ at = "ProgramLow" /\ Program([Current EXCEPT !.lo = b])
     /\ UNCHANGED <<counter, flag>>

PowerFail ==
  /\ at # "Off" /\ at' = "Off"
  /\ CutOff
  /\ request' = None
  /\ buffer' = None /\ position' = 1 /\ redundancy' = 0
  /\ counterPosition' = 0 /\ flagPosition' = 0 /\ copied' = 0

Next ==
  \/ PowerOn \/ CheckCounterFlag \/ CheckCounterResetState \/ FinishFlag
  \/ WrapFlag \/ Load
  \/ \E a \in Address, v \in Byte : Write(a, v)
  \/ EraseSpare \/ CopyByte \/ ResetFlag \/ MarkFlag \/ ResetCounter
  \/ UnmarkFlag \/ Count \/ ProgramValue \/ ProgramLow \/ ProgramHigh
  \/ PowerFail

Spec == Init /\ [][Next]_vars

-----------------------------------------------------------------------------
(* Properties. *)

Booting == {"Off", "CheckFlag", "CheckReset", "FinishFlag", "WrapFlag", "Load"}
Copying == {"EraseSpare", "Copy", "ResetFlag", "MarkFlag", "ResetCounter",
            "UnmarkFlag", "Count"}
Recording == {"ProgramValue", "ProgramLow", "ProgramHigh"}
Running == {"Idle"} \cup Copying \cup Recording

TypeOK ==
  /\ data \in [{0, 1} -> Sector]
  /\ counter \in CounterValue /\ flag \in FlagValue
  /\ at \in Booting \cup Running
  /\ request \in [addr : Address, val : Byte] \cup {None}
  /\ buffer \in [Address -> Byte] \cup {None}
  /\ position \in 1 .. Slots + 1 /\ redundancy \in {0, 1}
  /\ counterPosition \in 0 .. CounterBytes /\ flagPosition \in 0 .. FlagBytes
  /\ copied \in 0 .. DataSize

\* The sector a constructor would find active, and what it would load.
ActiveAtBoot ==
  IF flag # Broken /\ CounterInReset THEN 0 ELSE counter % 2
Stored == RealData(data[ActiveAtBoot])

\* _counter is unreadable only while _counter_flag says that it is erased, and
\* _counter_flag is unreadable only while an even number of bits of _counter is
\* cleared, so that nothing depends on what the other one says.
CounterOK ==
  /\ counter = Broken => flag # Broken /\ CounterInReset
  /\ flag = Broken => counter \in {0, CounterBits}
  /\ at = "CheckReset" => flag \notin {FlagBits, Broken}
  /\ at = "FinishFlag" => flag # Broken /\ CounterInReset /\ counter = 0
  /\ at = "WrapFlag" => flag = FlagBits /\ counter = 0
  /\ at = "Load" => /\ flag # Broken /\ ~CounterInReset
                    /\ flagPosition = flag \div BYTESIZE

\* What the constructor and write know of the two, without reading them.
PositionsOK ==
  at \in Running =>
    /\ counter # Broken /\ flag # Broken
    /\ redundancy = counter % 2
    /\ counterPosition = counter \div BYTESIZE
    /\ flagPosition = flag \div BYTESIZE
    /\ CounterInReset <=> at \in {"ResetCounter", "UnmarkFlag"}
    /\ at \in {"ResetFlag", "MarkFlag", "ResetCounter"} => counter = CounterBits
    /\ at = "ResetFlag" => flag = FlagBits
    /\ at = "MarkFlag" => flag < FlagBits
    /\ at = "UnmarkFlag" => counter = 0
    /\ at = "Count" => counter < CounterBits

\* In either sector the records come first: nothing is behind a blank one.
Log(s, e) == \A k \in Slot : s.slots[k] = Blank <=> k >= e
IsLog(s) == \E e \in 1 .. Slots + 1 : Log(s, e)
Fresh(s) == ~s.torn /\ Log(s, 1)
DataOK ==
  /\ \A s \in {0, 1} : IsLog(data[s])
  /\ ~data[ActiveAtBoot].torn

RequestOK == request # None <=> at \in Copying \cup Recording

BufferOK ==
  at \in Running =>
    buffer = IF at \in {"ProgramLow", "ProgramHigh"}
             THEN [Stored EXCEPT ![request.addr] = request.val] ELSE Stored

\* The copy in the spare sector, and the record that is being programmed.
CopyOK ==
  LET s == data[Spare] IN
  /\ at = "Copy" =>
       /\ Fresh(s) /\ copied < DataSize
       /\ \A a \in Address :
            s.image[a] = IF a < copied THEN buffer[a] ELSE Erased
  /\ at \in Copying \ {"EraseSpare", "Copy"} => Fresh(s) /\ s.image = buffer
RecordOK ==
  LET s == data[redundancy] IN
  /\ at = "Idle" => Log(s, position)
  /\ at \in Copying => Log(s, Slots + 1)
  /\ at \in Recording =>
       /\ position \in Slot
       /\ \A k \in Slot \ {position} : s.slots[k] = Blank <=> k > position
       /\ Current.hi = Erased
       /\ at = "ProgramValue" => Current = Blank
       /\ at = "ProgramLow" => Current.lo = Erased
       /\ at # "ProgramValue" => Current.val = request.val
       /\ at = "ProgramHigh" => Current.lo = RecordOf(request).lo

IInv ==
  /\ TypeOK /\ CounterOK /\ PositionsOK /\ DataOK
  /\ RequestOK /\ BufferOK /\ CopyOK /\ RecordOK

\* Whenever and however often the power fails, the array survives: every step
\* of Block.cpp but the last program of a write leaves what a constructor
\* would load as it is, that one writes the one byte, and read always returns
\* what is stored.
Durable == INSTANCE DurableArray
  WITH stored <- Stored,
       readable <- IF at = "Idle" THEN buffer ELSE None,
       writing <- request
IsDurable == Durable!Spec

\* Flash can only clear bits: a byte is programmed only while it is erased.
ProgramsErased ==
  /\ at = "Copy" => data[Spare].image[copied] = Erased /\ ~data[Spare].torn
  /\ at = "ProgramValue" => Current = Blank
  /\ at = "ProgramLow" => Current.lo = Erased /\ Current.hi = Erased
  /\ at = "ProgramHigh" => Current.hi = Erased
=============================================================================
