----------------------------- MODULE EepromProofs ----------------------------
(***************************************************************************)
(* For sectors, bytes and counters of any size, the EEPROM library keeps   *)
(* what was written through power failures (IsDurable), if the power does  *)
(* not fail while a full _counter_flag is erased by the constructor.       *)
(***************************************************************************)
EXTENDS EepromBlock, TLAPS, WellFoundedInduction

-----------------------------------------------------------------------------
(* Arithmetic of bytes and bits. *)

\* Division with remainder.
LEMMA Division ==
  ASSUME NEW r \in Nat \ {0}, NEW n \in Nat
  PROVE  /\ n = (n \div r) * r + (n % r)
         /\ n % r \in 0 .. r - 1 /\ n \div r \in Nat
OBVIOUS

\* A multiple of an even number is even.
LEMMA EvenMultiple ==
  ASSUME NEW b \in Nat \ {0}, b % 2 = 0, NEW m \in Nat
  PROVE  (m * b) % 2 = 0
<1>1. PICK h \in Nat : b = 2 * h
  OBVIOUS
<1>2. m * b = 2 * (m * h) /\ m * h \in Nat
  BY <1>1
<1>3. \A k \in Nat : (2 * k) % 2 = 0
  OBVIOUS
<1> QED
  BY <1>2, <1>3

\* The quotient is the only one that fits.
LEMMA Quotient ==
  ASSUME NEW b \in Nat \ {0}, NEW n \in Nat, NEW q \in Nat
  PROVE  q = n \div b <=> q * b <= n /\ n < (q + 1) * b
OBVIOUS

\* Counter and flag have an even number of bits.
LEMMA BitsEven ==
  /\ CounterBits \in Nat \ {0} /\ CounterBits % 2 = 0
  /\ FlagBits \in Nat \ {0} /\ FlagBits % 2 = 0
<1>1. CounterBits \in Nat \ {0} /\ FlagBits \in Nat \ {0}
  BY BlockAssumption DEF CounterBits, FlagBits
<1> QED
  BY <1>1, EvenMultiple, BlockAssumption DEF CounterBits, FlagBits

\* The byte of the first bit that is not cleared.
LEMMA BytePosition ==
  ASSUME NEW m \in Nat \ {0}, NEW n \in 0 .. m * BYTESIZE
  PROVE  /\ n \div BYTESIZE \in 0 .. m
         /\ n \div BYTESIZE = m <=> n = m * BYTESIZE
         /\ 0 \div BYTESIZE = 0
<1> DEFINE q == n \div BYTESIZE
<1>1. /\ BYTESIZE \in Nat \ {0} /\ n \in Nat /\ m * BYTESIZE \in Nat /\ q \in Nat
      /\ q * BYTESIZE <= n /\ n < (q + 1) * BYTESIZE
  BY BlockAssumption, Quotient, Division
<1>2. 0 \div BYTESIZE = 0
  BY <1>1, Quotient
<1>3. q <= m
  <2>1. q > m => q * BYTESIZE > m * BYTESIZE
    BY <1>1
  <2> QED
    BY <1>1, <2>1
<1>4. q = m => n = m * BYTESIZE
  BY <1>1
<1>5. n = m * BYTESIZE => q = m
  BY <1>1, Quotient
<1> QED
  BY <1>1, <1>2, <1>3, <1>4, <1>5

\* Clearing the leading one of the byte at that position.
LEMMA Clearing ==
  ASSUME NEW m \in Nat \ {0}, NEW n \in 0 .. m * BYTESIZE - 1,
         NEW p, p = n \div BYTESIZE
  PROVE  /\ ClearLeadingOne(n, p) = n + 1
         /\ (IF IsLastBit(n, p) THEN p + 1 ELSE p) = (n + 1) \div BYTESIZE
<1>1. /\ BYTESIZE \in Nat \ {0} /\ n \in Nat /\ p \in Nat /\ n + 1 \in Nat
      /\ p * BYTESIZE <= n /\ n < (p + 1) * BYTESIZE
  BY BlockAssumption, Quotient, Division
<1>2. ClearLeadingOne(n, p) = n + 1
  BY <1>1 DEF ClearLeadingOne
<1>3. CASE n = (p + 1) * BYTESIZE - 1
  <2>1. (p + 1) * BYTESIZE <= n + 1 /\ n + 1 < (p + 1 + 1) * BYTESIZE
    BY <1>1, <1>3
  <2>2. p + 1 = (n + 1) \div BYTESIZE
    <3>1. p + 1 \in Nat
      BY <1>1
    <3> QED BY <1>1, <2>1, <3>1, Quotient, Zenon
  <2> QED
    BY <1>2, <1>3, <2>2 DEF IsLastBit
<1>4. CASE n # (p + 1) * BYTESIZE - 1
  <2>1. p * BYTESIZE <= n + 1 /\ n + 1 < (p + 1) * BYTESIZE
    BY <1>1, <1>4
  <2>2. p = (n + 1) \div BYTESIZE
    BY <1>1, <2>1, Quotient
  <2> QED
    BY <1>2, <1>4, <2>2 DEF IsLastBit
<1> QED
  BY <1>3, <1>4

\* The two bits of a pair are in one byte.
LEMMA PairInByte ==
  ASSUME NEW n \in Nat, n % 2 = 0
  PROVE  (n + 1) \div BYTESIZE = n \div BYTESIZE
<1> DEFINE p == n \div BYTESIZE
<1>1. /\ BYTESIZE \in Nat \ {0} /\ BYTESIZE % 2 = 0 /\ p \in Nat
      /\ p * BYTESIZE <= n /\ n < (p + 1) * BYTESIZE
  BY BlockAssumption, Quotient, Division
<1>2. ((p + 1) * BYTESIZE) % 2 = 0 /\ (p + 1) * BYTESIZE \in Nat
  <2>1. p + 1 \in Nat
    BY <1>1
  <2>2. BYTESIZE \in Nat \ {0} /\ BYTESIZE % 2 = 0
    BY <1>1
  <2> HIDE DEF p
  <2>3. ((p + 1) * BYTESIZE) % 2 = 0
    BY <2>1, <2>2, EvenMultiple
  <2>4. (p + 1) * BYTESIZE \in Nat
    BY <2>1, <2>2
  <2> QED
    BY <2>3, <2>4
<1>3. n + 1 < (p + 1) * BYTESIZE
  <2> DEFINE e == (p + 1) * BYTESIZE
  <2>1. e \in Nat /\ e % 2 = 0 /\ n < e
    BY <1>1, <1>2
  <2> HIDE DEF e
  <2>2. n + 1 < e
    BY <2>1
  <2> QED
    BY <2>2 DEF e
<1>4. n + 1 \in Nat /\ p * BYTESIZE <= n + 1
  BY <1>1
<1> HIDE DEF p
<1>5. p = (n + 1) \div BYTESIZE
  BY <1>1, <1>3, <1>4, Quotient
<1> QED
  BY <1>5 DEF p

\* A record names its address, and is told from a blank one by its first byte.
LEMMA Records ==
  ASSUME NEW r \in [addr : Address, val : Byte]
  PROVE  /\ RecordOf(r) \in Record
         /\ IsValid(RecordOf(r)) /\ AddressOf(RecordOf(r)) = r.addr
         /\ RecordOf(r).hi # Erased /\ RecordOf(r).val = r.val
<1> DEFINE a == r.addr
           h == a \div Radix
<1>1. /\ a \in Nat /\ a < Radix * (Radix \div 2) /\ Radix \in Nat \ {0, 1}
      /\ r.val \in Byte /\ Radix \div 2 \in Nat /\ Radix \div 2 <= Radix - 1
  BY BlockAssumption DEF Address
<1>2. a = h * Radix + (a % Radix) /\ a % Radix \in 0 .. Radix - 1 /\ h \in Nat
  BY <1>1, Division
<1>3. h < Radix \div 2
  <2> DEFINE m == Radix \div 2
  <2> HIDE DEF h, a, m
  <2>1. h * Radix <= a /\ a < m * Radix /\ m \in Nat
    BY <1>1, <1>2 DEF m
  <2>2. h >= m => h * Radix >= m * Radix
    BY <1>1, <1>2, <2>1
  <2> QED
    BY <1>1, <1>2, <2>1, <2>2 DEF m
<1>4. RecordOf(r) = [hi |-> h, lo |-> a % Radix, val |-> r.val]
  BY DEF RecordOf
<1>8. RecordOf(r).hi = h /\ RecordOf(r).lo = a % Radix /\ RecordOf(r).val = r.val
  BY <1>4
<1> HIDE DEF h, a
<1>5. RecordOf(r) \in Record
  BY <1>1, <1>2, <1>3, <1>4 DEF Record, Byte
<1>6. IsValid(RecordOf(r)) /\ RecordOf(r).hi # Erased
  BY <1>1, <1>3, <1>8 DEF IsValid, Erased
<1>7. AddressOf(RecordOf(r)) = a
  <2>1. AddressOf(RecordOf(r)) = h * Radix + (a % Radix)
    BY <1>8 DEF AddressOf
  <2> QED
    BY <1>2, <2>1
<1> QED
  BY <1>8, <1>5, <1>6, <1>7 DEF a

\* The types of what an erase leaves.
LEMMA ErasedByte ==
  /\ Erased \in Byte /\ Blank \in Record /\ ~(Erased < Radix \div 2)
  /\ ErasedSector \in Sector /\ TornSector \in Sector
  /\ TornSector.torn /\ TornSector.slots = ErasedSector.slots
<1>1. Erased \in Byte /\ ~(Erased < Radix \div 2)
  BY BlockAssumption DEF Erased, Byte
<1> QED
  BY <1>1 DEF Blank, Record, ErasedSector, TornSector, Sector

-----------------------------------------------------------------------------
(* What a sector holds. *)

\* A set of naturals that is not empty has a least element.
LEMMA Least ==
  ASSUME NEW T \in SUBSET Nat, T # {}
  PROVE  \E x \in T : \A y \in T : x <= y
<1> DEFINE R == OpToRel(<, Nat)
<1>1. \E x \in T : \A y \in T : ~(<<y, x>> \in R)
  BY NatLessThanWellFounded, WFMin
<1>2. \A x, y \in Nat : y < x => <<y, x>> \in R
  BY DEF OpToRel
<1> HIDE DEF R
<1>3. \A x, y \in Nat : ~(y < x) => x <= y
  OBVIOUS
<1> QED
  BY <1>1, <1>2, <1>3

\* A bounded set that is not empty has a greatest element.
LEMMA Greatest ==
  ASSUME NEW n \in Nat, NEW T \in SUBSET (1 .. n), T # {}
  PROVE  \E x \in T : \A y \in T : y <= x
<1> DEFINE U == {m \in Nat : n - m \in T}
<1>1. U \in SUBSET Nat
  OBVIOUS
<1>2. \A y \in T : n - y \in Nat /\ n - (n - y) = y
  OBVIOUS
<1>3. \A y \in T : n - y \in U
  BY <1>2
<1>4. U # {}
  BY <1>3
<1>5. PICK u \in U : \A w \in U : u <= w
  <2> HIDE DEF U
  <2> QED
    BY <1>1, <1>4, Least
<1>6. n - u \in T /\ u \in Nat
  BY <1>5
<1>7. \A y \in T : u <= n - y
  <2> HIDE DEF U
  <2> QED
    BY <1>3, <1>5
<1>8. \A y \in T : y \in Nat
  OBVIOUS
<1>9. \A y \in T : y <= n - u
  <2> HIDE DEF U
  <2> QED
    BY <1>6, <1>7, <1>8
<1> QED
  BY <1>6, <1>9

\* The records end where the blank ones begin.
LEMMA EndOf ==
  ASSUME NEW s, NEW e \in 1 .. Slots + 1, Log(s, e)
  PROVE  End(s) = e
<1> DEFINE P(k) == /\ k = Slots + 1 \/ s.slots[k] = Blank
                   /\ \A j \in 1 .. k - 1 : s.slots[j] # Blank
<1>1. \A k \in Slot : s.slots[k] = Blank <=> k >= e
  BY DEF Log
<1>2. P(e)
  BY <1>1, BlockAssumption DEF Slot
<1>3. ASSUME NEW k \in 1 .. Slots + 1, P(k) PROVE k = e
  BY <1>1, <1>3, BlockAssumption DEF Slot
<1>4. End(s) = CHOOSE k \in 1 .. Slots + 1 : P(k)
  BY DEF End
<1> HIDE DEF P
<1> QED
  BY <1>2, <1>3, <1>4

\* The valid records in front of record p.
Before(s, p, a) ==
  {k \in 1 .. p - 1 : IsValid(s.slots[k]) /\ AddressOf(s.slots[k]) = a}

\* While record p is being programmed its valid bit is not cleared, whatever
\* its other bytes are: it does not count.
LEMMA Unfinished ==
  ASSUME NEW s, NEW p \in 1 .. Slots + 1, NEW a,
         \A k \in Slot \ {p} : s.slots[k] = Blank <=> k > p,
         p \in Slot => s.slots[p].hi = Erased
  PROVE  /\ IsLog(s)
         /\ RecordsOf(s, a) = Before(s, p, a)
<1>1. CASE p = Slots + 1 \/ s.slots[p] = Blank
  <2>1. Log(s, p)
    BY <1>1, BlockAssumption DEF Log, Slot
  <2> QED
    BY <2>1, EndOf DEF IsLog, RecordsOf, Before
<1>2. CASE p # Slots + 1 /\ s.slots[p] # Blank
  <2>1. p \in Slot /\ p + 1 \in 1 .. Slots + 1
    BY <1>2, BlockAssumption DEF Slot
  <2>2. Log(s, p + 1)
    BY <1>2, <2>1, BlockAssumption DEF Log, Slot
  <2>3. ~IsValid(s.slots[p])
    BY <2>1, ErasedByte DEF IsValid
  <2>4. 1 .. (p + 1) - 1 = 1 .. p - 1 \cup {p}
    BY <2>1 DEF Slot
  <2>5. End(s) = p + 1
    BY <2>1, <2>2, EndOf
  <2> QED
    BY <2>1, <2>2, <2>3, <2>4, <2>5 DEF IsLog, RecordsOf, Before
<1> QED
  BY <1>1, <1>2

\* The latest record of an address is one of those before the position.
LEMMA LatestOf ==
  ASSUME NEW s, NEW p \in 1 .. Slots + 1, NEW a,
         RecordsOf(s, a) = Before(s, p, a), RecordsOf(s, a) # {}
  PROVE  Latest(s, a) \in Before(s, p, a)
<1>1. RecordsOf(s, a) \in SUBSET (1 .. Slots)
  BY BlockAssumption DEF Before
<1>2. \E x \in RecordsOf(s, a) : \A y \in RecordsOf(s, a) : y <= x
  BY <1>1, Greatest, BlockAssumption
<1> QED
  BY <1>2 DEF Latest

\* So programming all but the first byte of a record changes nothing.
LEMMA SameData ==
  ASSUME NEW s, NEW t, NEW p \in 1 .. Slots + 1,
         t.image = s.image,
         \A k \in Slot \ {p} : t.slots[k] = s.slots[k],
         \A k \in Slot \ {p} : s.slots[k] = Blank <=> k > p,
         p \in Slot => s.slots[p].hi = Erased /\ t.slots[p].hi = Erased
  PROVE  RealData(t) = RealData(s) /\ IsLog(t)
<1>0. \A k \in 1 .. p - 1 : t.slots[k] = s.slots[k]
  BY BlockAssumption DEF Slot
<1>1. \A a : RecordsOf(s, a) = Before(s, p, a)
  BY Unfinished
<1>2. \A a : RecordsOf(t, a) = Before(t, p, a) /\ IsLog(t)
  BY Unfinished
<1>3. \A a : Before(t, p, a) = Before(s, p, a)
  BY <1>0 DEF Before
<1>4. ASSUME NEW a \in Address, RecordsOf(s, a) # {}
      PROVE  t.slots[Latest(t, a)].val = s.slots[Latest(s, a)].val
  <2>1. RecordsOf(t, a) = RecordsOf(s, a)
    BY <1>1, <1>2, <1>3
  <2>2. Latest(t, a) = Latest(s, a)
    BY <2>1 DEF Latest
  <2>3. Latest(s, a) \in 1 .. p - 1
    BY <1>1, <1>4, LatestOf DEF Before
  <2> QED
    BY <1>0, <2>2, <2>3
<1> QED
  BY <1>1, <1>2, <1>3, <1>4 DEF RealData

\* Programming the first byte adds the record to the data.
LEMMA NewRecord ==
  ASSUME NEW s, NEW t, NEW p \in Slot, NEW r \in [addr : Address, val : Byte],
         t.image = s.image,
         \A k \in Slot \ {p} : t.slots[k] = s.slots[k],
         \A k \in Slot \ {p} : s.slots[k] = Blank <=> k > p,
         s.slots[p].hi = Erased, t.slots[p] = RecordOf(r)
  PROVE  /\ RealData(t) = [RealData(s) EXCEPT ![r.addr] = r.val]
         /\ Log(t, p + 1)
<1>0. /\ p \in 1 .. Slots + 1 /\ p + 1 \in 1 .. Slots + 1
      /\ \A k \in 1 .. p - 1 : t.slots[k] = s.slots[k]
  BY BlockAssumption DEF Slot
<1>1. \A a : RecordsOf(s, a) = Before(s, p, a)
  BY <1>0, Unfinished
<1>2. Log(t, p + 1)
  <2>1. t.slots[p] # Blank
    BY Records DEF Blank
  <2> QED
    BY <2>1, BlockAssumption DEF Log, Slot
<1>3. End(t) = p + 1 /\ 1 .. (p + 1) - 1 = 1 .. p - 1 \cup {p}
  BY <1>0, <1>2, EndOf DEF Slot
<1>4. \A a : RecordsOf(t, a) = IF a = r.addr THEN RecordsOf(s, a) \cup {p}
                               ELSE RecordsOf(s, a)
  BY <1>0, <1>1, <1>3, Records DEF RecordsOf, Before
<1>5. Latest(t, r.addr) = p
  <2>1. p \in RecordsOf(t, r.addr) /\ \A j \in RecordsOf(t, r.addr) : j \in 1 .. p
    BY <1>1, <1>4 DEF Before, Slot
  <2>2. RecordsOf(t, r.addr) \in SUBSET (1 .. p)
    BY <2>1
  <2>3. \A x \in RecordsOf(t, r.addr) :
          (\A j \in RecordsOf(t, r.addr) : j <= x) => x = p
    BY <2>1 DEF Slot
  <2>4. \A j \in RecordsOf(t, r.addr) : j <= p
    BY <2>1 DEF Slot
  <2> QED
    BY <2>1, <2>3, <2>4 DEF Latest
<1>6. ASSUME NEW a \in Address, a # r.addr, RecordsOf(s, a) # {}
      PROVE  t.slots[Latest(t, a)].val = s.slots[Latest(s, a)].val
  <2>1. Latest(t, a) = Latest(s, a)
    BY <1>4, <1>6 DEF Latest
  <2>2. Latest(s, a) \in 1 .. p - 1
    BY <1>0, <1>1, <1>6, LatestOf DEF Before
  <2> QED
    BY <1>0, <2>1, <2>2
<1>7. \A a \in Address :
        RealData(t)[a] = IF a = r.addr THEN r.val ELSE RealData(s)[a]
  BY <1>4, <1>5, <1>6, Records DEF RealData
<1> QED
  BY <1>2, <1>7 DEF RealData

\* A sector without records holds its image.
LEMMA FreshData ==
  ASSUME NEW s, Log(s, 1)
  PROVE  RealData(s) = [a \in Address |-> s.image[a]] /\ IsLog(s)
<1>1. End(s) = 1 /\ 1 \in 1 .. Slots + 1
  BY EndOf, BlockAssumption
<1>2. \A a : RecordsOf(s, a) = {}
  BY <1>1 DEF RecordsOf
<1> QED
  BY <1>1, <1>2 DEF RealData, IsLog

\* What is read from a log is a byte for each address.
LEMMA RealDataType ==
  ASSUME NEW s \in Sector, IsLog(s)
  PROVE  RealData(s) \in [Address -> Byte]
<1>1. PICK e \in 1 .. Slots + 1 : Log(s, e)
  BY DEF IsLog
<1>2. \A a : RecordsOf(s, a) = Before(s, e, a)
  BY <1>1, EndOf DEF RecordsOf, Before
<1>3. ASSUME NEW a \in Address, RecordsOf(s, a) # {}
      PROVE  s.slots[Latest(s, a)].val \in Byte
  <2>1. Latest(s, a) \in 1 .. e - 1
    BY <1>2, <1>3, LatestOf DEF Before
  <2>2. Latest(s, a) \in Slot
    BY <2>1, BlockAssumption DEF Slot
  <2> QED
    BY <2>2 DEF Sector, Record
<1> QED
  BY <1>3 DEF RealData, Sector

-----------------------------------------------------------------------------
(* The steps of Block.cpp. *)

\* While the library runs, the sector it uses is the one a constructor would.
LEMMA ActiveRunning ==
  /\ TypeOK /\ PositionsOK /\ at \in Running => ActiveAtBoot = redundancy
  /\ TypeOK' /\ PositionsOK' /\ at' \in Running => ActiveAtBoot' = redundancy'
<1>1. CounterBits % 2 = 0 /\ 0 % 2 = 0
  BY BitsEven
<1> QED
  BY <1>1 DEF PositionsOK, ActiveAtBoot

\* And so is what the block stores.
LEMMA StoredType ==
  ASSUME IInv
  PROVE  Stored \in [Address -> Byte] /\ Stored # None
<1>1. ActiveAtBoot \in {0, 1}
  BY BitsEven DEF IInv, TypeOK, ActiveAtBoot, CounterValue, Broken
<1>2. Stored \in [Address -> Byte]
  BY <1>1, RealDataType DEF IInv, TypeOK, DataOK, Stored
<1> QED
  BY <1>2, NoneAssumption

\* Steps of the constructor do not touch the data sectors.
LEMMA Boots ==
  ASSUME IInv, TypeOK', CounterOK', at \in Booting, at' \in Booting,
         request' = request, data' = data, ActiveAtBoot' = ActiveAtBoot
  PROVE  IInv' /\ UNCHANGED Durable!vars
<1>1. request = None
  BY NoneAssumption DEF IInv, RequestOK, Booting, Copying, Recording
<1>2. DataOK' /\ Stored' = Stored
  BY DEF IInv, DataOK, Stored
<1>3. at' \notin Running /\ at' \notin Copying \cup Recording /\ at' # "Idle"
      /\ at # "Idle"
  BY DEF Booting, Copying, Recording, Running
<1>4. PositionsOK' /\ RequestOK' /\ BufferOK'
  BY <1>1, <1>3 DEF PositionsOK, RequestOK, BufferOK
<1>5. CopyOK' /\ RecordOK'
  BY <1>3 DEF CopyOK, RecordOK, Copying
<1> QED
  BY <1>2, <1>3, <1>4, <1>5 DEF IInv, Durable!vars

\* The positions are right when no bit, or every bit, is cleared.
LEMMA Positions ==
  /\ \A n \in 0 .. CounterBits :
       /\ n \div BYTESIZE \in 0 .. CounterBytes
       /\ n \div BYTESIZE = CounterBytes <=> n = CounterBits
  /\ \A n \in 0 .. FlagBits :
       /\ n \div BYTESIZE \in 0 .. FlagBytes
       /\ n \div BYTESIZE = FlagBytes <=> n = FlagBits
  /\ 0 \div BYTESIZE = 0
BY BytePosition, BlockAssumption DEF CounterBits, FlagBits

\* The types of what a constructor computes from the flag.
LEMMA BootTypes ==
  /\ 0 \in FlagValue /\ 0 \in CounterValue
  /\ \A f \in FlagValue : f \in Int
  /\ \A f \in FlagValue \ {Broken} :
       /\ f \in 0 .. FlagBytes * BYTESIZE
       /\ f \div BYTESIZE \in 0 .. FlagBytes
       /\ f % 2 = 1 => f + 1 \in 1 .. FlagBits
  /\ 0 \in 0 .. FlagBytes /\ 0 \in 0 .. CounterBytes
<1>1. \A f \in FlagValue \ {Broken} : f \in 0 .. FlagBytes * BYTESIZE
  BY DEF FlagValue, FlagBits
<1>2. \A f \in FlagValue \ {Broken} : f % 2 = 1 => f + 1 \in 1 .. FlagBits
  BY BitsEven DEF FlagValue
<1>3. \A f \in FlagValue \ {Broken} : f \div BYTESIZE \in 0 .. FlagBytes
  BY <1>1, BytePosition, BlockAssumption
<1> QED
  BY <1>1, <1>2, <1>3, BitsEven, BlockAssumption
     DEF FlagValue, CounterValue, Broken

\* The constructor begins.
LEMMA PowerOnStep ==
  ASSUME IInv, PowerOn
  PROVE  IInv' /\ UNCHANGED Durable!vars
<1>1. TypeOK' /\ CounterOK' /\ ActiveAtBoot' = ActiveAtBoot
  BY DEF IInv, PowerOn, TypeOK, CounterOK, CounterInReset, ActiveAtBoot, flash,
         ram, Booting
<1> QED
  BY <1>1, Boots DEF PowerOn, flash, Booting

\* CheckCounterFlag in the constructor keeps the invariant and does not show.
LEMMA CheckFlagStep ==
  ASSUME IInv, CheckCounterFlag
  PROVE  IInv' /\ UNCHANGED Durable!vars
<1>1. CounterBits % 2 = 0 /\ FlagBits % 2 = 0 /\ FlagBits # 0 /\ FlagBits # Broken
      /\ 0 % 2 = 0 /\ 0 # Broken
  BY BitsEven DEF Broken
<1>2. TypeOK' /\ CounterOK'
  BY <1>1, BootTypes DEF IInv, CheckCounterFlag, TypeOK, CounterOK,
     CounterInReset, FlagIsBad, ram, Booting
<1>3. ActiveAtBoot' = ActiveAtBoot
  BY <1>1 DEF IInv, CheckCounterFlag, CounterOK, CounterInReset, FlagIsBad,
     ActiveAtBoot
<1> QED
  BY <1>2, <1>3, Boots DEF CheckCounterFlag, Booting

\* CheckCounterResetState likewise.
LEMMA CheckResetStep ==
  ASSUME IInv, CheckCounterResetState
  PROVE  IInv' /\ UNCHANGED Durable!vars
<1>1. flag \in FlagValue \ {Broken} /\ at = "CheckReset"
  BY DEF IInv, TypeOK, CounterOK, CheckCounterResetState
<1>2. TypeOK' /\ CounterOK'
  BY <1>1, BootTypes DEF IInv, CheckCounterResetState, TypeOK, CounterOK,
     CounterInReset, Booting
<1>3. ActiveAtBoot' = ActiveAtBoot
  BY <1>1 DEF CheckCounterResetState, CounterInReset, ActiveAtBoot
<1> QED
  BY <1>1, <1>2, <1>3, Boots DEF CheckCounterResetState, Booting

\* And the constructor's second half of a pair of the flag.
LEMMA FinishFlagStep ==
  ASSUME IInv, FinishFlag
  PROVE  IInv' /\ UNCHANGED Durable!vars
<1>1. /\ flag \in FlagValue \ {Broken} /\ flag % 2 = 1 /\ counter = 0
      /\ at = "FinishFlag"
  BY DEF IInv, TypeOK, CounterOK, FinishFlag, CounterInReset
<1>2. flag' = flag + 1 /\ flag + 1 \in FlagValue \ {Broken} /\ (flag + 1) % 2 = 0
  BY <1>1, BootTypes DEF FinishFlag, FlagValue, Broken
<1>3. TypeOK'
  BY <1>1, <1>2, BootTypes DEF IInv, FinishFlag, TypeOK, Booting
<1>4. CounterOK'
  BY <1>1, <1>2 DEF FinishFlag, CounterOK, CounterInReset, Broken
<1>5. ActiveAtBoot' = ActiveAtBoot
  BY <1>1, <1>2 DEF FinishFlag, CounterInReset, ActiveAtBoot
<1> QED
  BY <1>1, <1>3, <1>4, <1>5, Boots DEF FinishFlag, Booting

\* And the erase of a full flag.
LEMMA WrapFlagStep ==
  ASSUME IInv, WrapFlag
  PROVE  IInv' /\ UNCHANGED Durable!vars
<1>1. at = "WrapFlag" /\ flag = FlagBits /\ counter = 0 /\ flag' = 0
      /\ counter' = counter
  BY DEF IInv, CounterOK, WrapFlag
<1>2. FlagBits % 2 = 0 /\ 0 % 2 = 0 /\ 0 # Broken /\ FlagBits # Broken
  BY BitsEven DEF Broken
<1>3. TypeOK'
  BY <1>1, <1>2, BootTypes DEF IInv, WrapFlag, TypeOK, Booting
<1>5. CounterOK'
  BY <1>1, <1>2, Positions DEF WrapFlag, CounterOK, CounterInReset
<1>4. ActiveAtBoot' = ActiveAtBoot
  BY <1>1, <1>2 DEF CounterInReset, ActiveAtBoot
<1> QED
  BY <1>1, <1>3, <1>4, <1>5, Boots DEF WrapFlag, Booting

\* Loading the image makes the array ready.
LEMMA LoadStep ==
  ASSUME IInv, Load
  PROVE  IInv' /\ Durable!Ready
<1>1. /\ at = "Load" /\ at' = "Idle" /\ request = None /\ request' = None
      /\ data' = data /\ counter' = counter /\ flag' = flag
      /\ flagPosition' = flagPosition
  BY NoneAssumption DEF IInv, RequestOK, Load, flash, Copying, Recording
<1>2. /\ flag \in FlagValue \ {Broken} /\ ~CounterInReset
      /\ counter \in CounterValue \ {Broken}
  BY <1>1 DEF IInv, TypeOK, CounterOK
<1>3. /\ redundancy' = counter % 2 /\ counterPosition' = counter \div BYTESIZE
      /\ redundancy' = ActiveAtBoot
  BY <1>2 DEF Load, ActiveAtBoot
<1>4. buffer' = Stored /\ position' = End(data[redundancy'])
  BY <1>3 DEF IInv, DataOK, Stored, Load
<1>5. PICK e \in 1 .. Slots + 1 : Log(data[redundancy'], e)
  BY <1>2, <1>3 DEF IInv, DataOK, IsLog, CounterValue
<1>6. position' = e
  BY <1>4, <1>5, EndOf
<1>7. /\ counter \in 0 .. CounterBytes * BYTESIZE
      /\ counter \div BYTESIZE \in 0 .. CounterBytes
  <2>1. counter \in 0 .. CounterBytes * BYTESIZE
    BY <1>2 DEF CounterValue, CounterBits
  <2> QED
    BY <2>1, BytePosition, BlockAssumption
<1>8. Stored' = Stored /\ ActiveAtBoot' = ActiveAtBoot
  BY <1>1 DEF Stored, ActiveAtBoot, CounterInReset
<1>9. TypeOK'
  BY <1>1, <1>2, <1>3, <1>4, <1>5, <1>6, <1>7, StoredType
     DEF IInv, TypeOK, Load, Running, CounterValue
<1>10. flagPosition = flag \div BYTESIZE
  BY <1>1 DEF IInv, CounterOK
<1>11. CounterOK' /\ DataOK' /\ RequestOK'
  BY <1>1, <1>2, <1>8 DEF IInv, CounterOK, DataOK, CounterInReset, RequestOK,
     Copying, Recording
<1>12. PositionsOK'
  BY <1>1, <1>2, <1>3, <1>10 DEF PositionsOK, CounterInReset, Running
<1>13. BufferOK' /\ CopyOK' /\ RecordOK'
  BY <1>1, <1>4, <1>5, <1>6, <1>8 DEF BufferOK, CopyOK, RecordOK, Copying,
     Recording
<1>14. Durable!Ready
  BY <1>1, <1>4, <1>8 DEF Durable!Ready
<1> QED
  BY <1>9, <1>11, <1>12, <1>13, <1>14 DEF IInv

-----------------------------------------------------------------------------
\* A step of write leaves the bits of the counters as they are.
LEMMA SameCounters ==
  ASSUME IInv, at \in Running, at' \in Running,
         counter' = counter, flag' = flag, redundancy' = redundancy,
         counterPosition' = counterPosition, flagPosition' = flagPosition,
         {at, at'} \cap {"ResetCounter", "UnmarkFlag"} = {},
         at' \in {"ResetFlag", "MarkFlag", "ResetCounter"} => counter = CounterBits,
         at' = "ResetFlag" => flag = FlagBits,
         at' = "MarkFlag" => flag < FlagBits,
         at' = "Count" => counter < CounterBits
  PROVE  /\ CounterOK' /\ PositionsOK' /\ ActiveAtBoot' = ActiveAtBoot
         /\ ActiveAtBoot = redundancy
<1>1. ActiveAtBoot' = ActiveAtBoot
  BY DEF ActiveAtBoot, CounterInReset
<1>2. ActiveAtBoot = redundancy
  BY ActiveRunning DEF IInv
<1>3. PositionsOK'
  BY DEF IInv, PositionsOK, CounterInReset
<1>4. CounterOK'
  BY DEF IInv, CounterOK, PositionsOK, CounterInReset, Running, Copying,
     Recording
<1> QED
  BY <1>1, <1>2, <1>3, <1>4

\* The beginning of a write is the array's.
LEMMA WriteStep ==
  ASSUME IInv, NEW a \in Address, NEW v \in Byte, Write(a, v)
  PROVE  IInv' /\ Durable!Write(a, v)
<1>1. /\ at = "Idle" /\ request' = [addr |-> a, val |-> v]
      /\ at' = IF position > Slots THEN "EraseSpare" ELSE "ProgramValue"
      /\ UNCHANGED <<flash, ram>>
  BY DEF Write
<1>2. TypeOK'
  BY <1>1 DEF IInv, TypeOK, flash, ram, Running, Copying, Recording
<1>3. CounterOK' /\ PositionsOK' /\ ActiveAtBoot' = ActiveAtBoot
  BY <1>1, SameCounters DEF flash, ram, Running, Copying, Recording
<1>4. Stored' = Stored /\ DataOK'
  BY <1>1, <1>3 DEF IInv, Stored, DataOK, flash
<1>5. request' # None /\ RequestOK'
  BY <1>1, NoneAssumption DEF RequestOK, Copying, Recording
<1>6. buffer = Stored /\ BufferOK'
  BY <1>1, <1>4 DEF IInv, BufferOK, Running, ram
<1>7. CopyOK'
  BY <1>1 DEF CopyOK, Copying
<1>8. RecordOK'
  <2>1. Log(data[redundancy], position) /\ position \in 1 .. Slots + 1
    BY <1>1 DEF IInv, RecordOK, TypeOK
  <2>2. CASE position > Slots
    <3>1. position = Slots + 1
      BY <2>1, <2>2, BlockAssumption
    <3> QED
      BY <1>1, <2>1, <2>2, <3>1
         DEF RecordOK, Log, Copying, Recording, flash, ram
  <2>3. CASE ~(position > Slots)
    <3>1. position \in Slot
      BY <2>1, <2>3, BlockAssumption DEF Slot
    <3>2. Current = Blank /\ Current' = Current /\ Blank.hi = Erased
      BY <1>1, <2>1, <3>1 DEF Log, Current, Blank, flash, ram, Slot
    <3>3. \A k \in Slot \ {position} :
            data[redundancy].slots[k] = Blank <=> k > position
      BY <2>1, <3>1 DEF Log, Slot
    <3> QED
      BY <1>1, <2>3, <3>1, <3>2, <3>3
         DEF RecordOK, Copying, Recording, flash, ram
  <2> QED
    BY <2>2, <2>3
<1>9. Durable!Write(a, v)
  BY <1>1, <1>4, <1>6, StoredType DEF Durable!Write
<1> QED
  BY <1>2, <1>3, <1>4, <1>5, <1>6, <1>7, <1>8, <1>9 DEF IInv

\* Erasing the spare sector does not show.
LEMMA EraseStep ==
  ASSUME IInv, EraseSpare
  PROVE  IInv' /\ UNCHANGED Durable!vars
<1>1. /\ at = "EraseSpare" /\ at' = "Copy" /\ copied' = 0
      /\ data' = [data EXCEPT ![Spare] = ErasedSector]
      /\ counter' = counter /\ flag' = flag /\ request' = request
      /\ buffer' = buffer /\ position' = position /\ redundancy' = redundancy
      /\ counterPosition' = counterPosition /\ flagPosition' = flagPosition
  BY DEF EraseSpare
<1>2. /\ redundancy \in {0, 1} /\ Spare \in {0, 1} /\ Spare # redundancy
      /\ Spare' = Spare
  BY <1>1 DEF IInv, TypeOK, Spare
<1>3. data' \in [{0, 1} -> Sector] /\ data'[redundancy] = data[redundancy]
      /\ data'[Spare] = ErasedSector
  BY <1>1, <1>2, ErasedByte DEF IInv, TypeOK
<1>4. TypeOK'
  BY <1>1, <1>3, BlockAssumption DEF IInv, TypeOK, Running, Copying
<1>5. /\ CounterOK' /\ PositionsOK' /\ ActiveAtBoot' = ActiveAtBoot
      /\ ActiveAtBoot = redundancy
  BY <1>1, SameCounters DEF Running, Copying, Recording
<1>6. Log(ErasedSector, 1) /\ Fresh(ErasedSector) /\ IsLog(ErasedSector)
  BY BlockAssumption DEF Log, IsLog, Fresh, ErasedSector, Slot
<1>7. Stored' = Stored /\ DataOK'
  BY <1>2, <1>3, <1>5, <1>6 DEF IInv, Stored, DataOK
<1>8. RequestOK' /\ BufferOK'
  BY <1>1, <1>7 DEF IInv, RequestOK, BufferOK, Running, Copying
<1>9. CopyOK'
  BY <1>1, <1>2, <1>3, <1>6, BlockAssumption
     DEF CopyOK, ErasedSector, Address, Copying
<1>10. RecordOK'
  BY <1>1, <1>3 DEF IInv, RecordOK, Copying, Recording
<1>11. UNCHANGED Durable!vars
  BY <1>1, <1>7 DEF Durable!vars
<1> QED
  BY <1>4, <1>5, <1>7, <1>8, <1>9, <1>10, <1>11 DEF IInv

\* Nor does copying a byte to it.
LEMMA CopyStep ==
  ASSUME IInv, CopyByte
  PROVE  IInv' /\ UNCHANGED Durable!vars
<1>1. /\ at = "Copy" /\ copied' = copied + 1
      /\ at' = IF copied' = DataSize THEN AfterCopy ELSE at
      /\ data' = [data EXCEPT ![Spare].image[copied] = buffer[copied]]
      /\ counter' = counter /\ flag' = flag /\ request' = request
      /\ buffer' = buffer /\ position' = position /\ redundancy' = redundancy
      /\ counterPosition' = counterPosition /\ flagPosition' = flagPosition
  BY DEF CopyByte
<1>2. /\ redundancy \in {0, 1} /\ Spare \in {0, 1} /\ Spare # redundancy
      /\ Spare' = Spare
  BY <1>1 DEF IInv, TypeOK, Spare
<1> DEFINE s == data[Spare]
           t == data'[Spare]
<1>3. /\ Fresh(s) /\ copied \in Address /\ s \in Sector
      /\ \A a \in Address : s.image[a] = IF a < copied THEN buffer[a] ELSE Erased
  <2>1. copied \in 0 .. DataSize /\ copied < DataSize
    BY <1>1, <1>2 DEF IInv, TypeOK, CopyOK
  <2>2. copied \in Address
    BY <2>1, BlockAssumption DEF Address
  <2> QED
    BY <1>1, <1>2, <2>2 DEF IInv, TypeOK, CopyOK
<1>4. buffer = Stored /\ buffer \in [Address -> Byte]
  BY <1>1, StoredType DEF IInv, BufferOK, Running, Copying
<1>5. /\ data'[redundancy] = data[redundancy]
      /\ t = [s EXCEPT !.image = [s.image EXCEPT ![copied] = buffer[copied]]]
      /\ data' = [data EXCEPT ![Spare] = t]
  BY <1>1, <1>2 DEF IInv, TypeOK
<1>6. /\ t.torn = s.torn /\ t.slots = s.slots
      /\ t.image = [s.image EXCEPT ![copied] = buffer[copied]]
      /\ t \in Sector
  <2> HIDE DEF s, t
  <2> QED
    BY <1>3, <1>4, <1>5 DEF Sector
<1>7. data' \in [{0, 1} -> Sector]
  BY <1>2, <1>5, <1>6 DEF IInv, TypeOK
<1>8. \A a \in Address : t.image[a] = IF a < copied' THEN buffer[a] ELSE Erased
  <2> HIDE DEF s, t
  <2>1. s.image \in [Address -> Byte]
    BY <1>3 DEF Sector
  <2>2. \A a \in Address : a < copied' <=> a < copied \/ a = copied
    BY <1>1, <1>3, BlockAssumption DEF Address
  <2>3. \A a \in Address :
          t.image[a] = IF a = copied THEN buffer[a] ELSE s.image[a]
    BY <1>6, <2>1
  <2> QED
    BY <1>3, <2>2, <2>3
<1>9. Fresh(t) /\ IsLog(t)
  <2> HIDE DEF s, t
  <2> QED
    BY <1>3, <1>6, BlockAssumption DEF Fresh, Log, IsLog
<1>10. copied' \in 0 .. DataSize
  BY <1>1, <1>3, BlockAssumption DEF Address
<1>11. /\ counter \in 0 .. CounterBits /\ flag \in 0 .. FlagBits
       /\ counterPosition = counter \div BYTESIZE
       /\ flagPosition = flag \div BYTESIZE
  BY <1>1 DEF IInv, TypeOK, PositionsOK, CounterValue, FlagValue, Running,
     Copying
<1>12. /\ at' \in {"Copy", "Count", "MarkFlag", "ResetFlag"}
       /\ at' \in {"ResetFlag", "MarkFlag"} => counter = CounterBits
       /\ at' = "ResetFlag" => flag = FlagBits
       /\ at' = "MarkFlag" => flag < FlagBits
       /\ at' = "Count" => counter < CounterBits
       /\ at' # "Copy" => copied' = DataSize
       /\ at' = "Copy" => copied' < DataSize
  <2>1. counter < CounterBits <=> counterPosition < CounterBytes
    BY <1>11, Positions, BitsEven, BlockAssumption
  <2>2. flag < FlagBits <=> flagPosition < FlagBytes
    BY <1>11, Positions, BitsEven, BlockAssumption
  <2>3. AfterCopy \in {"Count", "MarkFlag", "ResetFlag"}
    BY DEF AfterCopy
  <2> QED
    BY <1>1, <1>10, <1>11, <2>1, <2>2, <2>3, BitsEven, BlockAssumption
       DEF AfterCopy
<1>13. TypeOK'
  BY <1>1, <1>7, <1>10, <1>12 DEF IInv, TypeOK, Running, Copying
<1>14. /\ CounterOK' /\ PositionsOK' /\ ActiveAtBoot' = ActiveAtBoot
       /\ ActiveAtBoot = redundancy
  BY <1>1, <1>12, SameCounters DEF Running, Copying, Recording
<1>15. Stored' = Stored /\ DataOK'
  <2> HIDE DEF s
  <2> QED
    BY <1>2, <1>5, <1>9, <1>14 DEF IInv, Stored, DataOK
<1>16. RequestOK' /\ BufferOK'
  BY <1>1, <1>4, <1>12, <1>15
     DEF IInv, RequestOK, BufferOK, Copying
<1>17. CopyOK'
  <2>1. copied' = DataSize => t.image = buffer
    <3> HIDE DEF s, t
    <3>1. t.image \in [Address -> Byte]
      BY <1>6 DEF Sector
    <3>2. copied' = DataSize => \A a \in Address : t.image[a] = buffer[a]
      BY <1>8, BlockAssumption DEF Address
    <3> QED
      BY <1>4, <3>1, <3>2
  <2> HIDE DEF s
  <2> QED
    BY <1>1, <1>2, <1>8, <1>9, <1>12, <2>1 DEF CopyOK, Copying
<1>18. RecordOK'
  BY <1>1, <1>5, <1>12 DEF IInv, RecordOK, Copying, Recording
<1>19. UNCHANGED Durable!vars
  BY <1>1, <1>12, <1>15 DEF Durable!vars
<1> QED
  BY <1>13, <1>14, <1>15, <1>16, <1>17, <1>18, <1>19 DEF IInv

-----------------------------------------------------------------------------
\* WriteCounter: the steps that change the counters and no data.
LEMMA Counts ==
  ASSUME IInv, TypeOK', CounterOK', PositionsOK',
         at \in Copying, at' \in Copying \ {"EraseSpare", "Copy"},
         at \notin {"EraseSpare", "Copy"},
         data' = data, request' = request, buffer' = buffer,
         position' = position, redundancy' = redundancy
  PROVE  IInv' /\ UNCHANGED Durable!vars
<1>1. ActiveAtBoot' = ActiveAtBoot /\ ActiveAtBoot = redundancy
  BY ActiveRunning DEF IInv, Running
<1>2. Stored' = Stored /\ DataOK'
  BY <1>1 DEF IInv, Stored, DataOK
<1>3. RequestOK' /\ BufferOK' /\ CopyOK' /\ RecordOK'
  BY <1>2 DEF IInv, RequestOK, BufferOK, CopyOK, RecordOK, Copying, Recording,
     Running, Spare
<1>4. UNCHANGED Durable!vars
  BY <1>2 DEF Durable!vars, Copying
<1> QED
  BY <1>2, <1>3, <1>4 DEF IInv

\* Nor does erasing the flag before a counter that wraps.
LEMMA ResetFlagStep ==
  ASSUME IInv, ResetFlag
  PROVE  IInv' /\ UNCHANGED Durable!vars
<1>1. /\ at = "ResetFlag" /\ at' = "MarkFlag" /\ flag' = 0 /\ flagPosition' = 0
      /\ counter' = counter /\ counterPosition' = counterPosition
      /\ data' = data /\ request' = request /\ buffer' = buffer
      /\ position' = position /\ redundancy' = redundancy /\ copied' = copied
  BY DEF ResetFlag
<1>2. 0 % 2 = 0 /\ 0 # Broken /\ 0 < FlagBits
  BY BitsEven DEF Broken
<1>3. TypeOK'
  BY <1>1, BootTypes DEF IInv, TypeOK, Running, Copying
<1>4. PositionsOK'
  BY <1>1, <1>2, Positions DEF IInv, PositionsOK, CounterInReset, Running,
     Copying
<1>5. CounterOK'
  BY <1>1, <1>2, <1>4 DEF CounterOK, PositionsOK, CounterInReset, Running,
     Copying
<1> QED
  BY <1>1, <1>3, <1>4, <1>5, Counts DEF Copying

\* Nor does the first bit of a pair of the flag.
LEMMA MarkFlagStep ==
  ASSUME IInv, MarkFlag
  PROVE  IInv' /\ UNCHANGED Durable!vars
<1>1. /\ at = "MarkFlag" /\ at' = "ResetCounter"
      /\ flag' = ClearLeadingOne(flag, flagPosition)
      /\ flagPosition' = flagPosition
      /\ counter' = counter /\ counterPosition' = counterPosition
      /\ data' = data /\ request' = request /\ buffer' = buffer
      /\ position' = position /\ redundancy' = redundancy /\ copied' = copied
  BY DEF MarkFlag, ram
<1>2. /\ flag \in 0 .. FlagBytes * BYTESIZE - 1 /\ flag % 2 = 0
      /\ flagPosition = flag \div BYTESIZE
  BY <1>1, BitsEven DEF IInv, TypeOK, PositionsOK, CounterInReset, FlagValue,
     FlagBits, Running, Copying
<1>3. flag' = flag + 1 /\ (flag + 1) % 2 = 1
      /\ flagPosition = (flag + 1) \div BYTESIZE
  <2>1. flag' = flag + 1
    BY <1>1, <1>2, Clearing, BlockAssumption
  <2>2. flag \in Nat
    BY <1>2
  <2> QED
    BY <1>2, <2>1, <2>2, PairInByte
<1>4. flag' \in FlagValue \ {Broken}
  BY <1>2, <1>3, BitsEven DEF FlagValue, FlagBits, Broken
<1>5. TypeOK'
  BY <1>1, <1>4 DEF IInv, TypeOK, Running, Copying
<1>6. PositionsOK'
  BY <1>1, <1>3, <1>4 DEF IInv, PositionsOK, CounterInReset, Running,
     Copying
<1>7. CounterOK'
  BY <1>1, <1>4, <1>6 DEF CounterOK, PositionsOK, Running, Copying
<1> QED
  BY <1>1, <1>5, <1>6, <1>7, Counts DEF Copying

\* Nor does erasing the counter.
LEMMA ResetCounterStep ==
  ASSUME IInv, ResetCounter
  PROVE  IInv' /\ UNCHANGED Durable!vars
<1>1. /\ at = "ResetCounter" /\ at' = "UnmarkFlag"
      /\ counter' = 0 /\ counterPosition' = 0
      /\ flag' = flag /\ flagPosition' = flagPosition
      /\ data' = data /\ request' = request /\ buffer' = buffer
      /\ position' = position /\ redundancy' = redundancy /\ copied' = copied
  BY DEF ResetCounter
<1>2. 0 % 2 = 0 /\ 0 # Broken /\ CounterBits % 2 = 0
  BY BitsEven DEF Broken
<1>3. TypeOK'
  BY <1>1, BootTypes DEF IInv, TypeOK, Running, Copying
<1>4. PositionsOK'
  BY <1>1, <1>2, Positions DEF IInv, PositionsOK, CounterInReset, Running,
     Copying
<1>5. CounterOK'
  BY <1>1, <1>2, <1>4 DEF CounterOK, PositionsOK, Running, Copying
<1> QED
  BY <1>1, <1>3, <1>4, <1>5, Counts DEF Copying

\* Nor does the second bit of the pair.
LEMMA UnmarkFlagStep ==
  ASSUME IInv, UnmarkFlag
  PROVE  IInv' /\ UNCHANGED Durable!vars
<1>1. /\ at = "UnmarkFlag" /\ at' = "Count"
      /\ flag' = ClearLeadingOne(flag, flagPosition)
      /\ flagPosition' = IF IsLastBit(flag, flagPosition) THEN flagPosition + 1
                         ELSE flagPosition
      /\ counter' = counter /\ counterPosition' = counterPosition
      /\ data' = data /\ request' = request /\ buffer' = buffer
      /\ position' = position /\ redundancy' = redundancy /\ copied' = copied
  BY DEF UnmarkFlag
<1>2. /\ flag \in 0 .. FlagBytes * BYTESIZE - 1 /\ flag % 2 = 1
      /\ flagPosition = flag \div BYTESIZE
      /\ counter = 0
  <2>1. /\ flag \in 0 .. FlagBits /\ flag % 2 = 1
        /\ flagPosition = flag \div BYTESIZE /\ counter = 0
    BY <1>1 DEF IInv, TypeOK, PositionsOK, CounterInReset, FlagValue, Running,
       Copying
  <2> QED
    BY <2>1, BitsEven DEF FlagBits
<1>3. /\ flag' = flag + 1 /\ (flag + 1) % 2 = 0
      /\ flagPosition' = (flag + 1) \div BYTESIZE
  <2>1. flag' = flag + 1 /\ flagPosition' = (flag + 1) \div BYTESIZE
    BY <1>1, <1>2, Clearing, BlockAssumption
  <2> QED
    BY <1>2, <2>1
<1>4. flag' \in FlagValue \ {Broken} /\ flag' \in 0 .. FlagBits
  BY <1>2, <1>3, BitsEven DEF FlagValue, FlagBits, Broken
<1>5. TypeOK'
  BY <1>1, <1>3, <1>4, Positions DEF IInv, TypeOK, Running, Copying
<1>6. PositionsOK'
  BY <1>1, <1>2, <1>3, <1>4, BitsEven DEF IInv, PositionsOK, CounterInReset,
     Running, Copying
<1>7. CounterOK'
  BY <1>1, <1>4, <1>6 DEF CounterOK, PositionsOK, Running, Copying
<1> QED
  BY <1>1, <1>5, <1>6, <1>7, Counts DEF Copying

\* The step at which the sectors change roles: the copy holds the same array.
LEMMA CountStep ==
  ASSUME IInv, Count
  PROVE  IInv' /\ UNCHANGED Durable!vars
<1>1. /\ at = "Count" /\ at' = "ProgramValue"
      /\ counter' = ClearLeadingOne(counter, counterPosition)
      /\ counterPosition' = IF IsLastBit(counter, counterPosition)
                            THEN counterPosition + 1 ELSE counterPosition
      /\ redundancy' = Spare /\ position' = 1
      /\ data' = data /\ flag' = flag /\ request' = request
      /\ buffer' = buffer /\ flagPosition' = flagPosition /\ copied' = copied
  BY DEF Count
<1>2. /\ counter \in 0 .. CounterBytes * BYTESIZE - 1
      /\ counterPosition = counter \div BYTESIZE
      /\ redundancy = counter % 2 /\ redundancy \in {0, 1}
      /\ flag # Broken /\ flag % 2 # 1 /\ flagPosition = flag \div BYTESIZE
  BY <1>1, BitsEven DEF IInv, TypeOK, PositionsOK, CounterInReset, CounterValue,
     CounterBits, Running, Copying
<1>3. /\ counter' = counter + 1
      /\ counterPosition' = (counter + 1) \div BYTESIZE
  BY <1>1, <1>2, Clearing, BlockAssumption
<1>4. redundancy' = counter' % 2 /\ redundancy' \in {0, 1}
  BY <1>1, <1>2, <1>3 DEF Spare
<1>5. counter' \in CounterValue \ {Broken} /\ counter' \in 0 .. CounterBits
  BY <1>2, <1>3, BitsEven DEF CounterValue, CounterBits, Broken
<1>6. TypeOK'
  BY <1>1, <1>3, <1>4, <1>5, Positions, BlockAssumption
     DEF IInv, TypeOK, Running, Recording
<1>7. PositionsOK'
  BY <1>1, <1>2, <1>3, <1>4, <1>5 DEF PositionsOK, CounterInReset
<1>8. CounterOK'
  BY <1>1, <1>2, <1>5 DEF CounterOK, CounterInReset
<1>9. ActiveAtBoot' = Spare
  BY <1>1, <1>6, <1>7, ActiveRunning DEF Running, Recording
<1>10. Fresh(data[Spare]) /\ data[Spare].image = buffer
  BY <1>1 DEF IInv, CopyOK, Copying
<1>11. buffer = Stored /\ buffer \in [Address -> Byte]
  BY <1>1, StoredType DEF IInv, BufferOK, Running, Copying
<1>12. Stored' = Stored
  <2>1. Stored' = RealData(data[Spare])
    BY <1>1, <1>9 DEF Stored
  <2> QED
    BY <1>10, <1>11, <2>1, FreshData DEF Fresh
<1>13. DataOK' /\ RequestOK' /\ BufferOK' /\ CopyOK'
  BY <1>1, <1>9, <1>10, <1>11, <1>12
     DEF IInv, DataOK, Fresh, RequestOK, BufferOK, CopyOK, Copying, Recording
<1>14. RecordOK'
  <2>1. 1 \in Slot /\ \A k \in Slot : k >= 1
    BY BlockAssumption DEF Slot
  <2>2. \A k \in Slot : data'[redundancy'].slots[k] = Blank
    BY <1>1, <1>10, <2>1 DEF Fresh, Log
  <2>3. Current' = Blank /\ Blank.hi = Erased
    BY <1>1, <2>1, <2>2 DEF Current, Blank
  <2>4. \A k \in Slot \ {1} : k > 1
    BY DEF Slot
  <2> QED
    BY <1>1, <2>1, <2>2, <2>3, <2>4 DEF RecordOK, Copying, Recording
<1>15. UNCHANGED Durable!vars
  BY <1>1, <1>12 DEF Durable!vars
<1> QED
  BY <1>6, <1>7, <1>8, <1>12, <1>13, <1>14, <1>15 DEF IInv

-----------------------------------------------------------------------------
\* Programming a byte of the current record.
LEMMA Programming ==
  ASSUME IInv, at \in Recording, NEW r \in Record, Program(r)
  PROVE  /\ data' \in [{0, 1} -> Sector]
         /\ redundancy \in {0, 1} /\ position \in Slot /\ Current \in Record
         /\ data'[Spare] = data[Spare] /\ Spare \in {0, 1} \ {redundancy}
         /\ data'[redundancy].slots[position] = r
         /\ data'[redundancy].image = data[redundancy].image
         /\ data'[redundancy].torn = data[redundancy].torn
         /\ \A k \in Slot \ {position} :
              data'[redundancy].slots[k] = data[redundancy].slots[k]
         /\ \A k \in Slot \ {position} :
              data[redundancy].slots[k] = Blank <=> k > position
         /\ Current.hi = Erased /\ position \in 1 .. Slots + 1
<1> DEFINE s == data[redundancy]
           t == [s EXCEPT !.slots = [s.slots EXCEPT ![position] = r]]
<1>1. /\ redundancy \in {0, 1} /\ position \in Slot
      /\ Spare \in {0, 1} \ {redundancy}
      /\ \A k \in Slot \ {position} : s.slots[k] = Blank <=> k > position
      /\ Current.hi = Erased /\ position \in 1 .. Slots + 1
  BY DEF IInv, TypeOK, RecordOK, Spare
<1>2. s \in Sector /\ data \in [{0, 1} -> Sector]
  BY <1>1 DEF IInv, TypeOK
<1>3. data' = [data EXCEPT ![redundancy] = t]
  BY <1>1, <1>2 DEF Program
<1> HIDE DEF s
<1>4. s.slots \in [Slot -> Record]
  BY <1>2 DEF Sector
<1>5. /\ t.slots = [s.slots EXCEPT ![position] = r]
      /\ t.image = s.image /\ t.torn = s.torn /\ t \in Sector
  BY <1>1, <1>2, <1>4 DEF Sector
<1>6. Current \in Record
  BY <1>1, <1>4 DEF Current, s
<1>7. t.slots[position] = r /\ \A k \in Slot \ {position} : t.slots[k] = s.slots[k]
  BY <1>1, <1>4, <1>5
<1> HIDE DEF t
<1>8. data'[redundancy] = t /\ data'[Spare] = data[Spare]
      /\ data' \in [{0, 1} -> Sector]
  BY <1>1, <1>2, <1>3, <1>5
<1> QED
  BY <1>1, <1>5, <1>6, <1>7, <1>8 DEF s

\* As long as it is not its first byte, nothing is stored yet.
LEMMA ProgrammingUnseen ==
  ASSUME IInv, at \in Recording, NEW r \in Record, Program(r), r.hi = Erased,
         ActiveAtBoot' = ActiveAtBoot
  PROVE  Stored' = Stored /\ DataOK'
<1>1. ActiveAtBoot = redundancy
  BY ActiveRunning DEF IInv, Running
<1>2. /\ RealData(data'[redundancy]) = RealData(data[redundancy])
      /\ IsLog(data'[redundancy])
  BY Programming, SameData DEF Current
<1>3. /\ data'[redundancy].torn = data[redundancy].torn
      /\ data'[Spare] = data[Spare] /\ Spare \in {0, 1} \ {redundancy}
      /\ redundancy \in {0, 1}
  BY Programming
<1>4. DataOK'
  BY <1>1, <1>2, <1>3 DEF IInv, DataOK
<1> QED
  BY <1>1, <1>2, <1>4 DEF Stored

\* The types of the write in progress.
LEMMA RequestType ==
  ASSUME IInv, at \in Recording \cup Copying
  PROVE  /\ request \in [addr : Address, val : Byte] /\ request # None
         /\ request.addr \in Address /\ request.val \in Byte
         /\ RecordOf(request) \in Record
BY Records DEF IInv, TypeOK, RequestOK

\* The value byte of a record does not show.
LEMMA ProgramValueStep ==
  ASSUME IInv, ProgramValue
  PROVE  IInv' /\ UNCHANGED Durable!vars
<1> DEFINE r == [Current EXCEPT !.val = request.val]
<1>1. /\ at = "ProgramValue" /\ at' = "ProgramLow" /\ Program(r)
      /\ buffer' = [buffer EXCEPT ![request.addr] = request.val]
      /\ counter' = counter /\ flag' = flag /\ request' = request
      /\ position' = position /\ redundancy' = redundancy
      /\ counterPosition' = counterPosition /\ flagPosition' = flagPosition
      /\ copied' = copied
  BY DEF ProgramValue
<1>2. Current = Blank
  BY <1>1 DEF IInv, RecordOK, Recording
<1>3. /\ r \in Record /\ r.hi = Erased /\ r.lo = Erased /\ r.val = request.val
  BY <1>1, <1>2, RequestType, ErasedByte DEF Recording, Blank, Record
<1> HIDE DEF r
<1>4. /\ CounterOK' /\ PositionsOK' /\ ActiveAtBoot' = ActiveAtBoot
  BY <1>1, SameCounters DEF Running, Recording
<1>5. Stored' = Stored /\ DataOK'
  BY <1>1, <1>3, <1>4, ProgrammingUnseen DEF Recording
<1>6. buffer = Stored /\ buffer \in [Address -> Byte]
  BY <1>1, StoredType DEF IInv, BufferOK, Running, Recording
<1>7. TypeOK'
  <2>1. data' \in [{0, 1} -> Sector]
    BY <1>1, <1>3, Programming DEF Recording
  <2>2. buffer' \in [Address -> Byte]
    BY <1>1, <1>6, RequestType DEF Recording
  <2> QED
    BY <1>1, <2>1, <2>2 DEF IInv, TypeOK, Running, Recording
<1>8. RequestOK' /\ BufferOK' /\ CopyOK'
  BY <1>1, <1>5, <1>6
     DEF IInv, RequestOK, BufferOK, CopyOK, Copying, Recording
<1>9. RecordOK'
  <2>1. Current' = r
    BY <1>1, <1>3, Programming DEF Current, Recording
  <2>2. /\ position \in Slot
        /\ \A k \in Slot \ {position} :
             data'[redundancy].slots[k] = Blank <=> k > position
    BY <1>1, <1>3, Programming DEF Recording
  <2> QED
    BY <1>1, <1>3, <2>1, <2>2 DEF RecordOK, Copying, Recording
<1>10. UNCHANGED Durable!vars
  BY <1>1, <1>5 DEF Durable!vars
<1> QED
  BY <1>4, <1>5, <1>7, <1>8, <1>9, <1>10 DEF IInv

\* Nor does the low byte of its address.
LEMMA ProgramLowStep ==
  ASSUME IInv, ProgramLow
  PROVE  IInv' /\ UNCHANGED Durable!vars
<1> DEFINE r == [Current EXCEPT !.lo = RecordOf(request).lo]
<1>1. /\ at = "ProgramLow" /\ at' = "ProgramHigh" /\ Program(r)
      /\ buffer' = buffer
      /\ counter' = counter /\ flag' = flag /\ request' = request
      /\ position' = position /\ redundancy' = redundancy
      /\ counterPosition' = counterPosition /\ flagPosition' = flagPosition
      /\ copied' = copied
  BY DEF ProgramLow, ram
<1>2. Current.hi = Erased /\ Current.val = request.val
  BY <1>1 DEF IInv, RecordOK, Recording
<1>3. Current \in Record
  BY <1>1 DEF IInv, TypeOK, RecordOK, Sector, Current, Recording
<1>4. /\ r \in Record /\ r.hi = Erased /\ r.lo = RecordOf(request).lo
      /\ r.val = request.val
  BY <1>1, <1>2, <1>3, RequestType DEF Recording, Record
<1> HIDE DEF r
<1>5. /\ CounterOK' /\ PositionsOK' /\ ActiveAtBoot' = ActiveAtBoot
  BY <1>1, SameCounters DEF Running, Recording
<1>6. Stored' = Stored /\ DataOK'
  BY <1>1, <1>4, <1>5, ProgrammingUnseen DEF Recording
<1>7. TypeOK'
  <2>1. data' \in [{0, 1} -> Sector]
    BY <1>1, <1>4, Programming DEF Recording
  <2> QED
    BY <1>1, <2>1 DEF IInv, TypeOK, Running, Recording
<1>8. RequestOK' /\ BufferOK' /\ CopyOK'
  BY <1>1, <1>6
     DEF IInv, RequestOK, BufferOK, CopyOK, Copying, Recording, Running
<1>9. RecordOK'
  <2>1. Current' = r
    BY <1>1, <1>4, Programming DEF Current, Recording
  <2>2. /\ position \in Slot
        /\ \A k \in Slot \ {position} :
             data'[redundancy].slots[k] = Blank <=> k > position
    BY <1>1, <1>4, Programming DEF Recording
  <2> QED
    BY <1>1, <1>4, <2>1, <2>2 DEF RecordOK, Copying, Recording
<1>10. UNCHANGED Durable!vars
  BY <1>1, <1>6 DEF Durable!vars
<1> QED
  BY <1>5, <1>6, <1>7, <1>8, <1>9, <1>10 DEF IInv

\* The valid bit: the write takes effect.
LEMMA ProgramHighStep ==
  ASSUME IInv, ProgramHigh
  PROVE  IInv' /\ Durable!Return
<1> DEFINE r == [Current EXCEPT !.hi = RecordOf(request).hi]
<1>1. /\ at = "ProgramHigh" /\ at' = "Idle" /\ Program(r)
      /\ position' = position + 1 /\ request' = None /\ buffer' = buffer
      /\ counter' = counter /\ flag' = flag /\ redundancy' = redundancy
      /\ counterPosition' = counterPosition /\ flagPosition' = flagPosition
      /\ copied' = copied
  BY DEF ProgramHigh
<1>2. Current.val = request.val /\ Current.lo = RecordOf(request).lo
  BY <1>1 DEF IInv, RecordOK, Recording
<1>3. Current \in Record
  BY <1>1 DEF IInv, TypeOK, RecordOK, Sector, Current, Recording
<1>4. /\ request \in [addr : Address, val : Byte] /\ request # None
      /\ RecordOf(request) \in Record /\ RecordOf(request).val = request.val
  BY <1>1, RequestType, Records DEF Recording
<1>5. r = RecordOf(request)
  BY <1>2, <1>3, <1>4 DEF Record
<1>6. Program(RecordOf(request))
  BY <1>1, <1>5
<1> HIDE DEF r
<1>7. /\ CounterOK' /\ PositionsOK' /\ ActiveAtBoot' = ActiveAtBoot
      /\ ActiveAtBoot = redundancy
  BY <1>1, SameCounters DEF Running, Recording
<1>8. /\ RealData(data'[redundancy])
           = [RealData(data[redundancy]) EXCEPT ![request.addr] = request.val]
      /\ Log(data'[redundancy], position + 1)
  BY <1>1, <1>4, <1>6, Programming, NewRecord DEF Current, Recording
<1>9. Stored' = [Stored EXCEPT ![request.addr] = request.val]
  BY <1>7, <1>8 DEF Stored
<1>10. position + 1 \in 1 .. Slots + 1
  BY <1>1, <1>4, <1>6, Programming, BlockAssumption DEF Recording, Slot
<1>11. DataOK'
  <2>1. /\ data'[redundancy].torn = data[redundancy].torn
        /\ data'[Spare] = data[Spare] /\ Spare \in {0, 1} \ {redundancy}
        /\ redundancy \in {0, 1}
    BY <1>1, <1>4, <1>6, Programming DEF Recording
  <2>2. IsLog(data'[redundancy])
    BY <1>8, <1>10 DEF IsLog
  <2> QED
    BY <1>7, <2>1, <2>2 DEF IInv, DataOK
<1>12. TypeOK'
  <2>1. data' \in [{0, 1} -> Sector]
    BY <1>1, <1>4, <1>6, Programming DEF Recording
  <2> QED
    BY <1>1, <1>10, <2>1 DEF IInv, TypeOK, Running
<1>13. buffer = Stored'
  BY <1>1, <1>9 DEF IInv, BufferOK, Running, Recording
<1>14. RequestOK' /\ BufferOK' /\ CopyOK' /\ RecordOK'
  BY <1>1, <1>8, <1>13
     DEF RequestOK, BufferOK, CopyOK, RecordOK, Copying, Recording
<1>15. Durable!Return
  BY <1>1, <1>4, <1>9, <1>13 DEF Durable!Return
<1> QED
  BY <1>7, <1>11, <1>12, <1>14, <1>15 DEF IInv

-----------------------------------------------------------------------------
(* Power failures. *)

\* A power failure keeps the invariant if counter, flag and the data are such
\* that the next constructor finds what was stored.
LEMMA PowerOff ==
  ASSUME IInv, PowerFail,
         data' \in [{0, 1} -> Sector], counter' \in CounterValue,
         flag' \in FlagValue,
         counter' = Broken => flag' # Broken /\ flag' % 2 = 1,
         flag' = Broken => counter' \in {0, CounterBits},
         DataOK', Stored' = Stored
  PROVE  IInv' /\ Durable!PowerFail
<1>1. /\ at' = "Off" /\ request' = None /\ buffer' = None /\ position' = 1
      /\ redundancy' = 0 /\ counterPosition' = 0 /\ flagPosition' = 0
      /\ copied' = 0
  BY DEF PowerFail
<1>2. TypeOK'
  BY <1>1, BootTypes, BlockAssumption DEF TypeOK, Booting
<1>3. CounterOK'
  BY <1>1 DEF CounterOK, CounterInReset
<1>4. /\ PositionsOK' /\ RequestOK' /\ BufferOK' /\ CopyOK' /\ RecordOK'
  BY <1>1 DEF PositionsOK, RequestOK, BufferOK, CopyOK, RecordOK, Running,
     Copying, Recording
<1>5. Durable!PowerFail
  BY <1>1 DEF Durable!PowerFail
<1> QED
  BY <1>2, <1>3, <1>4, <1>5 DEF IInv

\* The power fails between two operations.
LEMMA NothingCut ==
  ASSUME IInv, PowerFail, UNCHANGED flash
  PROVE  IInv' /\ Durable!PowerFail
<1>1. data' = data /\ counter' = counter /\ flag' = flag
  BY DEF flash
<1>2. ActiveAtBoot' = ActiveAtBoot
  BY <1>1 DEF ActiveAtBoot, CounterInReset
<1>3. DataOK' /\ Stored' = Stored
  BY <1>1, <1>2 DEF IInv, DataOK, Stored
<1> QED
  BY <1>1, <1>3, PowerOff DEF IInv, TypeOK, CounterOK, CounterInReset

\* _counter_flag is erased only while an even number of bits of _counter is
\* cleared: whatever is left of it, the active sector is the first one.
LEMMA FlagCut ==
  ASSUME IInv, PowerFail, ~TornFullFlag,
         \/ at \in {"WrapFlag", "ResetFlag"}
         \/ at = "CheckFlag" /\ (flag = Broken \/ (flag = FlagBits /\ TornFullFlag)),
         flag' \in FlagValue, data' = data, counter' = counter
  PROVE  IInv' /\ Durable!PowerFail
<1>1. counter \in {0, CounterBits}
  <2>1. CASE at = "WrapFlag"
    BY <2>1 DEF IInv, CounterOK
  <2>2. CASE at = "ResetFlag"
    BY <2>2 DEF IInv, PositionsOK, Running, Copying
  <2>3. CASE at = "CheckFlag" /\ flag = Broken
    BY <2>3 DEF IInv, CounterOK
  <2> QED
    BY <2>1, <2>2, <2>3
<1>2. counter % 2 = 0 /\ counter # Broken /\ counter \in CounterValue
  BY <1>1, BitsEven DEF Broken, CounterValue
<1>3. ActiveAtBoot = 0 /\ ActiveAtBoot' = 0
  BY <1>2 DEF ActiveAtBoot
<1>4. DataOK' /\ Stored' = Stored
  BY <1>3 DEF IInv, DataOK, Stored
<1> QED
  BY <1>1, <1>2, <1>4, PowerOff DEF IInv, TypeOK

\* While _counter is erased _counter_flag says so.
LEMMA CounterCut ==
  ASSUME IInv, PowerFail, at = "ResetCounter" \/ (at = "CheckReset" /\ CounterInReset),
         counter' \in CounterValue, data' = data, flag' = flag
  PROVE  IInv' /\ Durable!PowerFail
<1>1. flag # Broken /\ flag % 2 = 1
  <2>1. CASE at = "ResetCounter"
    BY <2>1 DEF IInv, PositionsOK, CounterInReset, Running, Copying
  <2>2. CASE at = "CheckReset" /\ CounterInReset
    BY <2>2 DEF IInv, CounterOK, CounterInReset
  <2> QED
    BY <2>1, <2>2
<1>2. ActiveAtBoot = 0 /\ ActiveAtBoot' = 0
  BY <1>1 DEF ActiveAtBoot, CounterInReset
<1>3. DataOK' /\ Stored' = Stored
  BY <1>2 DEF IInv, DataOK, Stored
<1> QED
  BY <1>1, <1>3, PowerOff DEF IInv, TypeOK

\* The sector that is written anew is not the active one.
LEMMA SpareCut ==
  ASSUME IInv, PowerFail, at \in {"EraseSpare", "Copy"},
         data' = [data EXCEPT ![Spare] = TornSector],
         counter' = counter, flag' = flag
  PROVE  IInv' /\ Durable!PowerFail
<1>1. ActiveAtBoot = redundancy /\ redundancy \in {0, 1}
      /\ Spare \in {0, 1} \ {redundancy}
  BY ActiveRunning DEF IInv, TypeOK, Running, Copying, Spare
<1>2. ActiveAtBoot' = ActiveAtBoot
  BY DEF ActiveAtBoot, CounterInReset
<1>3. /\ data' \in [{0, 1} -> Sector] /\ data'[redundancy] = data[redundancy]
      /\ data'[Spare] = TornSector
  BY <1>1, ErasedByte DEF IInv, TypeOK
<1>4. IsLog(TornSector)
  <2>1. \A k \in Slot : TornSector.slots[k] = Blank /\ k >= 1
    BY DEF TornSector, ErasedSector, Slot
  <2>2. Log(TornSector, 1)
    BY <2>1 DEF Log
  <2>3. 1 \in 1 .. Slots + 1
    BY BlockAssumption
  <2> QED
    BY <2>2, <2>3 DEF IsLog
<1>5. DataOK' /\ Stored' = Stored
  BY <1>1, <1>2, <1>3, <1>4 DEF IInv, DataOK, Stored
<1> QED
  BY <1>3, <1>5, PowerOff DEF IInv, TypeOK, CounterOK, CounterInReset

\* It fails while a byte of a record is programmed that may be left in any state.
LEMMA RecordCut ==
  ASSUME IInv, PowerFail, NEW b \in Byte, counter' = counter, flag' = flag,
         \/ at = "ProgramValue" /\ Program([Current EXCEPT !.val = b])
         \/ at = "ProgramLow" /\ Program([Current EXCEPT !.lo = b])
  PROVE  IInv' /\ Durable!PowerFail
<1>1. at \in Recording /\ ActiveAtBoot' = ActiveAtBoot
  BY DEF ActiveAtBoot, CounterInReset, Recording
<1>2. Current \in Record /\ Current.hi = Erased
  BY <1>1 DEF IInv, TypeOK, RecordOK, Sector, Current
<1>3. PICK r \in Record : Program(r) /\ r.hi = Erased
  <2>1. [Current EXCEPT !.val = b] \in Record /\ [Current EXCEPT !.lo = b] \in Record
        /\ [Current EXCEPT !.val = b].hi = Erased
        /\ [Current EXCEPT !.lo = b].hi = Erased
    BY <1>2 DEF Record
  <2> QED
    BY <2>1
<1>4. Stored' = Stored /\ DataOK' /\ data' \in [{0, 1} -> Sector]
  BY <1>1, <1>3, ProgrammingUnseen, Programming
<1> QED
  BY <1>4, PowerOff DEF IInv, TypeOK, CounterOK, CounterInReset

\* It fails at any place.
LEMMA PowerFailStep ==
  ASSUME IInv, ~TornFullFlag, PowerFail
  PROVE  IInv' /\ Durable!PowerFail
<1>1. CutOff
  BY DEF PowerFail
<1> QED
  BY <1>1, NothingCut, FlagCut, CounterCut, SpareCut, RecordCut DEF CutOff

-----------------------------------------------------------------------------
\* A new block satisfies the invariant, and the array its initial condition.
LEMMA Initially == Init => IInv /\ Durable!Init
<1> SUFFICES ASSUME Init PROVE IInv /\ Durable!Init
  OBVIOUS
<1>1. /\ data = [s \in {0, 1} |-> ErasedSector] /\ counter = 0 /\ flag = 0
      /\ at = "Off" /\ request = None /\ buffer = None /\ position = 1
      /\ redundancy = 0 /\ counterPosition = 0 /\ flagPosition = 0 /\ copied = 0
  BY DEF Init
<1>2. 0 % 2 = 0 /\ 0 # Broken
  BY DEF Broken
<1>3. Log(ErasedSector, 1) /\ ~ErasedSector.torn
  <2>1. \A k \in Slot : ErasedSector.slots[k] = Blank /\ k >= 1
    BY DEF ErasedSector, Slot
  <2> QED
    BY <2>1 DEF Log, ErasedSector
<1>4. /\ RealData(ErasedSector) = [a \in Address |-> Erased]
      /\ IsLog(ErasedSector)
  <2>1. \A a \in Address : ErasedSector.image[a] = Erased
    BY DEF ErasedSector
  <2> QED
    BY <1>3, <2>1, FreshData
<1>5. TypeOK
  BY <1>1, ErasedByte, BootTypes, BlockAssumption DEF TypeOK, Booting
<1>6. ActiveAtBoot \in {0, 1}
  BY <1>1, <1>2 DEF ActiveAtBoot
<1>7. DataOK /\ Stored = [a \in Address |-> Erased]
  BY <1>1, <1>3, <1>4, <1>6 DEF DataOK, Stored
<1>8. CounterOK /\ PositionsOK /\ RequestOK /\ BufferOK /\ CopyOK /\ RecordOK
  BY <1>1, <1>2 DEF CounterOK, CounterInReset, PositionsOK, RequestOK, BufferOK,
     CopyOK, RecordOK, Running, Copying, Recording
<1>9. Durable!Init
  BY <1>1, <1>7 DEF Durable!Init
<1> QED
  BY <1>5, <1>7, <1>8, <1>9 DEF IInv

\* Every step keeps the invariant and is one of the array's, or does not show.
LEMMA Steps ==
  ASSUME ~TornFullFlag
  PROVE  IInv /\ [Next]_vars => IInv' /\ [Durable!Next]_(Durable!vars)
<1> SUFFICES ASSUME IInv, [Next]_vars
             PROVE  IInv' /\ (Durable!Next \/ UNCHANGED Durable!vars)
  OBVIOUS
<1>1. CASE \/ PowerOn \/ CheckCounterFlag \/ CheckCounterResetState
           \/ FinishFlag \/ WrapFlag
  BY <1>1, PowerOnStep, CheckFlagStep, CheckResetStep, FinishFlagStep,
     WrapFlagStep
<1>2. CASE Load
  BY <1>2, LoadStep DEF Durable!Next
<1>3. CASE \E a \in Address, v \in Byte : Write(a, v)
  BY <1>3, WriteStep DEF Durable!Next
<1>4. CASE EraseSpare \/ CopyByte
  BY <1>4, EraseStep, CopyStep
<1>5. CASE ResetFlag \/ MarkFlag \/ ResetCounter \/ UnmarkFlag \/ Count
  BY <1>5, ResetFlagStep, MarkFlagStep, ResetCounterStep, UnmarkFlagStep,
     CountStep
<1>6. CASE ProgramValue \/ ProgramLow
  BY <1>6, ProgramValueStep, ProgramLowStep
<1>7. CASE ProgramHigh
  BY <1>7, ProgramHighStep DEF Durable!Next
<1>8. CASE PowerFail
  BY <1>8, PowerFailStep DEF Durable!Next
<1>9. CASE UNCHANGED vars
  <2>1. /\ data' = data /\ counter' = counter /\ flag' = flag /\ at' = at
        /\ request' = request /\ buffer' = buffer /\ position' = position
        /\ redundancy' = redundancy /\ counterPosition' = counterPosition
        /\ flagPosition' = flagPosition /\ copied' = copied
    BY <1>9 DEF vars, flash, ram
  <2>2. ActiveAtBoot' = ActiveAtBoot /\ Stored' = Stored
    BY <2>1 DEF ActiveAtBoot, CounterInReset, Stored
  <2>3. TypeOK' /\ CounterOK' /\ PositionsOK' /\ DataOK'
    BY <2>1, <2>2
       DEF IInv, TypeOK, CounterOK, CounterInReset, PositionsOK, DataOK
  <2>4. RequestOK' /\ BufferOK' /\ CopyOK' /\ RecordOK'
    BY <2>1, <2>2 DEF IInv, RequestOK, BufferOK, CopyOK, RecordOK, Spare, Current
  <2> QED
    BY <2>1, <2>2, <2>3, <2>4 DEF IInv, Durable!vars
<1> QED
  BY <1>1, <1>2, <1>3, <1>4, <1>5, <1>6, <1>7, <1>8, <1>9 DEF Next

\* The invariant the argument rests on, for sectors of every size.
THEOREM EepromInvariant == ~TornFullFlag => (Spec => []IInv)
<1> SUFFICES ASSUME ~TornFullFlag PROVE Spec => []IInv
  OBVIOUS
<1>1. IInv /\ [Next]_vars => IInv'
  BY Steps
<1> QED
  BY <1>1, Initially, PTL DEF Spec

\* A byte of flash is programmed only while it is erased.
THEOREM EepromErased == ~TornFullFlag => (Spec => []ProgramsErased)
<1>1. IInv => ProgramsErased
  <2> SUFFICES ASSUME IInv PROVE ProgramsErased
    OBVIOUS
  <2>1. at = "Copy" => data[Spare].image[copied] = Erased /\ ~data[Spare].torn
    <3> SUFFICES ASSUME at = "Copy"
                 PROVE  data[Spare].image[copied] = Erased /\ ~data[Spare].torn
      OBVIOUS
    <3>1. copied \in Address
      BY BlockAssumption DEF IInv, TypeOK, CopyOK, Address
    <3> QED
      BY <3>1 DEF IInv, CopyOK, Fresh, Address
  <2>2. /\ at = "ProgramValue" => Current = Blank
        /\ at = "ProgramLow" => Current.lo = Erased /\ Current.hi = Erased
        /\ at = "ProgramHigh" => Current.hi = Erased
    BY DEF IInv, RecordOK, Recording
  <2> QED
    BY <2>1, <2>2 DEF ProgramsErased
<1> QED
  BY <1>1, EepromInvariant, PTL

\* The library is the array of bytes it promises to be: for sectors, bytes and
\* counters of every size, and power failures at every flash operation, no
\* write that has returned is lost and no other byte changes.
THEOREM EepromRefinement == ~TornFullFlag => (Spec => IsDurable)
<1> SUFFICES ASSUME ~TornFullFlag PROVE Spec => IsDurable
  OBVIOUS
<1>1. IInv /\ [Next]_vars => IInv' /\ [Durable!Next]_(Durable!vars)
  BY Steps
<1> QED
  BY <1>1, Initially, PTL DEF Spec, IsDurable, Durable!Spec
=============================================================================
