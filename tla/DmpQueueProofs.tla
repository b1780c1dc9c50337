--------------------------- MODULE DmpQueueProofs ----------------------------
(***************************************************************************)
(* The queue of queue.cpp is an atomic bounded FIFO, for every capacity,   *)
(* every set of elements and every interleaving of the main program with   *)
(* an interrupt handler.  DmpQueue takes each function of the interrupt    *)
(* lock as one step; the first part here proves the lock itself, module    *)
(* IntNesting, where the flag and the counter change one machine access at *)
(* a time.                                                                 *)
(***************************************************************************)
EXTENDS DmpQueue, IntNesting, SequenceTheorems, TLAPS

\* The main program starts with interrupts on and nothing held.
LEMMA LockInitially ==
  LockInit => LockInv
BY NestingAssumption DEF NestingAssumption, LockInit, LockInv, LockTypeOK, Frame,
       Interruptible, RunningOK, Counted

\* Each step of the lock, of an interrupt entry or exit keeps the invariant.
LEMMA LockSteps ==
  LockInv /\ [LockNext]_lockVars => LockInv'
<1> SUFFICES ASSUME LockInv, [LockNext]_lockVars PROVE LockInv'
  OBVIOUS
<1> USE NestingAssumption DEF NestingAssumption, LockInv, LockTypeOK, Frame,
            RunningOK, Counted, Interruptible
<1>1. CASE DisableTest
  BY <1>1 DEF DisableTest, Goes
<1>2. CASE DisableCli
  <2>1. step[level] = "cli" /\ step' = [step EXCEPT ![level] = "inc"]
    BY <1>2 DEF DisableCli, Goes
  <2>2. test[level] <=> irq_cscnt = 0
    BY <2>1
  <2>3. ~iflag' /\ iflag' \in BOOLEAN
    BY <1>2, <2>1, <2>2 DEF DisableCli
  <2>4. UNCHANGED <<level, irq_cscnt, test, held, owed, entered>>
    BY <1>2 DEF DisableCli
  <2> QED
    BY <2>1, <2>3, <2>4
<1>3. CASE DisableInc
  <2>1. step[level] = "inc" /\ step' = [step EXCEPT ![level] = "run"]
    BY <1>3 DEF DisableInc, Goes
  <2>2. /\ irq_cscnt' = irq_cscnt + 1 /\ held' = [held EXCEPT ![level] = @ + 1]
        /\ UNCHANGED <<level, iflag, test, owed, entered>>
    BY <1>3 DEF DisableInc
  <2>3. irq_cscnt' # 0 /\ ~iflag'
    BY <2>1, <2>2
  <2>4. LockTypeOK'
    <3>1. /\ step' \in [Frame -> {"run", "cli", "inc", "dec", "sti"}]
          /\ irq_cscnt' \in Nat
      BY <2>1, <2>2
    <3>2. held' \in [Frame -> Nat]
      BY <2>2
    <3>3. /\ level' \in Frame /\ iflag' \in BOOLEAN /\ test' \in [Frame -> BOOLEAN]
          /\ entered' \in [Frame -> {0, 1}]
      BY <2>2, <2>3
    <3>4. owed' \in [Frame -> Nat]
      BY <2>2
    <3> QED BY <3>1, <3>2, <3>3, <3>4
  <2>5. irq_cscnt' = held'[level] + entered'[level]
    <3>1. irq_cscnt = held[level] + entered[level]
      BY <2>1
    <3>2. held'[level] = held[level] + 1 /\ entered'[level] = entered[level]
      BY <2>2
    <3>3. level \in Frame /\ held \in [Frame -> Nat] /\ entered \in [Frame -> {0, 1}]
      OBVIOUS
    <3>4. held[level] \in Nat /\ entered[level] \in Nat
      BY ONLY <3>3
    <3> QED
      BY <2>2, <3>1, <3>2, <3>4
  <2>6. level' = level /\ \A f \in 0 .. level - 1 : Interruptible(f)'
    BY <2>1, <2>2
  <2>7. RunningOK'
    BY <2>1, <2>2, <2>3, <2>5
  <2>8. entered'[0] = 0 /\ (owed'[level] > 0 => entered'[level] = 0)
    BY <2>2
  <2> QED
    BY <2>4, <2>6, <2>7, <2>8
<1>4. CASE RestoreTest
  <2>1. /\ step[level] = "run" /\ step' = [step EXCEPT ![level] = "dec"]
        /\ held[level] + owed[level] > 0 /\ irq_cscnt # 0
        /\ UNCHANGED <<level, iflag, irq_cscnt, test, held, owed, entered>>
    BY <1>4 DEF RestoreTest, Goes, Counting
  <2>2. held[level] > 0
    <3>1. irq_cscnt = held[level] + entered[level]
      BY <2>1
    <3> QED
      BY <2>1, <3>1
  <2> QED
    BY <2>1, <2>2
<1>11. CASE RestoreNothing
  <2>1. /\ step[level] = "run" /\ step' = [step EXCEPT ![level] = "run"]
        /\ irq_cscnt = 0 /\ held[level] + owed[level] > 0
        /\ UNCHANGED <<level, iflag, irq_cscnt, test, entered>>
    BY <1>11 DEF RestoreNothing, Goes, Counting
  <2>2. held[level] = 0 /\ owed[level] > 0 /\ entered[level] = 0
    <3>1. irq_cscnt = held[level] + entered[level]
      BY <2>1
    <3>2. level \in Frame /\ held \in [Frame -> Nat] /\ owed \in [Frame -> Nat]
          /\ entered \in [Frame -> {0, 1}] /\ irq_cscnt = 0
          /\ held[level] + owed[level] > 0
      BY <2>1
    <3>3. held[level] \in Nat /\ owed[level] \in Nat /\ entered[level] \in Nat
      BY ONLY <3>2
    <3> HIDE DEF Frame
    <3> QED
      BY <3>1, <3>2, <3>3
  <2>3. owed' = [owed EXCEPT ![level] = @ - 1] /\ held' = held
    BY <1>11, <2>2 DEF RestoreNothing, LeavesSection
  <2>4. owed' \in [Frame -> Nat] /\ step' \in [Frame -> {"run", "cli", "inc", "dec", "sti"}]
    BY <2>1, <2>2, <2>3
  <2>5. /\ step'[level] = "run" /\ entered'[level] = 0
        /\ \A f \in 0 .. level - 1 : step'[f] = step[f]
    BY <2>1, <2>2
  <2>6. RunningOK'
    BY <2>1, <2>2, <2>3, <2>5
  <2>7. level' = level /\ (\A f \in 0 .. level - 1 : Interruptible(f)') /\ entered'[0] = 0
    <3> SUFFICES ASSUME NEW f \in 0 .. level - 1 PROVE Interruptible(f)'
      BY <2>1
    <3>1. Interruptible(f)
      OBVIOUS
    <3> QED
      BY <2>1, <2>3, <2>5, <3>1
  <2>8. LockTypeOK'
    BY <2>1, <2>3, <2>4
  <2> QED
    BY <2>5, <2>6, <2>7, <2>8
<1>5. CASE RestoreDec
  <2>1. /\ step[level] = "dec" /\ step' = [step EXCEPT ![level] = "sti"]
        /\ irq_cscnt' = irq_cscnt - 1
        /\ UNCHANGED <<level, iflag, test, entered>>
    BY <1>5 DEF RestoreDec, Goes
  <2>2. held[level] > 0 /\ irq_cscnt = held[level] + entered[level] /\ ~iflag
    BY <2>1
  <2>3. held' = [held EXCEPT ![level] = @ - 1] /\ owed' = owed
    BY <1>5, <2>2 DEF RestoreDec, LeavesSection
  <2>4. level \in Frame /\ held[level] - 1 \in Nat /\ irq_cscnt' \in Nat
    BY <2>1, <2>2
  <2>5. held' \in [Frame -> Nat] /\ held'[level] = held[level] - 1
    BY <2>2, <2>3, <2>4
  <2>6. step' \in [Frame -> {"run", "cli", "inc", "dec", "sti"}] /\ step'[level] = "sti"
    BY <2>1, <2>4
  <2>7. LockTypeOK'
    BY <2>1, <2>3, <2>4, <2>5, <2>6
  <2>8. irq_cscnt' = held'[level] + entered'[level]
    <3>1. held[level] \in Nat /\ entered[level] \in Nat
      BY <2>2
    <3>2. irq_cscnt' = (held[level] + entered[level]) - 1 /\ entered'[level] = entered[level]
      BY <2>1, <2>2
    <3> HIDE DEF Frame
    <3> QED
      BY <2>5, <3>1, <3>2
  <2>9. RunningOK'
    BY <2>1, <2>2, <2>6, <2>8
  <2>10. level' = level /\ (\A f \in 0 .. level - 1 : Interruptible(f)')
    BY <2>1, <2>2, <2>3
  <2> QED
    BY <2>1, <2>3, <2>7, <2>9, <2>10
<1>6. CASE Sti
  <2>1. step[level] = "sti" /\ step' = [step EXCEPT ![level] = "run"]
    BY <1>6 DEF Sti, Goes
  <2>2. UNCHANGED <<level, irq_cscnt, test, held, owed, entered>>
    BY <1>6 DEF Sti
  <2>3. iflag' \in BOOLEAN /\ (iflag' <=> irq_cscnt = 0)
    BY <1>6, <2>1 DEF Sti
  <2> QED
    BY <2>1, <2>2, <2>3
<1>7. CASE EnableSet
  BY <1>7 DEF EnableSet, Goes
<1>8. CASE HandlerEntry
  <2>1. /\ iflag /\ level < MaxLevel /\ level' = level + 1
        /\ ~iflag' /\ iflag' \in BOOLEAN /\ irq_cscnt' = 1
    BY <1>8 DEF HandlerEntry
  <2>2. /\ step' = [step EXCEPT ![level + 1] = "run"]
        /\ test' = [test EXCEPT ![level + 1] = FALSE]
        /\ held' = [held EXCEPT ![level + 1] = 0]
        /\ owed' = [owed EXCEPT ![level + 1] = 0]
        /\ entered' = [entered EXCEPT ![level + 1] = 1]
    BY <1>8 DEF HandlerEntry
  <2>3. Interruptible(level)
    <3>1. step[level] = "run" \/ step[level] = "cli"
      BY <2>1
    <3>2. irq_cscnt = 0 /\ held[level] = 0 /\ entered[level] = 0
      BY <2>1, <3>1
    <3>3. step[level] = "cli" => test[level]
      BY <3>2
    <3> QED
      BY <3>1, <3>2, <3>3
  <2>4. LockTypeOK'
    BY <2>1, <2>2
  <2>5. \A f \in 0 .. level' - 1 : Interruptible(f)'
    <3> SUFFICES ASSUME NEW f \in 0 .. level PROVE Interruptible(f)'
      BY <2>1
    <3>1. Interruptible(f)
      BY <2>3
    <3>2. f # level + 1 /\ f \in Frame
      BY <2>1
    <3> QED
      BY <2>2, <3>1, <3>2
  <2>6. entered'[0] = 0 /\ RunningOK'
    BY <2>1, <2>2
  <2>7. owed'[level'] = 0
    BY <2>1, <2>2
  <2>8. ~(owed'[level'] > 0)
    BY <2>7
  <2> HIDE DEF LockTypeOK, Interruptible, RunningOK
  <2> QED
    BY <2>4, <2>5, <2>6, <2>8
<1>9. CASE HandlerExit
  BY <1>9 DEF HandlerExit
<1>10. CASE UNCHANGED lockVars
  BY <1>10 DEF lockVars
<1> QED
  BY <1>1, <1>2, <1>3, <1>4, <1>5, <1>6, <1>7, <1>8, <1>9, <1>10, <1>11 DEF LockNext

\* The inductive invariant holds throughout every behaviour.
THEOREM LockInvariant ==
  LockSpec => []LockInv
BY LockInitially, LockSteps, PTL DEF LockSpec

\* For any depth of nesting, no context is interrupted inside a critical
\* section (io_DisableINT ... io_RestoreINT of io_irq.h).
THEOREM CriticalSectionsHold ==
  LockSpec => []CriticalSections
<1>1. LockInv => CriticalSections
  BY DEF LockInv, LockTypeOK, Frame, RunningOK, Counted,
         Interruptible, CriticalSections
<1> QED
  BY <1>1, LockInvariant, PTL

\* For any depth of nesting, the last RestoreINT has enabled interrupts again.
THEOREM ReopenedHolds ==
  LockSpec => []Reopened
<1>1. LockInv => Reopened
  BY DEF LockInv, LockTypeOK, Frame, RunningOK, Counted, Reopened
<1> QED
  BY <1>1, LockInvariant, PTL

\* For any depth of nesting, a handler that keeps interrupts off runs to its
\* end undisturbed, whatever nested pairs it executes.
THEOREM HandlerUndisturbedHolds ==
  LockSpec => []HandlerUndisturbed
<1>1. LockInv => HandlerUndisturbed
  BY DEF LockInv, LockTypeOK, Frame, RunningOK, Counted,
         Interruptible, HandlerUndisturbed
<1> QED
  BY <1>1, LockInvariant, PTL

-----------------------------------------------------------------------------
\* c has reached one of the given steps of operation op.
Place(c, op, steps) == call[c] = op /\ at[c] \in steps

Query(c) == call[c] \in {"Size", "Empty", "Full"}

\* The nesting depth an operation has reached before each of its steps.
Depth(c) ==
  IF Place(c, "Pop", {4, 5, 6}) THEN 3
  ELSE IF \/ Place(c, "Push", {3, 4, 5})
          \/ Place(c, "Pop", {3, 7, 8})
          \/ Place(c, "Peek", {3, 4, 5}) THEN 2
  ELSE IF \/ Place(c, "Push", {2, 6, 7, 8})
          \/ Place(c, "Pop", {2, 9, 10})
          \/ Place(c, "Peek", {2, 6, 7})
          \/ Place(c, "Clear", {2, 3, 4})
          \/ (Query(c) /\ at[c] \in {2, 3, 4}) THEN 1
  ELSE 0

\* What the locals of an operation stand for while it holds the lock.
PushOK(c) ==
  /\ arg[c] \in Elem
  /\ at[c] \in 4 .. 8 => local[c].h = head
  /\ at[c] \in 5 .. 7 => local[c].t = tail
  /\ at[c] = 7 => IsFull(head, tail) \/ data[tail] = arg[c]
  /\ at[c] <= 7 => local[c].ret = FALSE

PopOK(c) ==
  /\ at[c] \in 5 .. 9 => local[c].h = head
  /\ at[c] \in 6 .. 9 => local[c].t = tail
  /\ at[c] <= 7 => local[c].ret = FALSE /\ local[c].elem = NoElem
  /\ at[c] \in 8 .. 9 =>
       IF head = tail THEN local[c].ret = FALSE /\ local[c].elem = NoElem
       ELSE local[c].ret = TRUE /\ local[c].elem = data[head]

PeekOK(c) ==
  /\ at[c] \in 4 .. 6 => local[c].h = head
  /\ at[c] \in 5 .. 6 => local[c].t = tail
  /\ at[c] <= 6 => local[c].ret = FALSE /\ local[c].elem = NoElem

QueryOK(c) == at[c] = 3 => local[c].h = head

ClearOK(c) == at[c] = 3 => head = 0

LocalsOK(c) ==
  /\ call[c] = "Idle"  => at[c] = 1 /\ local[c] = NoLocals
  /\ call[c] = "Push"  => PushOK(c)
  /\ call[c] = "Pop"   => PopOK(c)
  /\ call[c] = "Peek"  => PeekOK(c)
  /\ call[c] = "Clear" => ClearOK(c)
  /\ Query(c)          => QueryOK(c)

AtOK(c) ==
  /\ call[c] = "Push" => at[c] <= 9
  /\ call[c] = "Pop"  => at[c] <= 11
  /\ call[c] = "Peek" => at[c] <= 8
  /\ call[c] = "Clear" \/ Query(c) => at[c] <= 5

\* The inductive invariant: the nesting counter counts what the running
\* context holds, the suspended one holds nothing.
IInv ==
  /\ TypeOK
  /\ \A c \in Context : AtOK(c) /\ LocalsOK(c)
  /\ cscnt = Depth(running) + (IF running = "isr" THEN 1 ELSE 0)
  /\ intr <=> cscnt = 0
  /\ running = "isr" => Depth("main") = 0
  /\ running = "main" => call["isr"] = "Idle"

-----------------------------------------------------------------------------
\* How many accesses each operation makes.
LEMMA Programs ==
  /\ Len(Program("Push")) = 8
  /\ Len(Program("Pop")) = 10
  /\ Len(Program("Peek")) = 7
  /\ Len(Program("Clear")) = 4
  /\ \A op \in {"Size", "Empty", "Full"} : Len(Program(op)) = 4
BY DEF Program, PushSteps, QuerySteps

\* Where each kind of step is found.
LEMMA Places ==
  ASSUME NEW c \in Context, call[c] \in Operation, at[c] \in Nat,
         at[c] \in 1 .. Len(Program(call[c])), NEW name,
         Program(call[c])[at[c]] = name
  PROVE  /\ name = "Disable" =>
              \/ Place(c, "Push", {1, 2}) \/ Place(c, "Pop", {1, 2, 3})
              \/ Place(c, "Peek", {1, 2}) \/ Place(c, "Clear", {1})
              \/ (Query(c) /\ at[c] = 1)
         /\ name = "Restore" =>
              \/ Place(c, "Push", {5, 8}) \/ Place(c, "Pop", {6, 8, 10})
              \/ Place(c, "Peek", {5, 7}) \/ Place(c, "Clear", {4})
              \/ (Query(c) /\ at[c] = 4)
         /\ name = "ReadHead" =>
              \/ Place(c, "Push", {3}) \/ Place(c, "Pop", {4})
              \/ Place(c, "Peek", {3}) \/ (Query(c) /\ at[c] = 2)
         /\ name = "ReadTail" =>
              \/ Place(c, "Push", {4}) \/ Place(c, "Pop", {5})
              \/ Place(c, "Peek", {4}) \/ (Query(c) /\ at[c] = 3)
         /\ name = "Store" => Place(c, "Push", {6})
         /\ name = "AdvanceTail" => Place(c, "Push", {7})
         /\ name = "Load" => Place(c, "Pop", {7}) \/ Place(c, "Peek", {6})
         /\ name = "AdvanceHead" => Place(c, "Pop", {9})
         /\ name = "ResetHead" => Place(c, "Clear", {2})
         /\ name = "ResetTail" => Place(c, "Clear", {3})
<1>1. CASE call[c] = "Push"
  <2>1. at[c] \in 1 .. 8
    BY <1>1, Programs
  <2> QED
    BY <1>1, <2>1 DEF Program, PushSteps, QuerySteps, Place
<1>2. CASE call[c] = "Pop"
  <2>1. at[c] \in 1 .. 10
    BY <1>2, Programs
  <2> QED
    BY <1>2, <2>1 DEF Program, PushSteps, QuerySteps, Place
<1>3. CASE call[c] = "Peek"
  <2>1. at[c] \in 1 .. 7
    BY <1>3, Programs
  <2> QED
    BY <1>3, <2>1 DEF Program, PushSteps, QuerySteps, Place
<1>4. CASE call[c] = "Clear"
  <2>1. at[c] \in 1 .. 4
    BY <1>4, Programs
  <2> QED
    BY <1>4, <2>1 DEF Program, PushSteps, QuerySteps, Place
<1>5. CASE Query(c)
  <2>1. at[c] \in 1 .. 4
    BY <1>5, Programs DEF Query
  <2> QED
    BY <1>5, <2>1 DEF Program, PushSteps, QuerySteps, Place, Query
<1> QED
  BY <1>1, <1>2, <1>3, <1>4, <1>5 DEF Operation, Query

-----------------------------------------------------------------------------
\* Indices wrap at most once.
LEMMA Wrap ==
  ASSUME NEW i \in Slot, NEW k \in 0 .. Capacity
  PROVE  (i + k) % Slots = IF i + k <= Capacity THEN i + k ELSE i + k - Slots
BY QueueAssumption DEF Slot, Slots

\* An index advanced by one wraps behind the last slot.
LEMMA WrapOne ==
  ASSUME NEW i \in Slot
  PROVE  /\ (i + 1) % Slots = IF i = Capacity THEN 0 ELSE i + 1
         /\ (i + 1) % Slots \in Slot
<1>1. 1 \in 0 .. Capacity
  BY QueueAssumption
<1>2. (i + 1) % Slots = IF i + 1 <= Capacity THEN i + 1 ELSE i + 1 - Slots
  BY <1>1, Wrap
<1> QED
  BY <1>2, QueueAssumption DEF Slot, Slots

\* What the indices say of the size is a size, and the tail is that far behind
\* the head.
LEMMA SizeRange ==
  ASSUME NEW h \in Slot, NEW t \in Slot
  PROVE  /\ SizeOf(h, t) \in 0 .. Capacity
         /\ IsEmpty(h, t) <=> SizeOf(h, t) = 0
         /\ IsFull(h, t) <=> SizeOf(h, t) = Capacity
         /\ (h + SizeOf(h, t)) % Slots = t
<1>1. SizeOf(h, t) \in 0 .. Capacity /\ (IsEmpty(h, t) <=> SizeOf(h, t) = 0)
  BY QueueAssumption DEF SizeOf, IsEmpty, Slot, Slots
<1>2. IsFull(h, t) <=> SizeOf(h, t) = Capacity
  BY WrapOne, QueueAssumption DEF SizeOf, IsFull, Slot, Slots
<1>3. (h + SizeOf(h, t)) % Slots = t
  <2>1. (h + SizeOf(h, t)) % Slots
          = IF h + SizeOf(h, t) <= Capacity THEN h + SizeOf(h, t)
            ELSE h + SizeOf(h, t) - Slots
    BY <1>1, Wrap
  <2> QED
    BY <2>1, QueueAssumption DEF SizeOf, Slot, Slots
<1> QED
  BY <1>1, <1>2, <1>3

\* A push that does not fill over makes the queue one longer, a pop shorter.
LEMMA SizeMoves ==
  ASSUME NEW h \in Slot, NEW t \in Slot
  PROVE  /\ ~IsFull(h, t) => SizeOf(h, (t + 1) % Slots) = SizeOf(h, t) + 1
         /\ h # t => SizeOf((h + 1) % Slots, t) = SizeOf(h, t) - 1
BY WrapOne, QueueAssumption DEF SizeOf, IsFull, Slot, Slots

-----------------------------------------------------------------------------
\* The invariant holds at first.
LEMMA InitEstablishes == Init => IInv
<1> SUFFICES ASSUME Init PROVE IInv
  OBVIOUS
<1> USE QueueAssumption DEF Init
<1>1. TypeOK
  BY DEF TypeOK, Slot, Context, NoLocals
<1>2. \A c \in Context : AtOK(c) /\ LocalsOK(c)
  BY DEF AtOK, LocalsOK, Query
<1>3. Depth("main") = 0 /\ Depth("isr") = 0
  BY DEF Depth, Place, Query, Context
<1> QED
  BY <1>1, <1>2, <1>3 DEF IInv, Context

\* A step of an operation is taken by the running context alone.
LEMMA OthersStay ==
  ASSUME IInv, NEW c \in Context, NEW name, Executes(c, name),
         local' = local \/ \E r : local' = [local EXCEPT ![c] = r],
         NEW d \in Context \ {c}
  PROVE  /\ call'[d] = call[d] /\ at'[d] = at[d] /\ arg'[d] = arg[d]
         /\ local'[d] = local[d]
BY DEF Executes, IInv, TypeOK, Context

\* The suspended context is outside its critical section: what its locals
\* stand for does not depend on the queue.
LEMMA SuspendedLocals ==
  ASSUME IInv, NEW d \in Context, d # running,
         call'[d] = call[d], at'[d] = at[d], arg'[d] = arg[d],
         local'[d] = local[d]
  PROVE  AtOK(d)' /\ LocalsOK(d)' /\ Depth(d)' = Depth(d)
<1>1. AtOK(d)' /\ Depth(d)' = Depth(d)
  BY DEF IInv, AtOK, Depth, Place, Query
<1>2. Depth(d) = 0 /\ LocalsOK(d) /\ AtOK(d) /\ at[d] \in 1 .. 11
      /\ call[d] \in Operation \cup {"Idle"}
  <2>1. (d = "isr" /\ running = "main") \/ (d = "main" /\ running = "isr")
    BY DEF IInv, TypeOK, Context
  <2>2. call[d] = "Idle" => Depth(d) = 0
    BY DEF Depth, Place, Query
  <2> QED
    BY <2>1, <2>2 DEF IInv, TypeOK, Context
<1>3. LocalsOK(d)'
  <2>1. CASE call[d] = "Idle"
    BY <1>2, <2>1 DEF LocalsOK, NoLocals, Query
  <2>2. CASE call[d] = "Push"
    <3>1. at[d] \in {1, 9}
      BY <1>2, <2>2 DEF Depth, Place, Query, IInv, AtOK
    <3> QED
      BY <1>2, <2>2, <3>1 DEF LocalsOK, PushOK, Query
  <2>3. CASE call[d] = "Pop"
    <3>1. at[d] \in {1, 11}
      BY <1>2, <2>3 DEF Depth, Place, Query, IInv, AtOK
    <3> QED
      BY <1>2, <2>3, <3>1 DEF LocalsOK, PopOK, Query
  <2>4. CASE call[d] = "Peek"
    <3>1. at[d] \in {1, 8}
      BY <1>2, <2>4 DEF Depth, Place, Query, IInv, AtOK
    <3> QED
      BY <1>2, <2>4, <3>1 DEF LocalsOK, PeekOK, Query
  <2>5. CASE call[d] \in {"Clear", "Size", "Empty", "Full"}
    <3>1. at[d] \in {1, 5}
      BY <1>2, <2>5 DEF Depth, Place, Query, IInv, AtOK
    <3> QED
      BY <1>2, <2>5, <3>1 DEF LocalsOK, ClearOK, QueryOK, Query
  <2> QED
    BY <1>2, <2>1, <2>2, <2>3, <2>4, <2>5 DEF Operation
<1> QED
  BY <1>1, <1>3

-----------------------------------------------------------------------------
\* The nesting counter and the interrupt flag agree for the running context
\* after a step that moves it from one depth to the next.
LEMMA NestingKept ==
  ASSUME IInv, NEW c \in Context, running = c, running' = running,
         TypeOK', \A d \in Context : AtOK(d)' /\ LocalsOK(d)',
         \A d \in Context \ {c} : call'[d] = call[d] /\ Depth(d)' = Depth(d),
         cscnt' - cscnt = Depth(c)' - Depth(c),
         intr' <=> cscnt' = 0
  PROVE  IInv'
<1>1. Depth(c) \in 0 .. 3 /\ Depth(c)' \in 0 .. 3 /\ cscnt \in Nat /\ cscnt' \in Nat
  BY DEF Depth, IInv, TypeOK
<1>2. cscnt' = Depth(running)' + (IF running' = "isr" THEN 1 ELSE 0)
  BY <1>1 DEF IInv
<1> QED
  BY <1>2 DEF IInv, Context

\* What remains to be shown of a step of an operation.
LEMMA StepKeeps ==
  ASSUME IInv, NEW c \in Context, NEW name, Executes(c, name),
         local' = local \/ \E r : local' = [local EXCEPT ![c] = r],
         TypeOK', AtOK(c)', LocalsOK(c)',
         cscnt' - cscnt = Depth(c)' - Depth(c),
         intr' <=> cscnt' = 0
  PROVE  IInv'
<1>1. running = c /\ running' = running
  BY DEF Executes
<1>2. \A d \in Context \ {c} :
         /\ call'[d] = call[d] /\ at'[d] = at[d] /\ arg'[d] = arg[d]
         /\ local'[d] = local[d]
  BY OthersStay
<1>3. \A d \in Context \ {c} : AtOK(d)' /\ LocalsOK(d)' /\ Depth(d)' = Depth(d)
  BY <1>1, <1>2, SuspendedLocals
<1> QED
  BY <1>1, <1>2, <1>3, NestingKept

\* Where the running context is and what any of its steps leaves alone.
Stepping(c) ==
  /\ running = c /\ running' = running
  /\ call[c] \in Operation /\ call' = call /\ arg' = arg
  /\ at[c] \in 1 .. 10
  /\ at'[c] = at[c] + 1 /\ at' \in [Context -> 1 .. 11]
  /\ AtOK(c) /\ LocalsOK(c) /\ AtOK(c)'

\* Only the running context is in the middle of an operation that goes on.
LEMMA Executing ==
  ASSUME IInv, NEW c \in Context, NEW name, Executes(c, name)
  PROVE  Stepping(c)
<1>1. /\ running = c /\ running' = running
      /\ call[c] \in Operation /\ call' = call /\ arg' = arg
      /\ at[c] \in 1 .. 11 /\ at[c] \in 1 .. Len(Program(call[c]))
      /\ at' = [at EXCEPT ![c] = at[c] + 1]
      /\ AtOK(c) /\ LocalsOK(c) /\ at \in [Context -> 1 .. 11]
  BY DEF IInv, TypeOK, Executes
<1>2. CASE call[c] = "Push"
  <2>1. at[c] \in 1 .. 8
    BY <1>1, <1>2, Programs
  <2> QED
    BY <1>1, <1>2, <2>1 DEF Stepping, AtOK, Query
<1>3. CASE call[c] = "Pop"
  <2>1. at[c] \in 1 .. 10
    BY <1>1, <1>3, Programs
  <2> QED
    BY <1>1, <1>3, <2>1 DEF Stepping, AtOK, Query
<1>4. CASE call[c] = "Peek"
  <2>1. at[c] \in 1 .. 7
    BY <1>1, <1>4, Programs
  <2> QED
    BY <1>1, <1>4, <2>1 DEF Stepping, AtOK, Query
<1>5. CASE call[c] = "Clear" \/ Query(c)
  <2>1. at[c] \in 1 .. 4
    BY <1>1, <1>5, Programs DEF Query
  <2> QED
    BY <1>1, <1>5, <2>1 DEF Stepping, AtOK, Query
<1> QED
  BY <1>1, <1>2, <1>3, <1>4, <1>5 DEF Operation, Query

\* The types of what a step of an operation may change.
LEMMA TypeKept ==
  ASSUME IInv, NEW c \in Context, Stepping(c),
         head' \in Slot, tail' \in Slot, data' \in [Slot -> Elem \cup {NoElem}],
         cscnt' \in 0 .. 4, intr' \in BOOLEAN,
         local' \in [Context -> [h : Slot, t : Slot, elem : Elem \cup {NoElem},
                                 ret : BOOLEAN]]
  PROVE  TypeOK'
BY DEF IInv, TypeOK, Stepping

\* io_DisableINT keeps the invariant.
LEMMA DisableStep ==
  ASSUME IInv, NEW c \in Context, Disable(c)
  PROVE  IInv'
<1>1. Executes(c, "Disable")
  BY DEF Disable
<1>2. /\ cscnt' = cscnt + 1 /\ intr' = (IF cscnt = 0 THEN FALSE ELSE intr)
      /\ head' = head /\ tail' = tail /\ data' = data /\ local' = local
  BY DEF Disable, shared
<1>3. \/ Place(c, "Push", {1, 2}) \/ Place(c, "Pop", {1, 2, 3})
      \/ Place(c, "Peek", {1, 2}) \/ Place(c, "Clear", {1})
      \/ (Query(c) /\ at[c] = 1)
  BY <1>1, Places DEF Executes, IInv, TypeOK
<1>4. Stepping(c)
  BY <1>1, Executing
<1>5. Depth(c)' = Depth(c) + 1 /\ Depth(c) \in 0 .. 2
  BY <1>3, <1>4 DEF Depth, Place, Query, Stepping
<1>6. cscnt \in 0 .. 3 /\ cscnt' \in 1 .. 4
  BY <1>2, <1>4, <1>5 DEF IInv, TypeOK, Stepping
<1>7. ~intr' /\ intr' \in BOOLEAN
  <2>1. CASE cscnt = 0
    BY <1>2, <2>1
  <2>2. CASE cscnt # 0
    BY <1>2, <2>2 DEF IInv, TypeOK
  <2> QED
    BY <2>1, <2>2
<1>8. TypeOK'
  <2>1. /\ head' \in Slot /\ tail' \in Slot /\ data' \in [Slot -> Elem \cup {NoElem}]
        /\ local' \in [Context -> [h : Slot, t : Slot, elem : Elem \cup {NoElem},
                                   ret : BOOLEAN]]
    BY <1>2 DEF IInv, TypeOK
  <2>2. cscnt' \in 0 .. 4
    BY <1>2, <1>6
  <2> QED
    BY <1>4, <1>7, <2>1, <2>2, TypeKept
<1>9. LocalsOK(c)'
  BY <1>2, <1>3, <1>4
     DEF LocalsOK, PushOK, PopOK, PeekOK, ClearOK, QueryOK, Query, Place, Stepping
<1>10. cscnt' - cscnt = Depth(c)' - Depth(c) /\ (intr' <=> cscnt' = 0)
  BY <1>2, <1>5, <1>6, <1>7
<1>11. AtOK(c)'
  BY <1>4 DEF Stepping
<1> QED
  BY <1>1, <1>2, <1>8, <1>9, <1>10, <1>11, StepKeeps

\* io_RestoreINT keeps it.
LEMMA RestoreStep ==
  ASSUME IInv, NEW c \in Context, Restore(c)
  PROVE  IInv'
<1>1. Executes(c, "Restore")
  BY DEF Restore
<1>2. /\ cscnt' = (IF cscnt = 0 THEN 0 ELSE cscnt - 1)
      /\ intr' = (IF cscnt = 1 THEN TRUE ELSE intr)
      /\ head' = head /\ tail' = tail /\ data' = data /\ local' = local
  BY DEF Restore, shared
<1>3. \/ Place(c, "Push", {5, 8}) \/ Place(c, "Pop", {6, 8, 10})
      \/ Place(c, "Peek", {5, 7}) \/ Place(c, "Clear", {4})
      \/ (Query(c) /\ at[c] = 4)
  BY <1>1, Places DEF Executes, IInv, TypeOK
<1>4. Stepping(c)
  BY <1>1, Executing
<1>5. Depth(c)' = Depth(c) - 1 /\ Depth(c) \in 1 .. 3
  BY <1>3, <1>4 DEF Depth, Place, Query, Stepping
<1>6. cscnt \in 1 .. 4 /\ cscnt' = cscnt - 1 /\ ~intr
  BY <1>2, <1>4, <1>5 DEF IInv, TypeOK, Stepping
<1>7. intr' \in BOOLEAN /\ (intr' <=> cscnt' = 0)
  <2>1. CASE cscnt = 1
    BY <1>2, <1>6, <2>1
  <2>2. CASE cscnt # 1
    BY <1>2, <1>6, <2>2 DEF IInv, TypeOK
  <2> QED
    BY <2>1, <2>2
<1>8. TypeOK'
  <2>1. /\ head' \in Slot /\ tail' \in Slot /\ data' \in [Slot -> Elem \cup {NoElem}]
        /\ local' \in [Context -> [h : Slot, t : Slot, elem : Elem \cup {NoElem},
                                   ret : BOOLEAN]]
    BY <1>2 DEF IInv, TypeOK
  <2>2. cscnt' \in 0 .. 4
    BY <1>2, <1>6
  <2> QED
    BY <1>4, <1>7, <2>1, <2>2, TypeKept
<1>9. LocalsOK(c)'
  BY <1>2, <1>3, <1>4
     DEF LocalsOK, PushOK, PopOK, PeekOK, ClearOK, QueryOK, Query, Place, Stepping
<1>10. cscnt' - cscnt = Depth(c)' - Depth(c)
  BY <1>5, <1>6
<1>11. AtOK(c)'
  BY <1>4 DEF Stepping
<1> QED
  BY <1>1, <1>2, <1>7, <1>8, <1>9, <1>10, <1>11, StepKeeps

\* A step that leaves the nesting counter and the interrupt flag alone.
LEMMA QuietStep ==
  ASSUME IInv, NEW c \in Context, NEW name, Executes(c, name), UNCHANGED nesting,
         local' = local \/ \E r : local' = [local EXCEPT ![c] = r],
         head' \in Slot, tail' \in Slot, data' \in [Slot -> Elem \cup {NoElem}],
         local' \in [Context -> [h : Slot, t : Slot, elem : Elem \cup {NoElem},
                                 ret : BOOLEAN]],
         Depth(c)' = Depth(c), LocalsOK(c)'
  PROVE  IInv'
<1>1. Stepping(c)
  BY Executing
<1>2. cscnt' = cscnt /\ intr' = intr
  BY DEF nesting
<1>3. cscnt' \in 0 .. 4 /\ intr' \in BOOLEAN /\ (intr' <=> cscnt' = 0)
  BY <1>2 DEF IInv, TypeOK
<1>4. TypeOK'
  BY <1>1, <1>3, TypeKept
<1>5. AtOK(c)'
  BY <1>1 DEF Stepping
<1>6. cscnt' - cscnt = Depth(c)' - Depth(c)
  BY <1>2 DEF IInv, TypeOK, Depth
<1> QED
  BY <1>3, <1>4, <1>5, <1>6, StepKeeps

\* Reading head keeps it: what is read is head as long as the lock is held.
LEMMA ReadHeadStep ==
  ASSUME IInv, NEW c \in Context, ReadHead(c)
  PROVE  IInv'
<1>1. Executes(c, "ReadHead")
  BY DEF ReadHead
<1>2. /\ UNCHANGED nesting
      /\ local' = [local EXCEPT ![c].h = head]
      /\ head' = head /\ tail' = tail /\ data' = data
  BY DEF ReadHead, shared
<1>3. \/ Place(c, "Push", {3}) \/ Place(c, "Pop", {4})
      \/ Place(c, "Peek", {3}) \/ (Query(c) /\ at[c] = 2)
  BY <1>1, Places DEF Executes, IInv, TypeOK
<1>4. Stepping(c)
  BY <1>1, Executing
<1>5. /\ head' \in Slot /\ tail' \in Slot /\ data' \in [Slot -> Elem \cup {NoElem}]
      /\ local' \in [Context -> [h : Slot, t : Slot, elem : Elem \cup {NoElem},
                                 ret : BOOLEAN]]
  BY <1>2 DEF IInv, TypeOK
<1>6. Depth(c)' = Depth(c)
  BY <1>3, <1>4 DEF Depth, Place, Query, Stepping
<1>7. LocalsOK(c)'
  <2>1. /\ local'[c].h = head /\ local'[c].ret = local[c].ret
        /\ local'[c].elem = local[c].elem
    BY <1>2 DEF IInv, TypeOK
  <2> QED
    BY <1>2, <1>3, <1>4, <2>1
       DEF LocalsOK, PushOK, PopOK, PeekOK, ClearOK, QueryOK, Query, Place, Stepping
<1>8. \E r : local' = [local EXCEPT ![c] = r]
  BY <1>2
<1> QED
  BY <1>1, <1>2, <1>5, <1>6, <1>7, <1>8, QuietStep

\* Reading tail keeps it, likewise.
LEMMA ReadTailStep ==
  ASSUME IInv, NEW c \in Context, ReadTail(c)
  PROVE  IInv'
<1>1. Executes(c, "ReadTail")
  BY DEF ReadTail
<1>2. /\ UNCHANGED nesting
      /\ local' = [local EXCEPT ![c].t = tail]
      /\ head' = head /\ tail' = tail /\ data' = data
  BY DEF ReadTail, shared
<1>3. \/ Place(c, "Push", {4}) \/ Place(c, "Pop", {5})
      \/ Place(c, "Peek", {4}) \/ (Query(c) /\ at[c] = 3)
  BY <1>1, Places DEF Executes, IInv, TypeOK
<1>4. Stepping(c)
  BY <1>1, Executing
<1>5. /\ head' \in Slot /\ tail' \in Slot /\ data' \in [Slot -> Elem \cup {NoElem}]
      /\ local' \in [Context -> [h : Slot, t : Slot, elem : Elem \cup {NoElem},
                                 ret : BOOLEAN]]
  BY <1>2 DEF IInv, TypeOK
<1>6. Depth(c)' = Depth(c)
  BY <1>3, <1>4 DEF Depth, Place, Query, Stepping
<1>7. LocalsOK(c)'
  <2>1. /\ local'[c].h = local[c].h /\ local'[c].t = tail
        /\ local'[c].ret = local[c].ret /\ local'[c].elem = local[c].elem
    BY <1>2 DEF IInv, TypeOK
  <2> QED
    BY <1>2, <1>3, <1>4, <2>1
       DEF LocalsOK, PushOK, PopOK, PeekOK, ClearOK, QueryOK, Query, Place, Stepping
<1>8. \E r : local' = [local EXCEPT ![c] = r]
  BY <1>2
<1> QED
  BY <1>1, <1>2, <1>5, <1>6, <1>7, <1>8, QuietStep

\* Writing the slot at the tail keeps it.
LEMMA StoreStep ==
  ASSUME IInv, NEW c \in Context, Store(c)
  PROVE  IInv'
<1>1. Executes(c, "Store")
  BY DEF Store
<1>2. /\ UNCHANGED nesting /\ local' = local /\ head' = head /\ tail' = tail
      /\ data' = IF IsFull(local[c].h, local[c].t) THEN data
                 ELSE [data EXCEPT ![tail] = arg[c]]
  BY DEF Store
<1>3. Place(c, "Push", {6})
  BY <1>1, Places DEF Executes, IInv, TypeOK
<1>4. Stepping(c)
  BY <1>1, Executing
<1>5. PushOK(c)
  BY <1>3, <1>4 DEF Stepping, LocalsOK, Place
<1>6. local[c].h = head /\ local[c].t = tail /\ arg[c] \in Elem
  BY <1>3, <1>5 DEF PushOK, Place
<1>7. /\ head' \in Slot /\ tail' \in Slot /\ data' \in [Slot -> Elem \cup {NoElem}]
      /\ local' \in [Context -> [h : Slot, t : Slot, elem : Elem \cup {NoElem},
                                 ret : BOOLEAN]]
  BY <1>2, <1>6 DEF IInv, TypeOK
<1>8. Depth(c)' = Depth(c)
  BY <1>3, <1>4 DEF Depth, Place, Query, Stepping
<1>9. IsFull(head, tail)' \/ data'[tail'] = arg'[c]
  BY <1>2, <1>4, <1>6 DEF IsFull, IInv, TypeOK, Stepping
<1>10. LocalsOK(c)'
  BY <1>2, <1>3, <1>4, <1>5, <1>6, <1>9
     DEF LocalsOK, PushOK, Query, Place, Stepping
<1> QED
  BY <1>1, <1>2, <1>7, <1>8, <1>10, QuietStep

\* Advancing the tail keeps it, as the queue was not full.
LEMMA AdvanceTailStep ==
  ASSUME IInv, NEW c \in Context, AdvanceTail(c)
  PROVE  IInv'
<1>1. Executes(c, "AdvanceTail")
  BY DEF AdvanceTail
<1>2. Place(c, "Push", {7})
  BY <1>1, Places DEF Executes, IInv, TypeOK
<1>3. Stepping(c)
  BY <1>1, Executing
<1>4. local[c].h = head /\ local[c].t = tail /\ arg[c] \in Elem
  BY <1>2, <1>3 DEF Stepping, LocalsOK, PushOK, Place
<1>5. UNCHANGED nesting /\ head' = head /\ data' = data
  BY DEF AdvanceTail
<1>6. /\ tail' \in Slot
      /\ local' = local \/ local' = [local EXCEPT ![c].ret = TRUE]
      /\ local'[c].h = head
  <2>1. tail' \in Slot
    BY WrapOne DEF AdvanceTail, IInv, TypeOK
  <2>2. local' = local \/ local' = [local EXCEPT ![c].ret = TRUE]
    BY DEF AdvanceTail
  <2>3. local'[c].h = head
    BY <1>4, <2>2 DEF IInv, TypeOK
  <2> QED BY <2>1, <2>2, <2>3
<1>7. /\ head' \in Slot /\ data' \in [Slot -> Elem \cup {NoElem}]
      /\ local' \in [Context -> [h : Slot, t : Slot, elem : Elem \cup {NoElem},
                                 ret : BOOLEAN]]
  <2>1. local \in [Context -> [h : Slot, t : Slot, elem : Elem \cup {NoElem}, ret : BOOLEAN]]
    BY DEF IInv, TypeOK
  <2>2. /\ local' \in [Context -> [h : Slot, t : Slot, elem : Elem \cup {NoElem},
                                   ret : BOOLEAN]]
    BY <1>6, <2>1
  <2> QED BY <1>5, <2>2 DEF IInv, TypeOK
<1>8. Depth(c)' = Depth(c)
  BY <1>2, <1>3 DEF Depth, Place, Query, Stepping
<1>9. LocalsOK(c)'
  BY <1>2, <1>3, <1>4, <1>5, <1>6
     DEF LocalsOK, PushOK, Query, Place, Stepping
<1>10. local' = local \/ \E r : local' = [local EXCEPT ![c] = r]
  BY <1>6
<1> QED
  BY <1>1, <1>5, <1>6, <1>7, <1>8, <1>9, <1>10, QuietStep

\* Reading the slot at the head keeps it.
LEMMA LoadStep ==
  ASSUME IInv, NEW c \in Context, Load(c)
  PROVE  IInv'
<1>1. Executes(c, "Load")
  BY DEF Load
<1>2. Place(c, "Pop", {7}) \/ Place(c, "Peek", {6})
  BY <1>1, Places DEF Executes, IInv, TypeOK
<1>3. Stepping(c)
  BY <1>1, Executing
<1>4. /\ local[c].h = head /\ local[c].t = tail
      /\ local[c].ret = FALSE /\ local[c].elem = NoElem
  BY <1>2, <1>3 DEF Stepping, LocalsOK, PopOK, PeekOK, Place
<1>5. UNCHANGED nesting /\ head' = head /\ tail' = tail /\ data' = data
  BY DEF Load, shared
<1>6. IF head = tail THEN local' = local
      ELSE local' = [local EXCEPT ![c].elem = data[head], ![c].ret = TRUE]
  BY <1>4 DEF Load, IsEmpty
<1>7. /\ head' \in Slot /\ tail' \in Slot /\ data' \in [Slot -> Elem \cup {NoElem}]
      /\ local' \in [Context -> [h : Slot, t : Slot, elem : Elem \cup {NoElem},
                                 ret : BOOLEAN]]
  <2>1. data[head] \in Elem \cup {NoElem}
    BY DEF IInv, TypeOK
  <2> QED
    BY <1>5, <1>6, <2>1 DEF IInv, TypeOK
<1>8. Depth(c)' = Depth(c)
  BY <1>2, <1>3 DEF Depth, Place, Query, Stepping
<1>9. /\ local'[c].h = head /\ local'[c].t = tail
      /\ IF head = tail THEN local'[c].ret = FALSE /\ local'[c].elem = NoElem
        ELSE local'[c].ret = TRUE /\ local'[c].elem = data[head]
  BY <1>4, <1>6 DEF IInv, TypeOK
<1>10. LocalsOK(c)'
  BY <1>2, <1>3, <1>5, <1>9
     DEF LocalsOK, PopOK, PeekOK, Query, Place, Stepping
<1>11. local' = local \/ \E r : local' = [local EXCEPT ![c] = r]
  BY <1>6
<1> QED
  BY <1>1, <1>5, <1>7, <1>8, <1>10, <1>11, QuietStep

\* Advancing the head keeps it, as the queue was not empty.
LEMMA AdvanceHeadStep ==
  ASSUME IInv, NEW c \in Context, AdvanceHead(c)
  PROVE  IInv'
<1>1. Executes(c, "AdvanceHead")
  BY DEF AdvanceHead
<1>2. Place(c, "Pop", {9})
  BY <1>1, Places DEF Executes, IInv, TypeOK
<1>3. Stepping(c)
  BY <1>1, Executing
<1>4. UNCHANGED nesting /\ tail' = tail /\ data' = data /\ local' = local
  BY DEF AdvanceHead
<1>5. head' \in Slot
  BY WrapOne DEF AdvanceHead, IInv, TypeOK
<1>6. /\ tail' \in Slot /\ data' \in [Slot -> Elem \cup {NoElem}]
      /\ local' \in [Context -> [h : Slot, t : Slot, elem : Elem \cup {NoElem},
                                 ret : BOOLEAN]]
  BY <1>4 DEF IInv, TypeOK
<1>7. Depth(c)' = Depth(c)
  BY <1>2, <1>3 DEF Depth, Place, Query, Stepping
<1>8. LocalsOK(c)'
  BY <1>2, <1>3 DEF LocalsOK, PopOK, Query, Place, Stepping
<1> QED
  BY <1>1, <1>4, <1>5, <1>6, <1>7, <1>8, QuietStep

\* Each of the two resets of ClearQueue keeps it.
LEMMA ResetStep ==
  ASSUME IInv, NEW c \in Context, ResetHead(c) \/ ResetTail(c)
  PROVE  IInv'
<1>1. PICK name \in {"ResetHead", "ResetTail"} : Executes(c, name)
  BY DEF ResetHead, ResetTail
<1>2. Place(c, "Clear", {2, 3}) /\ (ResetTail(c) => Place(c, "Clear", {3}))
  BY <1>1, Places DEF Executes, IInv, TypeOK, ResetHead, ResetTail, Place
<1>3. Stepping(c)
  BY <1>1, Executing
<1>4. UNCHANGED nesting /\ data' = data /\ local' = local
  BY DEF ResetHead, ResetTail
<1>5. head' \in Slot /\ tail' \in Slot /\ (ResetHead(c) => head' = 0)
  BY QueueAssumption DEF ResetHead, ResetTail, IInv, TypeOK, Slot
<1>6. /\ data' \in [Slot -> Elem \cup {NoElem}]
      /\ local' \in [Context -> [h : Slot, t : Slot, elem : Elem \cup {NoElem},
                                 ret : BOOLEAN]]
  BY <1>4 DEF IInv, TypeOK
<1>7. Depth(c)' = Depth(c)
  BY <1>2, <1>3 DEF Depth, Place, Query, Stepping
<1>8. LocalsOK(c)'
  BY <1>2, <1>3, <1>5 DEF LocalsOK, ClearOK, Query, Place, Stepping
<1> QED
  BY <1>1, <1>4, <1>5, <1>6, <1>7, <1>8, QuietStep

\* A call begins or ends outside the critical section.
LEMMA CallBoundary ==
  ASSUME IInv, NEW c \in Context, running = c, running' = running,
         UNCHANGED <<shared, nesting>>, TypeOK',
         \A d \in Context \ {c} :
           /\ call'[d] = call[d] /\ at'[d] = at[d] /\ arg'[d] = arg[d]
           /\ local'[d] = local[d],
         AtOK(c)', LocalsOK(c)', Depth(c) = 0, Depth(c)' = 0
  PROVE  IInv'
<1>1. \A d \in Context \ {c} : AtOK(d)' /\ LocalsOK(d)' /\ Depth(d)' = Depth(d)
  BY SuspendedLocals
<1>2. cscnt' = cscnt /\ intr' = intr
  BY DEF nesting
<1>3. (intr' <=> cscnt' = 0) /\ cscnt' - cscnt = Depth(c)' - Depth(c)
  BY <1>2 DEF IInv, TypeOK
<1> QED
  BY <1>1, <1>3, NestingKept

\* A call that begins keeps it.
LEMMA InvokeStep ==
  ASSUME IInv, NEW c \in Context, NEW op \in Operation, Invoke(c, op)
  PROVE  IInv'
<1>1. /\ running = c /\ running' = running /\ call[c] = "Idle"
      /\ call' = [call EXCEPT ![c] = op] /\ at' = at /\ local' = local
      /\ UNCHANGED <<shared, nesting>>
  BY DEF Invoke
<1>2. PICK e \in IF op = "Push" THEN Elem ELSE {NoElem} :
        arg' = [arg EXCEPT ![c] = e]
  BY DEF Invoke
<1>3. at[c] = 1 /\ local[c] = NoLocals
  BY <1>1 DEF IInv, LocalsOK
<1>4. TypeOK'
  BY <1>1, <1>2 DEF IInv, TypeOK, shared, nesting
<1>5. call'[c] = op /\ at'[c] = 1 /\ local'[c] = NoLocals
      /\ (op = "Push" => arg'[c] \in Elem)
  BY <1>1, <1>2, <1>3 DEF IInv, TypeOK
<1>6. AtOK(c)' /\ LocalsOK(c)'
  BY <1>5 DEF AtOK, LocalsOK, PushOK, PopOK, PeekOK, ClearOK, QueryOK, Query,
              NoLocals, Operation
<1>7. Depth(c) = 0 /\ Depth(c)' = 0
  BY <1>1, <1>3, <1>5 DEF Depth, Place, Query
<1>8. \A d \in Context \ {c} :
        /\ call'[d] = call[d] /\ at'[d] = at[d] /\ arg'[d] = arg[d]
        /\ local'[d] = local[d]
  BY <1>1, <1>2 DEF IInv, TypeOK
<1> QED
  BY <1>1, <1>4, <1>6, <1>7, <1>8, CallBoundary

\* An operation holds nothing exactly before its first step and after its last.
LEMMA Ends ==
  ASSUME NEW c \in Context, call[c] \in Operation, at[c] \in 1 .. 11, AtOK(c)
  PROVE  Depth(c) = 0 <=> at[c] \in {1, Len(Program(call[c])) + 1}
<1>1. CASE call[c] = "Push"
  <2>1. at[c] \in 1 .. 9
    BY <1>1 DEF AtOK
  <2>2. Len(Program(call[c])) = 8
    BY <1>1, Programs, Zenon
  <2>3. Depth(c) = 0 <=> at[c] \in {1, 9}
    BY <1>1, <2>1 DEF Depth, Place, Query
  <2> QED
    BY <2>2, <2>3
<1>2. CASE call[c] = "Pop"
  <2>1. at[c] \in 1 .. 11
    BY <1>2 DEF AtOK
  <2>2. Len(Program(call[c])) = 10
    BY <1>2, Programs, Zenon
  <2>3. Depth(c) = 0 <=> at[c] \in {1, 11}
    BY <1>2, <2>1 DEF Depth, Place, Query
  <2> QED
    BY <2>2, <2>3
<1>3. CASE call[c] = "Peek"
  <2>1. at[c] \in 1 .. 8
    BY <1>3 DEF AtOK
  <2>2. Len(Program(call[c])) = 7
    BY <1>3, Programs, Zenon
  <2>3. Depth(c) = 0 <=> at[c] \in {1, 8}
    BY <1>3, <2>1 DEF Depth, Place, Query
  <2> QED
    BY <2>2, <2>3
<1>4. CASE call[c] = "Clear" \/ Query(c)
  <2>1. at[c] \in 1 .. 5
    BY <1>4 DEF AtOK, Query
  <2>2. Len(Program(call[c])) = 4
    BY <1>4, Programs, Zenon DEF Query
  <2>3. Depth(c) = 0 <=> at[c] \in {1, 5}
    BY <1>4, <2>1 DEF Depth, Place, Query
  <2> QED
    BY <2>2, <2>3
<1> QED
  BY <1>1, <1>2, <1>3, <1>4 DEF Operation, Query

\* A call that returns keeps it.
LEMMA ReturnStep ==
  ASSUME IInv, NEW c \in Context, Return(c)
  PROVE  IInv'
<1>1. /\ running = c /\ running' = running /\ call[c] \in Operation
      /\ at[c] = Len(Program(call[c])) + 1
      /\ call' = [call EXCEPT ![c] = "Idle"] /\ at' = [at EXCEPT ![c] = 1]
      /\ arg' = [arg EXCEPT ![c] = NoElem]
      /\ local' = [local EXCEPT ![c] = NoLocals]
      /\ UNCHANGED <<shared, nesting>>
  BY DEF Return, IInv, TypeOK
<1>2. Depth(c) = 0
  <2>1. at[c] \in 1 .. 11 /\ AtOK(c)
    BY DEF IInv, TypeOK
  <2> QED
    BY <1>1, <2>1, Ends
<1>3. TypeOK'
  <2>1. NoLocals \in [h : Slot, t : Slot, elem : Elem \cup {NoElem}, ret : BOOLEAN]
    BY QueueAssumption DEF NoLocals, Slot
  <2> QED
    BY <1>1, <2>1 DEF IInv, TypeOK, shared, nesting
<1>4. call'[c] = "Idle" /\ at'[c] = 1 /\ local'[c] = NoLocals
  BY <1>1 DEF IInv, TypeOK
<1>5. AtOK(c)' /\ LocalsOK(c)' /\ Depth(c)' = 0
  BY <1>4 DEF AtOK, LocalsOK, Depth, Place, Query, NoLocals
<1>6. \A d \in Context \ {c} :
        /\ call'[d] = call[d] /\ at'[d] = at[d] /\ arg'[d] = arg[d]
        /\ local'[d] = local[d]
  BY <1>1 DEF IInv, TypeOK
<1> QED
  BY <1>1, <1>2, <1>3, <1>5, <1>6, CallBoundary

\* An entry finds the main program holding nothing, an exit gives it back the
\* counter and the flag it was interrupted with.
LEMMA InterruptStep ==
  ASSUME IInv, InterruptEntry \/ InterruptExit
  PROVE  IInv'
<1>1. UNCHANGED <<head, tail, data, call, at, arg, local>>
  BY DEF InterruptEntry, InterruptExit, shared
<1>2. TypeOK'
  <2>1. cscnt' \in 0 .. 4 /\ running' \in Context
    BY DEF InterruptEntry, InterruptExit, Context
  <2>2. intr' \in BOOLEAN
    BY Zenon DEF InterruptEntry, InterruptExit
  <2> QED
    BY <1>1, <2>1, <2>2 DEF IInv, TypeOK
<1>3. \A c \in Context : AtOK(c)' /\ LocalsOK(c)' /\ Depth(c)' = Depth(c)
  BY <1>1 DEF IInv, AtOK, LocalsOK, PushOK, PopOK, PeekOK, ClearOK, QueryOK,
              Query, Depth, Place, IsFull
<1>4. call["isr"] = "Idle" => Depth("isr") = 0
  BY DEF Depth, Place, Query
<1>5. CASE InterruptEntry
  <2>1. running = "main" /\ intr /\ running' = "isr" /\ cscnt' = 1 /\ ~intr'
    BY <1>5 DEF InterruptEntry
  <2>2. Depth("main") = 0
    BY <2>1 DEF IInv, TypeOK, Depth
  <2>3. Depth("isr")' = 0 /\ Depth("main")' = 0
    BY <1>3, <1>4, <2>1, <2>2 DEF IInv, Context
  <2> QED
    BY <1>2, <1>3, <2>1, <2>3 DEF IInv, Context
<1>6. CASE InterruptExit
  <2>1. running = "isr" /\ call["isr"] = "Idle" /\ running' = "main" /\ cscnt' = 0
        /\ intr'
    BY <1>6 DEF InterruptExit
  <2>2. Depth("main")' = 0 /\ call'["isr"] = "Idle"
    BY <1>1, <1>3, <2>1 DEF IInv, Context
  <2> QED
    BY <1>2, <1>3, <2>1, <2>2 DEF IInv, Context
<1> QED
  BY <1>5, <1>6

\* Every step keeps the invariant.
LEMMA StepPreserves == IInv /\ [Next]_vars => IInv'
<1> SUFFICES ASSUME IInv, [Next]_vars PROVE IInv'
  OBVIOUS
<1>1. ASSUME NEW c \in Context, Step(c) PROVE IInv'
  BY <1>1, DisableStep, RestoreStep, ReadHeadStep, ReadTailStep, StoreStep,
     AdvanceTailStep, LoadStep, AdvanceHeadStep, ResetStep, ReturnStep
  DEF Step
<1>2. ASSUME NEW c \in Context, NEW op \in Operation, Invoke(c, op) PROVE IInv'
  BY <1>2, InvokeStep
<1>3. CASE UNCHANGED vars
  BY <1>3 DEF vars, IInv, TypeOK, AtOK, LocalsOK, PushOK, PopOK, PeekOK,
              ClearOK, QueryOK, Query, Depth, Place, IsFull
<1> QED
  BY <1>1, <1>2, <1>3, InterruptStep DEF Next

\* The inductive invariant holds throughout every behaviour.
THEOREM InductiveInvariant == Spec => []IInv
BY InitEstablishes, StepPreserves, PTL DEF Spec

\* Type correctness of the queue, for every capacity.
THEOREM TypeCorrect == Spec => []TypeOK
<1>1. IInv => TypeOK
  BY DEF IInv
<1> QED
  BY <1>1, InductiveInvariant, PTL

\* Whatever the capacity, the main program is never preempted between the
\* io_DisableINT and the io_RestoreINT of a queue operation.
THEOREM NeverPreemptedInside == Spec => []NoPreemptionInside
<1>1. IInv => NoPreemptionInside
  <2> SUFFICES ASSUME IInv PROVE NoPreemptionInside
    OBVIOUS
  <2>1. running = "isr" => ~intr
    BY DEF IInv, TypeOK, Depth
  <2>2. running = "isr" /\ call["main"] # "Idle"
          => at["main"] \in {1, Len(Program(call["main"])) + 1}
    <3> SUFFICES ASSUME running = "isr", call["main"] # "Idle"
                 PROVE  at["main"] \in {1, Len(Program(call["main"])) + 1}
      OBVIOUS
    <3>1. "main" \in Context /\ call["main"] \in Operation
          /\ at["main"] \in 1 .. 11
      BY DEF IInv, TypeOK, Context
    <3>2. AtOK("main") /\ Depth("main") = 0
      BY <3>1 DEF IInv
    <3> QED
      BY <3>1, <3>2, Ends
  <2>3. running = "main" => (intr <=> cscnt = 0)
    BY DEF IInv
  <2> QED
    BY <2>1, <2>2, <2>3 DEF NoPreemptionInside
<1> QED
  BY <1>1, InductiveInvariant, PTL
-----------------------------------------------------------------------------
(***************************************************************************)
(* The refinement: each operation takes effect at one of its steps, and    *)
(* every other step of the program leaves the FIFO as it is.               *)
(***************************************************************************)

Data == Elem \cup {NoElem}

\* The n elements from slot h on: Stored for any indices and any memory.
Segment(h, n, d) == [i \in 1 .. n |-> d[(h + i - 1) % Slots]]

\* What is stored is the segment from head to tail, before and after a step.
LEMMA StoredIsSegment ==
  /\ Stored = Segment(head, SizeOf(head, tail), data)
  /\ Stored' = Segment(head', SizeOf(head', tail'), data')
BY DEF Stored, Segment, SizeOf

\* The slot of the i-th element, with at most one turn round the memory.
LEMMA SlotOf ==
  ASSUME NEW h \in Slot, NEW i \in 1 .. Capacity + 1
  PROVE  /\ (h + i - 1) % Slots \in Slot
         /\ (h + i - 1) % Slots = IF h + i - 1 <= Capacity THEN h + i - 1
                                  ELSE h + i - 1 - Slots
<1>1. i - 1 \in 0 .. Capacity /\ h + (i - 1) = h + i - 1
  BY QueueAssumption DEF Slot
<1>2. (h + i - 1) % Slots = IF h + i - 1 <= Capacity THEN h + i - 1
                            ELSE h + i - 1 - Slots
  BY <1>1, Wrap
<1> QED
  BY <1>1, <1>2, QueueAssumption DEF Slot, Slots

\* A segment is a sequence, and its i-th element that of its slot.
LEMMA SegmentSeq ==
  ASSUME NEW h \in Slot, NEW n \in 0 .. Capacity, NEW d \in [Slot -> Data]
  PROVE  /\ Segment(h, n, d) \in Seq(Data)
         /\ Len(Segment(h, n, d)) = n
         /\ \A i \in 1 .. n : Segment(h, n, d)[i] = d[(h + i - 1) % Slots]
<1>1. \A i \in 1 .. n : d[(h + i - 1) % Slots] \in Data
  BY SlotOf, QueueAssumption
<1>2. n \in Nat
  BY QueueAssumption
<1>3. Segment(h, n, d) \in [1 .. n -> Data]
  BY <1>1 DEF Segment
<1>4. Segment(h, n, d) \in Seq(Data)
  BY <1>2, <1>3, SeqDef
<1>5. Len(Segment(h, n, d)) = n
  <2>1. DOMAIN Segment(h, n, d) = 1 .. n
    BY DEF Segment
  <2>2. DOMAIN Segment(h, n, d) = 1 .. Len(Segment(h, n, d))
        /\ Len(Segment(h, n, d)) \in Nat
    BY <1>4, LenProperties
  <2> QED
    BY <1>2, <2>1, <2>2
<1> QED
  BY <1>4, <1>5 DEF Segment

\* A memory that differs only outside the segment holds the same elements.
LEMMA SegmentKept ==
  ASSUME NEW h \in Slot, NEW n \in 0 .. Capacity, NEW d, NEW dd,
         \A i \in Slot : i # (h + n) % Slots => dd[i] = d[i]
  PROVE  Segment(h, n, dd) = Segment(h, n, d)
<1>1. ASSUME NEW i \in 1 .. n
      PROVE  (h + i - 1) % Slots \in Slot /\ (h + i - 1) % Slots # (h + n) % Slots
  <2>1. i \in 1 .. Capacity + 1 /\ i - 1 < n
    BY QueueAssumption
  <2>2. (h + n) % Slots = IF h + n <= Capacity THEN h + n ELSE h + n - Slots
    BY Wrap
  <2>3. /\ (h + i - 1) % Slots \in Slot
        /\ (h + i - 1) % Slots = IF h + i - 1 <= Capacity THEN h + i - 1
                                 ELSE h + i - 1 - Slots
    BY <2>1, SlotOf
  <2> QED
    BY <2>1, <2>2, <2>3, QueueAssumption DEF Slot, Slots
<1> QED
  BY <1>1 DEF Segment

\* One slot more at the end is an Append.
LEMMA SegmentAppend ==
  ASSUME NEW h \in Slot, NEW n \in 0 .. Capacity - 1, NEW d \in [Slot -> Data]
  PROVE  Segment(h, n + 1, d) = Append(Segment(h, n, d), d[(h + n) % Slots])
<1>1. n \in 0 .. Capacity /\ n + 1 \in 0 .. Capacity /\ n \in Nat
  BY QueueAssumption
<1>2. /\ Segment(h, n, d) \in Seq(Data) /\ Len(Segment(h, n, d)) = n
      /\ \A i \in 1 .. n : Segment(h, n, d)[i] = d[(h + i - 1) % Slots]
  BY <1>1, SegmentSeq
<1>3. h + (n + 1) - 1 = h + n
  BY <1>1 DEF Slot
<1>4. Append(Segment(h, n, d), d[(h + n) % Slots])
        = [i \in 1 .. n + 1 |-> IF i = n + 1 THEN d[(h + n) % Slots]
                                ELSE Segment(h, n, d)[i]]
  BY <1>1, <1>2
<1>5. \A i \in 1 .. n + 1 :
        d[(h + i - 1) % Slots] = IF i = n + 1 THEN d[(h + n) % Slots]
                                 ELSE Segment(h, n, d)[i]
  BY <1>1, <1>2, <1>3
<1> QED
  BY <1>4, <1>5 DEF Segment

\* One slot less at the front is a Tail.
LEMMA SegmentTail ==
  ASSUME NEW h \in Slot, NEW n \in 1 .. Capacity, NEW d \in [Slot -> Data]
  PROVE  /\ Segment(h, n, d) # <<>>
         /\ Head(Segment(h, n, d)) = d[h]
         /\ Segment((h + 1) % Slots, n - 1, d) = Tail(Segment(h, n, d))
<1> DEFINE s == Segment(h, n, d)
           g == (h + 1) % Slots
           t == Segment(g, n - 1, d)
<1>1. n \in 0 .. Capacity /\ n - 1 \in 0 .. Capacity /\ n \in Nat /\ g \in Slot
  BY WrapOne, QueueAssumption
<1>2. s \in Seq(Data) /\ Len(s) = n /\ \A i \in 1 .. n : s[i] = d[(h + i - 1) % Slots]
  BY <1>1, SegmentSeq
<1>3. t \in Seq(Data) /\ Len(t) = n - 1
      /\ \A i \in 1 .. n - 1 : t[i] = d[(g + i - 1) % Slots]
  BY <1>1, SegmentSeq
<1>4. s # <<>>
  BY <1>1, <1>2, EmptySeq
<1>5. /\ Tail(s) \in Seq(Data) /\ Len(Tail(s)) = n - 1
      /\ \A i \in 1 .. n - 1 : Tail(s)[i] = s[i + 1]
  BY <1>2, <1>4, HeadTailProperties
<1>6. \A i \in 1 .. n - 1 : (g + i - 1) % Slots = (h + (i + 1) - 1) % Slots
  <2> SUFFICES ASSUME NEW i \in 1 .. n - 1
               PROVE  (g + i - 1) % Slots = (h + (i + 1) - 1) % Slots
    OBVIOUS
  <2>1. i \in 1 .. Capacity + 1 /\ i + 1 \in 1 .. Capacity + 1
    BY QueueAssumption
  <2>2. (g + i - 1) % Slots = IF g + i - 1 <= Capacity THEN g + i - 1
                              ELSE g + i - 1 - Slots
    BY <1>1, <2>1, SlotOf
  <2>3. (h + (i + 1) - 1) % Slots = IF h + (i + 1) - 1 <= Capacity
                                    THEN h + (i + 1) - 1
                                    ELSE h + (i + 1) - 1 - Slots
    BY <2>1, SlotOf
  <2>4. g = IF h = Capacity THEN 0 ELSE h + 1
    BY WrapOne
  <2> HIDE DEF g
  <2> QED
    BY <2>1, <2>2, <2>3, <2>4, QueueAssumption DEF Slot, Slots
<1>7. \A i \in 1 .. n - 1 : t[i] = Tail(s)[i]
  <2> HIDE DEF s, t, g
  <2>1. ASSUME NEW i \in 1 .. n - 1 PROVE i + 1 \in 1 .. n
    BY <1>1
  <2> QED
    BY <1>2, <1>3, <1>5, <1>6, <2>1
<1>8. t = Tail(s)
  <2> HIDE DEF s, t, g
  <2> QED
    BY <1>3, <1>5, <1>7, SeqEqual
<1>9. Head(s) = d[h]
  <2>1. Head(s) = s[1] /\ 1 \in 1 .. n /\ h + 1 - 1 = h
    BY <1>1, <1>2, <1>4 DEF Slot
  <2>2. h % Slots = h
    BY QueueAssumption DEF Slot, Slots
  <2> QED
    BY <1>2, <2>1, <2>2
<1> QED
  BY <1>4, <1>8, <1>9

\* A segment of length 0 is empty.
LEMMA SegmentEmpty ==
  ASSUME NEW h, NEW d
  PROVE  Segment(h, 0, d) = <<>>
BY DEF Segment

-----------------------------------------------------------------------------
\* What the FIFO holds.
Contents == IF HalfCleared THEN <<>> ELSE Stored

OthersStill(c) ==
  \A d \in Context \ {c} : at'[d] = at[d] /\ local'[d] = local[d]

\* No context but the running one is in the middle of a ClearQueue.
LEMMA ClearingAlone ==
  ASSUME IInv, NEW c \in Context, running = c,
         ~(call[c] = "Clear" /\ at[c] = 3)
  PROVE  ~HalfCleared
<1>1. ASSUME NEW d \in Context, d # c PROVE Depth(d) = 0
  BY <1>1 DEF IInv, Context, Depth, Place, Query
<1>2. ASSUME NEW d \in Context, call[d] = "Clear", at[d] = 3 PROVE Depth(d) = 1
  BY <1>2 DEF Depth, Place, Query
<1> QED
  BY <1>1, <1>2 DEF HalfCleared

\* Outside of ClearQueue, the mapped contents are what is stored.
LEMMA ContentsStored ==
  ASSUME IInv, NEW c \in Context, running = c,
         ~(call[c] = "Clear" /\ at[c] = 3)
  PROVE  /\ Contents = Segment(head, SizeOf(head, tail), data)
         /\ Contents \in Seq(Data) /\ Len(Contents) = SizeOf(head, tail)
<1>1. Contents = Segment(head, SizeOf(head, tail), data)
  BY ClearingAlone, StoredIsSegment DEF Contents
<1>2. head \in Slot /\ tail \in Slot /\ data \in [Slot -> Data]
  BY DEF IInv, TypeOK, Data
<1>3. SizeOf(head, tail) \in 0 .. Capacity
  BY <1>2, SizeRange
<1> QED
  BY <1>1, <1>2, <1>3, SegmentSeq

\* What the call of d will return, Pending before it takes effect.
ResultOf(d) ==
  IF call[d] = "Idle" THEN NoElem
  ELSE IF at[d] > EffectAt(call[d]) THEN Returned(d) ELSE Pending

\* The mapped results, by context.
LEMMA Results ==
  /\ ResultSoFar = [d \in Context |-> ResultOf(d)]
  /\ ResultSoFar' = [d \in Context |-> ResultOf(d)']
BY DEF ResultSoFar, ResultOf

\* A result depends on the locals of its own call alone.
LEMMA ReturnedKept ==
  ASSUME NEW d, call'[d] = call[d], local'[d] = local[d]
  PROVE  Returned(d)' = Returned(d)
BY Zenon DEF Returned, IsEmpty, IsFull, SizeOf

\* The effect of a call is at the same step as long as the call goes on.
LEMMA EffectKept ==
  ASSUME NEW d, call'[d] = call[d]
  PROVE  EffectAt(call[d])' = EffectAt(call[d])
BY Zenon DEF EffectAt

\* A context that makes no step keeps its mapped result.
LEMMA OtherResult ==
  ASSUME NEW d, call'[d] = call[d], at'[d] = at[d], local'[d] = local[d]
  PROVE  ResultOf(d)' = ResultOf(d)
BY ReturnedKept, EffectKept DEF ResultOf

\* A step that is not the one at which the operation takes effect leaves every
\* result as it is, unless it changes what the operation will return.
LEMMA ResultKept ==
  ASSUME NEW c \in Context, Stepping(c), OthersStill(c),
         at[c] # EffectAt(call[c]), EffectAt(call[c]) \in Nat,
         at[c] > EffectAt(call[c]) => Returned(c)' = Returned(c)
  PROVE  ResultSoFar' = ResultSoFar
<1>1. \A d \in Context : d # c => ResultOf(d)' = ResultOf(d)
  BY OtherResult DEF Stepping, OthersStill
<1>2. ResultOf(c)' = ResultOf(c)
  <2>1. at[c] > EffectAt(call[c]) <=> at'[c] > EffectAt(call[c])
    BY DEF Stepping
  <2>2. call'[c] = call[c] /\ call[c] # "Idle"
    BY DEF Stepping, Operation
  <2> QED
    BY <2>1, <2>2, EffectKept DEF ResultOf
<1> QED
  BY <1>1, <1>2, Results

\* The step at which the operation takes effect gives it its result.
LEMMA ResultSet ==
  ASSUME NEW c \in Context, Stepping(c), OthersStill(c),
         at[c] = EffectAt(call[c]), EffectAt(call[c]) \in Nat
  PROVE  /\ ResultSoFar[c] = Pending
         /\ ResultSoFar' = [ResultSoFar EXCEPT ![c] = Returned(c)']
<1>1. \A d \in Context : d # c => ResultOf(d)' = ResultOf(d)
  BY OtherResult DEF Stepping, OthersStill
<1>2. call'[c] = call[c] /\ call[c] # "Idle"
  BY DEF Stepping, Operation
<1>3. ~(at[c] > EffectAt(call[c])) /\ at'[c] > EffectAt(call[c])
  BY DEF Stepping
<1>4. ResultOf(c) = Pending /\ ResultOf(c)' = Returned(c)'
  BY <1>2, <1>3, EffectKept DEF ResultOf
<1> QED
  BY <1>1, <1>4, Results

\* Where each operation takes effect.
LEMMA Effects ==
  /\ EffectAt("Push") = 7 /\ EffectAt("Pop") = 9 /\ EffectAt("Peek") = 6
  /\ EffectAt("Clear") = 2
  /\ \A op \in {"Size", "Empty", "Full"} : EffectAt(op) = 3
BY DEF EffectAt

\* Steps that the FIFO does not see.
LEMMA Unseen ==
  ASSUME Contents' = Contents, call' = call, arg' = arg,
         ResultSoFar' = ResultSoFar
  PROVE  UNCHANGED Fifo!vars
BY DEF Fifo!vars, Contents

\* Every operation has its effect at one of its steps.
LEMMA EffectIsStep == \A op \in Operation : EffectAt(op) \in 2 .. 9
BY Effects DEF Operation

\* Nobody is between the two resets when a context is at another step.
LEMMA NotClearing ==
  ASSUME IInv, NEW c \in Context, Stepping(c), OthersStill(c),
         call[c] = "Clear" => at[c] \notin {2, 3}
  PROVE  ~HalfCleared /\ ~HalfCleared'
<1>1. ~HalfCleared
  BY ClearingAlone DEF Stepping
<1>2. ~(call'[c] = "Clear" /\ at'[c] = 3)
  BY DEF Stepping
<1>3. \A d \in Context : d # c => call'[d] = call[d] /\ at'[d] = at[d]
  BY DEF Stepping, OthersStill
<1> QED
  BY <1>1, <1>2, <1>3 DEF HalfCleared

\* A step the FIFO does not see: it moves no stored element and it is neither
\* the effect of its operation nor a change of an answer already given.
LEMMA UnseenStep ==
  ASSUME IInv, NEW c \in Context, Stepping(c), OthersStill(c),
         call[c] = "Clear" => at[c] \notin {2, 3},
         at[c] # EffectAt(call[c]),
         at[c] > EffectAt(call[c]) => local'[c] = local[c],
         Stored' = Stored
  PROVE  UNCHANGED Fifo!vars
<1>1. Contents' = Contents
  BY NotClearing DEF Contents
<1>2. call' = call /\ arg' = arg /\ call[c] \in Operation
  BY DEF Stepping
<1>3. EffectAt(call[c]) \in Nat
  BY <1>2, EffectIsStep
<1>4. ResultSoFar' = ResultSoFar
  BY <1>2, <1>3, ReturnedKept, ResultKept
<1> QED
  BY <1>1, <1>2, <1>4, Unseen

\* What is stored depends on head, tail and memory alone.
LEMMA SameStored ==
  ASSUME head' = head, tail' = tail, data' = data
  PROVE  Stored' = Stored
BY StoredIsSegment

\* What a step of the running context leaves alone in the other.
LEMMA StepFrame ==
  ASSUME IInv, NEW c \in Context, NEW name, Executes(c, name),
         local' = local \/ \E r : local' = [local EXCEPT ![c] = r]
  PROVE  Stepping(c) /\ OthersStill(c)
BY Executing, OthersStay DEF OthersStill

\* The lock's steps do not show in the FIFO.
LEMMA LockUnseen ==
  ASSUME IInv, NEW c \in Context, Disable(c) \/ Restore(c)
  PROVE  UNCHANGED Fifo!vars
<1>1. /\ Executes(c, "Disable") \/ Executes(c, "Restore")
      /\ head' = head /\ tail' = tail /\ data' = data /\ local' = local
  BY DEF Disable, Restore, shared
<1>2. Stepping(c) /\ OthersStill(c)
  BY <1>1, StepFrame
<1>3. \/ Place(c, "Push", {1, 2, 5, 8}) \/ Place(c, "Pop", {1, 2, 3, 6, 8, 10})
      \/ Place(c, "Peek", {1, 2, 5, 7}) \/ Place(c, "Clear", {1, 4})
      \/ (Query(c) /\ at[c] \in {1, 4})
  BY <1>1, Places DEF Executes, IInv, TypeOK, Place
<1>4. at[c] # EffectAt(call[c])
  BY <1>3, Effects DEF Place, Query
<1>5. call[c] = "Clear" => at[c] \notin {2, 3}
  BY <1>3 DEF Place, Query
<1> QED
  BY <1>1, <1>2, <1>4, <1>5, SameStored, UnseenStep

\* Nor does reading head.
LEMMA ReadHeadUnseen ==
  ASSUME IInv, NEW c \in Context, ReadHead(c)
  PROVE  UNCHANGED Fifo!vars
<1>1. /\ Executes(c, "ReadHead")
      /\ head' = head /\ tail' = tail /\ data' = data
      /\ \E r : local' = [local EXCEPT ![c] = r]
  BY DEF ReadHead, shared
<1>2. Stepping(c) /\ OthersStill(c)
  BY <1>1, StepFrame
<1>3. \/ Place(c, "Push", {3}) \/ Place(c, "Pop", {4})
      \/ Place(c, "Peek", {3}) \/ (Query(c) /\ at[c] = 2)
  BY <1>1, Places DEF Executes, IInv, TypeOK
<1>4. at[c] < EffectAt(call[c])
  BY <1>3, Effects DEF Place, Query
<1>5. EffectAt(call[c]) \in Nat /\ at[c] \in Nat
  BY <1>2, EffectIsStep DEF Stepping
<1>6. call[c] # "Clear"
  BY <1>3 DEF Place, Query
<1> QED
  BY <1>1, <1>2, <1>4, <1>5, <1>6, SameStored, UnseenStep

-----------------------------------------------------------------------------
\* The step at which an operation takes effect gives the answer of the FIFO.
LEMMA Answers ==
  ASSUME NEW c \in Context, Stepping(c), OthersStill(c), at[c] = EffectAt(call[c])
  PROVE  Fifo!Answer(c, Returned(c)')
<1>1. call[c] \in Operation /\ call' = call /\ arg' = arg
  BY DEF Stepping
<1>2. EffectAt(call[c]) \in Nat
  BY <1>1, EffectIsStep
<1> QED
  BY <1>1, <1>2, ResultSet DEF Fifo!Answer

\* The contents are empty when their length is 0.
LEMMA ContentsEmpty ==
  ASSUME Contents \in Seq(Data)
  PROVE  Contents = <<>> <=> Len(Contents) = 0
BY EmptySeq

\* QueueSize, QueueEmpty and QueueFull answer when they read the tail.
LEMMA QueryEffect ==
  ASSUME IInv, NEW c \in Context, ReadTail(c), Query(c)
  PROVE  Fifo!Query(c)
<1>1. /\ Executes(c, "ReadTail") /\ local' = [local EXCEPT ![c].t = tail]
      /\ head' = head /\ tail' = tail /\ data' = data
  BY DEF ReadTail, shared
<1>2. Stepping(c) /\ OthersStill(c)
  BY <1>1, StepFrame
<1>3. at[c] = 3
  BY <1>1, Places DEF Executes, IInv, TypeOK, Place, Query
<1>4. Fifo!Answer(c, Returned(c)')
  BY <1>2, <1>3, Effects, Answers DEF Query
<1>5. local[c].h = head
  BY <1>2, <1>3 DEF Stepping, LocalsOK, QueryOK
<1>6. local'[c].h = head /\ local'[c].t = tail
  BY <1>1, <1>5 DEF IInv, TypeOK
<1>7. /\ Contents \in Seq(Data) /\ Len(Contents) = SizeOf(head, tail)
  BY <1>2, ContentsStored DEF Stepping, Query
<1>8. Contents' = Contents
  BY <1>1, <1>2, NotClearing, SameStored DEF Contents, Query
<1>9. /\ IsEmpty(head, tail) <=> Contents = <<>>
      /\ IsFull(head, tail) <=> Len(Contents) = Capacity
  BY <1>7, ContentsEmpty, SizeRange DEF IInv, TypeOK
<1>10. call'[c] = call[c]
  BY <1>2 DEF Stepping
<1>11. CASE call[c] = "Size"
  <2>1. Returned(c)' = SizeOf(head, tail)
    BY Zenon, <1>6, <1>10, <1>11 DEF Returned, SizeOf
  <2> QED
    BY <1>4, <1>7, <1>8, <1>11, <2>1 DEF Fifo!Query, Contents
<1>12. CASE call[c] = "Empty"
  <2>1. Returned(c)' = (head = tail)
    BY Zenon, <1>6, <1>10, <1>12 DEF Returned, IsEmpty
  <2>2. (head = tail) = (Contents = <<>>)
    BY Zenon, <1>9 DEF IsEmpty
  <2> QED
    BY <1>4, <1>8, <1>12, <2>1, <2>2 DEF Fifo!Query, Contents
<1>13. CASE call[c] = "Full"
  <2>1. Returned(c)' = ((tail + 1) % Slots = head)
    BY Zenon, <1>6, <1>10, <1>13 DEF Returned, IsFull
  <2>2. ((tail + 1) % Slots = head) = (Len(Contents) = Capacity)
    BY Zenon, <1>9 DEF IsFull
  <2> QED
    BY <1>4, <1>8, <1>13, <2>1, <2>2 DEF Fifo!Query, Contents
<1> QED
  BY <1>11, <1>12, <1>13 DEF Query

\* Nor does reading tail, where it is not the effect of a query.
LEMMA ReadTailUnseen ==
  ASSUME IInv, NEW c \in Context, ReadTail(c), ~Query(c)
  PROVE  UNCHANGED Fifo!vars
<1>1. /\ Executes(c, "ReadTail")
      /\ head' = head /\ tail' = tail /\ data' = data
      /\ \E r : local' = [local EXCEPT ![c] = r]
  BY DEF ReadTail, shared
<1>2. Stepping(c) /\ OthersStill(c)
  BY <1>1, StepFrame
<1>3. \/ Place(c, "Push", {4}) \/ Place(c, "Pop", {5}) \/ Place(c, "Peek", {4})
  BY <1>1, Places DEF Executes, IInv, TypeOK
<1>4. at[c] < EffectAt(call[c])
  BY <1>3, Effects DEF Place
<1>5. EffectAt(call[c]) \in Nat /\ at[c] \in Nat
  BY <1>2, EffectIsStep DEF Stepping
<1>6. call[c] # "Clear"
  BY <1>3 DEF Place
<1> QED
  BY <1>1, <1>2, <1>4, <1>5, <1>6, SameStored, UnseenStep

\* The element stored at the tail is not yet in the queue.
LEMMA StoreUnseen ==
  ASSUME IInv, NEW c \in Context, Store(c)
  PROVE  UNCHANGED Fifo!vars
<1>1. /\ Executes(c, "Store") /\ head' = head /\ tail' = tail /\ local' = local
      /\ data' = data \/ data' = [data EXCEPT ![tail] = arg[c]]
  BY DEF Store
<1>2. Stepping(c) /\ OthersStill(c)
  BY <1>1, StepFrame
<1>3. call[c] = "Push" /\ at[c] = 6
  BY <1>1, Places DEF Executes, IInv, TypeOK, Place
<1>4. Stored' = Stored
  <2>1. head \in Slot /\ tail \in Slot /\ data \in [Slot -> Data]
    BY DEF IInv, TypeOK, Data
  <2>2. SizeOf(head, tail) \in 0 .. Capacity
        /\ (head + SizeOf(head, tail)) % Slots = tail
    BY <2>1, SizeRange
  <2>3. \A i \in Slot : i # tail => data'[i] = data[i]
    BY <1>1, <2>1
  <2>4. Segment(head, SizeOf(head, tail), data')
          = Segment(head, SizeOf(head, tail), data)
    BY <2>1, <2>2, <2>3, SegmentKept
  <2> QED
    BY <1>1, <2>4, StoredIsSegment
<1> QED
  BY <1>1, <1>2, <1>3, <1>4, Effects, UnseenStep

\* PushBufQueue takes effect when it advances the tail.
LEMMA PushEffect ==
  ASSUME IInv, NEW c \in Context, AdvanceTail(c)
  PROVE  Fifo!Push(c)
<1>1. /\ Executes(c, "AdvanceTail") /\ head' = head /\ data' = data
      /\ local' = local \/ \E r : local' = [local EXCEPT ![c] = r]
      /\ IsFull(local[c].h, local[c].t) => tail' = tail /\ local' = local
      /\ ~IsFull(local[c].h, local[c].t) =>
           /\ tail' = (tail + 1) % Slots
           /\ local' = [local EXCEPT ![c].ret = TRUE]
  BY DEF AdvanceTail
<1>2. Stepping(c) /\ OthersStill(c)
  BY <1>1, StepFrame
<1>3. call[c] = "Push" /\ at[c] = 7
  BY <1>1, Places DEF Executes, IInv, TypeOK, Place
<1>4. Fifo!Answer(c, Returned(c)')
  BY <1>2, <1>3, Effects, Answers
<1>5. /\ local[c].h = head /\ local[c].t = tail /\ local[c].ret = FALSE
      /\ IsFull(head, tail) \/ data[tail] = arg[c]
  BY <1>2, <1>3 DEF Stepping, LocalsOK, PushOK
<1>6. head \in Slot /\ tail \in Slot /\ data \in [Slot -> Data]
  BY DEF IInv, TypeOK, Data
<1>7. /\ Contents = Segment(head, SizeOf(head, tail), data)
      /\ Contents \in Seq(Data) /\ Len(Contents) = SizeOf(head, tail)
  BY <1>2, <1>3, ContentsStored DEF Stepping
<1>8. Contents' = Segment(head, SizeOf(head, tail'), data)
  BY <1>1, <1>2, <1>3, NotClearing, StoredIsSegment DEF Contents
<1>9. /\ SizeOf(head, tail) \in 0 .. Capacity
      /\ IsFull(head, tail) <=> SizeOf(head, tail) = Capacity
      /\ (head + SizeOf(head, tail)) % Slots = tail
  BY <1>6, SizeRange
<1>10. call'[c] = "Push"
  BY <1>2, <1>3 DEF Stepping
<1>11. Returned(c)' = local'[c].ret
  BY Zenon, <1>10 DEF Returned
<1>12. CASE IsFull(head, tail)
  <2>1. Returned(c)' = FALSE /\ Contents' = Contents
    BY <1>1, <1>5, <1>7, <1>8, <1>11, <1>12
  <2>2. ~(Len(Contents) < Capacity)
    BY <1>7, <1>9, <1>12, QueueAssumption
  <2>3. (Len(Contents) < Capacity) = FALSE
    BY <2>2
  <2> QED
    BY <1>3, <1>4, <2>1, <2>3 DEF Fifo!Push, Contents
<1>13. CASE ~IsFull(head, tail)
  <2>1. local'[c].ret = TRUE
    BY <1>1, <1>5, <1>13 DEF IInv, TypeOK
  <2>2. Len(Contents) < Capacity
    BY <1>7, <1>9, <1>13, QueueAssumption
  <2>3. Returned(c)' = (Len(Contents) < Capacity)
    BY Zenon, <1>11, <2>1, <2>2
  <2>4. Contents' = Append(Contents, arg[c])
    <3>1. SizeOf(head, tail') = SizeOf(head, tail) + 1
      BY <1>1, <1>5, <1>6, <1>13, SizeMoves
    <3>2. SizeOf(head, tail) \in 0 .. Capacity - 1
      BY <1>9, <1>13, QueueAssumption
    <3>3. data[(head + SizeOf(head, tail)) % Slots] = arg[c]
      BY <1>5, <1>9, <1>13
    <3> QED
      BY <1>6, <1>7, <1>8, <3>1, <3>2, <3>3, SegmentAppend
  <2> QED
    BY <1>3, <1>4, <2>2, <2>3, <2>4 DEF Fifo!Push, Contents
<1> QED
  BY <1>12, <1>13

\* PeekBufQueue takes effect when it copies the head slot.
LEMMA PeekEffect ==
  ASSUME IInv, NEW c \in Context, Load(c), call[c] = "Peek"
  PROVE  Fifo!Peek(c)
<1>1. /\ Executes(c, "Load") /\ head' = head /\ tail' = tail /\ data' = data
      /\ local' = local \/ \E r : local' = [local EXCEPT ![c] = r]
      /\ IsEmpty(local[c].h, local[c].t) => local' = local
      /\ ~IsEmpty(local[c].h, local[c].t) =>
           local' = [local EXCEPT ![c].elem = data[head], ![c].ret = TRUE]
  BY DEF Load, shared
<1>2. Stepping(c) /\ OthersStill(c)
  BY <1>1, StepFrame
<1>3. at[c] = 6
  BY <1>1, Places DEF Executes, IInv, TypeOK, Place
<1>4. Fifo!Answer(c, Returned(c)')
  BY <1>2, <1>3, Effects, Answers
<1>5. local[c].h = head /\ local[c].t = tail /\ local[c].elem = NoElem
  BY <1>2, <1>3 DEF Stepping, LocalsOK, PeekOK
<1>6. head \in Slot /\ tail \in Slot /\ data \in [Slot -> Data]
  BY DEF IInv, TypeOK, Data
<1>7. /\ Contents = Segment(head, SizeOf(head, tail), data)
      /\ Contents \in Seq(Data) /\ Len(Contents) = SizeOf(head, tail)
  BY <1>2, ContentsStored DEF Stepping
<1>8. Contents' = Contents
  BY <1>1, <1>2, NotClearing, SameStored DEF Contents
<1>9. /\ SizeOf(head, tail) \in 0 .. Capacity
      /\ IsEmpty(head, tail) <=> SizeOf(head, tail) = 0
  BY <1>6, SizeRange
<1>10. call'[c] = "Peek"
  BY <1>2 DEF Stepping
<1>11. Returned(c)' = local'[c].elem
  BY Zenon, <1>10 DEF Returned
<1>12. CASE IsEmpty(head, tail)
  <2>1. Contents = <<>>
    BY <1>7, <1>9, <1>12, ContentsEmpty
  <2>2. Returned(c)' = NoElem
    BY <1>1, <1>5, <1>11, <1>12
  <2> QED
    BY <1>4, <1>8, <2>1, <2>2 DEF Fifo!Peek, Contents
<1>13. CASE ~IsEmpty(head, tail)
  <2>1. Contents # <<>> /\ Head(Contents) = data[head]
    BY <1>6, <1>7, <1>9, <1>13, SegmentTail
  <2>2. Returned(c)' = data[head]
    BY <1>1, <1>5, <1>11, <1>13 DEF IInv, TypeOK
  <2> QED
    BY <1>4, <1>8, <2>1, <2>2 DEF Fifo!Peek, Contents
<1> QED
  BY <1>12, <1>13

\* The peek inside a PopBufQueue reads the head slot and leaves it there.
LEMMA LoadUnseen ==
  ASSUME IInv, NEW c \in Context, Load(c), call[c] # "Peek"
  PROVE  UNCHANGED Fifo!vars
<1>1. /\ Executes(c, "Load") /\ head' = head /\ tail' = tail /\ data' = data
      /\ local' = local \/ \E r : local' = [local EXCEPT ![c] = r]
  BY DEF Load, shared
<1>2. Stepping(c) /\ OthersStill(c)
  BY <1>1, StepFrame
<1>3. call[c] = "Pop" /\ at[c] = 7
  BY <1>1, Places DEF Executes, IInv, TypeOK, Place
<1> QED
  BY <1>1, <1>2, <1>3, Effects, SameStored, UnseenStep

\* PopBufQueue takes effect when it advances the head, past the element its
\* peek has copied.
LEMMA PopEffect ==
  ASSUME IInv, NEW c \in Context, AdvanceHead(c)
  PROVE  Fifo!Pop(c)
<1>1. /\ Executes(c, "AdvanceHead") /\ tail' = tail /\ data' = data /\ local' = local
      /\ head' = IF local[c].ret THEN (head + 1) % Slots ELSE head
  BY DEF AdvanceHead
<1>2. Stepping(c) /\ OthersStill(c)
  BY <1>1, StepFrame
<1>3. call[c] = "Pop" /\ at[c] = 9
  BY <1>1, Places DEF Executes, IInv, TypeOK, Place
<1>4. Fifo!Answer(c, Returned(c)')
  BY <1>2, <1>3, Effects, Answers
<1>5. IF head = tail THEN local[c].ret = FALSE /\ local[c].elem = NoElem
      ELSE local[c].ret = TRUE /\ local[c].elem = data[head]
  BY <1>2, <1>3 DEF Stepping, LocalsOK, PopOK
<1>6. head \in Slot /\ tail \in Slot /\ data \in [Slot -> Data]
  BY DEF IInv, TypeOK, Data
<1>7. /\ Contents = Segment(head, SizeOf(head, tail), data)
      /\ Contents \in Seq(Data) /\ Len(Contents) = SizeOf(head, tail)
  BY <1>2, <1>3, ContentsStored DEF Stepping
<1>8. Contents' = Segment(head', SizeOf(head', tail), data)
  BY <1>1, <1>2, <1>3, NotClearing, StoredIsSegment DEF Contents
<1>9. /\ SizeOf(head, tail) \in 0 .. Capacity
      /\ head = tail <=> SizeOf(head, tail) = 0
  BY <1>6, SizeRange DEF IsEmpty
<1>10. call'[c] = "Pop"
  BY <1>2, <1>3 DEF Stepping
<1>11. Returned(c)' = local[c].elem
  BY Zenon, <1>1, <1>10 DEF Returned
<1>12. CASE head = tail
  <2>1. Contents = <<>>
    BY <1>7, <1>9, <1>12, ContentsEmpty
  <2>2. Returned(c)' = NoElem /\ head' = head
    BY <1>1, <1>5, <1>11, <1>12
  <2>3. Contents' = Contents
    BY <1>7, <1>8, <2>2
  <2> QED
    BY <1>3, <1>4, <2>1, <2>2, <2>3 DEF Fifo!Pop, Contents
<1>13. CASE head # tail
  <2>1. SizeOf(head, tail) \in 1 .. Capacity
    BY <1>9, <1>13, QueueAssumption
  <2>2. /\ Contents # <<>> /\ Head(Contents) = data[head]
        /\ Segment((head + 1) % Slots, SizeOf(head, tail) - 1, data) = Tail(Contents)
    BY <1>6, <1>7, <2>1, SegmentTail
  <2>3. Returned(c)' = data[head] /\ head' = (head + 1) % Slots
    BY <1>1, <1>5, <1>11, <1>13
  <2>4. SizeOf(head', tail) = SizeOf(head, tail) - 1
    BY <1>6, <1>13, <2>3, SizeMoves
  <2>5. Contents' = Tail(Contents)
    BY <1>8, <2>2, <2>3, <2>4
  <2> QED
    BY <1>3, <1>4, <2>2, <2>3, <2>5 DEF Fifo!Pop, Contents
<1> QED
  BY <1>12, <1>13

\* ClearQueue takes effect when it resets the head...
LEMMA ClearEffect ==
  ASSUME IInv, NEW c \in Context, ResetHead(c)
  PROVE  Fifo!Clear(c)
<1>1. Executes(c, "ResetHead") /\ local' = local
  BY DEF ResetHead
<1>2. Stepping(c) /\ OthersStill(c)
  BY <1>1, StepFrame
<1>3. call[c] = "Clear" /\ at[c] = 2
  BY <1>1, Places DEF Executes, IInv, TypeOK, Place
<1>4. Fifo!Answer(c, Returned(c)')
  BY <1>2, <1>3, Effects, Answers
<1>5. call'[c] = "Clear" /\ at'[c] = 3
  BY <1>2, <1>3 DEF Stepping
<1>6. Contents' = <<>>
  BY <1>5 DEF Contents, HalfCleared
<1>7. Returned(c)' = NoElem
  BY Zenon, <1>5 DEF Returned
<1> QED
  BY <1>3, <1>4, <1>6, <1>7 DEF Fifo!Clear, Contents

\* ... and the reset of the tail makes the indices say so.
LEMMA ResetTailUnseen ==
  ASSUME IInv, NEW c \in Context, ResetTail(c)
  PROVE  UNCHANGED Fifo!vars
<1>1. /\ Executes(c, "ResetTail") /\ local' = local
      /\ tail' = 0 /\ head' = head /\ data' = data
  BY DEF ResetTail
<1>2. Stepping(c) /\ OthersStill(c)
  BY <1>1, StepFrame
<1>3. call[c] = "Clear" /\ at[c] = 3
  BY <1>1, Places DEF Executes, IInv, TypeOK, Place
<1>4. head = 0
  BY <1>2, <1>3 DEF Stepping, LocalsOK, ClearOK
<1>5. Contents = <<>>
  BY <1>3 DEF Contents, HalfCleared
<1>6. Contents' = <<>>
  <2>1. SizeOf(head', tail') = 0
    BY <1>1, <1>4 DEF SizeOf
  <2>2. Stored' = <<>>
    BY <2>1, StoredIsSegment, SegmentEmpty
  <2> QED
    BY <2>2 DEF Contents
<1>7. call' = call /\ arg' = arg
  BY <1>2 DEF Stepping
<1>8. ResultSoFar' = ResultSoFar
  BY <1>1, <1>2, <1>3, <1>7, Effects, ReturnedKept, ResultKept
<1> QED
  BY <1>5, <1>6, <1>7, <1>8, Unseen

-----------------------------------------------------------------------------
\* At a call or a return the queue is what it was, and so is the other call.
LEMMA BoundaryKept ==
  ASSUME IInv, NEW c \in Context, running = c,
         head' = head, tail' = tail, data' = data,
         ~(call[c] = "Clear" /\ at[c] = 3), at'[c] = 1,
         \A d \in Context \ {c} :
           call'[d] = call[d] /\ at'[d] = at[d] /\ local'[d] = local[d]
  PROVE  /\ Contents' = Contents
         /\ ResultSoFar' = [ResultSoFar EXCEPT ![c] = ResultOf(c)']
<1>1. ~HalfCleared
  BY ClearingAlone
<1>2. ~HalfCleared'
  BY <1>1 DEF HalfCleared
<1>3. Contents' = Contents
  BY <1>1, <1>2, SameStored DEF Contents
<1>4. \A d \in Context : d # c => ResultOf(d)' = ResultOf(d)
  BY OtherResult
<1>5. ResultSoFar' = [ResultSoFar EXCEPT ![c] = ResultOf(c)']
  BY <1>4, Results
<1> QED
  BY <1>3, <1>5

\* A call that begins is the FIFO's invocation.
LEMMA InvokeSimulates ==
  ASSUME IInv, NEW c \in Context, NEW op \in Operation, Invoke(c, op)
  PROVE  Fifo!Invoke(c)
<1>1. /\ running = c /\ call[c] = "Idle" /\ call' = [call EXCEPT ![c] = op]
      /\ at' = at /\ local' = local
      /\ head' = head /\ tail' = tail /\ data' = data
  BY DEF Invoke, shared
<1>2. \E e \in IF op = "Push" THEN Elem ELSE {NoElem} :
        arg' = [arg EXCEPT ![c] = e]
  BY DEF Invoke
<1>3. at[c] = 1 /\ call'[c] = op /\ call'[c] # "Idle"
      /\ \A d \in Context \ {c} : call'[d] = call[d]
  BY <1>1 DEF IInv, TypeOK, LocalsOK, Operation
<1>4. /\ Contents' = Contents
      /\ ResultSoFar' = [ResultSoFar EXCEPT ![c] = ResultOf(c)']
  BY <1>1, <1>3, BoundaryKept
<1>5. ResultOf(c)' = Pending
  <2>1. EffectAt(call[c])' = EffectAt(op)
    BY Zenon, <1>3 DEF EffectAt
  <2>2. ~(at'[c] > EffectAt(op))
    BY <1>1, <1>3, EffectIsStep
  <2> QED
    BY <1>3, <2>1, <2>2 DEF ResultOf
<1>6. op \in Fifo!Operation
  BY DEF Operation, Fifo!Operation
<1> QED
  BY <1>1, <1>2, <1>4, <1>5, <1>6 DEF Fifo!Invoke, Contents

\* An answer given is never Pending.
LEMMA AnswerNotPending ==
  ASSUME IInv, NEW c \in Context, call[c] \in Operation
  PROVE  Returned(c) # Pending
<1>1. /\ local[c].ret \in BOOLEAN /\ local[c].elem \in Elem \cup {NoElem}
      /\ local[c].h \in Slot /\ local[c].t \in Slot
  BY DEF IInv, TypeOK
<1>2. CASE call[c] = "Push"
  <2>1. Returned(c) = local[c].ret
    BY Zenon, <1>2 DEF Returned
  <2> QED
    BY Zenon, <1>1, <2>1, PendingAssumption
<1>3. CASE call[c] \in {"Pop", "Peek"}
  <2>1. Returned(c) = local[c].elem
    BY Zenon, <1>3 DEF Returned
  <2> QED
    BY <1>1, <2>1, PendingAssumption
<1>4. CASE call[c] = "Clear"
  <2>1. Returned(c) = NoElem
    BY Zenon, <1>4 DEF Returned
  <2> QED
    BY <2>1, PendingAssumption
<1>5. CASE call[c] = "Size"
  <2>1. Returned(c) = SizeOf(local[c].h, local[c].t)
    BY Zenon, <1>5 DEF Returned
  <2>2. SizeOf(local[c].h, local[c].t) \in 0 .. Capacity
    BY <1>1, SizeRange
  <2> QED
    BY <2>1, <2>2, PendingAssumption
<1>6. CASE call[c] = "Empty"
  <2>1. Returned(c) = (local[c].h = local[c].t)
    BY Zenon, <1>6 DEF Returned, IsEmpty
  <2>2. (local[c].h = local[c].t) \in BOOLEAN
    BY Zenon
  <2> QED
    BY Zenon, <2>1, <2>2, PendingAssumption
<1>7. CASE call[c] = "Full"
  <2>1. Returned(c) = ((local[c].t + 1) % Slots = local[c].h)
    BY Zenon, <1>7 DEF Returned, IsFull
  <2>2. ((local[c].t + 1) % Slots = local[c].h) \in BOOLEAN
    BY Zenon
  <2> QED
    BY Zenon, <2>1, <2>2, PendingAssumption
<1> QED
  BY <1>2, <1>3, <1>4, <1>5, <1>6, <1>7 DEF Operation

\* No operation ends at its effect.
LEMMA LongerThanEffect ==
  \A op \in Operation : Len(Program(op)) + 1 > EffectAt(op) /\ Len(Program(op)) > 3
<1> SUFFICES ASSUME NEW op \in Operation
             PROVE  Len(Program(op)) + 1 > EffectAt(op) /\ Len(Program(op)) > 3
  OBVIOUS
<1>1. CASE op = "Push"
  <2>1. Len(Program(op)) = 8 /\ EffectAt(op) = 7
    BY Zenon, <1>1, Programs, Effects
  <2> QED
    BY <2>1
<1>2. CASE op = "Pop"
  <2>1. Len(Program(op)) = 10 /\ EffectAt(op) = 9
    BY Zenon, <1>2, Programs, Effects
  <2> QED
    BY <2>1
<1>3. CASE op = "Peek"
  <2>1. Len(Program(op)) = 7 /\ EffectAt(op) = 6
    BY Zenon, <1>3, Programs, Effects
  <2> QED
    BY <2>1
<1>4. CASE op = "Clear"
  <2>1. Len(Program(op)) = 4 /\ EffectAt(op) = 2
    BY Zenon, <1>4, Programs, Effects
  <2> QED
    BY <2>1
<1>5. CASE op \in {"Size", "Empty", "Full"}
  <2>1. Len(Program(op)) = 4 /\ EffectAt(op) = 3
    BY Zenon, <1>5, Programs, Effects
  <2> QED
    BY <2>1
<1> QED
  BY <1>1, <1>2, <1>3, <1>4, <1>5 DEF Operation

\* A call that returns is the FIFO's return.
LEMMA ReturnSimulates ==
  ASSUME IInv, NEW c \in Context, Return(c)
  PROVE  Fifo!Return(c)
<1>1. /\ running = c /\ call[c] \in Operation /\ call[c] # "Idle"
      /\ at[c] = Len(Program(call[c])) + 1
      /\ call' = [call EXCEPT ![c] = "Idle"] /\ at' = [at EXCEPT ![c] = 1]
      /\ arg' = [arg EXCEPT ![c] = NoElem]
      /\ local' = [local EXCEPT ![c] = NoLocals]
      /\ head' = head /\ tail' = tail /\ data' = data
  BY DEF Return, IInv, TypeOK, shared
<1>2. at[c] > EffectAt(call[c]) /\ ~(call[c] = "Clear" /\ at[c] = 3)
  <2>1. at[c] > EffectAt(call[c])
    BY <1>1, LongerThanEffect
  <2>2. call[c] = "Clear" => Len(Program(call[c])) = 4
    BY Zenon, Programs
  <2> QED
    BY <1>1, <2>1, <2>2
<1>3. ResultSoFar[c] # Pending
  BY <1>1, <1>2, AnswerNotPending, Results DEF ResultOf
<1>4. /\ at'[c] = 1 /\ call'[c] = "Idle"
      /\ \A d \in Context \ {c} :
           call'[d] = call[d] /\ at'[d] = at[d] /\ local'[d] = local[d]
  BY <1>1 DEF IInv, TypeOK
<1>5. /\ Contents' = Contents
      /\ ResultSoFar' = [ResultSoFar EXCEPT ![c] = ResultOf(c)']
  BY <1>1, <1>2, <1>4, BoundaryKept
<1>6. ResultOf(c)' = NoElem
  BY <1>4 DEF ResultOf
<1> QED
  BY <1>1, <1>3, <1>5, <1>6 DEF Fifo!Return, Contents

\* Entering and leaving the handler does not show.
LEMMA InterruptUnseen ==
  ASSUME InterruptEntry \/ InterruptExit
  PROVE  UNCHANGED Fifo!vars
<1>1. /\ head' = head /\ tail' = tail /\ data' = data
      /\ call' = call /\ at' = at /\ arg' = arg /\ local' = local
  BY DEF InterruptEntry, InterruptExit, shared
<1>2. Contents' = Contents
  BY <1>1, SameStored DEF Contents, HalfCleared
<1>3. ResultSoFar' = ResultSoFar
  BY <1>1, OtherResult, Results
<1> QED
  BY <1>1, <1>2, <1>3, Unseen

-----------------------------------------------------------------------------
\* The initial states are the FIFO's.
LEMMA InitSimulates == Init => Fifo!Init
<1> SUFFICES ASSUME Init PROVE Fifo!Init
  OBVIOUS
<1>1. /\ head = 0 /\ tail = 0 /\ call = [c \in Context |-> "Idle"]
      /\ arg = [c \in Context |-> NoElem]
  BY DEF Init
<1>2. ~HalfCleared
  BY <1>1 DEF HalfCleared
<1>3. SizeOf(head, tail) = 0
  BY <1>1 DEF SizeOf
<1>4. Contents = <<>>
  BY <1>2, <1>3, StoredIsSegment, SegmentEmpty DEF Contents
<1>5. ResultSoFar = [c \in Context |-> NoElem]
  BY <1>1, Results DEF ResultOf
<1> QED
  BY <1>1, <1>4, <1>5 DEF Fifo!Init, Contents

\* Every step is one of the FIFO's, or does not show.
LEMMA StepSimulates == IInv /\ [Next]_vars => [Fifo!Next]_(Fifo!vars)
<1> SUFFICES ASSUME IInv, [Next]_vars
             PROVE  Fifo!Next \/ UNCHANGED Fifo!vars
  OBVIOUS
<1>1. ASSUME NEW c \in Context, Step(c)
      PROVE  Fifo!Next \/ UNCHANGED Fifo!vars
  <2>1. CASE Disable(c) \/ Restore(c)
    BY <2>1, LockUnseen
  <2>2. CASE ReadHead(c)
    BY <2>2, ReadHeadUnseen
  <2>3. CASE ReadTail(c)
    BY <2>3, ReadTailUnseen, QueryEffect DEF Fifo!Next
  <2>4. CASE Store(c)
    BY <2>4, StoreUnseen
  <2>5. CASE AdvanceTail(c)
    BY <2>5, PushEffect DEF Fifo!Next
  <2>6. CASE Load(c)
    BY <2>6, LoadUnseen, PeekEffect DEF Fifo!Next
  <2>7. CASE AdvanceHead(c)
    BY <2>7, PopEffect DEF Fifo!Next
  <2>8. CASE ResetHead(c)
    BY <2>8, ClearEffect DEF Fifo!Next
  <2>9. CASE ResetTail(c)
    BY <2>9, ResetTailUnseen
  <2>10. CASE Return(c)
    BY <2>10, ReturnSimulates DEF Fifo!Next
  <2> QED
    BY <1>1, <2>1, <2>2, <2>3, <2>4, <2>5, <2>6, <2>7, <2>8, <2>9, <2>10 DEF Step
<1>2. ASSUME NEW c \in Context, NEW op \in Operation, Invoke(c, op)
      PROVE  Fifo!Next
  BY <1>2, InvokeSimulates DEF Fifo!Next
<1>3. CASE UNCHANGED vars
  <2>1. /\ head' = head /\ tail' = tail /\ data' = data
        /\ call' = call /\ at' = at /\ arg' = arg /\ local' = local
    BY <1>3 DEF vars
  <2>2. Contents' = Contents
    BY <2>1, SameStored DEF Contents, HalfCleared
  <2>3. ResultSoFar' = ResultSoFar
    BY <2>1, OtherResult, Results
  <2> QED
    BY <2>1, <2>2, <2>3, Unseen
<1> QED
  BY <1>1, <1>2, <1>3, InterruptUnseen DEF Next

\* For every capacity and every set of elements, the queue of queue.cpp behaves
\* as a FIFO with atomic operations, however a handler's calls fall between the
\* steps of the main program's.
THEOREM Refinement == Spec => IsFifo
BY InitSimulates, StepSimulates, InductiveInvariant, PTL
   DEF Spec, IsFifo, Fifo!Spec
=============================================================================
