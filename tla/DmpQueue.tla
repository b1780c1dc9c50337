------------------------------ MODULE DmpQueue -------------------------------
(***************************************************************************)
(* The queue of 86DUINO/core/queue.cpp, one step per access to the shared  *)
(* fields, called by the main program and by an interrupt handler that may *)
(* preempt it wherever interrupts are enabled.  The handler runs to its    *)
(* end before the main program resumes (dos_shared_irq_wrapper, irq.cpp,   *)
(* which sets the nesting counter to 1 on entry and to 0 on exit).         *)
(*                                                                         *)
(* DisableINT and RestoreINT of io_irq.h are one step each here; that the  *)
(* test and the update of irq_cscnt may be taken together is what module   *)
(* IntNesting checks.                                                      *)
(***************************************************************************)
EXTENDS Integers, Sequences

CONSTANTS
  Capacity,   (* the size passed to CreateBufQueue         *)
  Elem,       (* the elements                              *)
  NoElem,     (* contents of a slot never written, no data *)
  Pending     (* not a result                              *)

ASSUME QueueAssumption ==
  /\ Capacity \in Nat \ {0}
  /\ NoElem \notin Elem

\* Pending differs from every answer an operation gives.
ASSUME PendingAssumption ==
  /\ Pending \notin Elem /\ Pending # NoElem
  /\ Pending \notin BOOLEAN /\ Pending \notin 0 .. Capacity

Context == {"main", "isr"}

Operation == {"Push", "Pop", "Peek", "Clear", "Size", "Empty", "Full"}

\* queue->size: one slot more than the capacity tells a full queue from an
\* empty one.
Slots == Capacity + 1

Slot == 0 .. Capacity

VARIABLES
  head, tail,  (* queue->head, queue->tail                                *)
  data,        (* queue->data                                             *)
  cscnt,       (* irq_cscnt, the depth of nested io_DisableINT            *)
  intr,        (* the processor's interrupt flag                          *)
  running,     (* the context that owns the processor                     *)
  call,        (* call[c]: the operation c executes, or "Idle"            *)
  at,          (* at[c]: the next step of that operation                  *)
  arg,         (* arg[c]: the element to push                             *)
  local        (* local[c]: head and tail read, element read, return flag *)

shared == <<head, tail, data>>
nesting == <<cscnt, intr>>
vars == <<head, tail, data, cscnt, intr, running, call, at, arg, local>>

\* PushBufQueue.  Mutant: it tests QueueFull before it takes the lock.
PushCheckThenAct ==
  <<"Disable", "ReadHead", "ReadTail", "Restore", "Disable", "Store",
    "AdvanceTail", "Restore">>
PushSteps ==
  <<"Disable", "Disable", "ReadHead", "ReadTail", "Restore", "Store",
    "AdvanceTail", "Restore">>

\* QueueSize, QueueEmpty, QueueFull.  Mutant: one without its RestoreINT.
QueryKeepsLock == <<"Disable", "ReadHead", "ReadTail">>
QuerySteps == <<"Disable", "ReadHead", "ReadTail", "Restore">>

(***************************************************************************)
(* The steps of each operation, nested calls expanded: PushBufQueue calls  *)
(* QueueFull, PopBufQueue calls PeekBufQueue, which calls QueueEmpty; each *)
(* reads both indices under its own DisableINT/RestoreINT pair.            *)
(***************************************************************************)
Program(op) ==
  CASE op = "Push"  -> PushSteps
    [] op = "Pop"   -> <<"Disable", "Disable", "Disable", "ReadHead",
                         "ReadTail", "Restore", "Load", "Restore",
                         "AdvanceHead", "Restore">>
    [] op = "Peek"  -> <<"Disable", "Disable", "ReadHead", "ReadTail",
                         "Restore", "Load", "Restore">>
    [] op = "Clear" -> <<"Disable", "ResetHead", "ResetTail", "Restore">>
    [] op \in {"Size", "Empty", "Full"} -> QuerySteps

\* What QueueFull, QueueEmpty and QueueSize compute from the indices read.
IsFull(h, t) == (t + 1) % Slots = h

IsEmpty(h, t) == h = t

SizeOf(h, t) == IF h <= t THEN t - h ELSE t + Slots - h

\* The value the caller gets; 0xffff (NoElem) from an empty queue.
Returned(c) ==
  CASE call[c] = "Push"  -> local[c].ret
    [] call[c] \in {"Pop", "Peek"} -> local[c].elem
    [] call[c] = "Clear" -> NoElem
    [] call[c] = "Size"  -> SizeOf(local[c].h, local[c].t)
    [] call[c] = "Empty" -> IsEmpty(local[c].h, local[c].t)
    [] call[c] = "Full"  -> IsFull(local[c].h, local[c].t)

NoLocals == [h |-> 0, t |-> 0, elem |-> NoElem, ret |-> FALSE]

Init ==
  /\ head = 0 /\ tail = 0
  /\ data = [i \in Slot |-> NoElem]
  /\ cscnt = 0 /\ intr = TRUE
  /\ running = "main"
  /\ call = [c \in Context |-> "Idle"]
  /\ at = [c \in Context |-> 1]
  /\ arg = [c \in Context |-> NoElem]
  /\ local = [c \in Context |-> NoLocals]

-----------------------------------------------------------------------------
Invoke(c, op) ==
  /\ running = c /\ call[c] = "Idle"
  /\ call' = [call EXCEPT ![c] = op]
  /\ \E e \in IF op = "Push" THEN Elem ELSE {NoElem} :
       arg' = [arg EXCEPT ![c] = e]
  /\ UNCHANGED <<shared, nesting, running, at, local>>

\* c is about to execute step `name' of its operation.
Executes(c, name) ==
  /\ running = c /\ call[c] # "Idle"
  /\ at[c] \in 1 .. Len(Program(call[c]))
  /\ Program(call[c])[at[c]] = name
  /\ at' = [at EXCEPT ![c] = @ + 1]
  /\ UNCHANGED <<running, call, arg>>

Disable(c) ==
  /\ Executes(c, "Disable")
  /\ cscnt' = cscnt + 1
  /\ intr' = IF cscnt = 0 THEN FALSE ELSE intr
  /\ UNCHANGED <<shared, local>>

Restore(c) ==
  /\ Executes(c, "Restore")
  /\ cscnt' = IF cscnt = 0 THEN 0 ELSE cscnt - 1
  /\ intr' = IF cscnt = 1 THEN TRUE ELSE intr
  /\ UNCHANGED <<shared, local>>

ReadHead(c) ==
  /\ Executes(c, "ReadHead")
  /\ local' = [local EXCEPT ![c].h = head]
  /\ UNCHANGED <<shared, nesting>>

ReadTail(c) ==
  /\ Executes(c, "ReadTail")
  /\ local' = [local EXCEPT ![c].t = tail]
  /\ UNCHANGED <<shared, nesting>>

\* PushBufQueue, the memcpy into the tail slot of a queue that is not full.
Store(c) ==
  /\ Executes(c, "Store")
  /\ data' = IF IsFull(local[c].h, local[c].t) THEN data
             ELSE [data EXCEPT ![tail] = arg[c]]
  /\ UNCHANGED <<head, tail, nesting, local>>

\* Mutant of AdvanceTail: the index is not wrapped.
AdvanceTailUnwrapped(c) ==
  /\ Executes(c, "AdvanceTail")
  /\ IF IsFull(local[c].h, local[c].t)
     THEN UNCHANGED <<tail, local>>
     ELSE /\ tail' = tail + 1
          /\ local' = [local EXCEPT ![c].ret = TRUE]
  /\ UNCHANGED <<head, data, nesting>>

AdvanceTail(c) ==
  /\ Executes(c, "AdvanceTail")
  /\ IF IsFull(local[c].h, local[c].t)
     THEN UNCHANGED <<tail, local>>
     ELSE /\ tail' = (tail + 1) % Slots
          /\ local' = [local EXCEPT ![c].ret = TRUE]
  /\ UNCHANGED <<head, data, nesting>>

\* PeekBufQueue, the memcpy out of the head slot of a queue that is not empty.
Load(c) ==
  /\ Executes(c, "Load")
  /\ local' = IF IsEmpty(local[c].h, local[c].t) THEN local
              ELSE [local EXCEPT ![c].elem = data[head], ![c].ret = TRUE]
  /\ UNCHANGED <<shared, nesting>>

\* PopBufQueue, after a PeekBufQueue that returned true.
AdvanceHead(c) ==
  /\ Executes(c, "AdvanceHead")
  /\ head' = IF local[c].ret THEN (head + 1) % Slots ELSE head
  /\ UNCHANGED <<tail, data, nesting, local>>

ResetHead(c) ==
  /\ Executes(c, "ResetHead")
  /\ head' = 0
  /\ UNCHANGED <<tail, data, nesting, local>>

ResetTail(c) ==
  /\ Executes(c, "ResetTail")
  /\ tail' = 0
  /\ UNCHANGED <<head, data, nesting, local>>

\* The caller has Returned(c); the operation's locals are gone.
Return(c) ==
  /\ running = c /\ call[c] # "Idle"
  /\ at[c] = Len(Program(call[c])) + 1
  /\ call' = [call EXCEPT ![c] = "Idle"]
  /\ at' = [at EXCEPT ![c] = 1]
  /\ arg' = [arg EXCEPT ![c] = NoElem]
  /\ local' = [local EXCEPT ![c] = NoLocals]
  /\ UNCHANGED <<shared, nesting, running>>

\* Mutant of InterruptEntry: the wrapper does not set irq_cscnt to 1.
InterruptEntryUncounted ==
  /\ running = "main" /\ intr
  /\ running' = "isr"
  /\ intr' = FALSE
  /\ UNCHANGED <<shared, cscnt, call, at, arg, local>>

\* An interrupt reaches the main program; the processor clears its flag.
InterruptEntry ==
  /\ running = "main" /\ intr
  /\ running' = "isr"
  /\ intr' = FALSE
  /\ cscnt' = 1
  /\ UNCHANGED <<shared, call, at, arg, local>>

\* The wrapper ends; IRET restores the flag the main program had.
InterruptExit ==
  /\ running = "isr" /\ call["isr"] = "Idle"
  /\ running' = "main"
  /\ intr' = TRUE
  /\ cscnt' = 0
  /\ UNCHANGED <<shared, call, at, arg, local>>

Step(c) ==
  \/ Disable(c) \/ Restore(c) \/ ReadHead(c) \/ ReadTail(c) \/ Store(c)
  \/ AdvanceTail(c) \/ Load(c) \/ AdvanceHead(c) \/ ResetHead(c)
  \/ ResetTail(c) \/ Return(c)

Next ==
  \/ \E c \in Context : Step(c) \/ \E op \in Operation : Invoke(c, op)
  \/ InterruptEntry
  \/ InterruptExit

Spec == Init /\ [][Next]_vars

\* The processor does not stop, and a handler makes finitely many calls: it is
\* between two of them again and again only if it ends some time.
FairSpec ==
  /\ Spec
  /\ \A c \in Context : WF_vars(Step(c))
  /\ SF_vars(InterruptExit)

-----------------------------------------------------------------------------
TypeOK ==
  /\ head \in Slot /\ tail \in Slot
  /\ data \in [Slot -> Elem \cup {NoElem}]
  /\ cscnt \in 0 .. 4 /\ intr \in BOOLEAN
  /\ running \in Context
  /\ call \in [Context -> Operation \cup {"Idle"}]
  /\ at \in [Context -> 1 .. 11]
  /\ arg \in [Context -> Elem \cup {NoElem}]
  /\ local \in [Context -> [h : Slot, t : Slot, elem : Elem \cup {NoElem},
                            ret : BOOLEAN]]

\* The elements between head and tail, oldest first.
Stored ==
  [i \in 1 .. SizeOf(head, tail) |-> data[(head + i - 1) % Slots]]

\* ClearQueue has reset the head and not yet the tail.
HalfCleared == \E c \in Context : call[c] = "Clear" /\ at[c] = 3

\* The step at which each operation takes effect.
EffectAt(op) ==
  CASE op = "Push" -> 7 [] op = "Pop" -> 9 [] op = "Peek" -> 6
    [] op = "Clear" -> 2 [] op \in {"Size", "Empty", "Full"} -> 3

ResultSoFar ==
  [c \in Context |->
     IF call[c] = "Idle" THEN NoElem
     ELSE IF at[c] > EffectAt(call[c]) THEN Returned(c) ELSE Pending]

\* The refinement mapping: the queue in memory is a bounded FIFO.
Fifo == INSTANCE BoundedFifo WITH
  contents <- IF HalfCleared THEN <<>> ELSE Stored,
  result   <- ResultSoFar

\* Every interleaving of the main program's calls with a handler's calls is
\* one of a FIFO with atomic operations: nothing is lost, duplicated,
\* reordered or invented, and every answer was true at one instant of the call
\* (queue.cpp brackets each operation with io_DisableINT/io_RestoreINT).
IsFifo == Fifo!Spec

\* No handler runs while the main program is between the DisableINT and the
\* RestoreINT of an operation, and a handler's own nested RestoreINT never
\* enables interrupts inside the handler (io_irq.h keeps one shared counter).
NoPreemptionInside ==
  /\ (running = "isr") => ~intr
  /\ (running = "isr" /\ call["main"] # "Idle")
       => at["main"] \in {1, Len(Program(call["main"])) + 1}
  /\ (running = "main") => (intr <=> cscnt = 0)

\* Interrupts are never left disabled for good: each path through queue.cpp
\* restores what it disabled, whatever the handlers did in between.
InterruptsReopen == []<>intr
=============================================================================
