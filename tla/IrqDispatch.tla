----------------------------- MODULE IrqDispatch -----------------------------
(***************************************************************************)
(* The interrupt system of 86DUINO/core/irq.cpp: dos_shared_irq_wrapper,   *)
(* which scans the ISRs installed on an IRQ line with interrupts enabled,  *)
(* so that wrappers of other lines, and of the same edge-triggered line,   *)
(* nest on it; and dos_do_dpc, which the outermost wrapper calls to run    *)
(* the deferred procedures (DPC) triggered meanwhile.                      *)
(*                                                                         *)
(* A step is what the code does between two points where it can be         *)
(* interrupted.  Devices and the interrupt controller (PIC) are external:  *)
(* a level-triggered line is requested while one of its devices asserts    *)
(* it, an edge is remembered by the PIC until it is delivered.             *)
(***************************************************************************)
EXTENDS Integers, Sequences, FiniteSets

CONSTANTS
  Irq,        (* the IRQ lines                                              *)
  Level,      (* those set to IRQ_LEVEL_TRIGGER                             *)
  Enabled,    (* those that the mask register of the PIC enables at first   *)
  Device,     (* the devices, each identified with its ISR and isr_data     *)
  LineOf,     (* LineOf[d]: the line of device d                            *)
  Possessive, (* devices whose ISR may return ISR_POSSESS                   *)
  Chaining,   (* devices whose ISR may return ISR_CHAIN                     *)
  Quiet,      (* lines that may be given IRQ_DISABLE_INTR                   *)
  Dpc,        (* the DPC handles returned by irq_AllocDPC                   *)
  UseFpu,     (* those allocated with IRQ_DPC_USEFPU                        *)
  Null,       (* the null pointer                                           *)
  MaxScan     (* rounds before the loops of the wrapper give up (500)       *)

ASSUME DispatchAssumption ==
  /\ Level \subseteq Irq /\ Enabled \subseteq Irq /\ Quiet \subseteq Irq
  /\ LineOf \in [Device -> Irq]
  /\ Possessive \subseteq Device /\ Chaining \subseteq Device
  /\ UseFpu \subseteq Dpc /\ Null \notin Dpc
  /\ MaxScan \in Nat \ {0}

VARIABLES
  due,        (* due[d]: device d wants service; it asserts a level line    *)
  latch,      (* latch[q]: the PIC remembers an edge on line q              *)
  masked,     (* masked[q]: the bit of q in the PIC's mask register         *)
  isrs,       (* IRQ_lists[q].isrs: << >> while the vector is not ours      *)
  oldMask,    (* IRQ_lists[q].old_irq_mask                                  *)
  allowIntr,  (* ALLOW_INTR(q): IRQ_DISABLE_INTR is not set                 *)
  state,      (* IRQ_lists[q].state                                         *)
  errflags,   (* IRQ_lists[q].errflags                                      *)
  stack,      (* the frames of dos_shared_irq_wrapper, outermost first      *)
  sysenter,   (* IRQ_sysenter                                               *)
  cscnt,      (* irq_cscnt                                                  *)
  intr,       (* the processor's interrupt flag                             *)
  dpcState,   (* state of each DPC                                          *)
  next,       (* next of each DPC                                           *)
  dpcHead,    (* IRQ_dpcHead                                                *)
  dpcUseFpu,  (* IRQ_dpcUseFPU                                              *)
  dpcErr      (* IRQ_dpcErrFlags                                            *)

pic == <<due, latch, masked>>
lists == <<isrs, oldMask, allowIntr>>
lock == <<cscnt, intr>>
dpcs == <<dpcState, next, dpcHead, dpcUseFpu, dpcErr>>
vars == <<due, latch, masked, isrs, oldMask, allowIntr, state, errflags,
          stack, sysenter, cscnt, intr, dpcState, next, dpcHead, dpcUseFpu,
          dpcErr>>

top == Len(stack)
frame == stack[top]

InMain == stack = <<>>

\* The running wrapper is at pc.
At(pc) == stack # <<>> /\ frame.pc = pc

NewFrame(q) ==
  [irq |-> q, pc |-> "scan", i |-> 1, ret |-> "NONE", numisr |-> 0,
   chainisr |-> 0, numscan |-> 0, head |-> Null, run |-> Null, fpu |-> FALSE]

Init ==
  /\ due = [d \in Device |-> FALSE]
  /\ latch = [q \in Irq |-> FALSE]
  /\ masked = [q \in Irq |-> q \notin Enabled]
  /\ isrs = [q \in Irq |-> <<>>]
  /\ oldMask = masked
  /\ allowIntr = [q \in Irq |-> TRUE]
  /\ state = [q \in Irq |-> "NONE"]
  /\ errflags = [q \in Irq |-> {}]
  /\ stack = <<>> /\ sysenter = 0
  /\ cscnt = 0 /\ intr = TRUE
  /\ dpcState = [p \in Dpc |-> {}]
  /\ next = [p \in Dpc |-> Null]
  /\ dpcHead = Null /\ dpcUseFpu = 0 /\ dpcErr = {}

-----------------------------------------------------------------------------
(* The devices and the PIC.                                                *)

\* A device that a driver has enabled wants service.
Raise(d) ==
  LET q == LineOf[d] IN
  /\ ~due[d]
  /\ \E i \in DOMAIN isrs[q] : isrs[q][i] = d
  /\ due' = [due EXCEPT ![d] = TRUE]
  /\ latch' = IF q \in Level THEN latch ELSE [latch EXCEPT ![q] = TRUE]
  /\ UNCHANGED <<masked, lists, state, errflags, stack, sysenter, lock, dpcs>>

Requested(q) ==
  IF q \in Level THEN \E d \in Device : LineOf[d] = q /\ due[d] ELSE latch[q]

Deliverable(q) == intr /\ ~masked[q] /\ Requested(q) /\ isrs[q] # <<>>

-----------------------------------------------------------------------------
(* dos_shared_irq_wrapper.                                                 *)

\* A level line is masked until the wrapper leaves.
MasksOnEntry(q) == q \in Level

\* The reentry test: the line's ISRs are being scanned (mutant: not tested).
NeverHeld(q) == FALSE
Held(q) == state[q] # "NONE"

\* What a reentry leaves in the line's state (mutant: nothing new).
StillInUse == "INUSE"
AfterReentry == "PENDING"

\* Entry on an idle line: mask a level line, send EOI, take the line, and
\* enable interrupts unless IRQ_DISABLE_INTR.
Enter(q) ==
  /\ Deliverable(q) /\ ~Held(q)
  /\ sysenter' = sysenter + 1
  /\ latch' = [latch EXCEPT ![q] = FALSE]
  /\ masked' = [masked EXCEPT ![q] = @ \/ MasksOnEntry(q)]
  /\ state' = [state EXCEPT ![q] = "INUSE"]
  /\ cscnt' = IF allowIntr[q] THEN 0 ELSE 1
  /\ intr' = allowIntr[q]
  /\ stack' = Append(stack, NewFrame(q))
  /\ UNCHANGED <<due, lists, errflags, dpcs>>

\* Entry on a line whose ISRs are being scanned: ask for another scan and
\* leave, all with interrupts disabled.
Reenter(q) ==
  /\ Deliverable(q) /\ Held(q)
  /\ latch' = [latch EXCEPT ![q] = FALSE]
  /\ errflags' = [errflags EXCEPT ![q] =
                    IF q \in Level THEN @ \cup {"REENTRY"} ELSE @]
  /\ state' = [state EXCEPT ![q] = AfterReentry]
  /\ cscnt' = 0
  /\ UNCHANGED <<due, masked, lists, stack, sysenter, intr, dpcs>>

Isrs == isrs[frame.irq]

\* What the ISR of d may return, ISR_NONE if there was nothing to do.
Results(d) ==
  (IF due[d] THEN {"HANDLED"} ELSE {"NONE"})
    \cup (IF due[d] /\ d \in Possessive THEN {"POSSESS"} ELSE {})
    \cup (IF d \in Chaining THEN {"CHAIN"} ELSE {})

\* Call the next ISR; it looks at its device and serves it.
CallISR ==
  /\ At("scan") /\ frame.i <= Len(Isrs)
  /\ LET d == Isrs[frame.i] IN
     /\ due' = [due EXCEPT ![d] = FALSE]
     /\ \E r \in Results(d) :
          stack' = [stack EXCEPT ![top].pc = "isr", ![top].ret = r]
  /\ UNCHANGED <<latch, masked, lists, state, errflags, sysenter, lock, dpcs>>

\* The ISR returns; ISR_POSSESS ends the scan of a level-triggered line, and
\* ISR_CHAIN does not count as handled.
IsrReturn ==
  /\ At("isr")
  /\ stack' = [stack EXCEPT
       ![top].pc = "scan", ![top].ret = "NONE",
       ![top].numisr = IF frame.ret \in {"HANDLED", "POSSESS"} THEN @ + 1 ELSE @,
       ![top].chainisr = IF frame.ret = "CHAIN" THEN @ + 1 ELSE @,
       ![top].i = IF frame.ret = "POSSESS" /\ frame.irq \in Level
                  THEN Len(Isrs) + 1 ELSE @ + 1]
  /\ UNCHANGED <<pic, lists, state, errflags, sysenter, lock, dpcs>>

Unhandled == frame.numisr = 0 /\ frame.numscan = 0

\* The limit on the number of scans (mutant: no limit).
NeverGivesUp == FALSE
GivesUp == frame.numscan + 1 > MaxScan

\* After a scan, inside DisableINT/RestoreINT: scan again if the line was
\* entered again meanwhile, MaxScan times at most.
EndScan ==
  LET q == frame.irq
      again == state[q] = "PENDING"
      limit == again /\ GivesUp
  IN
  /\ At("scan") /\ frame.i > Len(Isrs)
  /\ errflags' = [errflags EXCEPT ![q] =
       @ \cup (IF Unhandled THEN {"UNHANDLED"} ELSE {})
         \cup (IF frame.chainisr # 0 THEN {"USELESS_CHAINING"} ELSE {})
         \cup (IF limit THEN {"NUMEROUS"} ELSE {})]
  /\ IF again /\ ~limit
     THEN /\ state' = [state EXCEPT ![q] = "INUSE"]
          /\ stack' = [stack EXCEPT ![top].i = 1, ![top].numisr = 0,
                                    ![top].chainisr = 0, ![top].numscan = @ + 1]
     ELSE /\ stack' = [stack EXCEPT ![top].pc = "leave", ![top].i = 1,
                                    ![top].chainisr = 0, ![top].numscan = 0]
          /\ UNCHANGED state
  /\ UNCHANGED <<pic, lists, sysenter, lock, dpcs>>

\* A level line is unmasked unless an interrupt on it went unhandled (mutant:
\* the test is inverted).
UnmasksUnhandled(q) == q \in Level /\ "UNHANDLED" \in errflags[q]
Unmasks(q) == q \in Level /\ "UNHANDLED" \notin errflags[q]

\* The outermost wrapper runs the DPCs (mutant: every wrapper).
AnyWrapper == TRUE
Outermost == sysenter = 1

\* DisableINT for the rest: release the line, unmask a level line unless an
\* interrupt on it went unhandled; the outermost wrapper runs the DPCs.
Leave ==
  LET q == frame.irq IN
  /\ At("leave")
  /\ cscnt' = cscnt + 1 /\ intr' = FALSE
  /\ state' = [state EXCEPT ![q] = "NONE"]
  /\ masked' = [masked EXCEPT ![q] = @ /\ ~Unmasks(q)]
  /\ stack' = [stack EXCEPT ![top].pc = IF Outermost THEN "rounds" ELSE "exit",
                            ![top].numisr = 0]
  /\ UNCHANGED <<due, latch, lists, errflags, sysenter, dpcs>>

\* IRET to the code that was interrupted, which ran with interrupts enabled.
Exit ==
  /\ At("exit")
  /\ cscnt' = 0 /\ intr' = TRUE
  /\ sysenter' = sysenter - 1
  /\ stack' = SubSeq(stack, 1, top - 1)
  /\ UNCHANGED <<pic, lists, state, errflags, dpcs>>

-----------------------------------------------------------------------------
(* dos_do_dpc, called by the outermost wrapper with interrupts disabled.   *)

\* The FPU is saved before a round with a DPC that uses it (mutant: only before
\* the first round).
SavesFpuFirst == IF frame.numscan = 0 THEN dpcUseFpu # 0 ELSE frame.fpu
SavesFpu == frame.fpu \/ dpcUseFpu # 0

\* Take the whole list; save the FPU once if a DPC in it uses it.
TakeDpcs ==
  /\ At("rounds") /\ dpcHead # Null /\ frame.numscan < MaxScan
  /\ stack' = [stack EXCEPT ![top].pc = "next", ![top].head = dpcHead,
                            ![top].numscan = @ + 1,
                            ![top].fpu = SavesFpu]
  /\ dpcHead' = Null /\ dpcUseFpu' = 0
  /\ UNCHANGED <<pic, lists, state, errflags, sysenter, lock, dpcState, next,
                 dpcErr>>

\* The list is empty, or MaxScan rounds have not emptied it.
EndDpcs ==
  /\ At("rounds")
  /\ dpcHead = Null \/ frame.numscan = MaxScan
  /\ dpcErr' = IF dpcHead = Null THEN dpcErr ELSE dpcErr \cup {"NUMEROUS"}
  /\ stack' = [stack EXCEPT ![top].pc = "exit", ![top].numscan = 0,
                            ![top].fpu = FALSE]
  /\ UNCHANGED <<pic, lists, state, errflags, sysenter, lock, dpcState, next,
                 dpcHead, dpcUseFpu>>

\* Run the next DPC of the list taken, with interrupts enabled.
CallDpc ==
  LET p == frame.head IN
  /\ At("next") /\ p # Null
  /\ dpcErr' = IF "WAITING" \in dpcState[p] THEN dpcErr
               ELSE dpcErr \cup {"UNEXPECTED"}
  /\ dpcState' = [dpcState EXCEPT ![p] = (@ \ {"WAITING"}) \cup {"RUNNING"}]
  /\ stack' = [stack EXCEPT ![top].pc = "dpc", ![top].run = p,
                            ![top].head = next[p]]
  /\ cscnt' = 0 /\ intr' = TRUE
  /\ UNCHANGED <<pic, lists, state, errflags, sysenter, next, dpcHead,
                 dpcUseFpu>>

\* Mutant of DpcReturn: the link of the DPC is read after it has run.
DpcReturnLateLink ==
  /\ At("dpc")
  /\ cscnt' = cscnt + 1 /\ intr' = FALSE
  /\ dpcState' = [dpcState EXCEPT ![frame.run] = @ \ {"RUNNING"}]
  /\ stack' = [stack EXCEPT ![top].pc = "next", ![top].run = Null,
                            ![top].head = next[frame.run]]
  /\ UNCHANGED <<pic, lists, state, errflags, sysenter, next, dpcHead,
                 dpcUseFpu, dpcErr>>

DpcReturn ==
  /\ At("dpc")
  /\ cscnt' = cscnt + 1 /\ intr' = FALSE
  /\ dpcState' = [dpcState EXCEPT ![frame.run] = @ \ {"RUNNING"}]
  /\ stack' = [stack EXCEPT ![top].pc = "next", ![top].run = Null]
  /\ UNCHANGED <<pic, lists, state, errflags, sysenter, next, dpcHead,
                 dpcUseFpu, dpcErr>>

\* Mutant of EndRound: the list is taken once.
EndRoundOnce ==
  /\ At("next") /\ frame.head = Null
  /\ stack' = [stack EXCEPT ![top].pc = "exit"]
  /\ UNCHANGED <<pic, lists, state, errflags, sysenter, lock, dpcs>>

EndRound ==
  /\ At("next") /\ frame.head = Null
  /\ stack' = [stack EXCEPT ![top].pc = "rounds"]
  /\ UNCHANGED <<pic, lists, state, errflags, sysenter, lock, dpcs>>

\* irq_TriggerDPC, called by the main program, an ISR or a DPC; a DPC that is
\* waiting is left alone (IRQ_DPC_RETRIG).
TriggerDPC(p) ==
  /\ InMain \/ At("isr") \/ At("dpc")
  /\ "WAITING" \notin dpcState[p]
  /\ dpcState' = [dpcState EXCEPT ![p] = @ \cup {"WAITING"}]
  /\ next' = [next EXCEPT ![p] = dpcHead]
  /\ dpcHead' = p
  /\ dpcUseFpu' = IF p \in UseFpu THEN dpcUseFpu + 1 ELSE dpcUseFpu
  /\ UNCHANGED <<pic, lists, state, errflags, stack, sysenter, lock, dpcErr>>

-----------------------------------------------------------------------------
(* What the main program calls.                                            *)

\* irq_InstallISR.  The first ISR of a line installs the wrapper and unmasks
\* the line; until then no interrupt of the line is ours, and after it only
\* the increment of isrs_num is visible to the wrapper.
InstallISR(d) ==
  LET q == LineOf[d] IN
  /\ InMain
  /\ \A i \in DOMAIN isrs[q] : isrs[q][i] # d
  /\ isrs' = [isrs EXCEPT ![q] = Append(@, d)]
  /\ IF isrs[q] = <<>>
     THEN /\ oldMask' = [oldMask EXCEPT ![q] = masked[q]]
          /\ masked' = [masked EXCEPT ![q] = FALSE]
     ELSE UNCHANGED <<oldMask, masked>>
  /\ UNCHANGED <<due, latch, allowIntr, state, errflags, stack, sysenter, lock,
                 dpcs>>

\* irq_UninstallISR, after the driver has stopped its device.  The last ISR of
\* a line gives the vector back, and the mask it had before.
UninstallISR(d) ==
  LET q == LineOf[d]
      Without(i) == SubSeq(isrs[q], 1, i - 1) \o SubSeq(isrs[q], i + 1, Len(isrs[q]))
  IN
  /\ InMain
  /\ \E i \in DOMAIN isrs[q] :
       /\ isrs[q][i] = d
       /\ isrs' = [isrs EXCEPT ![q] = Without(i)]
       /\ masked' = [masked EXCEPT ![q] = @ \/ (Without(i) = <<>> /\ oldMask[q])]
  /\ due' = [due EXCEPT ![d] = FALSE]
  /\ UNCHANGED <<latch, oldMask, allowIntr, state, errflags, stack, sysenter,
                 lock, dpcs>>

\* irq_Setting, with or without IRQ_DISABLE_INTR; the trigger mode of a line
\* is that of the hardware and does not change.
Setting(q) ==
  /\ InMain /\ q \in Quiet
  /\ allowIntr' = [allowIntr EXCEPT ![q] = ~@]
  /\ UNCHANGED <<pic, isrs, oldMask, state, errflags, stack, sysenter, lock,
                 dpcs>>

-----------------------------------------------------------------------------
Wrapper ==
  \/ CallISR \/ IsrReturn \/ EndScan \/ Leave \/ Exit
  \/ TakeDpcs \/ EndDpcs \/ CallDpc \/ DpcReturn \/ EndRound

Next ==
  \/ Wrapper
  \/ \E q \in Irq : Enter(q) \/ Reenter(q) \/ Setting(q)
  \/ \E d \in Device : Raise(d) \/ InstallISR(d) \/ UninstallISR(d)
  \/ \E p \in Dpc : TriggerDPC(p)

Spec == Init /\ [][Next]_vars

\* Interrupts leave the processor time: a wrapper that is interrupted over and
\* over still gets on, at each depth of the stack (a frame for each line that is
\* held, one that runs DPCs); the PIC does not pass a request over for ever.
FairSpec ==
  /\ Spec
  /\ \A n \in 1 .. Cardinality(Irq) + 1 : SF_vars(top = n /\ Wrapper)
  /\ \A q \in Irq : SF_vars(Enter(q))

-----------------------------------------------------------------------------
Frame ==
  [irq : Irq, pc : {"scan", "isr", "leave", "rounds", "next", "dpc", "exit"},
   i : Nat, ret : {"NONE", "HANDLED", "POSSESS", "CHAIN"},
   numisr : Nat, chainisr : Nat, numscan : 0 .. MaxScan, head : Dpc \cup {Null}, run : Dpc \cup {Null},
   fpu : BOOLEAN]

\* Types; a scan ends after MaxScan rounds; whatever nests, nobody is interrupted
\* while he holds the lock and the main program gets it back free.
TypeOK ==
  /\ due \in [Device -> BOOLEAN]
  /\ latch \in [Irq -> BOOLEAN] /\ masked \in [Irq -> BOOLEAN]
  /\ isrs \in [Irq -> Seq(Device)]
  /\ oldMask \in [Irq -> BOOLEAN] /\ allowIntr \in [Irq -> BOOLEAN]
  /\ state \in [Irq -> {"NONE", "INUSE", "PENDING"}]
  /\ errflags \in [Irq -> SUBSET {"REENTRY", "UNHANDLED", "USELESS_CHAINING", "NUMEROUS"}]
  /\ stack \in Seq(Frame) /\ sysenter \in Nat
  /\ cscnt \in 0 .. 2 /\ intr \in BOOLEAN
  /\ dpcState \in [Dpc -> SUBSET {"WAITING", "RUNNING"}]
  /\ next \in [Dpc -> Dpc \cup {Null}]
  /\ dpcHead \in Dpc \cup {Null} /\ dpcUseFpu \in Nat
  /\ dpcErr \subseteq {"UNEXPECTED", "NUMEROUS"}
  /\ intr => cscnt = 0
  /\ InMain => intr
  /\ sysenter = Len(stack)

\* The frames that hold line q: its ISRs are being scanned there.
Holders(q) ==
  {n \in DOMAIN stack : stack[n].irq = q /\ stack[n].pc \in {"scan", "isr", "leave"}}

\* A user ISR is never entered again while it runs: however wrappers nest, at
\* most one frame scans the ISRs of a line, the line's state says whether there
\* is one (irq.cpp, IRQ_STATE_INUSE and IRQ_STATE_PENDING), and a level-triggered
\* line stays masked meanwhile (IRQERR_INCORRECT_REENTRY never happens).
OneScanPerLine ==
  /\ \A q \in Irq : Cardinality(Holders(q)) = IF state[q] = "NONE" THEN 0 ELSE 1
  /\ \A q \in Level : /\ state[q] # "NONE" => masked[q]
                      /\ "REENTRY" \notin errflags[q]

\* DPCs run in the outermost wrapper only, one at a time, after its line has
\* been released: no DPC preempts another or an ISR.
DpcsOutermost ==
  /\ \A n \in DOMAIN stack :
       stack[n].pc \in {"rounds", "next", "dpc"} =>
         n = 1 /\ n \notin Holders(stack[n].irq)
  /\ \A p \in Dpc : "RUNNING" \in dpcState[p] <=>
       InMain = FALSE /\ stack[1].pc = "dpc" /\ stack[1].run = p

\* The DPCs linked by nx from h on: those in every set that holds h and, with
\* a DPC, the one it links to.
Reach(nx, h) ==
  {p \in Dpc : \A S \in SUBSET Dpc :
     (h # Null => h \in S) /\ (\A x \in S : nx[x] # Null => nx[x] \in S) => p \in S}

\* The DPCs on the list that starts at h.
ListFrom(h) == Reach(next, h)

\* The DPCs triggered and not yet begun are exactly those on IRQ_dpcHead's list
\* and on the list dos_do_dpc is emptying; the two lists never join, although a
\* DPC that runs, or an ISR above it, triggers DPCs that share their links
\* (IRQERR_UNEXPECTED_DPC never happens).
DpcListsExact ==
  LET taken == IF InMain THEN {} ELSE ListFrom(stack[1].head)
      listed == ListFrom(dpcHead)
  IN /\ taken \cap listed = {}
     /\ \A p \in Dpc : "WAITING" \in dpcState[p] <=> p \in taken \cup listed
     /\ "UNEXPECTED" \notin dpcErr

\* When the outermost wrapper is about to return to the main program, every DPC
\* triggered so far has run, unless the loop gave up (IRQERR_NUMEROUS_DPC).
NoDpcLeftBehind ==
  (stack # <<>> /\ stack[1].pc = "exit") =>
    dpcHead = Null \/ "NUMEROUS" \in dpcErr

\* A DPC that uses the FPU never runs on registers that were not saved.
FpuSaved ==
  \A n \in DOMAIN stack :
    (stack[n].pc = "dpc" /\ stack[n].run \in UseFpu) => stack[n].fpu

\* While the ISRs of an edge-triggered line are scanned no event is missed: one
\* whose ISR has had its turn is still with the PIC, or has made the wrapper
\* ask for another scan.
EdgeSeenByScan ==
  \A n \in DOMAIN stack : LET f == stack[n] IN
    (f.irq \notin Level /\ f.pc \in {"scan", "isr"}) =>
      \A j \in DOMAIN isrs[f.irq] :
        due[isrs[f.irq][j]] =>
          \/ latch[f.irq] \/ state[f.irq] = "PENDING"
          \/ j > f.i \/ (j = f.i /\ f.pc = "scan")

\* A device on a level-triggered line that wants service gets it, though other
\* lines interrupt its wrapper again and again, DPCs are run before it returns,
\* and the line is masked meanwhile; unless an interrupt of the line has gone
\* unhandled, after which the wrapper leaves the line disabled (irq.cpp:322).
LevelServed ==
  \A d \in Device : LineOf[d] \in Level =>
    (due[d] ~> ~due[d] \/ "UNHANDLED" \in errflags[LineOf[d]])

\* An edge-triggered device that wants service will be served: the PIC or the
\* wrapper remembers it.  irq.cpp:254, "handle IRQ reentry (only possible in
\* edge-trigger IRQ)".
EdgeServed ==
  \A d \in Device : LET q == LineOf[d] IN
    (due[d] /\ q \notin Level /\ Holders(q) = {}) =>
      latch[q] \/ "NUMEROUS" \in errflags[q]
=============================================================================
