----------------------------- MODULE IntNesting ------------------------------
(***************************************************************************)
(* The recursive interrupt lock of 86DUINO/core/io_irq.h, one step per     *)
(* machine access.  irq_cscnt is one counter shared by the main program    *)
(* and every interrupt handler, and none of the three functions updates it *)
(* atomically: they test it, change the processor's interrupt flag and     *)
(* write it in separate steps, between which a handler may run.  Handlers  *)
(* nest: one that has called io_EnableINT can be interrupted in turn.      *)
(***************************************************************************)
EXTENDS Integers

CONSTANTS
  MaxLevel,   (* how many handlers may be suspended on top of each other *)
  MaxHeld     (* how deep one context nests io_DisableINT                *)

ASSUME NestingAssumption == MaxLevel \in Nat /\ MaxHeld \in Nat \ {0}

VARIABLES
  level,      (* handlers on the stack; context 0 is the main program      *)
  iflag,      (* the processor's interrupt flag                            *)
  irq_cscnt,  (* the depth of nested io_DisableINT                         *)
  step,       (* step[f]: the next step of the function context f is in    *)
  test,       (* test[f]: what f's io_DisableINT saw: was irq_cscnt zero?  *)
  held,       (* held[f]: DisableINTs of f not yet matched by a RestoreINT *)
  owed,       (* owed[f]: RestoreINTs of f still to come for DisableINTs   *)
              (*   that an io_EnableINT of f has cancelled                 *)
  entered     (* entered[f]: 1 in a handler until it calls io_EnableINT    *)

lockVars == <<level, iflag, irq_cscnt, step, test, held, owed, entered>>

Frame == 0 .. MaxLevel

LockInit ==
  /\ level = 0 /\ iflag = TRUE /\ irq_cscnt = 0
  /\ step = [f \in Frame |-> "run"]
  /\ test = [f \in Frame |-> FALSE]
  /\ held = [f \in Frame |-> 0] /\ owed = [f \in Frame |-> 0]
  /\ entered = [f \in Frame |-> 0]

\* The running context goes from one step to another.
Goes(from, to) ==
  /\ step[level] = from
  /\ step' = [step EXCEPT ![level] = to]

-----------------------------------------------------------------------------
\* io_DisableINT: if (irq_cscnt == 0) cli; irq_cscnt++;
DisableTest ==
  /\ Goes("run", "cli")
  /\ held[level] + owed[level] < MaxHeld
  /\ test' = [test EXCEPT ![level] = (irq_cscnt = 0)]
  /\ UNCHANGED <<level, iflag, irq_cscnt, held, owed, entered>>

DisableCli ==
  /\ Goes("cli", "inc")
  /\ iflag' = IF test[level] THEN FALSE ELSE iflag
  /\ UNCHANGED <<level, irq_cscnt, test, held, owed, entered>>

DisableInc ==
  /\ Goes("inc", "run")
  /\ irq_cscnt' = irq_cscnt + 1
  /\ held' = [held EXCEPT ![level] = @ + 1]
  /\ UNCHANGED <<level, iflag, test, owed, entered>>

\* io_RestoreINT: if (irq_cscnt != 0) { irq_cscnt--; if (irq_cscnt == 0) sti; }
\* It matches a DisableINT of the same context.  Critical sections are nested,
\* so that those cancelled by an io_EnableINT are the last to be left.
LeavesSection ==
  IF held[level] > 0 THEN held' = [held EXCEPT ![level] = @ - 1] /\ UNCHANGED owed
  ELSE owed' = [owed EXCEPT ![level] = @ - 1] /\ UNCHANGED held

\* Mutant of Counting: the counter is decremented whatever it is.
AnyCount == TRUE
Counting == irq_cscnt # 0

RestoreTest ==
  /\ held[level] + owed[level] > 0
  /\ Counting /\ Goes("run", "dec")
  /\ UNCHANGED <<level, iflag, irq_cscnt, test, held, owed, entered>>

\* The counter is zero: nothing is done.
RestoreNothing ==
  /\ held[level] + owed[level] > 0
  /\ ~Counting /\ Goes("run", "run")
  /\ LeavesSection
  /\ UNCHANGED <<level, iflag, irq_cscnt, test, entered>>

RestoreDec ==
  /\ Goes("dec", "sti")
  /\ irq_cscnt' = irq_cscnt - 1
  /\ LeavesSection
  /\ UNCHANGED <<level, iflag, test, entered>>

Sti ==
  /\ Goes("sti", "run")
  /\ iflag' = IF irq_cscnt = 0 THEN TRUE ELSE iflag
  /\ UNCHANGED <<level, irq_cscnt, test, held, owed, entered>>

\* Mutant of EnableSet: the counter is cleared, interrupts stay disabled.
EnableSetOnly ==
  /\ irq_cscnt # 0
  /\ Goes("run", "run")
  /\ irq_cscnt' = 0
  /\ held' = [held EXCEPT ![level] = 0]
  /\ owed' = [owed EXCEPT ![level] = @ + held[level]]
  /\ entered' = [entered EXCEPT ![level] = 0]
  /\ UNCHANGED <<level, iflag, test>>

\* io_EnableINT: if (irq_cscnt != 0) { irq_cscnt = 0; sti; }.  Whatever the
\* context held is given up; its sti is the step Sti, irq_cscnt being zero.
EnableSet ==
  /\ irq_cscnt # 0
  /\ Goes("run", "sti")
  /\ irq_cscnt' = 0
  /\ held' = [held EXCEPT ![level] = 0]
  /\ owed' = [owed EXCEPT ![level] = @ + held[level]]
  /\ entered' = [entered EXCEPT ![level] = 0]
  /\ UNCHANGED <<level, iflag, test>>

\* Mutant of HandlerEntry: the wrapper does not set irq_cscnt to 1.
HandlerEntryUncounted ==
  /\ iflag /\ level < MaxLevel
  /\ level' = level + 1
  /\ iflag' = FALSE
  /\ step' = [step EXCEPT ![level + 1] = "run"]
  /\ test' = [test EXCEPT ![level + 1] = FALSE]
  /\ held' = [held EXCEPT ![level + 1] = 0]
  /\ owed' = [owed EXCEPT ![level + 1] = 0]
  /\ entered' = [entered EXCEPT ![level + 1] = 1]
  /\ UNCHANGED irq_cscnt

\* The processor takes an interrupt, clearing its flag; the wrapper of irq.cpp
\* sets irq_cscnt to 1, so that nested pairs in the handler leave it nonzero.
HandlerEntry ==
  /\ iflag /\ level < MaxLevel
  /\ level' = level + 1
  /\ iflag' = FALSE
  /\ irq_cscnt' = 1
  /\ step' = [step EXCEPT ![level + 1] = "run"]
  /\ test' = [test EXCEPT ![level + 1] = FALSE]
  /\ held' = [held EXCEPT ![level + 1] = 0]
  /\ owed' = [owed EXCEPT ![level + 1] = 0]
  /\ entered' = [entered EXCEPT ![level + 1] = 1]

\* The wrapper's end, after its DisableINT: irq_cscnt is set to 0 and IRET
\* restores the interrupt flag of the context that was interrupted.
HandlerExit ==
  /\ level > 0
  /\ step[level] = "run" /\ held[level] = 0 /\ owed[level] = 0
  /\ level' = level - 1
  /\ irq_cscnt' = 0
  /\ iflag' = TRUE
  /\ UNCHANGED <<step, test, held, owed, entered>>

LockNext ==
  \/ DisableTest \/ DisableCli \/ DisableInc
  \/ RestoreTest \/ RestoreNothing \/ RestoreDec \/ Sti
  \/ EnableSet
  \/ HandlerEntry \/ HandlerExit

LockSpec == LockInit /\ [][LockNext]_lockVars

-----------------------------------------------------------------------------
LockTypeOK ==
  /\ level \in Frame /\ iflag \in BOOLEAN /\ irq_cscnt \in Nat
  /\ step \in [Frame -> {"run", "cli", "inc", "dec", "sti"}]
  /\ test \in [Frame -> BOOLEAN]
  /\ held \in [Frame -> Nat] /\ owed \in [Frame -> Nat]
  /\ entered \in [Frame -> {0, 1}]

\* Nobody is interrupted inside a critical section: while a context has an
\* unmatched DisableINT, interrupts are off if it runs, and it is the one that
\* runs.  This is what io.cpp promises: the functions "can work in both
\* user-context and interrupt-context without taking care the shared counter".
\* The RestoreINTs of sections that an io_EnableINT has cancelled leave the
\* counter alone: below zero the next DisableINT would not disable interrupts.
CriticalSections ==
  \A f \in 0 .. level : held[f] > 0 => f = level /\ ~iflag

\* The last RestoreINT opens interrupts again, whoever ran in between: a main
\* program, or a handler that enabled interrupts, that holds nothing and is in
\* none of the functions can be interrupted.
Reopened ==
  (step[level] = "run" /\ held[level] = 0 /\ entered[level] = 0) => iflag

\* A handler that never asked for it is never interrupted: none of the nested
\* pairs it executes enables interrupts (irq.cpp, IRQ_DISABLE_INTR).
HandlerUndisturbed ==
  \A f \in 0 .. level : entered[f] = 1 => f = level /\ ~iflag

-----------------------------------------------------------------------------
(***************************************************************************)
(* The inductive invariant.  A suspended context was interruptible: it was *)
(* outside the functions, or in io_DisableINT between a test that saw zero *)
(* and its cli.  The counter is back to zero when it resumes, so that what *)
(* it saw is still true.                                                   *)
(***************************************************************************)
Interruptible(f) ==
  /\ held[f] = 0 /\ entered[f] = 0
  /\ step[f] = "run" \/ (step[f] = "cli" /\ test[f])

Counted == irq_cscnt = held[level] + entered[level]

RunningOK ==
  /\ step[level] = "run" => Counted /\ (iflag <=> irq_cscnt = 0)
  /\ step[level] = "cli" =>
       /\ Counted
       /\ iflag <=> irq_cscnt = 0
       /\ test[level] <=> irq_cscnt = 0
  /\ step[level] = "inc" => Counted /\ ~iflag
  /\ step[level] = "dec" => Counted /\ ~iflag /\ held[level] > 0
  /\ step[level] = "sti" => Counted /\ ~iflag

LockInv ==
  /\ LockTypeOK
  /\ \A f \in 0 .. level - 1 : Interruptible(f)
  /\ entered[0] = 0
  /\ owed[level] > 0 => entered[level] = 0
  /\ RunningOK
=============================================================================
