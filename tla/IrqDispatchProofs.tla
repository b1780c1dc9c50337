-------------------------- MODULE IrqDispatchProofs -------------------------
(***************************************************************************)
(* Proofs about IrqDispatch, for any lines, devices, DPCs and any limit on *)
(* the scans, and so for wrappers nested to any depth.                     *)
(*                                                                         *)
(* The invariants of IrqDispatch hold together or not at all.  That no     *)
(* line is scanned twice needs the state of each line to say whether it is *)
(* being scanned; that DPCs run in the outermost wrapper alone needs every *)
(* wrapper below another to be at a point where interrupts are enabled;    *)
(* that the lists of DPCs are exact needs them to be acyclic.  IInv is     *)
(* their conjunction, strengthened by these facts.                         *)
(***************************************************************************)
EXTENDS IrqDispatch, SequenceTheorems, FiniteSetTheorems, TLAPS

-----------------------------------------------------------------------------
(* The inductive invariant.                                                *)

\* The frame f holds its line.
Scanning(f) == f.pc \in {"scan", "isr", "leave"}

\* What can be interrupted, and where DPCs are run.
Nesting ==
  /\ \A n \in DOMAIN stack :
       /\ n < Len(stack) => Scanning(stack[n]) \/ stack[n].pc = "dpc"
       /\ stack[n].pc \in {"rounds", "next", "dpc"} => n = 1
       /\ stack[n].pc = "dpc" => stack[n].run # Null
       /\ stack[n].pc \notin {"next", "dpc"} => stack[n].head = Null
  /\ stack # <<>> =>
       /\ frame.pc \in {"rounds", "next", "exit"} => ~intr
       /\ Scanning(frame) \/ frame.pc = "dpc" => cscnt <= 1

\* The frame that scans a line is unique, and the line's state tells whether
\* there is one.
Scans ==
  /\ \A n, m \in DOMAIN stack :
       Scanning(stack[n]) /\ Scanning(stack[m]) /\ stack[n].irq = stack[m].irq
         => n = m
  /\ \A q \in Irq : state[q] = "NONE" <=>
       \A n \in DOMAIN stack : Scanning(stack[n]) => stack[n].irq # q
  /\ \A q \in Level : /\ state[q] # "NONE" => masked[q]
                      /\ "REENTRY" \notin errflags[q]

\* An ISR is installed on the line of its device.
Installed == \A q \in Irq : \A i \in DOMAIN isrs[q] : LineOf[isrs[q][i]] = q

\* The outermost frame, which runs the DPCs.
OuterPc == IF stack = <<>> THEN "main" ELSE stack[1].pc
OuterHead == IF stack = <<>> THEN Null ELSE stack[1].head
OuterRun == IF stack = <<>> THEN Null ELSE stack[1].run
OuterFpu == IF stack = <<>> THEN FALSE ELSE stack[1].fpu

\* The DPCs still to run on the list taken, and those triggered since.
Taken == ListFrom(OuterHead)
Listed == ListFrom(dpcHead)

Running == \A p \in Dpc : "RUNNING" \in dpcState[p] <=> OuterPc = "dpc" /\ OuterRun = p

\* The lists are disjoint, acyclic, and hold exactly the waiting DPCs.
Links ==
  /\ Taken \cap Listed = {}
  /\ \A p \in Dpc : "WAITING" \in dpcState[p] <=> p \in Taken \cup Listed
  /\ \A p \in Taken \cup Listed : p \notin ListFrom(next[p])
  /\ "UNEXPECTED" \notin dpcErr

\* IRQ_dpcUseFPU counts for the DPCs listed; for those taken the FPU is saved.
Fpu ==
  /\ dpcUseFpu = 0 => Listed \cap UseFpu = {}
  /\ OuterPc \in {"next", "dpc"} /\ Taken \cap UseFpu # {} => OuterFpu
  /\ OuterPc = "dpc" /\ OuterRun \in UseFpu => OuterFpu

\* The outermost wrapper leaves when no DPC is listed, or gives up.
Emptied == OuterPc = "exit" => dpcHead = Null \/ "NUMEROUS" \in dpcErr

IInv ==
  /\ TypeOK /\ Nesting /\ Scans /\ Installed /\ EdgeSeenByScan
  /\ Running /\ Links /\ Fpu /\ Emptied

-----------------------------------------------------------------------------
(* The stack.                                                              *)

\* The running frame becomes f and the others stay.
Becomes(f) ==
  /\ stack' \in Seq(Frame) /\ stack' # <<>>
  /\ Len(stack') = Len(stack) /\ DOMAIN stack' = DOMAIN stack
  /\ stack'[top] = f
  /\ \A n \in DOMAIN stack : n # top => stack'[n] = stack[n]

\* The running frame is the last one.
LEMMA TopFrame ==
  ASSUME TypeOK, stack # <<>>
  PROVE  /\ top \in Nat \ {0} /\ top = Len(stack)
         /\ DOMAIN stack = 1 .. top /\ top \in DOMAIN stack
         /\ frame \in Frame /\ frame = stack[top] /\ stack \in Seq(Frame)
BY DEF TypeOK, top, frame

\* The types of any frame.
LEMMA AnyFrame ==
  ASSUME TypeOK, NEW n \in DOMAIN stack
  PROVE  /\ stack[n] \in Frame /\ stack[n].irq \in Irq /\ stack[n].i \in Nat
         /\ stack[n].head \in Dpc \cup {Null} /\ stack[n].run \in Dpc \cup {Null}
         /\ stack[n].fpu \in BOOLEAN
<1>1. stack[n] \in Frame
  BY DEF TypeOK
<1> QED BY <1>1 DEF Frame

\* An assignment to the frame.
LEMMA Update ==
  ASSUME TypeOK, stack # <<>>, NEW f \in Frame, stack' = [stack EXCEPT ![top] = f]
  PROVE  Becomes(f)
BY DEF TypeOK, top, Becomes

\* A sequence without its j-th element.
LEMMA Removal ==
  ASSUME NEW S, NEW s \in Seq(S), NEW j \in DOMAIN s
  PROVE  LET w == SubSeq(s, 1, j - 1) \o SubSeq(s, j + 1, Len(s))
         IN  w \in Seq(S) /\ \A i \in DOMAIN w : \E n \in DOMAIN s : w[i] = s[n]
<1> DEFINE a == SubSeq(s, 1, j - 1)
           b == SubSeq(s, j + 1, Len(s))
           w == a \o b
<1>1. Len(s) \in Nat /\ j \in 1 .. Len(s) /\ DOMAIN s = 1 .. Len(s)
  OBVIOUS
<1>2. \A n \in 1 .. Len(s) : s[n] \in S
  BY <1>1, ElementOfSeq
<1>3. /\ a \in Seq(S) /\ Len(a) = j - 1
      /\ \A n \in 1 .. (j - 1) - 1 + 1 : a[n] = s[1 + n - 1]
  BY <1>1, <1>2, SubSeqProperties
<1>4. /\ b \in Seq(S) /\ Len(b) = Len(s) - j
      /\ \A n \in 1 .. Len(s) - (j + 1) + 1 : b[n] = s[j + 1 + n - 1]
  BY <1>1, <1>2, SubSeqProperties
<1> HIDE DEF a, b
<1>5. /\ w \in Seq(S) /\ Len(w) = Len(a) + Len(b)
      /\ \A n \in 1 .. Len(a) + Len(b) :
           w[n] = IF n <= Len(a) THEN a[n] ELSE b[n - Len(a)]
  BY <1>3, <1>4, ConcatProperties
<1> HIDE DEF w
<1>6. ASSUME NEW i \in DOMAIN w
      PROVE  \E n \in DOMAIN s : w[i] = s[n]
  <2>1. i \in 1 .. Len(s) - 1
    BY <1>1, <1>3, <1>4, <1>5
  <2>2. CASE i <= j - 1
    <3>1. w[i] = a[i] /\ i \in 1 .. j - 1
      BY <1>1, <1>3, <1>4, <1>5, <2>1, <2>2
    <3>2. i \in 1 .. (j - 1) - 1 + 1 /\ 1 + i - 1 = i
      BY <1>1, <2>1, <3>1
    <3>3. w[i] = s[i]
      BY <1>3, <3>1, <3>2
    <3> QED BY <1>1, <2>1, <3>3
  <2>3. CASE ~(i <= j - 1)
    <3>1. w[i] = b[i - (j - 1)] /\ i - (j - 1) \in 1 .. Len(s) - j
      BY <1>1, <1>3, <1>4, <1>5, <2>1, <2>3
    <3> DEFINE k == i - (j - 1)
    <3>2. k \in 1 .. Len(s) - (j + 1) + 1
      BY <1>1, <2>1, <3>1
    <3>3. b[k] = s[j + 1 + k - 1]
      BY <1>4, <3>2
    <3>4. j + 1 + k - 1 = i + 1
      BY <1>1, <2>1
    <3>5. w[i] = s[i + 1]
      BY <3>1, <3>3, <3>4
    <3> QED BY <1>1, <2>1, <3>5
  <2> QED BY <2>2, <2>3
<1> QED BY <1>5, <1>6 DEF w, a, b

\* CallISR moves the frame to the ISR.
LEMMA CallISRFrame ==
  ASSUME TypeOK, CallISR
  PROVE  \E f \in Frame :
           /\ Becomes(f) /\ f.pc = "isr" /\ f.irq = frame.irq /\ f.i = frame.i
           /\ f.head = frame.head /\ f.run = frame.run /\ f.fpu = frame.fpu
<1>1. PICK r \in {"NONE", "HANDLED", "POSSESS", "CHAIN"} :
        stack' = [stack EXCEPT ![top].pc = "isr", ![top].ret = r]
  BY DEF CallISR, Results
<1> DEFINE f == [frame EXCEPT !.pc = "isr", !.ret = r]
<1>2. stack # <<>> /\ frame \in Frame
  BY TopFrame DEF CallISR, At
<1>3. /\ f \in Frame /\ f.pc = "isr" /\ f.irq = frame.irq /\ f.i = frame.i
      /\ f.head = frame.head /\ f.run = frame.run /\ f.fpu = frame.fpu
  BY <1>2 DEF Frame
<1>4. stack' = [stack EXCEPT ![top] = f]
  BY <1>1, <1>2 DEF top, frame
<1> QED BY <1>2, <1>3, <1>4, Update

\* IsrReturn moves it to the next ISR, or past the last one.
LEMMA IsrReturnFrame ==
  ASSUME TypeOK, IsrReturn
  PROVE  \E f \in Frame :
           /\ Becomes(f) /\ f.pc = "scan" /\ f.irq = frame.irq
           /\ f.irq \notin Level => f.i = frame.i + 1
           /\ f.head = frame.head /\ f.run = frame.run /\ f.fpu = frame.fpu
<1>1. stack # <<>> /\ frame \in Frame
  BY TopFrame DEF IsrReturn, At
<1> DEFINE a == IF frame.ret \in {"HANDLED", "POSSESS"} THEN frame.numisr + 1
                ELSE frame.numisr
           c == IF frame.ret = "CHAIN" THEN frame.chainisr + 1 ELSE frame.chainisr
           b == IF frame.ret = "POSSESS" /\ frame.irq \in Level
                THEN Len(Isrs) + 1 ELSE frame.i + 1
           f == [frame EXCEPT !.pc = "scan", !.ret = "NONE", !.numisr = a,
                              !.chainisr = c, !.i = b]
<1>2. stack' = [stack EXCEPT ![top] = f]
  BY <1>1 DEF IsrReturn, top, frame
<1>3. frame.irq \in Irq /\ frame.i \in Nat
      /\ frame.numisr \in Nat /\ frame.chainisr \in Nat
  BY <1>1 DEF Frame
<1>4. Isrs \in Seq(Device)
  BY <1>3 DEF Isrs, TypeOK
<1>5. a \in Nat /\ b \in Nat /\ c \in Nat
  BY <1>3, <1>4
<1>6. f.irq \notin Level => b = frame.i + 1
  BY <1>1 DEF Frame
<1> HIDE DEF a, b, c
<1>7. /\ f \in Frame /\ f.pc = "scan" /\ f.irq = frame.irq /\ f.i = b
      /\ f.head = frame.head /\ f.run = frame.run /\ f.fpu = frame.fpu
  BY <1>1, <1>5 DEF Frame
<1> QED BY <1>1, <1>2, <1>6, <1>7, Update

\* EndScan starts another scan, if the line was entered again, or ends.
LEMMA EndScanFrame ==
  ASSUME TypeOK, EndScan
  PROVE  \E f \in Frame :
           /\ Becomes(f) /\ f.irq = frame.irq /\ f.i = 1
           /\ \/ /\ f.pc = "scan" /\ state[f.irq] = "PENDING"
                 /\ state' = [state EXCEPT ![f.irq] = "INUSE"]
              \/ f.pc = "leave" /\ state' = state
           /\ f.head = frame.head /\ f.run = frame.run /\ f.fpu = frame.fpu
<1>1. stack # <<>> /\ frame \in Frame
  BY TopFrame DEF EndScan, At
<1>2. frame.numscan \in 0 .. MaxScan /\ MaxScan \in Nat /\ 0 \in 0 .. MaxScan
  BY <1>1, DispatchAssumption DEF Frame
<1>3. CASE state[frame.irq] = "PENDING" /\ ~GivesUp
  <2>1. frame.numscan + 1 \in 0 .. MaxScan
    BY <1>2, <1>3 DEF GivesUp
  <2> DEFINE c == frame.numscan + 1
             f == [frame EXCEPT !.i = 1, !.numisr = 0, !.chainisr = 0, !.numscan = c]
  <2>2. /\ stack' = [stack EXCEPT ![top].i = 1, ![top].numisr = 0, ![top].chainisr = 0,
                                  ![top].numscan = @ + 1]
        /\ state' = [state EXCEPT ![frame.irq] = "INUSE"]
        /\ frame.pc = "scan"
    BY <1>3 DEF EndScan, At
  <2>3. stack' = [stack EXCEPT ![top] = f]
    BY <1>1, <2>2 DEF top, frame
  <2> HIDE DEF c
  <2>4. /\ f \in Frame /\ f.pc = "scan" /\ f.irq = frame.irq /\ f.i = 1
        /\ f.head = frame.head /\ f.run = frame.run /\ f.fpu = frame.fpu
    BY <1>1, <2>1, <2>2 DEF Frame, c
  <2> QED BY <1>1, <1>3, <2>2, <2>3, <2>4, Update
<1>4. CASE ~(state[frame.irq] = "PENDING" /\ ~GivesUp)
  <2> DEFINE f == [frame EXCEPT !.pc = "leave", !.i = 1, !.chainisr = 0, !.numscan = 0]
  <2>2. /\ stack' = [stack EXCEPT ![top].pc = "leave", ![top].i = 1, ![top].chainisr = 0,
                                  ![top].numscan = 0]
        /\ state' = state
    BY <1>4 DEF EndScan
  <2>3. stack' = [stack EXCEPT ![top] = f]
    BY <1>1, <2>2 DEF top, frame
  <2>4. /\ f \in Frame /\ f.pc = "leave" /\ f.irq = frame.irq /\ f.i = 1
        /\ f.head = frame.head /\ f.run = frame.run /\ f.fpu = frame.fpu
    BY <1>1, <1>2 DEF Frame
  <2> QED BY <1>1, <1>4, <2>2, <2>3, <2>4, Update
<1> QED BY <1>3, <1>4

\* Leave goes on to the DPCs in the outermost wrapper.
LEMMA LeaveFrame ==
  ASSUME TypeOK, Leave
  PROVE  \E f \in Frame :
           /\ Becomes(f) /\ f.irq = frame.irq
           /\ f.pc = IF top = 1 THEN "rounds" ELSE "exit"
           /\ f.head = frame.head /\ f.run = frame.run /\ f.fpu = frame.fpu
<1>1. stack # <<>> /\ frame \in Frame /\ top = sysenter
  BY TopFrame DEF Leave, At, TypeOK
<1> DEFINE pc == IF top = 1 THEN "rounds" ELSE "exit"
           f == [frame EXCEPT !.pc = pc, !.numisr = 0]
<1>2. stack' = [stack EXCEPT ![top] = f]
  BY <1>1 DEF Leave, top, frame, Outermost
<1>3. pc \in {"rounds", "exit"} /\ pc = IF top = 1 THEN "rounds" ELSE "exit"
  OBVIOUS
<1> HIDE DEF pc
<1>4. /\ f \in Frame /\ f.pc = pc /\ f.irq = frame.irq
      /\ f.head = frame.head /\ f.run = frame.run /\ f.fpu = frame.fpu
  BY <1>1, <1>3 DEF Frame
<1> QED BY <1>1, <1>2, <1>3, <1>4, Update

\* TakeDpcs hands the list over to the frame.
LEMMA TakeDpcsFrame ==
  ASSUME TypeOK, TakeDpcs
  PROVE  \E f \in Frame :
           /\ Becomes(f) /\ f.pc = "next" /\ f.irq = frame.irq
           /\ f.head = dpcHead /\ f.run = frame.run
           /\ dpcUseFpu # 0 => f.fpu
<1>1. /\ stack # <<>> /\ frame \in Frame /\ frame.numscan < MaxScan
      /\ MaxScan \in Nat
  BY TopFrame, DispatchAssumption DEF TakeDpcs, At
<1>2. /\ frame.numscan + 1 \in 0 .. MaxScan /\ SavesFpu \in BOOLEAN
      /\ dpcUseFpu # 0 => SavesFpu /\ dpcHead \in Dpc \cup {Null}
  BY <1>1 DEF Frame, SavesFpu, TypeOK
<1> DEFINE c == frame.numscan + 1
           f == [frame EXCEPT !.pc = "next", !.head = dpcHead, !.numscan = c,
                              !.fpu = SavesFpu]
<1>3. stack' = [stack EXCEPT ![top] = f]
  BY <1>1 DEF TakeDpcs, top, frame
<1>4. c \in 0 .. MaxScan /\ dpcHead \in Dpc \cup {Null}
  BY <1>2 DEF TypeOK
<1> HIDE DEF c
<1>5. /\ f \in Frame /\ f.pc = "next" /\ f.irq = frame.irq /\ f.head = dpcHead
      /\ f.run = frame.run /\ f.fpu = SavesFpu
  BY <1>1, <1>2, <1>4 DEF Frame
<1> QED BY <1>1, <1>2, <1>3, <1>5, Update

\* EndDpcs ends the loop.
LEMMA EndDpcsFrame ==
  ASSUME TypeOK, EndDpcs
  PROVE  \E f \in Frame :
           /\ Becomes(f) /\ f.pc = "exit" /\ f.irq = frame.irq
           /\ f.head = frame.head /\ f.run = frame.run
<1>1. stack # <<>> /\ frame \in Frame /\ 0 \in 0 .. MaxScan
  BY TopFrame, DispatchAssumption DEF EndDpcs, At
<1> DEFINE f == [frame EXCEPT !.pc = "exit", !.numscan = 0, !.fpu = FALSE]
<1>2. stack' = [stack EXCEPT ![top] = f]
  BY <1>1 DEF EndDpcs, top, frame
<1>3. /\ f \in Frame /\ f.pc = "exit" /\ f.irq = frame.irq
      /\ f.head = frame.head /\ f.run = frame.run
  BY <1>1 DEF Frame
<1> QED BY <1>1, <1>2, <1>3, Update

\* CallDpc unlinks the head of the list taken and runs it.
LEMMA CallDpcFrame ==
  ASSUME TypeOK, CallDpc
  PROVE  \E f \in Frame :
           /\ Becomes(f) /\ f.pc = "dpc" /\ f.irq = frame.irq
           /\ f.head = next[frame.head] /\ f.run = frame.head /\ f.fpu = frame.fpu
           /\ frame.head \in Dpc
<1>1. stack # <<>> /\ frame \in Frame
  BY TopFrame DEF CallDpc, At
<1>2. /\ frame.head \in Dpc /\ frame.head \in Dpc \cup {Null}
      /\ next[frame.head] \in Dpc \cup {Null}
  BY <1>1 DEF CallDpc, Frame, TypeOK
<1> DEFINE p == frame.head
           h == next[p]
           f == [frame EXCEPT !.pc = "dpc", !.run = p, !.head = h]
<1>3. stack' = [stack EXCEPT ![top] = f]
  BY <1>1 DEF CallDpc, top, frame
<1>4. p \in Dpc \cup {Null} /\ h \in Dpc \cup {Null}
  BY <1>2
<1> HIDE DEF p, h
<1>5. /\ f \in Frame /\ f.pc = "dpc" /\ f.irq = frame.irq /\ f.head = h
      /\ f.run = p /\ f.fpu = frame.fpu
  BY <1>1, <1>4 DEF Frame
<1> QED BY <1>1, <1>2, <1>3, <1>5, Update DEF p, h

\* DpcReturn goes on with the rest of the list taken.
LEMMA DpcReturnFrame ==
  ASSUME TypeOK, DpcReturn
  PROVE  \E f \in Frame :
           /\ Becomes(f) /\ f.pc = "next" /\ f.irq = frame.irq
           /\ f.head = frame.head /\ f.fpu = frame.fpu
<1>1. stack # <<>> /\ frame \in Frame
  BY TopFrame DEF DpcReturn, At
<1> DEFINE f == [frame EXCEPT !.pc = "next", !.run = Null]
<1>2. stack' = [stack EXCEPT ![top] = f]
  BY <1>1 DEF DpcReturn, top, frame
<1>3. /\ f \in Frame /\ f.pc = "next" /\ f.irq = frame.irq
      /\ f.head = frame.head /\ f.fpu = frame.fpu
  BY <1>1 DEF Frame
<1> QED BY <1>1, <1>2, <1>3, Update

\* EndRound looks for DPCs triggered meanwhile.
LEMMA EndRoundFrame ==
  ASSUME TypeOK, EndRound
  PROVE  \E f \in Frame :
           /\ Becomes(f) /\ f.pc = "rounds" /\ f.irq = frame.irq
           /\ f.head = frame.head /\ f.fpu = frame.fpu /\ f.run = frame.run
<1>1. stack # <<>> /\ frame \in Frame
  BY TopFrame DEF EndRound, At
<1> DEFINE f == [frame EXCEPT !.pc = "rounds"]
<1>2. stack' = [stack EXCEPT ![top] = f]
  BY <1>1 DEF EndRound, top, frame
<1>3. /\ f \in Frame /\ f.pc = "rounds" /\ f.irq = frame.irq
      /\ f.head = frame.head /\ f.fpu = frame.fpu /\ f.run = frame.run
  BY <1>1 DEF Frame
<1> QED BY <1>1, <1>2, <1>3, Update

\* Exit removes the running frame.
LEMMA ExitFrame ==
  ASSUME TypeOK, Exit
  PROVE  /\ stack' \in Seq(Frame) /\ Len(stack') = Len(stack) - 1
         /\ DOMAIN stack' = 1 .. (top - 1) /\ stack # <<>> /\ top \in DOMAIN stack
         /\ \A n \in DOMAIN stack' : /\ stack'[n] = stack[n] /\ n # top
                                   /\ n \in DOMAIN stack
<1>1. /\ stack # <<>> /\ top \in Nat \ {0} /\ DOMAIN stack = 1 .. top
      /\ top \in DOMAIN stack /\ \A j \in 1 .. top - 1 : stack[j] \in Frame
      /\ top = Len(stack)
  BY TopFrame DEF Exit, At
<1>2. /\ stack' \in Seq(Frame) /\ Len(stack') = top - 1
      /\ \A j \in 1 .. (top - 1) - 1 + 1 : stack'[j] = stack[1 + j - 1]
  BY <1>1, SubSeqProperties DEF Exit
<1>3. DOMAIN stack' = 1 .. (top - 1)
  BY <1>1, <1>2
<1> QED BY <1>1, <1>2, <1>3

\* Enter adds a frame.
LEMMA EnterFrame ==
  ASSUME TypeOK, NEW q \in Irq, Enter(q)
  PROVE  /\ stack' \in Seq(Frame) /\ Len(stack') = Len(stack) + 1 /\ stack' # <<>>
         /\ DOMAIN stack' = 1 .. (Len(stack) + 1)
         /\ stack'[Len(stack) + 1] = NewFrame(q)
         /\ \A n \in 1 .. Len(stack) : stack'[n] = stack[n]
         /\ Len(stack) \in Nat /\ DOMAIN stack = 1 .. Len(stack)
         /\ stack = <<>> <=> Len(stack) = 0
<1>1. NewFrame(q) \in Frame
  BY DispatchAssumption DEF NewFrame, Frame
<1> QED BY <1>1 DEF Enter, TypeOK

-----------------------------------------------------------------------------
(* Types, and where wrappers nest.                                         *)

\* A step keeps the types and the lock's count; Leave and DpcReturn need to know
\* that the lock was held once at most.
LEMMA TypeStep ==
  ASSUME TypeOK, Nesting, [Next]_vars
  PROVE  TypeOK'
<1> USE DispatchAssumption
<1>1. CASE CallISR
  <2>1. PICK f \in Frame : Becomes(f)
    BY <1>1, CallISRFrame
  <2>2. due' \in [Device -> BOOLEAN]
    BY <1>1 DEF CallISR, TypeOK
  <2> QED BY <1>1, <2>1, <2>2 DEF CallISR, TypeOK, Becomes, InMain, lists, lock, dpcs
<1>2. CASE IsrReturn
  <2>1. PICK f \in Frame : Becomes(f)
    BY <1>2, IsrReturnFrame
  <2> QED BY <1>2, <2>1 DEF IsrReturn, TypeOK, Becomes, InMain, pic, lists, lock, dpcs
<1>3. CASE EndScan
  <2>1. PICK f \in Frame :
          Becomes(f) /\ (state' = [state EXCEPT ![f.irq] = "INUSE"] \/ state' = state)
    BY <1>3, EndScanFrame
  <2>2. state' \in [Irq -> {"NONE", "INUSE", "PENDING"}]
    BY <2>1 DEF TypeOK
  <2>3. errflags' \in [Irq -> SUBSET {"REENTRY", "UNHANDLED", "USELESS_CHAINING", "NUMEROUS"}]
    BY <1>3 DEF EndScan, TypeOK
  <2>4. UNCHANGED <<due, latch, masked, isrs, oldMask, allowIntr, sysenter, cscnt, intr,
                    dpcState, next, dpcHead, dpcUseFpu, dpcErr>>
    BY <1>3 DEF EndScan, pic, lists, lock, dpcs
  <2>5. stack' \in Seq(Frame) /\ ~InMain' /\ Len(stack') = Len(stack)
    BY <2>1 DEF Becomes, InMain
  <2>6. /\ due' \in [Device -> BOOLEAN] /\ latch' \in [Irq -> BOOLEAN]
        /\ masked' \in [Irq -> BOOLEAN] /\ isrs' \in [Irq -> Seq(Device)]
        /\ oldMask' \in [Irq -> BOOLEAN] /\ allowIntr' \in [Irq -> BOOLEAN]
    BY <2>4 DEF TypeOK
  <2>7. /\ sysenter' \in Nat /\ cscnt' \in 0 .. 2 /\ intr' \in BOOLEAN
        /\ intr' => cscnt' = 0
        /\ sysenter' = Len(stack')
    BY <2>4, <2>5 DEF TypeOK
  <2>8. /\ dpcState' \in [Dpc -> SUBSET {"WAITING", "RUNNING"}]
        /\ next' \in [Dpc -> Dpc \cup {Null}] /\ dpcHead' \in Dpc \cup {Null}
        /\ dpcUseFpu' \in Nat /\ dpcErr' \subseteq {"UNEXPECTED", "NUMEROUS"}
    BY <2>4 DEF TypeOK
  <2> QED BY <2>2, <2>3, <2>5, <2>6, <2>7, <2>8, Zenon DEF TypeOK
<1>4. CASE Leave
  <2>1. PICK f \in Frame : Becomes(f)
    BY <1>4, LeaveFrame
  <2>2. cscnt' \in 0 .. 2
    BY <1>4 DEF Leave, At, TypeOK, Nesting, Scanning
  <2>3. masked' \in [Irq -> BOOLEAN] /\ state' \in [Irq -> {"NONE", "INUSE", "PENDING"}]
    BY <1>4 DEF Leave, TypeOK
  <2> QED BY <1>4, <2>1, <2>2, <2>3 DEF Leave, TypeOK, Becomes, InMain, lists, dpcs
<1>5. CASE Exit
  <2>1. stack' \in Seq(Frame) /\ Len(stack') = Len(stack) - 1 /\ Len(stack') \in Nat
    BY <1>5, ExitFrame
  <2>2. UNCHANGED <<due, latch, masked, isrs, oldMask, allowIntr, state, errflags,
                    dpcState, next, dpcHead, dpcUseFpu, dpcErr>>
    BY <1>5 DEF Exit, pic, lists, dpcs
  <2>3. cscnt' = 0 /\ intr' = TRUE /\ sysenter' = Len(stack')
    BY <1>5, <2>1 DEF Exit, TypeOK
  <2> QED BY <2>1, <2>2, <2>3 DEF TypeOK
<1>6. CASE TakeDpcs
  <2>1. PICK f \in Frame : Becomes(f)
    BY <1>6, TakeDpcsFrame
  <2> QED BY <1>6, <2>1 DEF TakeDpcs, TypeOK, Becomes, InMain, pic, lists, lock
<1>7. CASE EndDpcs
  <2>1. PICK f \in Frame : Becomes(f)
    BY <1>7, EndDpcsFrame
  <2> QED BY <1>7, <2>1 DEF EndDpcs, TypeOK, Becomes, InMain, pic, lists, lock
<1>8. CASE CallDpc
  <2>1. PICK f \in Frame : Becomes(f)
    BY <1>8, CallDpcFrame
  <2>2. dpcState' \in [Dpc -> SUBSET {"WAITING", "RUNNING"}]
    BY <1>8 DEF CallDpc, TypeOK
  <2>3. dpcErr' \subseteq {"UNEXPECTED", "NUMEROUS"}
    BY <1>8 DEF CallDpc, TypeOK
  <2> QED BY <1>8, <2>1, <2>2, <2>3 DEF CallDpc, TypeOK, Becomes, InMain, pic, lists
<1>9. CASE DpcReturn
  <2>1. PICK f \in Frame : Becomes(f)
    BY <1>9, DpcReturnFrame
  <2>2. dpcState' \in [Dpc -> SUBSET {"WAITING", "RUNNING"}]
    BY <1>9 DEF DpcReturn, TypeOK
  <2>3. cscnt' \in 0 .. 2
    BY <1>9 DEF DpcReturn, At, TypeOK, Nesting
  <2> QED BY <1>9, <2>1, <2>2, <2>3 DEF DpcReturn, TypeOK, Becomes, InMain, pic, lists
<1>10. CASE EndRound
  <2>1. PICK f \in Frame : Becomes(f)
    BY <1>10, EndRoundFrame
  <2> QED BY <1>10, <2>1 DEF EndRound, TypeOK, Becomes, InMain, pic, lists, lock, dpcs
<1>11. ASSUME NEW q \in Irq, Enter(q)
       PROVE  TypeOK'
  <2>1. stack' \in Seq(Frame) /\ Len(stack') = Len(stack) + 1 /\ stack' # <<>>
    BY <1>11, EnterFrame
  <2>2. /\ latch' \in [Irq -> BOOLEAN] /\ masked' \in [Irq -> BOOLEAN]
        /\ state' \in [Irq -> {"NONE", "INUSE", "PENDING"}]
    BY <1>11 DEF Enter, TypeOK
  <2>3. intr' \in BOOLEAN /\ cscnt' \in 0 .. 2 /\ (intr' => cscnt' = 0)
    BY <1>11 DEF Enter, TypeOK
  <2> QED BY <1>11, <2>1, <2>2, <2>3 DEF Enter, TypeOK, InMain, lists, dpcs
<1>12. ASSUME NEW q \in Irq, Reenter(q)
       PROVE  TypeOK'
  <2>1. latch' \in [Irq -> BOOLEAN] /\ state' \in [Irq -> {"NONE", "INUSE", "PENDING"}]
    BY <1>12 DEF Reenter, TypeOK, AfterReentry
  <2>2. errflags' \in [Irq -> SUBSET {"REENTRY", "UNHANDLED", "USELESS_CHAINING", "NUMEROUS"}]
    BY <1>12 DEF Reenter, TypeOK
  <2> QED BY <1>12, <2>1, <2>2 DEF Reenter, TypeOK, InMain, lists, dpcs
<1>13. ASSUME NEW q \in Irq, Setting(q)
       PROVE  TypeOK'
  BY <1>13 DEF Setting, TypeOK, InMain, pic, lock, dpcs
<1>14. ASSUME NEW d \in Device, Raise(d)
       PROVE  TypeOK'
  <2>1. due' \in [Device -> BOOLEAN] /\ latch' \in [Irq -> BOOLEAN]
    BY <1>14 DEF Raise, TypeOK
  <2> QED BY <1>14, <2>1 DEF Raise, TypeOK, InMain, lists, lock, dpcs
<1>15. ASSUME NEW d \in Device, InstallISR(d)
       PROVE  TypeOK'
  <2>1. LineOf[d] \in Irq /\ Append(isrs[LineOf[d]], d) \in Seq(Device)
    BY DEF TypeOK
  <2>2. isrs' \in [Irq -> Seq(Device)]
    BY <1>15, <2>1 DEF InstallISR, TypeOK
  <2>3. oldMask' \in [Irq -> BOOLEAN] /\ masked' \in [Irq -> BOOLEAN]
    <3>1. /\ \/ oldMask' = oldMask
             \/ oldMask' = [oldMask EXCEPT ![LineOf[d]] = masked[LineOf[d]]]
          /\ masked' = masked \/ masked' = [masked EXCEPT ![LineOf[d]] = FALSE]
      BY <1>15 DEF InstallISR
    <3>2. masked[LineOf[d]] \in BOOLEAN
      BY <2>1 DEF TypeOK
    <3> QED BY <3>1, <3>2 DEF TypeOK
  <2>4. UNCHANGED <<due, latch, allowIntr, state, errflags, stack, sysenter, cscnt, intr,
                    dpcState, next, dpcHead, dpcUseFpu, dpcErr>>
    BY <1>15 DEF InstallISR, lock, dpcs
  <2> QED BY <2>2, <2>3, <2>4 DEF TypeOK, InMain
<1>16. ASSUME NEW d \in Device, UninstallISR(d)
       PROVE  TypeOK'
  <2> DEFINE q == LineOf[d]
             Without(i) == SubSeq(isrs[q], 1, i - 1) \o SubSeq(isrs[q], i + 1, Len(isrs[q]))
  <2>1. q \in Irq /\ isrs[q] \in Seq(Device)
    BY DEF TypeOK
  <2>2. PICK i \in DOMAIN isrs[q] :
          /\ isrs' = [isrs EXCEPT ![q] = Without(i)]
          /\ masked' = [masked EXCEPT ![q] = @ \/ (Without(i) = <<>> /\ oldMask[q])]
    BY <1>16 DEF UninstallISR
  <2>3. Without(i) \in Seq(Device)
    BY <2>1, Removal
  <2>4. isrs' \in [Irq -> Seq(Device)]
    BY <2>1, <2>2, <2>3 DEF TypeOK
  <2>5. masked' \in [Irq -> BOOLEAN] /\ due' \in [Device -> BOOLEAN]
    BY <1>16, <2>1, <2>2 DEF UninstallISR, TypeOK
  <2> QED BY <1>16, <2>4, <2>5 DEF UninstallISR, TypeOK, InMain, lock, dpcs
<1>17. ASSUME NEW p \in Dpc, TriggerDPC(p)
       PROVE  TypeOK'
  <2>1. /\ dpcState' \in [Dpc -> SUBSET {"WAITING", "RUNNING"}]
        /\ next' \in [Dpc -> Dpc \cup {Null}]
    BY <1>17 DEF TriggerDPC, TypeOK
  <2> QED BY <1>17, <2>1 DEF TriggerDPC, TypeOK, InMain, pic, lists, lock
<1>18. CASE UNCHANGED vars
  BY <1>18 DEF vars, TypeOK, InMain
<1> QED BY <1>1, <1>2, <1>3, <1>4, <1>5, <1>6, <1>7, <1>8, <1>9, <1>10, <1>11,
           <1>12, <1>13, <1>14, <1>15, <1>16, <1>17, <1>18 DEF Next, Wrapper

\* A step of the running wrapper keeps the frames below it as they were.
LEMMA NestingUpdate ==
  ASSUME TypeOK, Nesting, stack # <<>>, NEW f \in Frame, Becomes(f),
         f.pc \in {"rounds", "next", "dpc"} => top = 1,
         f.pc = "dpc" => f.run # Null,
         f.pc \notin {"next", "dpc"} => f.head = Null,
         f.pc \in {"rounds", "next", "exit"} => ~intr',
         Scanning(f) \/ f.pc = "dpc" => cscnt' <= 1
  PROVE  Nesting'
<1>1. /\ top \in Nat \ {0} /\ top = Len(stack) /\ DOMAIN stack = 1 .. top
      /\ stack' # <<>> /\ Len(stack') = top /\ DOMAIN stack' = 1 .. top
      /\ stack'[top] = f /\ \A n \in 1 .. top : n # top => stack'[n] = stack[n]
  BY TopFrame DEF Becomes
<1>2. ASSUME NEW n \in DOMAIN stack'
      PROVE  /\ n < Len(stack') => Scanning(stack'[n]) \/ stack'[n].pc = "dpc"
             /\ stack'[n].pc \in {"rounds", "next", "dpc"} => n = 1
             /\ stack'[n].pc = "dpc" => stack'[n].run # Null
             /\ stack'[n].pc \notin {"next", "dpc"} => stack'[n].head = Null
  BY <1>1, <1>2 DEF Nesting, Scanning
<1>3. /\ stack'[Len(stack')].pc \in {"rounds", "next", "exit"} => ~intr'
      /\ Scanning(stack'[Len(stack')]) \/ stack'[Len(stack')].pc = "dpc" => cscnt' <= 1
  BY <1>1
<1> QED BY <1>2, <1>3 DEF Nesting, frame, top, Scanning

\* Wherever the stack stays, so does the nesting, if the lock does too.
LEMMA NestingSame ==
  ASSUME Nesting, stack' = stack, cscnt' = cscnt, intr' = intr
  PROVE  Nesting'
BY DEF Nesting, frame, top, Scanning

\* A wrapper is interrupted only at a point where it has enabled interrupts, and
\* goes on from there with interrupts enabled.
LEMMA NestingStep ==
  ASSUME TypeOK, Nesting, [Next]_vars
  PROVE  Nesting'
<1>0. TypeOK'
  BY TypeStep
<1>a. stack # <<>> => /\ frame.pc \in {"rounds", "next", "dpc"} => top = 1
                      /\ frame.pc \notin {"next", "dpc"} => frame.head = Null
                      /\ frame.pc = "dpc" => frame.run # Null
                      /\ frame.pc \in {"rounds", "next", "exit"} => ~intr
                      /\ Scanning(frame) \/ frame.pc = "dpc" => cscnt <= 1
  BY TopFrame DEF Nesting
<1>1. CASE CallISR
  <2>1. PICK f \in Frame : Becomes(f) /\ f.pc = "isr" /\ f.head = frame.head
    BY <1>1, CallISRFrame
  <2> QED BY <1>1, <1>a, <2>1, NestingUpdate DEF CallISR, At, Scanning, lock
<1>2. CASE IsrReturn
  <2>1. PICK f \in Frame : Becomes(f) /\ f.pc = "scan" /\ f.head = frame.head
    BY <1>2, IsrReturnFrame
  <2> QED BY <1>2, <1>a, <2>1, NestingUpdate DEF IsrReturn, At, Scanning, lock
<1>3. CASE EndScan
  <2>1. PICK f \in Frame : Becomes(f) /\ f.pc \in {"scan", "leave"} /\ f.head = frame.head
    BY <1>3, EndScanFrame
  <2> QED BY <1>3, <1>a, <2>1, NestingUpdate DEF EndScan, At, Scanning, lock
<1>4. CASE Leave
  <2>1. PICK f \in Frame : /\ Becomes(f) /\ f.pc = IF top = 1 THEN "rounds" ELSE "exit"
                           /\ f.head = frame.head
    BY <1>4, LeaveFrame
  <2>2. f.pc \in {"rounds", "exit"} /\ (f.pc = "rounds" => top = 1)
    BY <2>1
  <2> QED BY <1>4, <1>a, <2>1, <2>2, NestingUpdate DEF Leave, At, Scanning
<1>5. CASE Exit
  <2>1. /\ Len(stack') = Len(stack) - 1
        /\ DOMAIN stack' = 1 .. (top - 1) /\ top \in Nat \ {0} /\ DOMAIN stack = 1 .. top
        /\ top = Len(stack)
        /\ \A n \in DOMAIN stack' : stack'[n] = stack[n]
    BY <1>5, ExitFrame, TopFrame
  <2>2. \A n \in DOMAIN stack' : Scanning(stack'[n]) \/ stack'[n].pc = "dpc"
    BY <2>1 DEF Nesting
  <2>3. \A n \in DOMAIN stack' :
          /\ stack'[n].pc \in {"rounds", "next", "dpc"} => n = 1
          /\ stack'[n].pc = "dpc" => stack'[n].run # Null
          /\ stack'[n].pc \notin {"next", "dpc"} => stack'[n].head = Null
    BY <2>1 DEF Nesting
  <2>4. stack' # <<>> => Len(stack') \in DOMAIN stack'
    BY <1>0 DEF TypeOK
  <2>5. cscnt' = 0
    BY <1>5 DEF Exit
  <2> QED BY <2>2, <2>3, <2>4, <2>5 DEF Nesting, frame, top, Scanning
<1>6. CASE TakeDpcs
  <2>1. PICK f \in Frame : Becomes(f) /\ f.pc = "next"
    BY <1>6, TakeDpcsFrame
  <2> QED BY <1>6, <1>a, <2>1, NestingUpdate DEF TakeDpcs, At, Scanning, lock
<1>7. CASE EndDpcs
  <2>1. PICK f \in Frame : Becomes(f) /\ f.pc = "exit" /\ f.head = frame.head
    BY <1>7, EndDpcsFrame
  <2> QED BY <1>7, <1>a, <2>1, NestingUpdate DEF EndDpcs, At, Scanning, lock
<1>8. CASE CallDpc
  <2>1. PICK f \in Frame : Becomes(f) /\ f.pc = "dpc" /\ f.run \in Dpc
    BY <1>8, CallDpcFrame
  <2> QED BY <1>8, <1>a, <2>1, NestingUpdate, DispatchAssumption DEF CallDpc, At, Scanning
<1>9. CASE DpcReturn
  <2>1. PICK f \in Frame : Becomes(f) /\ f.pc = "next"
    BY <1>9, DpcReturnFrame
  <2> QED BY <1>9, <1>a, <2>1, NestingUpdate DEF DpcReturn, At, Scanning
<1>10. CASE EndRound
  <2>1. PICK f \in Frame : Becomes(f) /\ f.pc = "rounds" /\ f.head = frame.head
    BY <1>10, EndRoundFrame
  <2> QED BY <1>10, <1>a, <2>1, NestingUpdate DEF EndRound, At, Scanning, lock
<1>11. ASSUME NEW q \in Irq, Enter(q)
       PROVE  Nesting'
  <2> DEFINE k == Len(stack)
  <2>1. /\ Len(stack') = k + 1 /\ k \in Nat /\ DOMAIN stack = 1 .. k
        /\ DOMAIN stack' = 1 .. (k + 1) /\ stack'[k + 1] = NewFrame(q)
        /\ \A n \in 1 .. k : stack'[n] = stack[n]
        /\ stack = <<>> <=> k = 0
    BY <1>11, EnterFrame
  <2>2. cscnt' <= 1 /\ intr
    BY <1>11 DEF Enter, Deliverable
  <2>3. stack # <<>> => Scanning(stack[k]) \/ stack[k].pc = "dpc"
    BY <2>2, <1>a, TopFrame DEF Frame, Scanning
  <2>4. NewFrame(q).pc = "scan" /\ NewFrame(q).head = Null
    BY DEF NewFrame
  <2>5. ASSUME NEW n \in DOMAIN stack'
        PROVE  /\ n < Len(stack') => Scanning(stack'[n]) \/ stack'[n].pc = "dpc"
               /\ stack'[n].pc \in {"rounds", "next", "dpc"} => n = 1
               /\ stack'[n].pc = "dpc" => stack'[n].run # Null
               /\ stack'[n].pc \notin {"next", "dpc"} => stack'[n].head = Null
    <3>1. CASE n = k + 1
      BY <2>1, <2>4, <3>1
    <3>2. CASE n # k + 1
      <4>1. n \in 1 .. k /\ stack'[n] = stack[n] /\ n \in DOMAIN stack
        BY <2>1, <3>2
      <4>2. Scanning(stack[n]) \/ stack[n].pc = "dpc"
        BY <2>1, <2>3, <4>1 DEF Nesting
      <4> QED BY <4>1, <4>2 DEF Nesting
    <3> QED BY <3>1, <3>2
  <2>6. stack'[Len(stack')].pc = "scan"
    BY <2>1, <2>4
  <2> QED BY <2>2, <2>5, <2>6 DEF Nesting, frame, top, Scanning
<1>12. ASSUME NEW q \in Irq, Reenter(q)
       PROVE  Nesting'
  <2>1. stack' = stack /\ intr' = intr /\ cscnt' = 0 /\ cscnt = 0
    BY <1>12 DEF Reenter, Deliverable, TypeOK
  <2> QED BY <2>1, NestingSame
<1>13. ASSUME NEW q \in Irq, Setting(q)
       PROVE  Nesting'
  BY <1>13, NestingSame DEF Setting, lock
<1>14. ASSUME NEW d \in Device, Raise(d)
       PROVE  Nesting'
  BY <1>14, NestingSame DEF Raise, lock
<1>15. ASSUME NEW d \in Device, InstallISR(d)
       PROVE  Nesting'
  BY <1>15, NestingSame DEF InstallISR, lock
<1>16. ASSUME NEW d \in Device, UninstallISR(d)
       PROVE  Nesting'
  BY <1>16, NestingSame DEF UninstallISR, lock
<1>17. ASSUME NEW p \in Dpc, TriggerDPC(p)
       PROVE  Nesting'
  BY <1>17, NestingSame DEF TriggerDPC, lock
<1>18. CASE UNCHANGED vars
  BY <1>18, NestingSame DEF vars
<1> QED BY <1>1, <1>2, <1>3, <1>4, <1>5, <1>6, <1>7, <1>8, <1>9, <1>10, <1>11,
           <1>12, <1>13, <1>14, <1>15, <1>16, <1>17, <1>18 DEF Next, Wrapper

-----------------------------------------------------------------------------
(* One scan per line.                                                      *)

\* A step of the running wrapper that neither takes a line nor releases one.
LEMMA ScansUpdate ==
  ASSUME TypeOK, Scans, stack # <<>>, NEW f \in Frame, Becomes(f),
         f.irq = frame.irq, Scanning(f) <=> Scanning(frame),
         \A q \in Irq : state'[q] = "NONE" <=> state[q] = "NONE",
         masked' = masked,
         \A q \in Level : "REENTRY" \notin errflags'[q]
  PROVE  Scans'
<1>1. /\ top \in DOMAIN stack /\ frame = stack[top] /\ DOMAIN stack' = DOMAIN stack
      /\ stack'[top] = f /\ \A n \in DOMAIN stack : n # top => stack'[n] = stack[n]
  BY TopFrame DEF Becomes
<1>2. \A n \in DOMAIN stack : /\ stack'[n].irq = stack[n].irq
                              /\ Scanning(stack'[n]) <=> Scanning(stack[n])
  BY <1>1
<1>3. Level \subseteq Irq
  BY DispatchAssumption
<1>4. \A n, m \in DOMAIN stack' :
        Scanning(stack'[n]) /\ Scanning(stack'[m]) /\ stack'[n].irq = stack'[m].irq
          => n = m
  BY <1>1, <1>2, Zenon DEF Scans
<1>5. ASSUME NEW q \in Irq
      PROVE  state'[q] = "NONE" <=>
               \A n \in DOMAIN stack' : Scanning(stack'[n]) => stack'[n].irq # q
  <2>1. state[q] = "NONE" <=>
          \A n \in DOMAIN stack : Scanning(stack[n]) => stack[n].irq # q
    BY DEF Scans
  <2> QED BY <1>1, <1>2, <2>1
<1>6. \A q \in Level : /\ state'[q] # "NONE" => masked'[q]
                       /\ "REENTRY" \notin errflags'[q]
  BY <1>3, Zenon DEF Scans
<1> QED BY <1>4, <1>5, <1>6 DEF Scans, Scanning

\* The main program leaves the stack, the states and the errors of the lines
\* alone, and while it runs no line is held.
LEMMA ScansSame ==
  ASSUME Scans, stack' = stack, state' = state, errflags' = errflags,
         masked' = masked \/ InMain
  PROVE  Scans'
<1>1. Level \subseteq Irq /\ (InMain => DOMAIN stack = {})
  BY DispatchAssumption DEF InMain
<1>2. InMain => \A q \in Level : state[q] = "NONE"
  BY <1>1 DEF Scans
<1>3. \A q \in Level : /\ state'[q] # "NONE" => masked'[q]
                       /\ "REENTRY" \notin errflags'[q]
  BY <1>2 DEF Scans
<1> QED BY <1>3 DEF Scans, Scanning

\* A wrapper takes a line that is free, and gives back the line it holds.
LEMMA ScansStep ==
  ASSUME TypeOK, Nesting, Scans, [Next]_vars
  PROVE  Scans'
<1>0. TypeOK' /\ Level \subseteq Irq
  BY TypeStep, DispatchAssumption
<1>a. stack # <<>> => frame \in Frame /\ frame.irq \in Irq
  BY TopFrame DEF Frame
<1>1. CASE CallISR
  <2>1. PICK f \in Frame : Becomes(f) /\ f.pc = "isr" /\ f.irq = frame.irq
    BY <1>1, CallISRFrame
  <2> QED BY <1>1, <2>1, ScansUpdate DEF CallISR, At, Scanning, lists, Scans
<1>2. CASE IsrReturn
  <2>1. PICK f \in Frame : Becomes(f) /\ f.pc = "scan" /\ f.irq = frame.irq
    BY <1>2, IsrReturnFrame
  <2> QED BY <1>2, <2>1, ScansUpdate DEF IsrReturn, At, Scanning, pic, Scans
<1>3. CASE EndScan
  <2>1. PICK f \in Frame :
          /\ Becomes(f) /\ f.pc \in {"scan", "leave"} /\ f.irq = frame.irq
          /\ \/ /\ state[f.irq] = "PENDING"
                /\ state' = [state EXCEPT ![f.irq] = "INUSE"]
             \/ state' = state
    BY <1>3, EndScanFrame
  <2>2. \A q \in Irq : state'[q] = "NONE" <=> state[q] = "NONE"
    BY <2>1 DEF TypeOK
  <2>3. \A q \in Level : "REENTRY" \notin errflags'[q]
    BY <1>3, <1>0 DEF EndScan, Scans, TypeOK
  <2>4. masked' = masked /\ stack # <<>> /\ frame.pc = "scan"
    BY <1>3 DEF EndScan, At, pic
  <2> QED BY <2>1, <2>2, <2>3, <2>4, ScansUpdate DEF Scanning
<1>4. CASE Leave
  <2>1. PICK f \in Frame : /\ Becomes(f) /\ f.pc = IF top = 1 THEN "rounds" ELSE "exit"
                           /\ f.irq = frame.irq
    BY <1>4, LeaveFrame
  <2>2. /\ top \in DOMAIN stack /\ frame = stack[top] /\ DOMAIN stack' = DOMAIN stack
        /\ stack'[top] = f /\ \A n \in DOMAIN stack : n # top => stack'[n] = stack[n]
        /\ Scanning(frame) /\ ~Scanning(f) /\ frame.irq \in Irq
    BY <1>4, <1>a, <2>1, TopFrame DEF Leave, At, Becomes, Scanning
  <2>a. \A n \in DOMAIN stack' : Scanning(stack'[n]) => stack'[n] = stack[n]
    BY <2>2
  <2>3. ASSUME NEW n \in DOMAIN stack', NEW m \in DOMAIN stack',
               Scanning(stack'[n]), Scanning(stack'[m]), stack'[n].irq = stack'[m].irq
        PROVE  n = m
    <3>1. /\ n \in DOMAIN stack /\ m \in DOMAIN stack
          /\ stack'[n] = stack[n] /\ stack'[m] = stack[m]
      BY <2>2, <2>3, <2>a
    <3> QED BY <2>3, <3>1 DEF Scans
  <2>4. /\ state' = [state EXCEPT ![frame.irq] = "NONE"]
        /\ masked' = [masked EXCEPT ![frame.irq] = @ /\ ~Unmasks(frame.irq)]
        /\ errflags' = errflags
    BY <1>4 DEF Leave
  <2>5. ASSUME NEW q \in Irq
        PROVE  state'[q] = "NONE" <=>
                 \A n \in DOMAIN stack' : Scanning(stack'[n]) => stack'[n].irq # q
    <3>1. CASE q = frame.irq
      <4>1. state'[q] = "NONE"
        BY <2>4, <3>1 DEF TypeOK
      <4>2. \A n \in DOMAIN stack' : Scanning(stack'[n]) => stack'[n].irq # q
        BY <2>2, <3>1, Zenon DEF Scans
      <4> QED BY <4>1, <4>2
    <3>2. CASE q # frame.irq
      <4>1. state'[q] = state[q]
        BY <2>4, <3>2 DEF TypeOK
      <4>2. \A n \in DOMAIN stack : /\ Scanning(stack'[n]) /\ stack'[n].irq = q
                                      => Scanning(stack[n]) /\ stack[n].irq = q
                                    /\ Scanning(stack[n]) /\ stack[n].irq = q
                                      => Scanning(stack'[n]) /\ stack'[n].irq = q
        BY <2>2, <3>2
      <4> QED BY <2>2, <4>1, <4>2, Zenon DEF Scans
    <3> QED BY <3>1, <3>2
  <2>6. \A q \in Level : /\ state'[q] # "NONE" => masked'[q]
                         /\ "REENTRY" \notin errflags'[q]
    BY <1>0, <2>2, <2>4 DEF TypeOK, Scans
  <2> QED BY <2>3, <2>5, <2>6 DEF Scans, Scanning
<1>5. CASE Exit
  <2>1. /\ DOMAIN stack' = 1 .. (top - 1) /\ top \in Nat \ {0} /\ DOMAIN stack = 1 .. top
        /\ \A n \in DOMAIN stack' : stack'[n] = stack[n]
    BY <1>5, ExitFrame, TopFrame
  <2>2. \A n \in DOMAIN stack : n \in DOMAIN stack' \/ ~Scanning(stack[n])
    BY <1>5, <2>1 DEF Exit, At, Scanning, frame
  <2>3. DOMAIN stack' \subseteq DOMAIN stack
    BY <2>1
  <2>4. \A n, m \in DOMAIN stack' :
        Scanning(stack'[n]) /\ Scanning(stack'[m]) /\ stack'[n].irq = stack'[m].irq
          => n = m
    BY <2>1, <2>3, Zenon DEF Scans
  <2>5. state' = state /\ masked' = masked /\ errflags' = errflags
    BY <1>5 DEF Exit, pic
  <2>6. \A q \in Irq : state'[q] = "NONE" <=>
        \A n \in DOMAIN stack' : Scanning(stack'[n]) => stack'[n].irq # q
    <3> SUFFICES ASSUME NEW q \in Irq
                 PROVE  state'[q] = "NONE" <=>
                        \A n \in DOMAIN stack' : Scanning(stack'[n]) => stack'[n].irq # q
      OBVIOUS
    <3>1. state[q] = "NONE" <=>
          \A n \in DOMAIN stack : Scanning(stack[n]) => stack[n].irq # q
      BY DEF Scans
    <3>2. (\A n \in DOMAIN stack : Scanning(stack[n]) => stack[n].irq # q) <=>
          \A n \in DOMAIN stack' : Scanning(stack'[n]) => stack'[n].irq # q
      BY <2>1, <2>2, <2>3, Zenon
    <3> QED BY <2>5, <3>1, <3>2
  <2> QED BY <2>4, <2>5, <2>6 DEF Scans, Scanning
<1>6. CASE TakeDpcs
  <2>1. PICK f \in Frame : Becomes(f) /\ f.pc = "next" /\ f.irq = frame.irq
    BY <1>6, TakeDpcsFrame
  <2> QED BY <1>6, <2>1, ScansUpdate DEF TakeDpcs, At, Scanning, pic, Scans
<1>7. CASE EndDpcs
  <2>1. PICK f \in Frame : Becomes(f) /\ f.pc = "exit" /\ f.irq = frame.irq
    BY <1>7, EndDpcsFrame
  <2> QED BY <1>7, <2>1, ScansUpdate DEF EndDpcs, At, Scanning, pic, Scans
<1>8. CASE CallDpc
  <2>1. PICK f \in Frame : Becomes(f) /\ f.pc = "dpc" /\ f.irq = frame.irq
    BY <1>8, CallDpcFrame
  <2> QED BY <1>8, <2>1, ScansUpdate DEF CallDpc, At, Scanning, pic, Scans
<1>9. CASE DpcReturn
  <2>1. PICK f \in Frame : Becomes(f) /\ f.pc = "next" /\ f.irq = frame.irq
    BY <1>9, DpcReturnFrame
  <2> QED BY <1>9, <2>1, ScansUpdate DEF DpcReturn, At, Scanning, pic, Scans
<1>10. CASE EndRound
  <2>1. PICK f \in Frame : Becomes(f) /\ f.pc = "rounds" /\ f.irq = frame.irq
    BY <1>10, EndRoundFrame
  <2> QED BY <1>10, <2>1, ScansUpdate DEF EndRound, At, Scanning, pic, Scans
<1>11. ASSUME NEW r \in Irq, Enter(r)
       PROVE  Scans'
  <2> DEFINE k == Len(stack)
  <2>1. /\ DOMAIN stack = 1 .. k /\ k \in Nat
        /\ DOMAIN stack' = 1 .. (k + 1) /\ stack'[k + 1] = NewFrame(r)
        /\ \A n \in 1 .. k : stack'[n] = stack[n]
    BY <1>11, EnterFrame
  <2>2. NewFrame(r).irq = r /\ Scanning(NewFrame(r))
    BY DEF NewFrame, Scanning
  <2>3. /\ state[r] = "NONE" /\ errflags' = errflags
        /\ state' = [state EXCEPT ![r] = "INUSE"]
        /\ masked' = [masked EXCEPT ![r] = @ \/ r \in Level]
    BY <1>11 DEF Enter, Held, MasksOnEntry
  <2>4. \A n \in DOMAIN stack : Scanning(stack[n]) => stack[n].irq # r
    BY <2>3 DEF Scans
  <2>5. /\ DOMAIN stack \subseteq DOMAIN stack' /\ k + 1 \in DOMAIN stack'
        /\ \A n \in DOMAIN stack' : n = k + 1 \/ n \in DOMAIN stack
        /\ k + 1 \notin DOMAIN stack
    BY <2>1
  <2> HIDE DEF k
  <2>6. \A n, m \in DOMAIN stack' :
          Scanning(stack'[n]) /\ Scanning(stack'[m]) /\ stack'[n].irq = stack'[m].irq
            => n = m
    BY <2>1, <2>2, <2>4, <2>5 DEF Scans
  <2>7. ASSUME NEW q \in Irq
        PROVE  state'[q] = "NONE" <=>
                 \A n \in DOMAIN stack' : Scanning(stack'[n]) => stack'[n].irq # q
    <3>1. CASE q = r
      <4>1. state'[q] # "NONE"
        BY <2>3, <3>1 DEF TypeOK
      <4> QED BY <2>1, <2>2, <2>5, <3>1, <4>1
    <3>2. CASE q # r
      <4>1. state'[q] = state[q]
        BY <2>3, <3>2 DEF TypeOK
      <4>2. \A n \in DOMAIN stack : stack'[n] = stack[n]
        BY <2>1
      <4>3. stack'[k + 1].irq # q
        BY <2>1, <2>2, <3>2
      <4>4. state[q] = "NONE" <=>
              \A n \in DOMAIN stack : Scanning(stack[n]) => stack[n].irq # q
        BY DEF Scans
      <4> QED BY <2>5, <4>1, <4>2, <4>3, <4>4
    <3> QED BY <3>1, <3>2
  <2>8. ASSUME NEW q \in Level
        PROVE  /\ state'[q] # "NONE" => masked'[q]
               /\ "REENTRY" \notin errflags'[q]
    <3>1. q \in Irq /\ (state[q] # "NONE" => masked[q]) /\ "REENTRY" \notin errflags[q]
      BY <1>0 DEF Scans
    <3>2. q = r => masked'[q]
      BY <2>3, <3>1 DEF TypeOK
    <3>3. q # r => masked'[q] = masked[q] /\ state'[q] = state[q]
      BY <2>3, <3>1 DEF TypeOK
    <3> QED BY <2>3, <3>1, <3>2, <3>3
  <2> QED BY <2>6, <2>7, <2>8 DEF Scans, Scanning
<1>12. ASSUME NEW r \in Irq, Reenter(r)
       PROVE  Scans'
  <2>1. /\ state[r] # "NONE" /\ ~masked[r] /\ stack' = stack /\ masked' = masked
        /\ state' = [state EXCEPT ![r] = "PENDING"]
    BY <1>12 DEF Reenter, Deliverable, Held, AfterReentry
  <2>2. r \notin Level
    BY <2>1 DEF Scans
  <2>3. \A q \in Irq : state'[q] = "NONE" <=> state[q] = "NONE"
    BY <2>1 DEF TypeOK
  <2>4. \A q \in Level : errflags'[q] = errflags[q]
    BY <1>0, <1>12, <2>2 DEF Reenter, TypeOK
  <2>5. \A q \in Level : /\ state'[q] # "NONE" => masked'[q]
                         /\ "REENTRY" \notin errflags'[q]
    BY <1>0, <2>1, <2>3, <2>4 DEF Scans
  <2> QED BY <2>1, <2>3, <2>5 DEF Scans, Scanning
<1>13. ASSUME NEW q \in Irq, Setting(q)
       PROVE  Scans'
  BY <1>13, ScansSame DEF Setting, pic
<1>14. ASSUME NEW d \in Device, Raise(d)
       PROVE  Scans'
  BY <1>14, ScansSame DEF Raise
<1>15. ASSUME NEW d \in Device, InstallISR(d)
       PROVE  Scans'
  BY <1>15, ScansSame DEF InstallISR
<1>16. ASSUME NEW d \in Device, UninstallISR(d)
       PROVE  Scans'
  BY <1>16, ScansSame DEF UninstallISR
<1>17. ASSUME NEW p \in Dpc, TriggerDPC(p)
       PROVE  Scans'
  BY <1>17, ScansSame DEF TriggerDPC, pic
<1>18. CASE UNCHANGED vars
  BY <1>18, ScansSame DEF vars
<1> QED BY <1>1, <1>2, <1>3, <1>4, <1>5, <1>6, <1>7, <1>8, <1>9, <1>10, <1>11,
           <1>12, <1>13, <1>14, <1>15, <1>16, <1>17, <1>18 DEF Next, Wrapper

-----------------------------------------------------------------------------
(* Edges.                                                                  *)

\* ISRs are installed on the line of their device.
LEMMA InstalledStep ==
  ASSUME TypeOK, Installed, [Next]_vars
  PROVE  Installed'
<1> USE DispatchAssumption
<1>1. CASE isrs' = isrs
  BY <1>1 DEF Installed
<1>2. ASSUME NEW d \in Device, InstallISR(d)
      PROVE  Installed'
  <2>1. LineOf[d] \in Irq /\ isrs[LineOf[d]] \in Seq(Device)
    BY DEF TypeOK
  <2>2. isrs' = [isrs EXCEPT ![LineOf[d]] = Append(isrs[LineOf[d]], d)]
    BY <1>2 DEF InstallISR
  <2>3. ASSUME NEW q \in Irq, NEW i \in DOMAIN isrs'[q]
        PROVE  LineOf[isrs'[q][i]] = q
    <3>1. CASE q = LineOf[d]
      <4>1. isrs'[q] = Append(isrs[q], d)
        BY <2>1, <2>2, <3>1 DEF TypeOK
      <4>2. (i \in DOMAIN isrs[q] /\ isrs'[q][i] = isrs[q][i]) \/ isrs'[q][i] = d
        BY <2>1, <3>1, <4>1
      <4> QED BY <3>1, <4>2 DEF Installed
    <3>2. CASE q # LineOf[d]
      <4>1. isrs'[q] = isrs[q]
        BY <2>1, <2>2, <3>2 DEF TypeOK
      <4> QED BY <4>1 DEF Installed
    <3> QED BY <3>1, <3>2
  <2> QED BY <2>3 DEF Installed
<1>3. ASSUME NEW d \in Device, UninstallISR(d)
      PROVE  Installed'
  <2> DEFINE r == LineOf[d]
             s == isrs[r]
             Without(i) == SubSeq(s, 1, i - 1) \o SubSeq(s, i + 1, Len(s))
  <2>1. r \in Irq /\ s \in Seq(Device)
    BY DEF TypeOK
  <2>2. PICK j \in DOMAIN s : isrs' = [isrs EXCEPT ![r] = Without(j)]
    BY <1>3 DEF UninstallISR
  <2>3. ASSUME NEW q \in Irq, NEW i \in DOMAIN isrs'[q]
        PROVE  LineOf[isrs'[q][i]] = q
    <3>1. CASE q = r
      <4>1. isrs'[q] = Without(j)
        BY <2>1, <2>2, <3>1 DEF TypeOK
      <4>2. \E n \in DOMAIN s : isrs'[q][i] = s[n]
        <5>1. \A k \in DOMAIN Without(j) : \E n \in DOMAIN s : Without(j)[k] = s[n]
          BY <2>1, Removal
        <5> QED BY <4>1, <5>1
      <4> QED BY <2>1, <3>1, <4>2 DEF Installed
    <3>2. CASE q # r
      <4>1. isrs'[q] = isrs[q]
        BY <2>1, <2>2, <3>2 DEF TypeOK
      <4> QED BY <4>1 DEF Installed
    <3> QED BY <3>1, <3>2
  <2> QED BY <2>3 DEF Installed
<1>4. isrs' = isrs \/ \E d \in Device : InstallISR(d) \/ UninstallISR(d)
  BY DEF Next, Wrapper, CallISR, IsrReturn, EndScan, Leave, Exit, TakeDpcs, EndDpcs,
     CallDpc, DpcReturn, EndRound, Enter, Reenter, Setting, Raise, TriggerDPC, vars, lists
<1> QED BY <1>1, <1>2, <1>3, <1>4

\* Frames that stay keep what they have seen, if edges are not forgotten.
LEMMA EdgeSame ==
  ASSUME TypeOK, TypeOK', Installed, EdgeSeenByScan, isrs' = isrs,
         \A n \in DOMAIN stack' : n \in DOMAIN stack /\ stack'[n] = stack[n],
         \A d \in Device : due'[d] => due[d] \/ LineOf[d] \in Level \/ latch'[LineOf[d]],
         \A q \in Irq \ Level : /\ latch[q] => latch'[q] \/ state'[q] = "PENDING"
                                /\ state[q] = "PENDING" => state'[q] = "PENDING"
  PROVE  EdgeSeenByScan'
<1> SUFFICES ASSUME NEW n \in DOMAIN stack', stack'[n].irq \notin Level,
                    stack'[n].pc \in {"scan", "isr"},
                    NEW j \in DOMAIN isrs'[stack'[n].irq],
                    due'[isrs'[stack'[n].irq][j]]
             PROVE  \/ latch'[stack'[n].irq] \/ state'[stack'[n].irq] = "PENDING"
                    \/ j > stack'[n].i \/ (j = stack'[n].i /\ stack'[n].pc = "scan")
  BY DEF EdgeSeenByScan
<1> DEFINE q == stack[n].irq
           d == isrs[q][j]
<1>1. /\ n \in DOMAIN stack /\ stack'[n] = stack[n] /\ q \in Irq \ Level
      /\ j \in DOMAIN isrs[q] /\ isrs[q] \in Seq(Device)
  BY AnyFrame DEF TypeOK
<1>2. d \in Device /\ LineOf[d] = q /\ due'[d]
  BY <1>1 DEF Installed
<1>3. CASE latch'[q]
  BY <1>1, <1>3
<1>4. CASE due[d]
  <2>1. \/ latch[q] \/ state[q] = "PENDING"
        \/ j > stack[n].i \/ (j = stack[n].i /\ stack[n].pc = "scan")
    BY <1>1, <1>4 DEF EdgeSeenByScan
  <2> QED BY <1>1, <2>1
<1> QED BY <1>1, <1>2, <1>3, <1>4

\* A step of the running wrapper leaves the other frames what they have seen,
\* for they scan other lines.
LEMMA EdgeUpdate ==
  ASSUME TypeOK, TypeOK', Scans, EdgeSeenByScan, stack # <<>>,
         NEW f \in Frame, Becomes(f), f.irq = frame.irq,
         isrs' = isrs, latch' = latch, \A d \in Device : due'[d] => due[d],
         \A q \in Irq : state'[q] = state[q] \/ (q = frame.irq /\ Scanning(frame)),
         f.irq \notin Level /\ f.pc \in {"scan", "isr"} =>
           \A j \in DOMAIN isrs[f.irq] : due'[isrs[f.irq][j]] =>
             \/ latch[f.irq] \/ state'[f.irq] = "PENDING"
             \/ j > f.i \/ (j = f.i /\ f.pc = "scan")
  PROVE  EdgeSeenByScan'
<1> SUFFICES ASSUME NEW n \in DOMAIN stack', stack'[n].irq \notin Level,
                    stack'[n].pc \in {"scan", "isr"},
                    NEW j \in DOMAIN isrs'[stack'[n].irq],
                    due'[isrs'[stack'[n].irq][j]]
             PROVE  \/ latch'[stack'[n].irq] \/ state'[stack'[n].irq] = "PENDING"
                    \/ j > stack'[n].i \/ (j = stack'[n].i /\ stack'[n].pc = "scan")
  BY DEF EdgeSeenByScan
<1>1. /\ top \in DOMAIN stack /\ frame = stack[top] /\ DOMAIN stack' = DOMAIN stack
      /\ stack'[top] = f /\ \A m \in DOMAIN stack : m # top => stack'[m] = stack[m]
  BY TopFrame DEF Becomes
<1>2. CASE n = top
  BY <1>1, <1>2
<1>3. CASE n # top
  <2> DEFINE q == stack[n].irq
             d == isrs[q][j]
  <2>1. /\ n \in DOMAIN stack /\ stack'[n] = stack[n] /\ q \in Irq \ Level
        /\ j \in DOMAIN isrs[q] /\ isrs[q] \in Seq(Device)
    BY <1>1, <1>3, AnyFrame DEF TypeOK
  <2>2. d \in Device /\ due[d]
    BY <2>1
  <2>3. \/ latch[q] \/ state[q] = "PENDING"
        \/ j > stack[n].i \/ (j = stack[n].i /\ stack[n].pc = "scan")
    BY <2>1, <2>2 DEF EdgeSeenByScan
  <2>4. ~(q = frame.irq /\ Scanning(frame))
    BY <1>1, <1>3, <2>1 DEF Scans, Scanning
  <2>5. state'[q] = state[q]
    BY <2>1, <2>4
  <2> QED BY <2>1, <2>3, <2>5
<1> QED BY <1>2, <1>3

\* An edge that comes after its ISR's turn is latched, or turned into another
\* scan by the wrapper that reenters.
LEMMA EdgeStep ==
  ASSUME TypeOK, Scans, Installed, EdgeSeenByScan, TypeOK', [Next]_vars
  PROVE  EdgeSeenByScan'
<1>a. ASSUME stack # <<>>, frame.pc \in {"scan", "isr"}, frame.irq \notin Level
      PROVE  /\ frame.irq \in Irq /\ frame.i \in Nat /\ isrs[frame.irq] \in Seq(Device)
             /\ \A j \in DOMAIN isrs[frame.irq] : due[isrs[frame.irq][j]] =>
                  \/ latch[frame.irq] \/ state[frame.irq] = "PENDING"
                  \/ j > frame.i \/ (j = frame.i /\ frame.pc = "scan")
  <2>1. top \in DOMAIN stack /\ frame = stack[top] /\ frame \in Frame
    BY <1>a, TopFrame
  <2>2. frame.irq \in Irq /\ frame.i \in Nat /\ isrs[frame.irq] \in Seq(Device)
    BY <2>1 DEF Frame, TypeOK
  <2> QED BY <1>a, <2>1, <2>2 DEF EdgeSeenByScan
<1>1. CASE CallISR
  <2>1. PICK f \in Frame : /\ Becomes(f) /\ f.pc = "isr" /\ f.irq = frame.irq
                           /\ f.i = frame.i
    BY <1>1, CallISRFrame
  <2>2. /\ stack # <<>> /\ frame.pc = "scan" /\ state' = state /\ latch' = latch
        /\ isrs' = isrs /\ due' = [due EXCEPT ![isrs[frame.irq][frame.i]] = FALSE]
    BY <1>1 DEF CallISR, At, lists, Isrs
  <2>3. \A d \in Device : due'[d] => due[d]
    BY <2>2 DEF TypeOK
  <2>4. ASSUME f.irq \notin Level, NEW j \in DOMAIN isrs[f.irq], due'[isrs[f.irq][j]]
        PROVE  latch[f.irq] \/ state'[f.irq] = "PENDING" \/ j > f.i
    <3>1. isrs[f.irq][j] \in Device /\ isrs[f.irq] \in Seq(Device)
      BY <1>a, <2>1, <2>2, <2>4
    <3>2. due[isrs[f.irq][j]] /\ j # f.i
      BY <2>1, <2>2, <2>4, <3>1 DEF TypeOK
    <3> QED BY <1>a, <2>1, <2>2, <2>4, <3>2
  <2> QED BY <2>1, <2>2, <2>3, <2>4, EdgeUpdate
<1>2. CASE IsrReturn
  <2>1. PICK f \in Frame : /\ Becomes(f) /\ f.pc = "scan" /\ f.irq = frame.irq
                           /\ f.irq \notin Level => f.i = frame.i + 1
    BY <1>2, IsrReturnFrame
  <2>2. /\ stack # <<>> /\ frame.pc = "isr" /\ state' = state /\ latch' = latch
        /\ isrs' = isrs /\ due' = due
    BY <1>2 DEF IsrReturn, At, lists, pic
  <2>3. ASSUME f.irq \notin Level, NEW j \in DOMAIN isrs[f.irq], due'[isrs[f.irq][j]]
        PROVE  latch[f.irq] \/ state'[f.irq] = "PENDING" \/ j > f.i \/ j = f.i
    <3>1. latch[f.irq] \/ state[f.irq] = "PENDING" \/ j > frame.i
      BY <1>a, <2>1, <2>2, <2>3
    <3>2. j \in Nat /\ frame.i \in Nat /\ f.i = frame.i + 1
      BY <1>a, <2>1, <2>2, <2>3
    <3> QED BY <2>2, <3>1, <3>2
  <2> QED BY <2>1, <2>2, <2>3, EdgeUpdate
<1>3. CASE EndScan
  <2>1. PICK f \in Frame :
          /\ Becomes(f) /\ f.irq = frame.irq /\ f.i = 1
          /\ \/ /\ f.pc = "scan" /\ state' = [state EXCEPT ![f.irq] = "INUSE"]
             \/ f.pc = "leave" /\ state' = state
    BY <1>3, EndScanFrame
  <2>2. /\ stack # <<>> /\ frame.pc = "scan" /\ latch' = latch
        /\ isrs' = isrs /\ due' = due
    BY <1>3 DEF EndScan, At, lists, pic
  <2>3. \A q \in Irq : state'[q] = state[q] \/ (q = frame.irq /\ Scanning(frame))
    BY <2>1, <2>2 DEF TypeOK, Scanning
  <2>4. ASSUME f.irq \notin Level, NEW j \in DOMAIN isrs[f.irq]
        PROVE  j > f.i \/ j = f.i
    <3>1. isrs[f.irq] \in Seq(Device)
      BY <1>a, <2>1, <2>2, <2>4
    <3> QED BY <2>1, <3>1
  <2> QED BY <2>1, <2>2, <2>3, <2>4, EdgeUpdate
<1>4. CASE Leave
  <2>1. PICK f \in Frame : /\ Becomes(f) /\ f.pc = IF top = 1 THEN "rounds" ELSE "exit"
                           /\ f.irq = frame.irq
    BY <1>4, LeaveFrame
  <2>2. /\ stack # <<>> /\ frame.pc = "leave" /\ latch' = latch /\ isrs' = isrs
        /\ due' = due /\ state' = [state EXCEPT ![frame.irq] = "NONE"]
    BY <1>4 DEF Leave, At, lists
  <2>3. \A q \in Irq : state'[q] = state[q] \/ (q = frame.irq /\ Scanning(frame))
    BY <2>2 DEF TypeOK, Scanning
  <2>4. f.pc \notin {"scan", "isr"}
    BY <2>1
  <2> QED BY <2>1, <2>2, <2>3, <2>4, EdgeUpdate
<1>5. CASE Exit
  <2>1. \A n \in DOMAIN stack' : n \in DOMAIN stack /\ stack'[n] = stack[n]
    BY <1>5, ExitFrame
  <2> QED BY <1>5, <2>1, EdgeSame DEF Exit, pic, lists
<1>6. CASE TakeDpcs
  <2>1. PICK f \in Frame : Becomes(f) /\ f.pc = "next" /\ f.irq = frame.irq
    BY <1>6, TakeDpcsFrame
  <2> QED BY <1>6, <2>1, EdgeUpdate DEF TakeDpcs, At, pic, lists
<1>7. CASE EndDpcs
  <2>1. PICK f \in Frame : Becomes(f) /\ f.pc = "exit" /\ f.irq = frame.irq
    BY <1>7, EndDpcsFrame
  <2> QED BY <1>7, <2>1, EdgeUpdate DEF EndDpcs, At, pic, lists
<1>8. CASE CallDpc
  <2>1. PICK f \in Frame : Becomes(f) /\ f.pc = "dpc" /\ f.irq = frame.irq
    BY <1>8, CallDpcFrame
  <2> QED BY <1>8, <2>1, EdgeUpdate DEF CallDpc, At, pic, lists
<1>9. CASE DpcReturn
  <2>1. PICK f \in Frame : Becomes(f) /\ f.pc = "next" /\ f.irq = frame.irq
    BY <1>9, DpcReturnFrame
  <2> QED BY <1>9, <2>1, EdgeUpdate DEF DpcReturn, At, pic, lists
<1>10. CASE EndRound
  <2>1. PICK f \in Frame : Becomes(f) /\ f.pc = "rounds" /\ f.irq = frame.irq
    BY <1>10, EndRoundFrame
  <2> QED BY <1>10, <2>1, EdgeUpdate DEF EndRound, At, pic, lists
<1>11. ASSUME NEW r \in Irq, Enter(r)
       PROVE  EdgeSeenByScan'
  <2> DEFINE k == Len(stack)
  <2>1. /\ DOMAIN stack = 1 .. k /\ k \in Nat
        /\ DOMAIN stack' = 1 .. (k + 1) /\ stack'[k + 1] = NewFrame(r)
        /\ \A n \in 1 .. k : stack'[n] = stack[n]
    BY <1>11, EnterFrame
  <2>2. /\ state[r] = "NONE" /\ due' = due /\ isrs' = isrs
        /\ latch' = [latch EXCEPT ![r] = FALSE]
        /\ state' = [state EXCEPT ![r] = "INUSE"]
    BY <1>11 DEF Enter, Held, lists
  <2>3. NewFrame(r).irq = r /\ NewFrame(r).i = 1 /\ NewFrame(r).pc = "scan"
    BY DEF NewFrame
  <2> SUFFICES ASSUME NEW n \in DOMAIN stack', stack'[n].irq \notin Level,
                      stack'[n].pc \in {"scan", "isr"},
                      NEW j \in DOMAIN isrs'[stack'[n].irq],
                      due'[isrs'[stack'[n].irq][j]]
               PROVE  \/ latch'[stack'[n].irq] \/ state'[stack'[n].irq] = "PENDING"
                      \/ j > stack'[n].i \/ (j = stack'[n].i /\ stack'[n].pc = "scan")
    BY DEF EdgeSeenByScan
  <2>4. CASE n = k + 1
    <3>1. isrs[r] \in Seq(Device) /\ j \in DOMAIN isrs[r]
      BY <2>1, <2>2, <2>3, <2>4 DEF TypeOK
    <3> QED BY <2>1, <2>3, <2>4, <3>1
  <2>5. CASE n # k + 1
    <3> DEFINE q == stack[n].irq
    <3>1. n \in DOMAIN stack /\ stack'[n] = stack[n] /\ q \in Irq
      BY <2>1, <2>5, AnyFrame
    <3>2. q # r
      BY <2>2, <3>1 DEF Scans, Scanning
    <3>3. latch'[q] = latch[q] /\ state'[q] = state[q]
      BY <2>2, <3>1, <3>2 DEF TypeOK
    <3>4. \/ latch[q] \/ state[q] = "PENDING"
          \/ j > stack[n].i \/ (j = stack[n].i /\ stack[n].pc = "scan")
      BY <2>2, <3>1 DEF EdgeSeenByScan
    <3> QED BY <3>1, <3>3, <3>4
  <2> QED BY <2>4, <2>5
<1>12. ASSUME NEW r \in Irq, Reenter(r)
       PROVE  EdgeSeenByScan'
  <2>1. /\ stack' = stack /\ due' = due /\ isrs' = isrs
        /\ latch' = [latch EXCEPT ![r] = FALSE]
        /\ state' = [state EXCEPT ![r] = "PENDING"]
    BY <1>12 DEF Reenter, AfterReentry, lists
  <2>2. \A q \in Irq \ Level : /\ latch[q] => latch'[q] \/ state'[q] = "PENDING"
                               /\ state[q] = "PENDING" => state'[q] = "PENDING"
    BY <2>1 DEF TypeOK
  <2> QED BY <2>1, <2>2, EdgeSame
<1>13. ASSUME NEW q \in Irq, Setting(q)
       PROVE  EdgeSeenByScan'
  BY <1>13, EdgeSame DEF Setting, pic
<1>14. ASSUME NEW d \in Device, Raise(d)
       PROVE  EdgeSeenByScan'
  <2>1. /\ stack' = stack /\ isrs' = isrs /\ state' = state
        /\ due' = [due EXCEPT ![d] = TRUE]
        /\ latch' = IF LineOf[d] \in Level THEN latch ELSE [latch EXCEPT ![LineOf[d]] = TRUE]
        /\ LineOf[d] \in Irq
    BY <1>14, DispatchAssumption DEF Raise, lists
  <2>2. \A e \in Device : due'[e] => due[e] \/ LineOf[e] \in Level \/ latch'[LineOf[e]]
    BY <2>1 DEF TypeOK
  <2>3. \A q \in Irq : latch[q] => latch'[q]
    BY <2>1 DEF TypeOK
  <2> QED BY <2>1, <2>2, <2>3, EdgeSame
<1>15. ASSUME NEW d \in Device, InstallISR(d)
       PROVE  EdgeSeenByScan'
  <2>1. DOMAIN stack' = {}
    BY <1>15 DEF InstallISR, InMain
  <2> QED BY <2>1 DEF EdgeSeenByScan
<1>16. ASSUME NEW d \in Device, UninstallISR(d)
       PROVE  EdgeSeenByScan'
  <2>1. DOMAIN stack' = {}
    BY <1>16 DEF UninstallISR, InMain
  <2> QED BY <2>1 DEF EdgeSeenByScan
<1>17. ASSUME NEW p \in Dpc, TriggerDPC(p)
       PROVE  EdgeSeenByScan'
  BY <1>17, EdgeSame DEF TriggerDPC, pic, lists
<1>18. CASE UNCHANGED vars
  BY <1>18, EdgeSame DEF vars
<1> QED BY <1>1, <1>2, <1>3, <1>4, <1>5, <1>6, <1>7, <1>8, <1>9, <1>10, <1>11,
           <1>12, <1>13, <1>14, <1>15, <1>16, <1>17, <1>18 DEF Next, Wrapper

-----------------------------------------------------------------------------
(* Lists of DPCs.                                                          *)

\* The list of a null pointer is empty.
LEMMA ReachNull ==
  ASSUME NEW nx
  PROVE  Reach(nx, Null) = {}
<1>1. ASSUME NEW p \in Reach(nx, Null)
      PROVE  FALSE
  <2>1. \A S \in SUBSET Dpc :
          (Null # Null => Null \in S) /\ (\A x \in S : nx[x] # Null => nx[x] \in S)
            => p \in S
    BY <1>1 DEF Reach
  <2>2. {} \in SUBSET Dpc
    OBVIOUS
  <2>3. p \in {}
    BY <2>1, <2>2, Zenon
  <2> QED BY <2>3
<1> QED BY <1>1

\* A list is its head, and the list of the link of its head.
LEMMA ReachHead ==
  ASSUME NEW nx \in [Dpc -> Dpc \cup {Null}], NEW h \in Dpc
  PROVE  Reach(nx, h) = {h} \cup Reach(nx, nx[h])
<1> DEFINE Closed(k, S) == /\ k # Null => k \in S
                           /\ \A x \in S : nx[x] # Null => nx[x] \in S
<1>0. /\ \A k : Reach(nx, k) = {p \in Dpc : \A S \in SUBSET Dpc : Closed(k, S) => p \in S}
      /\ h # Null
  BY DispatchAssumption DEF Reach
<1>1. ASSUME NEW p \in Reach(nx, h), p # h, p \notin Reach(nx, nx[h])
      PROVE  FALSE
  <2>1. PICK S \in SUBSET Dpc : Closed(nx[h], S) /\ p \notin S
    BY <1>0, <1>1
  <2> DEFINE T == S \cup {h}
  <2>2. Closed(h, T) /\ T \in SUBSET Dpc /\ p \notin T
    BY <1>1, <2>1
  <2> HIDE DEF T, Closed
  <2> QED BY <1>0, <1>1, <2>2
<1>2. h \in Reach(nx, h)
  BY <1>0
<1>3. ASSUME NEW p \in Reach(nx, nx[h])
      PROVE  p \in Reach(nx, h)
  <2>1. ASSUME NEW S \in SUBSET Dpc, Closed(h, S)
        PROVE  p \in S
    <3>1. Closed(nx[h], S)
      BY <1>0, <2>1
    <3> QED BY <1>0, <1>3, <3>1
  <2> QED BY <1>0, <1>3, <2>1
<1> HIDE DEF Closed
<1> QED BY <1>1, <1>2, <1>3

\* With a DPC a list holds the list of its link.
LEMMA ReachClosed ==
  ASSUME NEW nx \in [Dpc -> Dpc \cup {Null}], NEW h, NEW x \in Reach(nx, h)
  PROVE  Reach(nx, nx[x]) \subseteq Reach(nx, h)
<1> DEFINE Closed(k, S) == /\ k # Null => k \in S
                           /\ \A y \in S : nx[y] # Null => nx[y] \in S
<1>0. \A k : Reach(nx, k) = {p \in Dpc : \A S \in SUBSET Dpc : Closed(k, S) => p \in S}
  BY DEF Reach
<1>1. ASSUME NEW p \in Reach(nx, nx[x]), NEW S \in SUBSET Dpc, Closed(h, S)
      PROVE  p \in S
  <2>1. x \in S
    BY <1>0, <1>1
  <2>2. Closed(nx[x], S)
    BY <1>1, <2>1
  <2> QED BY <1>0, <1>1, <2>2
<1> HIDE DEF Closed
<1>2. Reach(nx, nx[x]) \subseteq Dpc
  BY <1>0
<1> QED BY <1>0, <1>1, <1>2

\* A list depends on the links of its own members alone.
LEMMA ReachFrame ==
  ASSUME NEW nx \in [Dpc -> Dpc \cup {Null}], NEW ny \in [Dpc -> Dpc \cup {Null}],
         NEW h \in Dpc \cup {Null}, \A x \in Reach(nx, h) : ny[x] = nx[x]
  PROVE  Reach(ny, h) = Reach(nx, h)
<1> DEFINE R == Reach(nx, h)
           Closed(nz, S) == /\ h # Null => h \in S
                            /\ \A y \in S : nz[y] # Null => nz[y] \in S
<1>0. \A nz : Reach(nz, h) = {p \in Dpc : \A S \in SUBSET Dpc : Closed(nz, S) => p \in S}
  BY DEF Reach
<1>1. R \in SUBSET Dpc /\ Closed(nx, R)
  <2>1. R \in SUBSET Dpc /\ (h # Null => h \in R)
    BY <1>0
  <2>2. ASSUME NEW y \in R, nx[y] # Null, NEW S \in SUBSET Dpc, Closed(nx, S)
        PROVE  nx[y] \in S
    BY <1>0, <2>2
  <2>3. ASSUME NEW y \in R, nx[y] # Null
        PROVE  nx[y] \in R
    <3>1. nx[y] \in Dpc
      BY <2>1, <2>3
    <3> QED BY <1>0, <2>2, <2>3, <3>1
  <2> QED BY <2>1, <2>3
<1>2. Closed(ny, R)
  BY <1>1
<1>3. Reach(ny, h) \subseteq R
  BY <1>0, <1>1, <1>2
<1>4. ASSUME NEW p \in R, NEW S \in SUBSET Dpc, Closed(ny, S)
      PROVE  p \in S
  <2>1. Closed(nx, S \cap R)
    BY <1>1, <1>4
  <2>2. S \cap R \in SUBSET Dpc
    BY <1>4
  <2>3. p \in S \cap R
    BY <1>0, <1>4, <2>1, <2>2
  <2> QED BY <2>3
<1>5. R \subseteq Reach(ny, h)
  BY <1>0, <1>1, <1>4
<1> QED BY <1>3, <1>5

-----------------------------------------------------------------------------
(* The DPCs.                                                               *)

\* The outermost frame is the running one, or stays as it is.
LEMMA OuterUpdate ==
  ASSUME TypeOK, stack # <<>>, NEW f \in Frame, Becomes(f)
  PROVE  /\ top # 1 => /\ OuterPc' = OuterPc /\ OuterHead' = OuterHead
                       /\ OuterRun' = OuterRun /\ OuterFpu' = OuterFpu
         /\ top = 1 => /\ OuterPc = frame.pc /\ OuterHead = frame.head
                       /\ OuterRun = frame.run /\ OuterFpu = frame.fpu
                       /\ OuterPc' = f.pc /\ OuterHead' = f.head
                       /\ OuterRun' = f.run /\ OuterFpu' = f.fpu
<1>1. /\ top \in Nat \ {0} /\ DOMAIN stack = 1 .. top /\ frame = stack[top]
      /\ stack' # <<>> /\ stack'[top] = f
      /\ \A n \in DOMAIN stack : n # top => stack'[n] = stack[n]
  BY TopFrame DEF Becomes
<1> QED BY <1>1 DEF OuterPc, OuterHead, OuterRun, OuterFpu

\* Steps that do not concern the DPCs.
LEMMA DpcSame ==
  ASSUME Running, Links, Fpu, Emptied, dpcs' = dpcs, OuterHead' = OuterHead,
         OuterPc' = "dpc" <=> OuterPc = "dpc", OuterPc = "dpc" => OuterRun' = OuterRun,
         OuterPc' \in {"next", "dpc"} =>
           OuterPc \in {"next", "dpc"} /\ OuterFpu' = OuterFpu,
         OuterPc' = "exit" => OuterPc = "exit"
  PROVE  Running' /\ Links' /\ Fpu' /\ Emptied'
<1>1. /\ dpcState' = dpcState /\ next' = next /\ dpcHead' = dpcHead
      /\ dpcUseFpu' = dpcUseFpu /\ dpcErr' = dpcErr
  BY DEF dpcs
<1>2. Taken' = Taken /\ Listed' = Listed
  BY <1>1 DEF Taken, Listed, ListFrom
<1>3. Running'
  BY <1>1 DEF Running
<1>4. Links'
  BY <1>1, <1>2 DEF Links, ListFrom
<1>5. Fpu'
  BY <1>1, <1>2 DEF Fpu
<1>6. Emptied'
  BY <1>1 DEF Emptied
<1> QED BY <1>3, <1>4, <1>5, <1>6

\* A step of a wrapper that is not, and does not start, in dos_do_dpc.
LEMMA DpcWrapper ==
  ASSUME TypeOK, Running, Links, Fpu, Emptied, dpcs' = dpcs, stack # <<>>,
         NEW f \in Frame, Becomes(f), frame.pc # "dpc",
         f.pc \notin {"next", "dpc"}, f.pc = "exit" => top # 1,
         f.head = frame.head
  PROVE  Running' /\ Links' /\ Fpu' /\ Emptied'
<1>1. /\ OuterHead' = OuterHead /\ (OuterPc' = "dpc" <=> OuterPc = "dpc")
      /\ OuterPc = "dpc" => OuterRun' = OuterRun
      /\ OuterPc' \in {"next", "dpc"} =>
           OuterPc \in {"next", "dpc"} /\ OuterFpu' = OuterFpu
      /\ OuterPc' = "exit" => OuterPc = "exit"
  BY OuterUpdate
<1> QED BY <1>1, DpcSame

\* A step that leaves the stack and the DPCs alone.
LEMMA DpcElsewhere ==
  ASSUME Running, Links, Fpu, Emptied, stack' = stack, dpcs' = dpcs
  PROVE  Running' /\ Links' /\ Fpu' /\ Emptied'
BY DpcSame DEF OuterPc, OuterHead, OuterRun, OuterFpu

\* The whole list is handed over.
LEMMA DpcTake ==
  ASSUME TypeOK, Nesting, Running, Links, Fpu, Emptied, TakeDpcs
  PROVE  Running' /\ Links' /\ Fpu' /\ Emptied'
<1>1. PICK f \in Frame :
        Becomes(f) /\ f.pc = "next" /\ f.head = dpcHead /\ (dpcUseFpu # 0 => f.fpu)
  BY TakeDpcsFrame
<1>2. /\ stack # <<>> /\ frame.pc = "rounds" /\ dpcHead' = Null /\ dpcUseFpu' = 0
      /\ dpcState' = dpcState /\ next' = next /\ dpcErr' = dpcErr
  BY DEF TakeDpcs, At
<1>3. top = 1 /\ frame.head = Null
  BY <1>2, TopFrame DEF Nesting
<1>4. /\ OuterPc = "rounds" /\ OuterHead = Null /\ OuterPc' = "next"
      /\ OuterHead' = dpcHead /\ (dpcUseFpu # 0 => OuterFpu')
  BY <1>1, <1>2, <1>3, OuterUpdate
<1>5. Taken = {} /\ Taken' = Listed /\ Listed' = {}
  BY <1>2, <1>4, ReachNull DEF Taken, Listed, ListFrom
<1>6. Running' /\ Emptied'
  BY <1>2, <1>4 DEF Running, Emptied
<1>7. Links'
  BY <1>2, <1>5 DEF Links, ListFrom
<1>8. Fpu'
  BY <1>4, <1>5 DEF Fpu
<1> QED BY <1>6, <1>7, <1>8

\* The loop ends with an empty list, or gives up.
LEMMA DpcEnd ==
  ASSUME TypeOK, Nesting, Running, Links, Fpu, Emptied, EndDpcs
  PROVE  Running' /\ Links' /\ Fpu' /\ Emptied'
<1>1. PICK f \in Frame : Becomes(f) /\ f.pc = "exit" /\ f.head = frame.head
  BY EndDpcsFrame
<1>2. /\ stack # <<>> /\ frame.pc = "rounds" /\ dpcHead' = dpcHead
      /\ dpcUseFpu' = dpcUseFpu /\ dpcState' = dpcState /\ next' = next
      /\ dpcErr' = IF dpcHead = Null THEN dpcErr ELSE dpcErr \cup {"NUMEROUS"}
  BY DEF EndDpcs, At
<1>3. top = 1
  BY <1>2, TopFrame DEF Nesting
<1>4. /\ OuterPc = "rounds" /\ OuterPc' = "exit" /\ OuterHead' = OuterHead
  BY <1>1, <1>2, <1>3, OuterUpdate
<1>5. Taken' = Taken /\ Listed' = Listed
  BY <1>2, <1>4 DEF Taken, Listed, ListFrom
<1>6. Running' /\ Emptied'
  BY <1>2, <1>4 DEF Running, Emptied
<1>7. Links'
  BY <1>2, <1>5 DEF Links, ListFrom
<1>8. Fpu'
  BY <1>2, <1>4, <1>5 DEF Fpu
<1> QED BY <1>6, <1>7, <1>8

\* The head leaves the list taken when it begins.
LEMMA DpcCall ==
  ASSUME TypeOK, Nesting, Running, Links, Fpu, Emptied, CallDpc
  PROVE  Running' /\ Links' /\ Fpu' /\ Emptied'
<1> DEFINE h == frame.head
<1>1. PICK f \in Frame :
        /\ Becomes(f) /\ f.pc = "dpc" /\ f.head = next[h] /\ f.run = h
        /\ f.fpu = frame.fpu /\ h \in Dpc
  BY CallDpcFrame
<1>2. /\ stack # <<>> /\ frame.pc = "next" /\ dpcHead' = dpcHead
      /\ dpcUseFpu' = dpcUseFpu /\ next' = next
      /\ dpcState' = [dpcState EXCEPT ![h] = (@ \ {"WAITING"}) \cup {"RUNNING"}]
      /\ dpcErr' = IF "WAITING" \in dpcState[h] THEN dpcErr
                   ELSE dpcErr \cup {"UNEXPECTED"}
  BY DEF CallDpc, At
<1>3. top = 1
  BY <1>2, TopFrame DEF Nesting
<1>4. /\ OuterPc = "next" /\ OuterPc' = "dpc" /\ OuterHead = h /\ OuterHead' = next[h]
      /\ OuterRun' = h /\ OuterFpu' = OuterFpu
  BY <1>1, <1>2, <1>3, OuterUpdate
<1> HIDE DEF h
<1>5. next \in [Dpc -> Dpc \cup {Null}] /\ h \in Dpc
  BY <1>1 DEF TypeOK
<1>6. Taken = {h} \cup Taken' /\ Listed' = Listed
  BY <1>2, <1>4, <1>5, ReachHead DEF Taken, Listed, ListFrom
<1>7. h \notin Taken' /\ "WAITING" \in dpcState[h] /\ h \notin Listed
  BY <1>2, <1>4, <1>5, <1>6 DEF Links, Taken, ListFrom
<1>8. \A p \in Dpc : /\ "WAITING" \in dpcState'[p] <=> "WAITING" \in dpcState[p] /\ p # h
                     /\ "RUNNING" \in dpcState'[p] <=> "RUNNING" \in dpcState[p] \/ p = h
  BY <1>2, <1>5 DEF TypeOK
<1>9. Running' /\ Emptied'
  BY <1>4, <1>8 DEF Running, Emptied
<1>10. Links'
  <2>1. Taken' \cap Listed' = {} /\ "UNEXPECTED" \notin dpcErr'
    BY <1>2, <1>6, <1>7 DEF Links
  <2>2. \A p \in Dpc : "WAITING" \in dpcState'[p] <=> p \in Taken' \cup Listed'
    BY <1>6, <1>7, <1>8 DEF Links
  <2>3. \A p \in Taken' \cup Listed' : p \notin ListFrom(next[p])
    BY <1>6 DEF Links
  <2> QED BY <1>2, <2>1, <2>2, <2>3 DEF Links, ListFrom
<1>11. Fpu'
  BY <1>2, <1>4, <1>6 DEF Fpu
<1> QED BY <1>9, <1>10, <1>11

\* It is no longer running when it returns.
LEMMA DpcBack ==
  ASSUME TypeOK, Nesting, Running, Links, Fpu, Emptied, DpcReturn
  PROVE  Running' /\ Links' /\ Fpu' /\ Emptied'
<1>1. PICK f \in Frame :
        Becomes(f) /\ f.pc = "next" /\ f.head = frame.head /\ f.fpu = frame.fpu
  BY DpcReturnFrame
<1>2. /\ stack # <<>> /\ frame.pc = "dpc" /\ dpcHead' = dpcHead
      /\ dpcUseFpu' = dpcUseFpu /\ next' = next /\ dpcErr' = dpcErr
      /\ dpcState' = [dpcState EXCEPT ![frame.run] = @ \ {"RUNNING"}]
  BY DEF DpcReturn, At
<1>3. top = 1
  BY <1>2, TopFrame DEF Nesting
<1>4. /\ OuterPc = "dpc" /\ OuterPc' = "next" /\ OuterHead' = OuterHead
      /\ OuterRun = frame.run /\ OuterFpu' = OuterFpu
  BY <1>1, <1>2, <1>3, OuterUpdate
<1>5. Taken' = Taken /\ Listed' = Listed
  BY <1>2, <1>4 DEF Taken, Listed, ListFrom
<1>6. \A p \in Dpc : /\ "WAITING" \in dpcState'[p] <=> "WAITING" \in dpcState[p]
                     /\ "RUNNING" \in dpcState'[p] <=>
                          "RUNNING" \in dpcState[p] /\ p # frame.run
  BY <1>2 DEF TypeOK
<1>7. Running' /\ Emptied'
  BY <1>4, <1>6 DEF Running, Emptied
<1>8. Links'
  BY <1>2, <1>5, <1>6 DEF Links, ListFrom
<1>9. Fpu'
  BY <1>2, <1>4, <1>5 DEF Fpu
<1> QED BY <1>7, <1>8, <1>9

\* A DPC triggered goes to the front of the list; it is on neither list before.
LEMMA DpcTrigger ==
  ASSUME TypeOK, TypeOK', Nesting, Running, Links, Fpu, Emptied,
         NEW p \in Dpc, TriggerDPC(p)
  PROVE  Running' /\ Links' /\ Fpu' /\ Emptied'
<1>1. /\ stack' = stack /\ dpcErr' = dpcErr /\ "WAITING" \notin dpcState[p]
      /\ dpcState' = [dpcState EXCEPT ![p] = @ \cup {"WAITING"}]
      /\ next' = [next EXCEPT ![p] = dpcHead] /\ dpcHead' = p
      /\ dpcUseFpu' = IF p \in UseFpu THEN dpcUseFpu + 1 ELSE dpcUseFpu
      /\ InMain \/ At("isr") \/ At("dpc")
  BY DEF TriggerDPC
<1>2. /\ OuterPc' = OuterPc /\ OuterHead' = OuterHead /\ OuterRun' = OuterRun
      /\ OuterFpu' = OuterFpu
  BY <1>1 DEF OuterPc, OuterHead, OuterRun, OuterFpu
<1>3. /\ next \in [Dpc -> Dpc \cup {Null}] /\ next' \in [Dpc -> Dpc \cup {Null}]
      /\ dpcHead \in Dpc \cup {Null} /\ next'[p] = dpcHead
      /\ \A x \in Dpc : x # p => next'[x] = next[x]
  BY <1>1 DEF TypeOK
<1>4. OuterHead \in Dpc \cup {Null}
  <2>1. stack # <<>> => 1 \in DOMAIN stack
    BY TopFrame
  <2> QED BY <2>1, AnyFrame DEF OuterHead
<1>5. p \notin Taken /\ p \notin Listed /\ Taken \subseteq Dpc /\ Listed \subseteq Dpc
  BY <1>1 DEF Links, Taken, Listed, ListFrom, Reach
<1>6. Taken' = Taken
  <2>1. \A x \in Reach(next, OuterHead) : next'[x] = next[x]
    BY <1>3, <1>5 DEF Taken, ListFrom
  <2>2. Reach(next', OuterHead) = Reach(next, OuterHead)
    BY <1>3, <1>4, <2>1, ReachFrame
  <2> QED BY <1>2, <2>2 DEF Taken, ListFrom
<1>7. Reach(next', dpcHead) = Listed
  <2>1. \A x \in Reach(next, dpcHead) : next'[x] = next[x]
    BY <1>3, <1>5 DEF Listed, ListFrom
  <2>2. Reach(next', dpcHead) = Reach(next, dpcHead)
    BY <1>3, <2>1, ReachFrame
  <2> QED BY <2>2 DEF Listed, ListFrom
<1>8. Listed' = {p} \cup Listed
  BY <1>1, <1>3, <1>7, ReachHead DEF Listed, ListFrom
<1>9. \A x \in Dpc : /\ "WAITING" \in dpcState'[x] <=> "WAITING" \in dpcState[x] \/ x = p
                     /\ "RUNNING" \in dpcState'[x] <=> "RUNNING" \in dpcState[x]
  BY <1>1 DEF TypeOK
<1>10. Running'
  BY <1>2, <1>9 DEF Running
<1>11. Links'
  <2>1. Taken' \cap Listed' = {} /\ "UNEXPECTED" \notin dpcErr'
    BY <1>1, <1>5, <1>6, <1>8 DEF Links
  <2>2. \A x \in Dpc : "WAITING" \in dpcState'[x] <=> x \in Taken' \cup Listed'
    BY <1>6, <1>8, <1>9 DEF Links
  <2>3. ASSUME NEW x \in Taken' \cup Listed'
        PROVE  x \notin Reach(next', next'[x])
    <3>1. CASE x = p
      BY <1>3, <1>5, <1>7, <3>1
    <3>2. CASE x # p
      <4>1. x \in Taken \cup Listed /\ x \in Dpc /\ next'[x] = next[x]
        BY <1>3, <1>5, <1>6, <1>8, <3>2
      <4>2. x \notin Reach(next, next[x]) /\ next[x] \in Dpc \cup {Null}
        BY <1>3, <4>1 DEF Links, ListFrom
      <4>3. Reach(next, next[x]) \subseteq Taken \/ Reach(next, next[x]) \subseteq Listed
        BY <1>3, <4>1, ReachClosed DEF Taken, Listed, ListFrom
      <4>4. \A y \in Reach(next, next[x]) : next'[y] = next[y]
        BY <1>3, <1>5, <4>3
      <4>5. Reach(next', next[x]) = Reach(next, next[x])
        BY <1>3, <4>2, <4>4, ReachFrame
      <4> QED BY <4>1, <4>2, <4>5
    <3> QED BY <3>1, <3>2
  <2> QED BY <2>1, <2>2, <2>3 DEF Links, ListFrom
<1>12. Fpu'
  <2>1. dpcUseFpu' = 0 => Listed' \cap UseFpu = {}
    BY <1>1, <1>8 DEF Fpu, TypeOK
  <2> QED BY <1>2, <1>6, <2>1 DEF Fpu
<1>13. OuterPc # "exit"
  <2>1. CASE InMain
    BY <2>1 DEF OuterPc, InMain
  <2>2. CASE stack # <<>> /\ frame.pc \in {"isr", "dpc"}
    <3>1. /\ 1 \in DOMAIN stack /\ top = Len(stack) /\ frame = stack[top]
          /\ DOMAIN stack = 1 .. top /\ top \in Nat
      BY <2>2, TopFrame
    <3>2. CASE top = 1
      BY <2>2, <3>1, <3>2 DEF OuterPc
    <3>3. CASE top # 1
      BY <2>2, <3>1, <3>3 DEF OuterPc, Nesting, Scanning
    <3> QED BY <3>2, <3>3
  <2> QED BY <1>1, <2>1, <2>2 DEF At
<1>14. Emptied'
  BY <1>2, <1>13 DEF Emptied
<1> QED BY <1>10, <1>11, <1>12, <1>14

\* Every step keeps the lists exact, the FPU saved and the DPCs one at a time.
LEMMA DpcStep ==
  ASSUME TypeOK, Nesting, Running, Links, Fpu, Emptied, TypeOK', [Next]_vars
  PROVE  Running' /\ Links' /\ Fpu' /\ Emptied'
<1>1. CASE CallISR
  <2>1. PICK f \in Frame : Becomes(f) /\ f.pc = "isr" /\ f.head = frame.head
    BY <1>1, CallISRFrame
  <2> QED BY <1>1, <2>1, DpcWrapper DEF CallISR, At
<1>2. CASE IsrReturn
  <2>1. PICK f \in Frame : Becomes(f) /\ f.pc = "scan" /\ f.head = frame.head
    BY <1>2, IsrReturnFrame
  <2> QED BY <1>2, <2>1, DpcWrapper DEF IsrReturn, At
<1>3. CASE EndScan
  <2>1. PICK f \in Frame : Becomes(f) /\ f.pc \in {"scan", "leave"} /\ f.head = frame.head
    BY <1>3, EndScanFrame
  <2> QED BY <1>3, <2>1, DpcWrapper DEF EndScan, At
<1>4. CASE Leave
  <2>1. PICK f \in Frame : /\ Becomes(f) /\ f.pc = IF top = 1 THEN "rounds" ELSE "exit"
                           /\ f.head = frame.head
    BY <1>4, LeaveFrame
  <2>2. f.pc \notin {"next", "dpc"} /\ (f.pc = "exit" => top # 1)
    BY <2>1
  <2> QED BY <1>4, <2>1, <2>2, DpcWrapper DEF Leave, At
<1>5. CASE Exit
  <2>1. /\ DOMAIN stack' = 1 .. (top - 1) /\ top \in Nat \ {0} /\ stack # <<>>
        /\ \A n \in DOMAIN stack' : stack'[n] = stack[n]
        /\ frame = stack[top] /\ frame.pc = "exit" /\ dpcs' = dpcs
        /\ Len(stack') = top - 1 /\ top \in DOMAIN stack
    BY <1>5, ExitFrame, TopFrame DEF Exit, At
  <2>2. CASE top = 1
    <3>1. stack' = <<>>
      BY <2>1, <2>2, EmptySeq DEF TypeOK
    <3>2. OuterPc = "exit" /\ OuterHead = Null /\ OuterPc' = "main" /\ OuterHead' = Null
      BY <2>1, <2>2, <3>1 DEF OuterPc, OuterHead, Nesting
    <3> QED BY <2>1, <3>2, DpcSame
  <2>3. CASE top # 1
    <3>1. stack' # <<>> /\ stack'[1] = stack[1]
      BY <2>1, <2>3
    <3> QED BY <2>1, <3>1, DpcSame DEF OuterPc, OuterHead, OuterRun, OuterFpu
  <2> QED BY <2>2, <2>3
<1>6. CASE TakeDpcs
  BY <1>6, DpcTake
<1>7. CASE EndDpcs
  BY <1>7, DpcEnd
<1>8. CASE CallDpc
  BY <1>8, DpcCall
<1>9. CASE DpcReturn
  BY <1>9, DpcBack
<1>10. CASE EndRound
  <2>1. PICK f \in Frame : Becomes(f) /\ f.pc = "rounds" /\ f.head = frame.head
    BY <1>10, EndRoundFrame
  <2> QED BY <1>10, <2>1, DpcWrapper DEF EndRound, At
<1>11. ASSUME NEW q \in Irq, Enter(q)
       PROVE  Running' /\ Links' /\ Fpu' /\ Emptied'
  <2>1. /\ stack' # <<>> /\ stack'[Len(stack) + 1] = NewFrame(q) /\ dpcs' = dpcs
        /\ \A n \in 1 .. Len(stack) : stack'[n] = stack[n]
        /\ Len(stack) \in Nat /\ (stack = <<>> <=> Len(stack) = 0)
    BY <1>11, EnterFrame DEF Enter
  <2>2. NewFrame(q).pc = "scan" /\ NewFrame(q).head = Null
    BY DEF NewFrame
  <2>3. CASE stack = <<>>
    <3>1. OuterPc = "main" /\ OuterHead = Null /\ OuterPc' = "scan" /\ OuterHead' = Null
      BY <2>1, <2>2, <2>3 DEF OuterPc, OuterHead
    <3> QED BY <2>1, <3>1, DpcSame
  <2>4. CASE stack # <<>>
    <3>1. stack'[1] = stack[1]
      BY <2>1, <2>4
    <3> QED BY <2>1, <2>4, <3>1, DpcSame DEF OuterPc, OuterHead, OuterRun, OuterFpu
  <2> QED BY <2>3, <2>4
<1>12. ASSUME NEW q \in Irq, Reenter(q)
       PROVE  Running' /\ Links' /\ Fpu' /\ Emptied'
  BY <1>12, DpcElsewhere DEF Reenter
<1>13. ASSUME NEW q \in Irq, Setting(q)
       PROVE  Running' /\ Links' /\ Fpu' /\ Emptied'
  BY <1>13, DpcElsewhere DEF Setting
<1>14. ASSUME NEW d \in Device, Raise(d)
       PROVE  Running' /\ Links' /\ Fpu' /\ Emptied'
  BY <1>14, DpcElsewhere DEF Raise
<1>15. ASSUME NEW d \in Device, InstallISR(d)
       PROVE  Running' /\ Links' /\ Fpu' /\ Emptied'
  BY <1>15, DpcElsewhere DEF InstallISR
<1>16. ASSUME NEW d \in Device, UninstallISR(d)
       PROVE  Running' /\ Links' /\ Fpu' /\ Emptied'
  BY <1>16, DpcElsewhere DEF UninstallISR
<1>17. ASSUME NEW p \in Dpc, TriggerDPC(p)
       PROVE  Running' /\ Links' /\ Fpu' /\ Emptied'
  BY <1>17, DpcTrigger
<1>18. CASE UNCHANGED vars
  BY <1>18, DpcElsewhere DEF vars, dpcs
<1> QED BY <1>1, <1>2, <1>3, <1>4, <1>5, <1>6, <1>7, <1>8, <1>9, <1>10, <1>11,
           <1>12, <1>13, <1>14, <1>15, <1>16, <1>17, <1>18 DEF Next, Wrapper

-----------------------------------------------------------------------------
(* The invariant is inductive.                                             *)

\* It holds of the initial states.
LEMMA InitInv == Init => IInv
<1> SUFFICES ASSUME Init PROVE IInv
  OBVIOUS
<1> USE DispatchAssumption
<1>1. stack = <<>> /\ DOMAIN stack = {} /\ Len(stack) = 0
  BY DEF Init
<1>2. TypeOK
  <2>1. /\ due \in [Device -> BOOLEAN] /\ latch \in [Irq -> BOOLEAN]
        /\ masked \in [Irq -> BOOLEAN] /\ oldMask \in [Irq -> BOOLEAN]
        /\ allowIntr \in [Irq -> BOOLEAN] /\ isrs \in [Irq -> Seq(Device)]
    BY DEF Init
  <2>2. /\ state \in [Irq -> {"NONE", "INUSE", "PENDING"}]
        /\ errflags \in [Irq -> SUBSET {"REENTRY", "UNHANDLED", "USELESS_CHAINING", "NUMEROUS"}]
        /\ stack \in Seq(Frame) /\ sysenter = 0 /\ cscnt = 0 /\ intr = TRUE
    BY DEF Init
  <2>3. /\ dpcState \in [Dpc -> SUBSET {"WAITING", "RUNNING"}]
        /\ next \in [Dpc -> Dpc \cup {Null}] /\ dpcHead = Null /\ dpcUseFpu = 0
        /\ dpcErr = {}
    BY DEF Init
  <2> QED BY <1>1, <2>1, <2>2, <2>3 DEF TypeOK
<1>3. Nesting
  BY <1>1 DEF Nesting
<1>4. Scans
  <2>1. \A q \in Irq : state[q] = "NONE" /\ errflags[q] = {}
    BY DEF Init
  <2> QED BY <1>1, <2>1 DEF Scans
<1>5. Installed
  BY DEF Init, Installed
<1>6. EdgeSeenByScan
  BY <1>1 DEF EdgeSeenByScan
<1>7. Taken = {} /\ Listed = {} /\ OuterPc = "main"
  BY <1>1, ReachNull DEF Init, Taken, Listed, ListFrom, OuterHead, OuterPc
<1>8. Running /\ Links /\ Fpu /\ Emptied
  BY <1>7 DEF Init, Running, Links, Fpu, Emptied
<1> QED BY <1>2, <1>3, <1>4, <1>5, <1>6, <1>8 DEF IInv

\* Every step preserves it.
LEMMA StepInv == IInv /\ [Next]_vars => IInv'
<1> SUFFICES ASSUME IInv, [Next]_vars PROVE IInv'
  OBVIOUS
<1>1. TypeOK' /\ Nesting'
  BY TypeStep, NestingStep DEF IInv
<1>2. Scans' /\ Installed'
  BY ScansStep, InstalledStep DEF IInv
<1>3. EdgeSeenByScan'
  BY <1>1, EdgeStep DEF IInv
<1>4. Running' /\ Links' /\ Fpu' /\ Emptied'
  BY <1>1, DpcStep DEF IInv
<1> QED BY <1>1, <1>2, <1>3, <1>4 DEF IInv

\* The invariant of every behaviour, on which the theorems below rest.
THEOREM Invariant == Spec => []IInv
BY InitInv, StepInv, PTL DEF Spec

-----------------------------------------------------------------------------
(* What it says of dos_shared_irq_wrapper and dos_do_dpc.                  *)

\* Types, the limit on the scans, and the lock, which is free whenever code can
\* be interrupted and when the main program runs (irq.cpp with io_irq.h).
THEOREM TypesOK == Spec => []TypeOK
<1>1. IInv => TypeOK
  BY DEF IInv
<1> QED BY <1>1, Invariant, PTL

\* At most one wrapper scans the ISRs of a line, however wrappers nest; the line's
\* state tells whether one does, and a level-triggered line is masked meanwhile.
THEOREM ScansAreUnique == Spec => []OneScanPerLine
<1>1. ASSUME IInv
      PROVE  OneScanPerLine
  <2>1. ASSUME NEW q \in Irq
        PROVE  Cardinality(Holders(q)) = IF state[q] = "NONE" THEN 0 ELSE 1
    <3>1. Holders(q) = {n \in DOMAIN stack : stack[n].irq = q /\ Scanning(stack[n])}
      BY DEF Holders, Scanning
    <3>2. CASE state[q] = "NONE"
      <4>1. Holders(q) = {}
        BY <1>1, <3>1, <3>2 DEF IInv, Scans
      <4> QED BY <3>2, <4>1, FS_EmptySet
    <3>3. CASE state[q] # "NONE"
      <4>1. PICK n \in DOMAIN stack : Scanning(stack[n]) /\ stack[n].irq = q
        BY <1>1, <3>3 DEF IInv, Scans
      <4>2. Holders(q) = {n}
        BY <1>1, <3>1, <4>1 DEF IInv, Scans
      <4> QED BY <3>3, <4>2, FS_Singleton
    <3> QED BY <3>2, <3>3
  <2> QED BY <1>1, <2>1 DEF IInv, Scans, OneScanPerLine
<1> QED BY <1>1, Invariant, PTL

\* While the ISRs of an edge-triggered line are scanned no edge is missed.
THEOREM EdgesAreSeen == Spec => []EdgeSeenByScan
<1>1. IInv => EdgeSeenByScan
  BY DEF IInv
<1> QED BY <1>1, Invariant, PTL

\* DPCs run one at a time, in the outermost wrapper, whose line is released.
THEOREM DpcsRunOutermost == Spec => []DpcsOutermost
<1>1. ASSUME IInv
      PROVE  DpcsOutermost
  <2>1. ASSUME NEW n \in DOMAIN stack, stack[n].pc \in {"rounds", "next", "dpc"}
        PROVE  n = 1 /\ n \notin Holders(stack[n].irq)
    BY <1>1, <2>1 DEF IInv, Nesting, Holders
  <2>2. \A p \in Dpc : "RUNNING" \in dpcState[p] <=>
          InMain = FALSE /\ stack[1].pc = "dpc" /\ stack[1].run = p
    BY <1>1 DEF IInv, Running, OuterPc, OuterRun, InMain
  <2> QED BY <2>1, <2>2 DEF DpcsOutermost
<1> QED BY <1>1, Invariant, PTL

\* The DPCs that wait are those on the two lists, which never join, whatever DPCs
\* and ISRs trigger while dos_do_dpc empties its list.
THEOREM DpcListsAreExact == Spec => []DpcListsExact
<1>1. ASSUME IInv
      PROVE  DpcListsExact
  <2>1. Taken = IF InMain THEN {} ELSE ListFrom(stack[1].head)
    BY ReachNull DEF Taken, OuterHead, InMain, ListFrom
  <2> QED BY <1>1, <2>1 DEF IInv, Links, Listed, DpcListsExact
<1> QED BY <1>1, Invariant, PTL

\* The outermost wrapper returns to the main program only when every DPC
\* triggered has run, or after IRQERR_NUMEROUS_DPC.
THEOREM NoDpcIsLeft == Spec => []NoDpcLeftBehind
<1>1. IInv => NoDpcLeftBehind
  BY DEF IInv, Emptied, OuterPc, NoDpcLeftBehind
<1> QED BY <1>1, Invariant, PTL

\* A DPC that uses the FPU runs with the FPU saved.
THEOREM FpuIsSaved == Spec => []FpuSaved
<1>1. ASSUME IInv
      PROVE  FpuSaved
  <2>1. ASSUME NEW n \in DOMAIN stack, stack[n].pc = "dpc", stack[n].run \in UseFpu
        PROVE  stack[n].fpu
    <3>1. n = 1 /\ stack # <<>>
      BY <1>1, <2>1 DEF IInv, Nesting
    <3> QED BY <1>1, <2>1, <3>1 DEF IInv, Fpu, OuterPc, OuterRun, OuterFpu
  <2> QED BY <2>1 DEF FpuSaved
<1> QED BY <1>1, Invariant, PTL
=============================================================================
