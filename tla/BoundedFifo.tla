----------------------------- MODULE BoundedFifo -----------------------------
(***************************************************************************)
(* What the queue of 86DUINO/core/queue.cpp promises its callers: a FIFO   *)
(* of at most Capacity elements whose operations take effect atomically,   *)
(* at one instant between the call and the return, although the main       *)
(* program and an interrupt handler call them on the same queue.           *)
(***************************************************************************)
EXTENDS Integers, Sequences

CONSTANTS
  Capacity,   (* the size passed to CreateBufQueue                  *)
  Elem,       (* the elements, of dsize bytes each                  *)
  Context,    (* who may call: the main program, interrupt handlers *)
  NoElem,     (* an operation that carries or returns no element    *)
  Pending     (* the result of a call that has not taken effect     *)

Operation == {"Push", "Pop", "Peek", "Clear", "Size", "Empty", "Full"}

VARIABLES
  contents,   (* the elements, oldest first               *)
  call,       (* call[c]: what c is executing, or "Idle"  *)
  arg,        (* arg[c]: the element c is pushing         *)
  result      (* result[c]: what c's call will return     *)

vars == <<contents, call, arg, result>>

Init ==
  /\ contents = <<>>
  /\ call = [c \in Context |-> "Idle"]
  /\ arg = [c \in Context |-> NoElem]
  /\ result = [c \in Context |-> NoElem]

Invoke(c) ==
  /\ call[c] = "Idle"
  /\ \E op \in Operation :
       /\ call' = [call EXCEPT ![c] = op]
       /\ \E e \in IF op = "Push" THEN Elem ELSE {NoElem} :
            arg' = [arg EXCEPT ![c] = e]
  /\ result' = [result EXCEPT ![c] = Pending]
  /\ UNCHANGED contents

Answer(c, r) ==
  /\ result[c] = Pending
  /\ result' = [result EXCEPT ![c] = r]
  /\ UNCHANGED <<call, arg>>

Push(c) ==
  /\ call[c] = "Push"
  /\ Answer(c, Len(contents) < Capacity)
  /\ contents' = IF Len(contents) < Capacity
                 THEN Append(contents, arg[c]) ELSE contents

Pop(c) ==
  /\ call[c] = "Pop"
  /\ Answer(c, IF contents = <<>> THEN NoElem ELSE Head(contents))
  /\ contents' = IF contents = <<>> THEN contents ELSE Tail(contents)

Peek(c) ==
  /\ call[c] = "Peek"
  /\ Answer(c, IF contents = <<>> THEN NoElem ELSE Head(contents))
  /\ UNCHANGED contents

Clear(c) ==
  /\ call[c] = "Clear"
  /\ Answer(c, NoElem)
  /\ contents' = <<>>

Query(c) ==
  /\ \/ call[c] = "Size"  /\ Answer(c, Len(contents))
     \/ call[c] = "Empty" /\ Answer(c, contents = <<>>)
     \/ call[c] = "Full"  /\ Answer(c, Len(contents) = Capacity)
  /\ UNCHANGED contents

Return(c) ==
  /\ call[c] # "Idle"
  /\ result[c] # Pending
  /\ call' = [call EXCEPT ![c] = "Idle"]
  /\ arg' = [arg EXCEPT ![c] = NoElem]
  /\ result' = [result EXCEPT ![c] = NoElem]
  /\ UNCHANGED contents

Next ==
  \E c \in Context :
    \/ Invoke(c) \/ Push(c) \/ Pop(c) \/ Peek(c) \/ Clear(c) \/ Query(c)
    \/ Return(c)

Spec == Init /\ [][Next]_vars
=============================================================================
