----------------------------- MODULE DurableArray ----------------------------
(***************************************************************************)
(* What a block of the EEPROM library promises a sketch: an array of bytes *)
(* that stays when the board is turned off.  A write takes effect at one   *)
(* instant between the call and the return; a power failure loses the      *)
(* write under way or keeps it whole, and nothing that was written before. *)
(***************************************************************************)
CONSTANTS
  Address,    (* the addresses of one block                     *)
  Byte,       (* the values of a byte                           *)
  Erased,     (* the value of a byte nothing was ever written to *)
  None        (* no write under way; no array to be read        *)

VARIABLES
  stored,     (* the array that is found when the board is turned on       *)
  readable,   (* what read returns, None while it cannot be called         *)
  writing     (* the arguments of the write under way                      *)

vars == <<stored, readable, writing>>

Init ==
  /\ stored = [a \in Address |-> Erased]
  /\ readable = None
  /\ writing = None

\* The library has been initialized: reads return what was stored.
Ready ==
  /\ readable = None /\ writing = None
  /\ readable' = stored
  /\ UNCHANGED <<stored, writing>>

Write(a, v) ==
  /\ readable # None
  /\ writing' = [addr |-> a, val |-> v]
  /\ readable' = None
  /\ UNCHANGED stored

\* The write returns: it has taken effect, and reads see it.
Return ==
  /\ writing # None
  /\ stored' = [stored EXCEPT ![writing.addr] = writing.val]
  /\ readable' = stored'
  /\ writing' = None

PowerFail ==
  /\ readable' = None /\ writing' = None
  /\ UNCHANGED stored

Next ==
  \/ Ready \/ Return \/ PowerFail
  \/ \E a \in Address, v \in Byte : Write(a, v)

Spec == Init /\ [][Next]_vars
=============================================================================
