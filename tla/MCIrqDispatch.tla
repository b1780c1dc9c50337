--------------------------- MODULE MCIrqDispatch ----------------------------
(***************************************************************************)
(* IrqDispatch with a level-triggered line that two devices share and an   *)
(* edge-triggered line, and with few DPCs.  The two devices of the shared  *)
(* line are interchangeable.                                               *)
(***************************************************************************)
EXTENDS IrqDispatch, TLC

CONSTANTS pci, rtc, a, b, t, p1, p2, p3

MCLineOf == [d \in Device |-> IF d = t THEN rtc ELSE pci]

Sharing == Permutations({a, b})
=============================================================================
