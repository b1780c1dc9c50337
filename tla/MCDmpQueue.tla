----------------------------- MODULE MCDmpQueue ------------------------------
(***************************************************************************)
(* DmpQueue with a small queue: capacity 2 makes three slots, so the       *)
(* indices wrap, fill and empty within a few operations.                   *)
(***************************************************************************)
EXTENDS DmpQueue

CONSTANTS e1, e2

MCElem == {e1, e2}
=============================================================================
