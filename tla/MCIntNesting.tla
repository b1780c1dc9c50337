---------------------------- MODULE MCIntNesting -----------------------------
(***************************************************************************)
(* IntNesting with the main program, a handler and a handler nested in it, *)
(* each holding up to two nested critical sections.                        *)
(***************************************************************************)
EXTENDS IntNesting
=============================================================================
