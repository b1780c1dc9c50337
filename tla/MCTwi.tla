------------------------------- MODULE MCTwi --------------------------------
(***************************************************************************)
(* Twi with buffers of two bytes, which the other master overfills.        *)
(***************************************************************************)
EXTENDS Twi
=============================================================================
