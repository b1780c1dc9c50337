---------------------------- MODULE MCEepromBlock ----------------------------
(***************************************************************************)
(* EepromBlock with two addresses, two values of a byte and sectors of a   *)
(* few records, counter bits and flag bits.                                *)
(***************************************************************************)
EXTENDS EepromBlock
=============================================================================
