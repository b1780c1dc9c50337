------------------------------- MODULE MCUart --------------------------------
(***************************************************************************)
(* Uart with queues and FIFOs of two bytes, so that they fill, time out    *)
(* and cross the threshold, in each of the flow controls.                  *)
(***************************************************************************)
EXTENDS Uart
=============================================================================
