----------------------------- MODULE MCUsbDevice -----------------------------
(***************************************************************************)
(* UsbDevice with queues and packets of two bytes, so that queues fill and *)
(* time out, packets are full, empty and short, and the device is          *)
(* enumerated twice.                                                       *)
(***************************************************************************)
EXTENDS UsbDevice
=============================================================================
