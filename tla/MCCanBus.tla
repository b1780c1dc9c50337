------------------------------ MODULE MCCanBus -------------------------------
(***************************************************************************)
(* CanBus with two mailboxes and queues of one and two frames.             *)
(***************************************************************************)
EXTENDS CanBus
=============================================================================
