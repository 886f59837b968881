---------------------------- MODULE MCErrorQueue ----------------------------
(* The error queue with three slots and two reasons. *)
EXTENDS ErrorQueue
=============================================================================
