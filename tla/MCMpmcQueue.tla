---------------------------- MODULE MCMpmcQueue ----------------------------
(***************************************************************************)
(* Small instances of MpmcQueue.                                           *)
(***************************************************************************)
EXTENDS MpmcQueue
=============================================================================
