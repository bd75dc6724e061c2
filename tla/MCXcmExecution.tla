---------------------------- MODULE MCXcmExecution ----------------------------
(* A small instance of XcmExecution for TLC.                               *)
EXTENDS XcmExecution
===============================================================================
