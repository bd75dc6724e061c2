---------------------------- MODULE MCAsyncBacking ----------------------------
(* A small instance of AsyncBacking for TLC.                               *)
EXTENDS AsyncBacking
===============================================================================
