--------------------------- MODULE MCCollatorSessions ---------------------------
(* A small instance of CollatorSessions for TLC: the genesis collators are just  *)
(* the minimum, so that a shorter list or an account that leaves is below it.    *)
EXTENDS CollatorSessions
=================================================================================
