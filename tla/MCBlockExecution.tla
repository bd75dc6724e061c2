--------------------------- MODULE MCBlockExecution ---------------------------
(* A small instance of BlockExecution for TLC: weights count twentieths of a     *)
(* block; the sudo key can pay for the heaviest call, the other for light ones.  *)
EXTENDS BlockExecution

CONSTANTS Rich, Poor

MCFunds == [a \in Accounts |-> IF a = SudoKey THEN Rich ELSE Poor]
===============================================================================
