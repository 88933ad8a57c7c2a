---------------------------- MODULE MCInterrupts ----------------------------
(* Two loaded tasks with one frame each, and two blocks that may be free.     *)
EXTENDS Interrupts

CONSTANTS first, other

MCTasks  == {first, other}
MCOwn    == [t \in MCTasks |-> IF t = first THEN {1} ELSE {2}]
=============================================================================
