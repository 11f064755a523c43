------------------------- MODULE MCInstructionClock -------------------------
(* A counter a few instructions wide and three events: enough for a tie, a  *)
(* handler that schedules into the Advance in progress or cancels a rival   *)
(* or itself, and a deadline that does not fit the counter.                 *)
EXTENDS InstructionClock
=============================================================================
