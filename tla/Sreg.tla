--------------------------------- MODULE Sreg ---------------------------------
(***************************************************************************)
(* The status register, shared by every part that turns interrupts off or  *)
(* whose handlers wait until they are on.                                  *)
(***************************************************************************)
VARIABLE I  \* the global interrupt flag
===============================================================================
