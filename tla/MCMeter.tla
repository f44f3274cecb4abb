------------------------------ MODULE MCMeter ------------------------------
(***************************************************************************)
(* One worker on one port (FinalReport has several), two requests, and a   *)
(* clock that runs to the end of the second slot, or stands still.         *)
(***************************************************************************)
EXTENDS Meter

CONSTANTS w1, p1
=============================================================================
