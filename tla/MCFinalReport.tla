--------------------------- MODULE MCFinalReport ---------------------------
(***************************************************************************)
(* Two workers on two ports: their adds interleave with each other, and    *)
(* fall between any two reads of the report.  A worker looks at the bound  *)
(* on requests before it adds, so that two requests get past a bound of 1. *)
(***************************************************************************)
EXTENDS FinalReport

CONSTANTS w1, w2, p1, p2

TwoPorts == <<p1, p2>>
=============================================================================
