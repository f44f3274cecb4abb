-------------------------------- MODULE Sums --------------------------------
(***************************************************************************)
(* The sum of a function's values over a finite set of its domain.         *)
(***************************************************************************)
EXTENDS FiniteSetsExt

SumOver(f, S) == MapThenSumSet(LAMBDA x : f[x], S)
=============================================================================
