-------------------------------- MODULE Sums --------------------------------
(***************************************************************************)
(* The sum of the values of a function, for the properties that say that   *)
(* amounts add up.                                                         *)
(***************************************************************************)
EXTENDS Integers, Functions

\* The sum of f[x] for all x in S.
SumOver(f, S) == FoldFunctionOnSet(+, 0, f, S)
=============================================================================
