----------------------- MODULE MCRunningTotalLimiter -----------------------
(***************************************************************************)
(* Model-checking instances of the bytes limiter.                          *)
(***************************************************************************)
EXTENDS RunningTotalLimiter, TLC

CONSTANTS auction1, auction2

IdSymmetry == Permutations(Ids)
=============================================================================
