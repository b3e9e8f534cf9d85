----------------------------- MODULE MCFileLock -----------------------------
(***************************************************************************)
(* TLC's instance of FileLock: three calls, each of which may try three     *)
(* times.                                                                   *)
(***************************************************************************)
EXTENDS FileLock, TLC

MCSymmetry == Permutations(Caller)
=============================================================================
