---------------------------- MODULE MCFileCreation ----------------------------
(***************************************************************************)
(* Instances of FileCreation for TLC.                                      *)
(***************************************************************************)
EXTENDS FileCreation, TLC

\* No definition tells one call from another.
CallSymmetry == Permutations(Calls)
=============================================================================
