-------------------------- MODULE MCThreadSampling --------------------------
(***************************************************************************)
(* An instance of ThreadSampling for TLC.  The bounds let a sleep span     *)
(* more than two intervals and let several short sleeps add up to one.     *)
(***************************************************************************)
EXTENDS ThreadSampling
=============================================================================
