----------------------------- MODULE MCEtwSamples -----------------------------
(* An instance of EtwSamples for TLC.  Thread ids are interchangeable.     *)
EXTENDS EtwSamples, TLC

Symmetry == Permutations(Tids)
=============================================================================
