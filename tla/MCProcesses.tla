----------------------------- MODULE MCProcesses -----------------------------
(* Model values for Processes.  Names are interchangeable, so are pids.    *)
EXTENDS Processes, TLC

IdSymmetry == Permutations(Pids) \cup Permutations(Tids) \cup Permutations(Names)
=============================================================================
