---------------------------- MODULE MCEtwTables ----------------------------
(* EtwTables for TLC.  Ids and names of threads are only compared for equality. *)
EXTENDS EtwTables, TLC

CONSTANTS p1, p2, t1, t2, x, y

Symmetry ==
  Permutations(Pids) \cup Permutations(Tids) \cup Permutations(ThreadNames)
=============================================================================
