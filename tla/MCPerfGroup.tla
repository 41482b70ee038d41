---------------------------- MODULE MCPerfGroup ----------------------------
(***************************************************************************)
(* An instance of PerfGroup for TLC.  The groups are compared by their     *)
(* fds, so they are not interchangeable.                                   *)
(***************************************************************************)
EXTENDS PerfGroup
=============================================================================
