---------------------------- MODULE MCQuotaManager ----------------------------
(***************************************************************************)
(* Instances of QuotaManager for TLC.  The files have different sizes, so  *)
(* that one may make room for two.                                         *)
(***************************************************************************)
EXTENDS QuotaManager

FileSizes == [f \in Files |-> f]
=============================================================================
