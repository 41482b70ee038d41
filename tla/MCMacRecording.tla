---------------------------- MODULE MCMacRecording ----------------------------
(* MacRecording as it is: its constants are numbers and strings.           *)
EXTENDS MacRecording
=============================================================================
