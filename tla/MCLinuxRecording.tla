--------------------------- MODULE MCLinuxRecording ---------------------------
(* LinuxRecording as it is: its constants are numbers and strings.         *)
EXTENDS LinuxRecording
=============================================================================
