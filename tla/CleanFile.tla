------------------------------- MODULE CleanFile -------------------------------
(***************************************************************************)
(* What create_file_cleanly (wholesym/src/file_creation.rs) promises to    *)
(* calls that want the same file: the file appears at once and whole, by   *)
(* one call at a time, and the other calls find it.  There are no lock     *)
(* files and no temporary files here; FileCreation has those, and          *)
(* implements this.                                                        *)
(***************************************************************************)
CONSTANT Calls

VARIABLES
  file,  \* "absent" or "whole"
  call   \* call -> how far it is

vars == <<file, call>>

InProgress == {"waiting", "writing", "found", "published"}
Becomes(c, how) == call' = [call EXCEPT ![c] = how]

Init ==
  /\ file \in {"absent", "whole"}
  /\ call = [c \in Calls |-> "waiting"]

\* One call at a time writes, and only as long as there is no file.
StartWriting(c) ==
  /\ call[c] = "waiting"
  /\ file = "absent"
  /\ \A d \in Calls : call[d] # "writing"
  /\ Becomes(c, "writing")
  /\ UNCHANGED file

\* The only way for the file to appear.
Publish(c) ==
  /\ call[c] = "writing"
  /\ file = "absent"
  /\ file' = "whole"
  /\ Becomes(c, "published")

FindExisting(c) ==
  /\ call[c] = "waiting"
  /\ file = "whole"
  /\ Becomes(c, "found")
  /\ UNCHANGED file

\* A call says that the file exists only if it does.
ReturnOk(c) ==
  /\ \/ call[c] = "published" /\ Becomes(c, "written")
     \/ call[c] = "found" /\ file = "whole" /\ Becomes(c, "existing")
  /\ UNCHANGED file

ReturnError(c) ==
  /\ call[c] \in {"waiting", "writing", "found"}
  /\ Becomes(c, "failed")
  /\ UNCHANGED file

Vanish(c) ==
  /\ call[c] \in InProgress
  /\ Becomes(c, "gone")
  /\ UNCHANGED file

Evict ==
  /\ file' = "absent"
  /\ UNCHANGED call

Next ==
  \/ Evict
  \/ \E c \in Calls : \/ StartWriting(c) \/ Publish(c) \/ FindExisting(c)
                      \/ ReturnOk(c) \/ ReturnError(c) \/ Vanish(c)

Spec == Init /\ [][Next]_vars
=============================================================================
