----------------------------- MODULE QuotaManager -----------------------------
(***************************************************************************)
(* The symbol cache's quota manager (samply-quota-manager): an inventory   *)
(* of the files in the managed directory (file_inventory.rs), a task that  *)
(* evicts files when it is notified (quota_manager.rs), and the clients    *)
(* that create files, find files, and report both                          *)
(* (samply/src/shared/symbol_manager_observer.rs).                         *)
(*                                                                         *)
(* The inventory is behind a mutex, so each access to it is one step; the  *)
(* file system is not, and a file is removed before its row is.            *)
(***************************************************************************)
EXTENDS Integers, SequencesExt

CONSTANTS Files,        \* the files that may be in the managed directory
          Size,         \* file -> its size in bytes
          MaxSize,      \* max_size_bytes
          MaxAge,       \* max_age_seconds
          MaxTime,      \* bound: the last second
          MaxCreations  \* bound: files created or found by clients

ASSUME QuotaManagerAssumption ==
  /\ Size \in [Files -> Nat \ {0}]
  /\ MaxSize \in Nat /\ MaxAge \in Nat
  /\ MaxTime \in Nat /\ MaxCreations \in Nat

VARIABLES
  clock,       \* SystemTime::now() in seconds
  disk,        \* the files in the managed directory
  rows,        \* file -> LastAccessTime of its row, or NoRow
  unreported,  \* files a client has created or found and not yet reported
  creations,   \* how many times a client did so
  permit,      \* the Notify holds a permit
  stop,        \* the stop signal was sent
  pc,          \* where the eviction task is
  phase,       \* which limit it enforces
  victims,     \* the files it is about to delete
  failed       \* some remove_file failed other than with NotFound

clientVars  == <<unreported, creations, stop>>
evictorVars == <<pc, phase, victims, failed>>
vars == <<clock, disk, rows, permit, clientVars, evictorVars>>

NoRow == -1
Listed == {f \in Files : rows[f] # NoRow}

TypeOK ==
  /\ clock \in Nat
  /\ disk \subseteq Files
  /\ rows \in [Files -> Nat \cup {NoRow}]
  /\ unreported \subseteq Files
  /\ creations \in Nat
  /\ permit \in BOOLEAN
  /\ stop \in BOOLEAN
  /\ pc \in {"select", "list_size", "list_age", "delete", "drop_row", "ended",
             "panicked"}
  /\ phase \in {"size", "age"}
  /\ victims \in Seq(Files)
  /\ pc \notin {"delete", "drop_row"} => victims = <<>>
  /\ failed \in BOOLEAN

\* A new database is filled with the files that are there.
Init ==
  /\ clock = 0
  /\ disk \in SUBSET Files
  /\ rows = [f \in Files |-> IF f \in disk THEN 0 ELSE NoRow]
  /\ unreported = {}
  /\ creations = 0
  /\ permit = FALSE
  /\ stop = FALSE
  /\ pc = "select"
  /\ phase = "size"
  /\ victims = <<>>
  /\ failed = FALSE

-----------------------------------------------------------------------------
(* The clients.  A panic while the inventory is locked poisons its mutex,  *)
(* and every later report panics too.                                      *)

Tick ==
  /\ clock < MaxTime
  /\ clock' = clock + 1
  /\ UNCHANGED <<disk, rows, permit, clientVars, evictorVars>>

\* A download or a conversion ends with a new file, or finds that another
\* one has put it there.
CreateFile(f) ==
  /\ creations < MaxCreations
  /\ disk' = disk \cup {f}
  /\ unreported' = unreported \cup {f}
  /\ creations' = creations + 1
  /\ UNCHANGED <<clock, rows, permit, stop, evictorVars>>

\* A slip: the notification is lost unless the task waits for it.
on_file_created_without_permit(f) ==
  /\ f \in unreported
  /\ pc # "panicked"
  /\ rows' = [rows EXCEPT ![f] = clock]
  /\ unreported' = unreported \ {f}
  /\ permit' = (permit \/ pc = "select")
  /\ UNCHANGED <<clock, disk, creations, stop, evictorVars>>

\* Inserts or updates the row and triggers an eviction.
on_file_created(f) ==
  /\ f \in unreported
  /\ pc # "panicked"
  /\ rows' = [rows EXCEPT ![f] = clock]
  /\ unreported' = unreported \ {f}
  /\ permit' = TRUE
  /\ UNCHANGED <<clock, disk, creations, stop, evictorVars>>

\* An access updates the row, if there is one.
on_file_accessed(f) ==
  /\ f \in disk \cap Listed
  /\ pc # "panicked"
  /\ rows' = [rows EXCEPT ![f] = clock]
  /\ UNCHANGED <<clock, disk, permit, clientVars, evictorVars>>

finish ==
  /\ ~stop
  /\ stop' = TRUE
  /\ UNCHANGED <<clock, disk, rows, permit, unreported, creations, evictorVars>>

-----------------------------------------------------------------------------
(* FileInventory                                                           *)

SizeOf(S) == MapThenSumSet(LAMBDA f : Size[f], S)

total_size_in_bytes == SizeOf(Listed)

\* The rows in the order of their access times; the order of equal times is
\* up to sqlite.
LeastRecentlyUsed ==
  {s \in SetToSeqs(Listed) :
     \A i, j \in DOMAIN s : i < j => rows[s[i]] <= rows[s[j]]}

\* A slip: the loop looks at the excess before it takes the next file.
get_files_to_delete_one_more(s) ==
  LET excess == total_size_in_bytes - MaxSize
      enough == {n \in 1 .. Len(s) : SizeOf(ToSet(SubSeq(s, 1, n - 1))) >= excess}
  IN  IF excess < 0 \/ s = <<>> THEN <<>>
      ELSE SubSeq(s, 1, IF enough = {} THEN Len(s) ELSE Min(enough))

\* The shortest prefix that covers the excess, which is at least one file
\* when the limit is reached.
get_files_to_delete_to_enforce_max_size(s) ==
  LET excess == total_size_in_bytes - MaxSize
      enough == {n \in 1 .. Len(s) : SizeOf(ToSet(SubSeq(s, 1, n))) >= excess}
  IN  IF excess < 0 \/ s = <<>> THEN <<>> ELSE SubSeq(s, 1, Min(enough))

get_files_last_accessed_before(cutoff) == {f \in Listed : rows[f] < cutoff}

\* file_info_from_row canonicalizes the path of every row it returns, and
\* unwraps the result.
ReturnFiles(files, label) ==
  /\ victims' = IF ToSet(files) \subseteq disk THEN files ELSE <<>>
  /\ pc' = IF ToSet(files) \subseteq disk THEN label ELSE "panicked"

-----------------------------------------------------------------------------
(* The eviction task                                                       *)

\* The two branches of select!; when both are ready, either may be taken.
observe_stop ==
  /\ pc = "select"
  /\ stop
  /\ pc' = "ended"
  /\ UNCHANGED <<clock, disk, rows, permit, clientVars, phase, victims, failed>>

notified ==
  /\ pc = "select"
  /\ permit
  /\ permit' = FALSE
  /\ pc' = "list_size"
  /\ phase' = "size"
  /\ UNCHANGED <<clock, disk, rows, clientVars, victims, failed>>

list_for_max_size ==
  /\ pc = "list_size"
  /\ \E s \in LeastRecentlyUsed :
       ReturnFiles(get_files_to_delete_to_enforce_max_size(s), "delete")
  /\ UNCHANGED <<clock, disk, rows, permit, clientVars, phase, failed>>

list_for_max_age ==
  /\ pc = "list_age"
  /\ phase' = "age"
  /\ \E s \in SetToSeqs(get_files_last_accessed_before(clock - MaxAge)) :
       ReturnFiles(s, "delete")
  /\ UNCHANGED <<clock, disk, rows, permit, clientVars, failed>>

\* delete_files.  After Ok and NotFound the row goes as well; any other error
\* leaves it.
remove_file ==
  /\ pc = "delete"
  /\ victims # <<>>
  /\ disk' = disk \ {Head(victims)}
  /\ pc' = "drop_row"
  /\ UNCHANGED <<clock, rows, permit, clientVars, phase, victims, failed>>

remove_file_error ==
  /\ pc = "delete"
  /\ victims # <<>>
  /\ victims' = Tail(victims)
  /\ failed' = TRUE
  /\ UNCHANGED <<clock, disk, rows, permit, clientVars, pc, phase>>

on_file_deleted ==
  /\ pc = "drop_row"
  /\ rows' = [rows EXCEPT ![Head(victims)] = NoRow]
  /\ victims' = Tail(victims)
  /\ pc' = "delete"
  /\ UNCHANGED <<clock, disk, permit, clientVars, phase, failed>>

\* A slip: the task starts over instead of waiting.
delete_files_done_starts_over ==
  /\ pc = "delete"
  /\ victims = <<>>
  /\ pc' = IF phase = "size" THEN "list_age" ELSE "list_size"
  /\ phase' = "size"
  /\ UNCHANGED <<clock, disk, rows, permit, clientVars, victims, failed>>

delete_files_done ==
  /\ pc = "delete"
  /\ victims = <<>>
  /\ pc' = IF phase = "size" THEN "list_age" ELSE "select"
  /\ UNCHANGED <<clock, disk, rows, permit, clientVars, phase, victims, failed>>

-----------------------------------------------------------------------------
Evict ==
  \/ notified \/ list_for_max_size \/ list_for_max_age \/ remove_file
  \/ remove_file_error \/ on_file_deleted \/ delete_files_done

Client ==
  \/ Tick \/ finish
  \/ \E f \in Files : CreateFile(f) \/ on_file_created(f) \/ on_file_accessed(f)

\* Nobody has anything left to do.
Quiet ==
  /\ pc \in {"ended", "panicked"}
  /\ UNCHANGED vars

Next == Client \/ Evict \/ observe_stop \/ Quiet

Spec == Init /\ [][Next]_vars

\* The task is scheduled, and select! picks a ready branch at random, so that
\* it does not pass over the stop signal forever.
FairSpec == Spec /\ WF_vars(Evict) /\ SF_vars(observe_stop)

-----------------------------------------------------------------------------
(* A file is deleted for the size limit only as long as the limit is       *)
(* reached, although files are created, found and used while the task      *)
(* works through its list (get_files_to_delete_to_enforce_max_size).       *)
NoOverEviction ==
  [][phase = "size" /\ pc = "delete" /\ pc' = "drop_row"
       => total_size_in_bytes >= MaxSize]_vars

(* Files whose row is lost for good: each was deleted, created and reported *)
(* again before on_file_deleted dropped its row.                            *)
Lost == (disk \ unreported) \ Listed

(* "multiple notifications are coalesced into one": none is lost.  After a  *)
(* report the files in the directory shrink to the limit, also if the       *)
(* report came while an eviction was under way, unless files cannot be      *)
(* removed or the task has panicked.  Files that nobody has reported yet do *)
(* not count, and those in Lost are over the limit unnoticed.  The size may *)
(* remain equal to the limit, where the doc of                              *)
(* get_files_to_delete_to_enforce_max_size says "below `max_size_bytes`".   *)
QuotaEnforced ==
  permit ~> \/ SizeOf(disk \ unreported) <= MaxSize + SizeOf(Lost)
            \/ stop \/ failed \/ pc = "panicked"

(* finish "waits for any currently-running eviction to finish", and does   *)
(* not wait forever.                                                       *)
FinishReturns == stop ~> pc \in {"ended", "panicked"}
=============================================================================
