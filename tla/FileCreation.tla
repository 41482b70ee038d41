----------------------------- MODULE FileCreation -----------------------------
(***************************************************************************)
(* create_file_cleanly (wholesym/src/file_creation.rs): several calls, in  *)
(* one or many processes, create the same destination file.  They use a    *)
(* ".lock" file that is locked with flock and a ".part" file that is       *)
(* renamed to the destination.                                             *)
(*                                                                         *)
(* A path names an inode, and an inode is known by the call that created   *)
(* it: a call creates at most one lock file and one temporary file.  A     *)
(* flock belongs to the inode, not to the path: who opened a lock file     *)
(* that was removed since then does not exclude who opens the new one.     *)
(***************************************************************************)
CONSTANTS Calls,     \* the calls; each is made once
          Evictions  \* when may the quota manager delete the destination file?

\* "quiet": only while no call has a lock file open or has yet to remove one.
ASSUME FileCreationAssumption == Evictions \in {"never", "quiet", "any"}

NoInode == "NoInode"
Prior   == "Prior"  \* the destination file, if it is older than all the calls

ASSUME InodeAssumption == NoInode \notin Calls /\ Prior \notin Calls

VARIABLES
  pc,        \* call -> where it is
  lockPath,  \* the inode at the .lock path, or NoInode
  lockFile,  \* call -> the lock file it opened, or NoInode
  tempPath,  \* the inode at the .part path, or NoInode
  tempFile,  \* call -> the temporary file it writes to, or NoInode
  dest,      \* the inode at the destination path, or NoInode
  author,    \* temporary inode -> the call that truncated it last
  complete,  \* the inodes that hold the whole contents
  recorded,  \* does the quota manager's inventory list the destination file?
  evicted    \* was the destination file ever deleted?

fcVars == <<pc, lockPath, lockFile, tempPath, tempFile, dest, author, complete,
            recorded, evicted>>

\* pc says what the call does next.  From "check" to the two steps named
\* after dropping, the call holds the lock of its lock file.
Writing == {"open_temp", "write", "rename", "remove_temp"}

\* A slip: the file is leaked where the code returns an error.
Holding_leaks == Writing \cup {"check", "drop_after_error", "drop_existing",
                              "drop_written", "failed"}

Holding == Writing \cup {"check", "drop_after_error", "drop_existing", "drop_written"}
HasWritten == {"drop_written", "remove_lock_written", "written"}
HasEnded == {"failed", "existing", "written", "gone"}

FCTypeOK ==
  /\ pc \in [Calls -> {"open_lock", "lock", "remove_lock_existing",
                       "remove_lock_written", "handle_existing"} \cup Holding \cup HasEnded]
  /\ lockPath \in Calls \cup {NoInode}
  /\ lockFile \in [Calls -> Calls \cup {NoInode}]
  /\ tempPath \in Calls \cup {NoInode}
  /\ tempFile \in [Calls -> Calls \cup {NoInode}]
  /\ dest \in Calls \cup {NoInode, Prior}
  /\ author \in [Calls -> Calls \cup {NoInode}]
  /\ complete \subseteq Calls \cup {Prior}
  /\ recorded \in BOOLEAN
  /\ evicted \in BOOLEAN

FCInit ==
  /\ pc = [c \in Calls |-> "open_lock"]
  /\ lockPath = NoInode
  /\ lockFile = [c \in Calls |-> NoInode]
  /\ tempPath = NoInode
  /\ tempFile = [c \in Calls |-> NoInode]
  /\ dest \in {NoInode, Prior}
  /\ author = [c \in Calls |-> NoInode]
  /\ complete = {Prior}
  /\ recorded = (dest = Prior)
  /\ evicted = FALSE

GoesTo(c, label) == pc' = [pc EXCEPT ![c] = label]

lockVars == <<lockPath, lockFile>>
destVars == <<dest, recorded, evicted>>
tempVars == <<tempPath, tempFile, author, complete>>

-----------------------------------------------------------------------------
\* Opens the lock file, or creates it; either may fail.
open_lock_file(c) ==
  /\ pc[c] = "open_lock"
  /\ \/ /\ lockPath' = IF lockPath = NoInode THEN c ELSE lockPath
        /\ lockFile' = [lockFile EXCEPT ![c] = lockPath']
        /\ GoesTo(c, "lock")
     \/ /\ GoesTo(c, "failed")
        /\ UNCHANGED lockVars
  /\ UNCHANGED <<tempVars, destVars>>

\* A slip: the lock is shared.
lock_file_shared(c) ==
  /\ pc[c] = "lock"
  /\ GoesTo(c, "check")
  /\ UNCHANGED <<lockVars, tempVars, destVars>>

\* try_lock_exclusive, and if that would block, lock_exclusive on a thread of
\* its own.  Either way the call goes on when it has the lock.
lock_file_exclusive(c) ==
  /\ pc[c] = "lock"
  /\ \A d \in Calls : pc[d] \in Holding => lockFile[d] # lockFile[c]
  /\ GoesTo(c, "check")
  /\ UNCHANGED <<lockVars, tempVars, destVars>>

\* Locking is interrupted too many times, or fails.
locking_fails(c) ==
  /\ pc[c] = "lock"
  /\ GoesTo(c, "failed")
  /\ UNCHANGED <<lockVars, tempVars, destVars>>

\* A slip: the lock is enough.
check_destination_never(c) ==
  /\ pc[c] = "check"
  /\ GoesTo(c, "open_temp")
  /\ UNCHANGED <<lockVars, tempVars, destVars>>

check_destination(c) ==
  /\ pc[c] = "check"
  /\ GoesTo(c, IF dest # NoInode THEN "drop_existing" ELSE "open_temp")
  /\ UNCHANGED <<lockVars, tempVars, destVars>>

\* Opens the temporary file, or creates it, and truncates it.
open_temp_file(c) ==
  /\ pc[c] = "open_temp"
  /\ \/ /\ tempPath' = IF tempPath = NoInode THEN c ELSE tempPath
        /\ tempFile' = [tempFile EXCEPT ![c] = tempPath']
        /\ author' = [author EXCEPT ![tempPath'] = c]
        /\ complete' = complete \ {tempPath'}
        /\ GoesTo(c, "write")
     \/ /\ GoesTo(c, "drop_after_error")
        /\ UNCHANGED tempVars
  /\ UNCHANGED <<lockVars, destVars>>

\* A slip: the file gets its final name whatever write_fn returned.
write_fn_ignores_error(c) ==
  /\ pc[c] = "write"
  /\ \/ complete' = complete \cup {tempFile[c]}
     \/ UNCHANGED complete
  /\ GoesTo(c, "rename")
  /\ UNCHANGED <<lockVars, tempPath, tempFile, author, destVars>>

\* write_fn returns.  The contents are whole unless another call truncated
\* the file in the meantime: then they are whole when that call is done.
write_fn(c) ==
  /\ pc[c] = "write"
  /\ \/ /\ complete' = IF author[tempFile[c]] = c THEN complete \cup {tempFile[c]}
                                                  ELSE complete
        /\ GoesTo(c, "rename")
     \/ /\ GoesTo(c, "remove_temp")
        /\ UNCHANGED complete
  /\ UNCHANGED <<lockVars, tempPath, tempFile, author, destVars>>

rename_temp_file(c) ==
  /\ pc[c] = "rename"
  /\ \/ /\ tempPath # NoInode
        /\ dest' = tempPath
        /\ tempPath' = NoInode
        /\ GoesTo(c, "drop_written")
     \/ /\ GoesTo(c, "remove_temp")
        /\ UNCHANGED <<dest, tempPath>>
  /\ UNCHANGED <<lockVars, tempFile, author, complete, recorded, evicted>>

\* After an error of write_fn or of the rename.
remove_temp_file(c) ==
  /\ pc[c] = "remove_temp"
  /\ tempPath' = NoInode
  /\ GoesTo(c, "drop_after_error")
  /\ UNCHANGED <<lockVars, tempFile, author, complete, destVars>>

\* drop(locked_file) closes and unlocks it.
drop_locked_file(c) ==
  /\ \/ pc[c] = "drop_after_error" /\ GoesTo(c, "failed")
     \/ pc[c] = "drop_existing" /\ GoesTo(c, "remove_lock_existing")
     \/ pc[c] = "drop_written" /\ GoesTo(c, "remove_lock_written")
  /\ UNCHANGED <<lockVars, tempVars, destVars>>

\* Removes whichever lock file the path names by now.  A call that wrote the
\* file returns, and its caller reports the file to the quota manager.
remove_lock_file(c) ==
  /\ \/ /\ pc[c] = "remove_lock_existing"
        /\ GoesTo(c, "handle_existing")
        /\ UNCHANGED recorded
     \/ /\ pc[c] = "remove_lock_written"
        /\ GoesTo(c, "written")
        /\ recorded' = TRUE
  /\ lockPath' = NoInode
  /\ UNCHANGED <<lockFile, tempVars, dest, evicted>>

\* Looks at the existing file, which the caller then reports as well.
handle_existing_fn(c) ==
  /\ pc[c] = "handle_existing"
  /\ IF dest # NoInode THEN GoesTo(c, "existing") /\ recorded' = TRUE
                       ELSE GoesTo(c, "failed") /\ UNCHANGED recorded
  /\ UNCHANGED <<lockVars, tempVars, dest, evicted>>

\* The process is killed, or the future is dropped at an await: the lock is
\* released, the files stay.
Vanish(c) ==
  /\ pc[c] \notin HasEnded
  /\ GoesTo(c, "gone")
  /\ UNCHANGED <<lockVars, tempVars, destVars>>

\* No call has a lock file open, and none has yet to remove the lock file.
NobodyAtLockFile ==
  \A c \in Calls : pc[c] \in {"open_lock", "handle_existing"} \cup HasEnded

\* delete_files of samply-quota-manager, for a file in its inventory.
Evict ==
  /\ Evictions = "any" \/ (Evictions = "quiet" /\ NobodyAtLockFile)
  /\ recorded
  /\ dest' = NoInode
  /\ recorded' = FALSE
  /\ evicted' = TRUE
  /\ UNCHANGED <<pc, lockVars, tempVars>>

-----------------------------------------------------------------------------
CallStep(c) ==
  \/ open_lock_file(c) \/ lock_file_exclusive(c) \/ check_destination(c)
  \/ open_temp_file(c) \/ write_fn(c) \/ rename_temp_file(c)
  \/ remove_temp_file(c) \/ drop_locked_file(c) \/ remove_lock_file(c)
  \/ handle_existing_fn(c)

AllEnded ==
  /\ \A c \in Calls : pc[c] \in HasEnded
  /\ UNCHANGED fcVars

FCNext == Evict \/ AllEnded \/ \E c \in Calls : CallStep(c) \/ locking_fails(c) \/ Vanish(c)

FCSpec == FCInit /\ [][FCNext]_fcVars

\* A call that can go on does, write_fn returns some day, and flock hands a
\* free lock to somebody who waits for it.  Nothing makes locking fail.
FCFairSpec == FCSpec /\ \A c \in Calls : WF_fcVars(CallStep(c))

-----------------------------------------------------------------------------
(* One call at a time works on the .part file, although a call that is done *)
(* removes the lock file while a second one waits for it and a third one    *)
(* creates another ("We use file locks to coordinate multiple attempted     *)
(* writes of the same file").  The two then hold different lock files, and  *)
(* only the check of the destination keeps them from writing both.  It does *)
(* as long as the file is deleted only while nobody is at a lock file: see  *)
(* FileCreationEvicted.cfg for a deletion at any time.                      *)
OneWriter ==
  \A c, d \in Calls : pc[c] \in Writing /\ pc[d] \in Writing => c = d

(* "the final file is only created once the write function has returned    *)
(* successfully": whatever is at the destination path is whole, also after *)
(* calls that failed or vanished at any point.                             *)
DestinationIsWhole == dest # NoInode => dest \in complete

(* The promise of create_file_cleanly, CleanFile, is kept by the lock and  *)
(* temporary files: the rename publishes a whole file where there was      *)
(* none, one call writes at a time, and "other calls will [...] call       *)
(* handle_existing_fn".  A call that failed has stopped writing once it    *)
(* has dropped its lock.                                                   *)
FileState ==
  IF dest = NoInode THEN "absent" ELSE IF dest \in complete THEN "whole" ELSE "partial"

CallState(label) ==
  CASE label \in {"open_lock", "lock", "check"} -> "waiting"
    [] label \in Writing \cup {"drop_after_error"} -> "writing"
    [] label \in {"drop_existing", "remove_lock_existing", "handle_existing"} -> "found"
    [] label \in {"drop_written", "remove_lock_written"} -> "published"
    [] label \in HasEnded -> label

CallStates == [c \in Calls |-> CallState(pc[c])]

Clean == INSTANCE CleanFile WITH file <- FileState, call <- CallStates

ImplementsCleanFile == Clean!Spec

(* Nobody waits for the lock forever: every call ends.                     *)
EveryCallEnds == \A c \in Calls : <>(pc[c] \in HasEnded)
=============================================================================
