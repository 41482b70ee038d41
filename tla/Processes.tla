------------------------------ MODULE Processes ------------------------------
(***************************************************************************)
(* The converter's tables of processes and threads                         *)
(* (samply/src/linux_shared/processes.rs, process_threads.rs, thread.rs,   *)
(* process.rs) and the pools of profile threads that --reuse-threads       *)
(* recycles (shared/recycling.rs), under FORK, EXIT and COMM records and   *)
(* samples in any order: records may be lost, and ids are used again.      *)
(*                                                                         *)
(* A handle is the index of an entry in the profile.  The main thread of   *)
(* a process has the process's pid as its tid.  Start times, end times and *)
(* label frames are left out, and so is what a process holds besides its   *)
(* threads.                                                                *)
(***************************************************************************)
EXTENDS Integers, Sequences

CONSTANTS Pids,         \* process ids
          Tids,         \* thread ids of threads that are not main threads
          Names,        \* names of threads and processes
          MaxProcesses, \* bound: processes in the profile
          MaxThreads    \* bound: threads in the profile

None      == "None"
NoThread  == [handle |-> 0, name |-> None]
NoProcess == [handle |-> 0]

ASSUME ProcessesAssumption ==
  /\ Pids \cap Tids = {}
  /\ None \notin Names
  /\ MaxProcesses \in Nat /\ MaxThreads \in Nat

VARIABLES
  s,         \* Processes and the profile
  comm,      \* pid -> tid -> the name in the last record that named this
             \* thread since it was created, or None; the code has no such field
  attaching  \* no record was handled yet

vars == <<s, comm, attaching>>

Handles   == Nat \ {0}
MaybeName == Names \cup {None}

Thread   == [handle : Handles, name : MaybeName]
Recycler == SUBSET [name : Names, handle : Handles]
Process  == [handle : Handles, name : MaybeName, main : Thread,
             threads : [Tids -> Thread \cup {NoThread}],
             thread_recycler : Recycler]
ProcessRecyclingData ==
  [name : Names, handle : Handles, main : Handles, thread_recycler : Recycler]

TypeOK ==
  /\ s \in [allow_reuse : BOOLEAN,
            processes_by_pid : [Pids -> Process \cup {NoProcess}],
            process_recycler : SUBSET ProcessRecyclingData,
            processes : Seq(MaybeName),
            threads   : Seq([owner : Handles, name : MaybeName])]
  /\ comm \in [Pids -> [Tids -> MaybeName]]
  /\ attaching \in BOOLEAN

-----------------------------------------------------------------------------
(* RecyclerByName                                                          *)

OfName(pool, n) == {d \in pool : d.name = n}

\* recycle_by_name pops the data with the smallest handle, if there is any.
LeastOfName(pool, n) ==
  {d \in OfName(pool, n) : \A e \in OfName(pool, n) : d.handle <= e.handle}

Popped(pool, n) == CHOOSE d \in LeastOfName(pool, n) : TRUE

\* A slip: the heap is peeked at.
TakenFrom_peek(pool, d) == pool

TakenFrom(pool, d) == pool \ {d}

-----------------------------------------------------------------------------
(* ProcessThreads.  Each operator maps the state to the state after it.    *)

Proc(st, p) == st.processes_by_pid[p]

ThreadOf(st, p, t) == IF t = p THEN Proc(st, p).main ELSE Proc(st, p).threads[t]

add_thread(st, p, t, n) ==
  [st EXCEPT
     !.threads = Append(@, [owner |-> Proc(st, p).handle, name |-> n]),
     !.processes_by_pid[p].threads[t] = [handle |-> Len(st.threads) + 1, name |-> n]]

get_thread_by_tid(st, p, t) ==
  IF t = p \/ Proc(st, p).threads[t] # NoThread THEN st ELSE add_thread(st, p, t, None)

recycle_or_get_new_thread(st, p, t, n) ==
  LET pool == Proc(st, p).thread_recycler
      d    == Popped(pool, n)
  IN  IF t = p \/ Proc(st, p).threads[t] # NoThread THEN st
      ELSE IF st.allow_reuse /\ n # None /\ LeastOfName(pool, n) # {}
      THEN [st EXCEPT
              !.processes_by_pid[p].thread_recycler = TakenFrom(@, d),
              !.processes_by_pid[p].threads[t] = [handle |-> d.handle, name |-> n]]
      ELSE add_thread(st, p, t, n)

\* What add_to_pool puts into the recycler for these threads.
Recyclable(st, threads) ==
  IF st.allow_reuse THEN {[name |-> x.name, handle |-> x.handle] :
                   x \in {y \in threads \ {NoThread} : y.name # None}}
           ELSE {}

\* A slip: the thread is pooled under the name it is about to get.
PooledOnRename_new_name(st, thread, n) ==
  Recyclable(st, {[handle |-> thread.handle, name |-> n]})

PooledOnRename(st, thread, n) == Recyclable(st, {thread})

\* With a recycler that has no thread of this name, the record is ignored.
rename_non_main_thread(st, p, t, n) ==
  LET thread == Proc(st, p).threads[t]
      pool   == Proc(st, p).thread_recycler
      d      == Popped(pool, n)
  IN  IF thread = NoThread THEN recycle_or_get_new_thread(st, p, t, n)
      ELSE IF thread.name = n THEN st
      ELSE IF ~st.allow_reuse
      THEN [st EXCEPT !.threads[thread.handle].name = n,
                      !.processes_by_pid[p].threads[t].name = n]
      ELSE IF LeastOfName(pool, n) # {}
      THEN [st EXCEPT
              !.processes_by_pid[p].thread_recycler =
                  TakenFrom(@, d) \cup PooledOnRename(st, thread, n),
              !.processes_by_pid[p].threads[t] = [handle |-> d.handle, name |-> n]]
      ELSE st

remove_non_main_thread(st, p, t) ==
  [st EXCEPT
     !.processes_by_pid[p].thread_recycler = @ \cup Recyclable(st, {Proc(st, p).threads[t]}),
     !.processes_by_pid[p].threads[t] = NoThread]

-----------------------------------------------------------------------------
(* Processes                                                               *)

\* Process::new
NewProcess(h, n, main, recycler) ==
  [handle |-> h, name |-> n, main |-> [handle |-> main, name |-> n],
   threads |-> [t \in Tids |-> NoThread], thread_recycler |-> recycler]

add_process(st, p, n) ==
  LET h == Len(st.processes) + 1
  IN  [st EXCEPT
         !.processes = Append(@, n),
         !.threads = Append(@, [owner |-> h, name |-> n]),
         !.processes_by_pid[p] = NewProcess(h, n, Len(st.threads) + 1, {})]

get_by_pid(st, p) == IF Proc(st, p) # NoProcess THEN st ELSE add_process(st, p, None)

recycle_or_get_new(st, p, n) ==
  LET pool == st.process_recycler
      d    == Popped(pool, n)
  IN  IF Proc(st, p) # NoProcess THEN st
      ELSE IF st.allow_reuse /\ n # None /\ LeastOfName(pool, n) # {}
      THEN [st EXCEPT
              !.process_recycler = TakenFrom(@, d),
              !.processes_by_pid[p] = NewProcess(d.handle, n, d.main, d.thread_recycler)]
      ELSE add_process(st, p, n)

\* ProcessRecyclingData for the pool, if the process has a name.
RecyclingData(st, process, recycler) ==
  IF st.allow_reuse /\ process.name # None
  THEN {[name |-> process.name, handle |-> process.handle,
         main |-> process.main.handle, thread_recycler |-> recycler]}
  ELSE {}

\* notify_dead moves all threads to the recycler, which finish hands on.
remove(st, p) ==
  LET process == Proc(st, p)
      pooled  == process.thread_recycler
                   \cup Recyclable(st, {process.threads[t] : t \in Tids})
  IN  IF process = NoProcess THEN st
      ELSE [st EXCEPT !.processes_by_pid[p] = NoProcess,
                      !.process_recycler = @ \cup RecyclingData(st, process, pooled)]

\* A slip: the main thread keeps its profile thread.
rename_with_recycling_keeps_main(process, n, d) ==
  [process EXCEPT !.handle = d.handle, !.name = n, !.main.name = n,
                  !.thread_recycler = d.thread_recycler]

\* The process takes over another's handle, main thread and recycler; its other
\* threads stay as they are.
rename_with_recycling(process, n, d) ==
  [process EXCEPT !.handle = d.handle, !.name = n,
                  !.main = [handle |-> d.main, name |-> n],
                  !.thread_recycler = d.thread_recycler]

rename_process(st, p, n) ==
  LET process == Proc(st, p)
      pool    == st.process_recycler
      d       == Popped(pool, n)
  IN  IF process = NoProcess THEN recycle_or_get_new(st, p, n)
      ELSE IF process.name = n THEN st
      ELSE IF st.allow_reuse /\ LeastOfName(pool, n) # {}
      THEN [st EXCEPT
              !.process_recycler =
                  TakenFrom(@, d) \cup RecyclingData(st, process, process.thread_recycler),
              !.processes_by_pid[p] = rename_with_recycling(process, n, d)]
      ELSE [st EXCEPT !.processes[process.handle] = n,
                      !.threads[process.main.handle].name = n,
                      !.processes_by_pid[p].name = n,
                      !.processes_by_pid[p].main.name = n]

-----------------------------------------------------------------------------
(* The converter's handlers                                                *)

Init ==
  /\ \E reuse \in BOOLEAN :
       s = [allow_reuse |-> reuse, processes_by_pid |-> [p \in Pids |-> NoProcess],
            process_recycler |-> {}, processes |-> <<>>, threads |-> <<>>]
  /\ comm = [p \in Pids |-> [t \in Tids |-> None]]
  /\ attaching = TRUE

\* A record was handled, and the profile has not outgrown the bounds.
Handled(st) ==
  /\ Len(st.processes) <= MaxProcesses
  /\ Len(st.threads) <= MaxThreads
  /\ s' = st
  /\ attaching' = FALSE

Named(p, t, n) == comm' = IF t = p THEN comm ELSE [comm EXCEPT ![p][t] = n]

AllUnnamed(p) == comm' = [comm EXCEPT ![p] = [t \in Tids |-> None]]

\* The new process takes the name of the forking process.
handle_fork_process(ppid, pid) ==
  LET st == get_by_pid(s, ppid)
  IN  /\ ppid # pid
      /\ Handled(recycle_or_get_new(st, pid, Proc(st, ppid).name))
      /\ UNCHANGED comm

\* The new thread takes the name of the forking thread.
handle_fork_thread(pid, ptid, tid) ==
  LET st == get_thread_by_tid(get_by_pid(s, pid), pid, ptid)
  IN  /\ Handled(recycle_or_get_new_thread(st, pid, tid, ThreadOf(st, pid, ptid).name))
      /\ Named(pid, tid, None)

handle_exit_process(pid) ==
  /\ Handled(remove(s, pid))
  /\ AllUnnamed(pid)

handle_exit_thread(pid, tid) ==
  /\ Handled(remove_non_main_thread(get_by_pid(s, pid), pid, tid))
  /\ Named(pid, tid, None)

handle_exec(pid, tid, n) ==
  IF pid = tid
  THEN /\ Handled(recycle_or_get_new(remove(s, pid), pid, n))
       /\ AllUnnamed(pid)
  ELSE /\ Handled(recycle_or_get_new_thread(
                    remove_non_main_thread(get_by_pid(s, pid), pid, tid), pid, tid, n))
       /\ Named(pid, tid, n)

handle_thread_rename(pid, tid, n) ==
  /\ Handled(IF pid = tid THEN rename_process(s, pid, n)
                          ELSE rename_non_main_thread(get_by_pid(s, pid), pid, tid, n))
  /\ Named(pid, tid, n)

\* A sample or a context switch: the thread is created if it is not known.
handle_sample(pid, tid) ==
  /\ Handled(get_thread_by_tid(get_by_pid(s, pid), pid, tid))
  /\ UNCHANGED comm

\* Attaching to a process: it is registered with its executable's name and
\* its threads with theirs, before the first record.
register_existing_process(pid, n) ==
  /\ attaching
  /\ LET st == get_by_pid(s, pid)
     IN  s' = [st EXCEPT !.processes[Proc(st, pid).handle] = n,
                         !.processes_by_pid[pid].name = n]
  /\ UNCHANGED <<comm, attaching>>

register_existing_thread(pid, tid, n) ==
  /\ attaching
  /\ Proc(s, pid) # NoProcess
  /\ LET st == get_thread_by_tid(s, pid, tid)
         named == [st EXCEPT !.threads[ThreadOf(st, pid, tid).handle].name = n]
     IN  s' = IF tid = pid
              THEN [named EXCEPT !.processes_by_pid[pid].main.name = n]
              ELSE [named EXCEPT !.processes_by_pid[pid].threads[tid].name = n]
  /\ Named(pid, tid, n)
  /\ UNCHANGED attaching

Next ==
  \E p \in Pids :
    \/ handle_exit_process(p)
    \/ \E q \in Pids : handle_fork_process(p, q)
    \/ \E n \in Names : register_existing_process(p, n)
    \/ \E t \in Tids : handle_exit_thread(p, t)
    \/ \E t \in Tids \cup {p} :
         \/ handle_sample(p, t)
         \/ \E u \in Tids \cup {p} : handle_fork_thread(p, u, t)
         \/ \E n \in Names : \/ handle_exec(p, t, n)
                             \/ handle_thread_rename(p, t, n)
                             \/ register_existing_thread(p, t, n)

Spec == Init /\ [][Next]_vars

-----------------------------------------------------------------------------
Live     == {p \in Pids : Proc(s, p) # NoProcess}
LiveTids(p) == {t \in Tids : Proc(s, p).threads[t] # NoThread}

\* Everybody who may hand out profile thread h: live threads, thread
\* recyclers of live processes, and recycling data of dead ones.
HoldersOf(h) ==
  {x \in {"thread"} \X Live \X (Tids \cup Pids) :
     /\ x[3] = x[2] \/ x[3] \in LiveTids(x[2])
     /\ ThreadOf(s, x[2], x[3]).handle = h}
  \cup {x \in {"recycler"} \X Live \X Names :
          [name |-> x[3], handle |-> h] \in Proc(s, x[2]).thread_recycler}
  \cup {x \in {"dead"} \X s.process_recycler \X {None} : x[2].main = h}
  \cup {x \in {"dead_recycler"} \X s.process_recycler \X Names :
          [name |-> x[3], handle |-> h] \in x[2].thread_recycler}

(* "Merge non-overlapping threads of the same name": two threads that are  *)
(* alive at the same time never share a profile thread, and neither do two *)
(* processes, however often they are forked, renamed, lost and recycled.   *)
HandlesUnshared ==
  /\ \A h \in 1 .. Len(s.threads) : \A x, y \in HoldersOf(h) : x = y
  /\ \A p, q \in Live : Proc(s, p).handle = Proc(s, q).handle => p = q
  /\ \A d, e \in s.process_recycler : d.handle = e.handle => d = e
  /\ \A p \in Live, d \in s.process_recycler : Proc(s, p).handle # d.handle

(* Without --reuse-threads a thread is known by the name that the last     *)
(* record gave it.  (With it, rename_non_main_thread ignores a record if   *)
(* no thread of the new name is waiting in the pool.)                      *)
NamesUpToDate ==
  ~s.allow_reuse =>
    \A p \in Live : \A t \in LiveTids(p) :
      comm[p][t] # None => ThreadOf(s, p, t).name = comm[p][t]

(* What the tables take for the name of a thread or of a process is what   *)
(* the profile shows for it, also for the ones that wait to be recycled:   *)
(* nothing is recycled under a name that the viewer does not see.  (Main   *)
(* threads are recycled under the name of their process.)  And the name    *)
(* in the table is the last one recorded.                                  *)
ShownNames ==
  /\ NamesUpToDate
  /\ \A p \in Live :
       /\ s.processes[Proc(s, p).handle] = Proc(s, p).name
       /\ \A t \in LiveTids(p) :
            s.threads[ThreadOf(s, p, t).handle].name = ThreadOf(s, p, t).name
       /\ \A d \in Proc(s, p).thread_recycler : s.threads[d.handle].name = d.name
  /\ \A e \in s.process_recycler :
       /\ s.processes[e.handle] = e.name
       /\ \A d \in e.thread_recycler : s.threads[d.handle].name = d.name

(* The main thread of a process is shown under that process, and without   *)
(* --reuse-threads every thread is: samples are never shown under another  *)
(* process.                                                                *)
ShownUnderItsProcess ==
  \A p \in Live :
    /\ s.threads[Proc(s, p).main.handle].owner = Proc(s, p).handle
    /\ ~s.allow_reuse => \A t \in LiveTids(p) :
                   s.threads[ThreadOf(s, p, t).handle].owner = Proc(s, p).handle
=============================================================================
