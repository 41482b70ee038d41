------------------------------ MODULE EtwTables ------------------------------
(***************************************************************************)
(* The tables of processes and threads that samply keeps while it converts *)
(* ETW traces (samply/src/windows/profile_context.rs), fed by the events   *)
(* of etw_gecko.rs.  Windows uses ids again, so that an id names a process *)
(* or thread only together with a time.  The kernel's trace is read to its *)
(* end before the trace of the user session, whose markers and JIT events  *)
(* therefore look for threads and processes of the past.  Events that only *)
(* look one up and write to the profile are not actions: the properties    *)
(* say what they find, in every state.                                     *)
(*                                                                         *)
(* Every event of the kernel's trace has its own timestamp, 1, 2, ...; no  *)
(* event is lost.  A handle is the index of an entry in the profile.       *)
(* Label frames, start and end times, the time range option, and what is   *)
(* sampled are left out.                                                   *)
(***************************************************************************)
EXTENDS Integers, Sequences, Bags

CONSTANTS Pids,          \* process ids, without 0
          Tids,          \* thread ids
          ProcessNames,
          ThreadNames,
          IncludedNames, \* names that IncludedProcesses accepts
          IncludedPids,  \* pids that IncludedProcesses accepts
          MaxTime,       \* bound: events in the kernel's trace
          MaxUserEvents  \* bound: events in the trace of the user session

Empty  == ""
NoName == "None"

ASSUME EtwTablesAssumption ==
  /\ 0 \notin Pids
  /\ {Empty, NoName} \cap ThreadNames = {}
  /\ IncludedNames \subseteq ProcessNames /\ IncludedPids \subseteq Pids
  /\ MaxTime \in Nat /\ MaxUserEvents \in Nat

VARIABLES
  ctx,    \* ProfileContext
  os,     \* what runs: the thread of each tid, the process of each pid, and
          \* the entries that were made for them (0: none)
  past,   \* os, and the handles of its threads, after each kernel event
  trace,  \* which trace is read: "rundown" (the first events of the kernel's
          \* trace, on what ran already), "kernel" or "user"
  read    \* the events of the user trace that were read: their number and
          \* the time of the last

vars == <<ctx, os, past, trace, read>>

Handles == Nat \ {0}
Times   == 0..MaxTime  \* 0: none

now == Len(past)

\* A pool is a bag, because a heap may hold a handle twice.
ThreadRecycler(pool) ==
  /\ DOMAIN pool \subseteq [name : ThreadNames \cup {Empty}, handle : Handles]
  /\ IsABag(pool)

TypeOK ==
  /\ ctx.reuse_threads \in BOOLEAN /\ ctx.main_thread_only \in BOOLEAN
  /\ ctx.threads.by_id \in [Tids -> 0..Len(ctx.threads.entries)]
  /\ ctx.threads.entries \in
       Seq([id : Tids, start : Times, reused : Times, handle : Handles,
            name : ThreadNames \cup {Empty, NoName}, pending : Times])
  /\ ctx.processes.by_id \in [Pids -> 0..Len(ctx.processes.entries)]
  /\ \A i \in DOMAIN ctx.processes.entries :
       LET e == ctx.processes.entries[i] IN
         /\ e.id \in Pids /\ e.start \in Times /\ e.reused \in Times
         /\ e.name \in ProcessNames
         /\ e.handle \in 1..ctx.nprocesses /\ e.main \in DOMAIN ctx.owner
         /\ e.seen_main \in BOOLEAN /\ e.recycles \in BOOLEAN
         /\ e.source \in Nat /\ ThreadRecycler(e.pool)
  /\ ctx.owner \in Seq(1..ctx.nprocesses)
  /\ ctx.thread_handles \subseteq
       [tid : Tids, time : Times, handle : DOMAIN ctx.owner]
  /\ now <= MaxTime /\ read \in [count : 0..MaxUserEvents, at : Times]
  /\ trace \in {"rundown", "kernel", "user"}

-----------------------------------------------------------------------------
(* Threads and Processes: the same table over two kinds of ids.  The maps  *)
(* by id and start time are read off the entries.                          *)

EmptyTable(ids) == [entries |-> << >>, by_id |-> [i \in ids |-> 0]]

Added(tab, id, entry) ==
  [entries |-> Append(tab.entries, entry),
   by_id   |-> [tab.by_id EXCEPT ![id] = Len(tab.entries) + 1]]

\* A slip: the old entry is only forgotten.
notify_created_forgets(tab, id, t) == [tab EXCEPT !.by_id[id] = 0]

notify_created(tab, id, t) ==
  IF tab.by_id[id] = 0 THEN tab
  ELSE [tab EXCEPT !.entries[tab.by_id[id]].reused = t, !.by_id[id] = 0]

get_index_at(tab, id, t) ==
  LET before == {i \in DOMAIN tab.entries :
                   tab.entries[i].id = id /\ tab.entries[i].start <= t}
      last   == CHOOSE i \in before : \A j \in before :
                  tab.entries[j].start <= tab.entries[i].start
  IN  IF before = {} \/ tab.entries[last].reused \in 1..t THEN 0 ELSE last

-----------------------------------------------------------------------------
(* RecyclerByName                                                          *)

OfName(pool, n) == {d \in BagToSet(pool) : d.name = n}

LeastOfName(pool, n) ==
  CHOOSE d \in OfName(pool, n) : \A e \in OfName(pool, n) : d.handle <= e.handle

PoolWith(pool, d)    == pool (+) SetToBag({d})
PoolWithout(pool, d) == pool (-) SetToBag({d})

-----------------------------------------------------------------------------
(* Processes.  Each handler maps the context to the context after it.      *)

is_interesting_process(c, pid, ppid, name) ==
  \/ c.processes.by_id[pid] # 0
  \/ ppid \in Pids /\ c.processes.by_id[ppid] # 0
  \/ name \in IncludedNames \/ pid \in IncludedPids

add_process(c, t, pid, name, data) ==
  [c EXCEPT !.processes = Added(@, pid,
     [id |-> pid, start |-> t, reused |-> 0, name |-> name,
      handle |-> data.handle, main |-> data.main, seen_main |-> FALSE,
      recycles |-> c.reuse_threads, pool |-> data.pool, source |-> 0])]

\* A process with a main thread is added to the profile.
add_new_process(c, t, pid, name) ==
  LET h == c.nprocesses + 1
  IN  add_process([c EXCEPT !.nprocesses = h, !.owner = Append(@, h)],
                  t, pid, name,
                  [handle |-> h, main |-> Len(c.owner) + 1, pool |-> EmptyBag])

handle_process_dcstart(c, t, pid, ppid, name) ==
  IF is_interesting_process(c, pid, ppid, name)
  THEN add_new_process(c, t, pid, name) ELSE c

\* A slip: the old threads are kept with a new process.
recycle_process_new_handle(c, t, pid, data) ==
  add_process([c EXCEPT !.process_recycler = @ \ {data}, !.nprocesses = @ + 1],
              t, pid, data.name, [data EXCEPT !.handle = c.nprocesses + 1])

recycle_process(c, t, pid, data) ==
  add_process([c EXCEPT !.process_recycler = @ \ {data}],
              t, pid, data.name, data)

handle_process_start(c, t, pid, ppid, name) ==
  LET d    == [c EXCEPT !.processes = notify_created(@, pid, t)]
      pool == {x \in d.process_recycler : x.name = name}
  IN  IF ~is_interesting_process(d, pid, ppid, name) THEN d
      ELSE IF pool = {} THEN add_new_process(d, t, pid, name)
      ELSE recycle_process(d, t, pid,
             CHOOSE x \in pool : \A y \in pool : x.handle <= y.handle)

\* take_recycling_data succeeds once.
handle_process_end(c, pid) ==
  LET i == c.processes.by_id[pid]
      e == c.processes.entries[i]
  IN  IF i = 0 \/ ~c.processes.entries[i].recycles THEN c
      ELSE [c EXCEPT
             !.processes.entries[i].recycles = FALSE,
             !.processes.entries[i].pool = EmptyBag,
             !.process_recycler = @ \cup
               {[name |-> e.name, handle |-> e.handle, main |-> e.main,
                 pool |-> e.pool]}]

-----------------------------------------------------------------------------
(* Threads                                                                 *)

add_thread(c, t, tid, name, h) ==
  [c EXCEPT
    !.threads = Added(@, tid,
      [id |-> tid, start |-> t, reused |-> 0, handle |-> h, name |-> name,
       pending |-> 0]),
    !.thread_handles = @ \cup {[tid |-> tid, time |-> t, handle |-> h]}]

\* A thread is added to the profile.
add_new_thread(c, t, tid, pid, name) ==
  LET h == c.processes.entries[c.processes.by_id[pid]].handle
  IN  add_thread([c EXCEPT !.owner = Append(@, h)],
                 t, tid, name, Len(c.owner) + 1)

\* The first thread of a process is its main thread, whose handle exists.
add_main_thread(c, t, tid, pid, name) ==
  LET i == c.processes.by_id[pid]
  IN  add_thread([c EXCEPT !.processes.entries[i].seen_main = TRUE],
                 t, tid, name, c.processes.entries[i].main)

\* is_interesting_process is true of a tracked process, and a thread of any
\* other process is ignored after it too.
handle_thread_dcstart(c, t, tid, pid, eventName) ==
  LET i    == c.processes.by_id[pid]
      name == IF eventName = Empty THEN NoName ELSE eventName
  IN  IF i = 0 THEN c
      ELSE IF ~c.processes.entries[i].seen_main
           THEN add_main_thread(c, t, tid, pid, name)
      ELSE IF c.main_thread_only THEN c
      ELSE add_new_thread(c, t, tid, pid, name)

recycle_thread(c, t, tid, pid, data) ==
  LET i == c.processes.by_id[pid]
  IN  add_thread([c EXCEPT !.processes.entries[i].pool = PoolWithout(@, data)],
                 t, tid, data.name, data.handle)

handle_thread_start(c, t, tid, pid, name) ==
  LET i == c.processes.by_id[pid]
      d == [c EXCEPT !.threads = notify_created(@, tid, t)]
  IN  IF i = 0 THEN d
      ELSE IF ~d.processes.entries[i].seen_main
           THEN add_main_thread(d, t, tid, pid, name)
      ELSE IF d.main_thread_only THEN d
      ELSE IF OfName(d.processes.entries[i].pool, name) # {}
           THEN recycle_thread(d, t, tid, pid,
                  LeastOfName(d.processes.entries[i].pool, name))
      ELSE add_new_thread(d, t, tid, pid, name)

\* The pool with the thread's handle under the name it has, if it has one.
WithThread(pool, e) ==
  IF e.name = NoName THEN pool
  ELSE PoolWith(pool, [name |-> e.name, handle |-> e.handle])

handle_thread_set_name(c, t, pid, tid, name) ==
  LET k    == c.threads.by_id[tid]
      i    == c.processes.by_id[pid]
      e    == c.threads.entries[k]
      p    == c.processes.entries[i]
      pool == WithThread(p.pool, e)
      new  == LeastOfName(pool, name)
  IN  IF k = 0 \/ i = 0 THEN c
      ELSE IF p.recycles /\ OfName(pool, name) # {}
      THEN [c EXCEPT
             !.processes.entries[i].pool = PoolWithout(pool, new),
             !.threads.entries[k].name   = name,
             !.threads.entries[k].handle = new.handle,
             !.thread_handles = @ \cup
               {[tid |-> tid, time |-> t, handle |-> new.handle]}]
      ELSE [c EXCEPT
             !.processes.entries[i].pool = IF p.recycles THEN pool ELSE @,
             !.threads.entries[k].name   = name]

handle_thread_end(c, pid, tid) ==
  LET k == c.threads.by_id[tid]
      i == c.processes.by_id[pid]
  IN  IF k = 0 \/ i = 0 \/ ~c.processes.entries[i].recycles THEN c
      ELSE [c EXCEPT !.processes.entries[i].pool =
                       WithThread(@, c.threads.entries[k])]

-----------------------------------------------------------------------------
(* Markers and JIT functions                                               *)

\* A slip: the thread's handle of now.
thread_handle_at_time_current(c, tid, t) ==
  LET k == get_index_at(c.threads, tid, t)
  IN  IF k = 0 THEN 0 ELSE c.threads.entries[k].handle

thread_handle_at_time(c, tid, t) ==
  LET before == {x \in c.thread_handles : x.tid = tid /\ x.time <= t}
      last   == CHOOSE x \in before : \A y \in before : y.time <= x.time
  IN  IF before = {} THEN 0 ELSE last.handle

has_thread_at_time(c, tid, t) == get_index_at(c.threads, tid, t) # 0


\* The profile thread that shows a marker, or 0: the events of Firefox, Chrome
\* and of unknown providers are shown if both are found.
marker_handle(c, tid, t) ==
  IF has_thread_at_time(c, tid, t) THEN thread_handle_at_time(c, tid, t) ELSE 0

\* A slip: the thread of now.
handle_freeform_marker_start_current(c, t, tid) ==
  LET k == c.threads.by_id[tid]
  IN  IF k = 0 THEN c ELSE [c EXCEPT !.threads.entries[k].pending = t]

handle_freeform_marker_start(c, t, tid) ==
  LET k == get_index_at(c.threads, tid, t)
  IN  IF k = 0 THEN c ELSE [c EXCEPT !.threads.entries[k].pending = t]

\* The start of the marker that an end at t completes; 0: it has none.
interval_start(c, tid, t) ==
  LET k == get_index_at(c.threads, tid, t)
  IN  IF k = 0 THEN 0 ELSE c.threads.entries[k].pending

handle_freeform_marker_end(c, t, tid) ==
  LET k == get_index_at(c.threads, tid, t)
  IN  IF k = 0 THEN c ELSE [c EXCEPT !.threads.entries[k].pending = 0]

\* A script is known by the process that loaded it.
handle_js_source_load(c, t, pid, script) ==
  LET i == get_index_at(c.processes, pid, t)
  IN  IF i = 0 THEN c ELSE [c EXCEPT !.processes.entries[i].source = script]

\* The script after which a method loaded at t is named; 0: it is not known.
method_script(c, pid, t) ==
  LET i == get_index_at(c.processes, pid, t)
  IN  IF i = 0 THEN 0 ELSE c.processes.entries[i].source

-----------------------------------------------------------------------------
(* Windows                                                                 *)

NoOsThread == [pid |-> 0, entry |-> 0]
NoProcess  == [alive |-> FALSE, entry |-> 0]

NewEntry(old, new) == IF Len(new) > Len(old) THEN Len(new) ELSE 0

ThreadStarts(c, tid, pid) ==
  [os EXCEPT !.thr[tid] =
     [pid |-> pid, entry |-> NewEntry(ctx.threads.entries, c.threads.entries)]]

ProcessStarts(c, pid) ==
  [os EXCEPT !.proc[pid] =
     [alive |-> TRUE,
      entry |-> NewEntry(ctx.processes.entries, c.processes.entries)]]

Snapshot(c, o) ==
  [proc |-> o.proc,
   thr  |-> [t \in Tids |->
              [pid    |-> o.thr[t].pid,
               entry  |-> o.thr[t].entry,
               handle |-> IF o.thr[t].entry = 0 THEN 0
                          ELSE c.threads.entries[o.thr[t].entry].handle]]]

\* An event of the kernel's trace leaves c, and the machine in o.
KernelEvent(tr, c, o) ==
  /\ trace \in {"rundown", tr} /\ now < MaxTime
  /\ trace' = tr
  /\ ctx' = c
  /\ os' = o
  /\ past' = Append(past, Snapshot(c, o))
  /\ UNCHANGED read

-----------------------------------------------------------------------------
(* process_trace, on the kernel's file                                     *)

ProcessDCStart ==
  \E pid \in Pids, ppid \in Pids \cup {0}, name \in ProcessNames :
    LET c == handle_process_dcstart(ctx, now + 1, pid, ppid, name) IN
    /\ ~os.proc[pid].alive /\ ppid # pid
    /\ KernelEvent("rundown", c, ProcessStarts(c, pid))

ProcessStart ==
  \E pid \in Pids, ppid \in Pids \cup {0}, name \in ProcessNames :
    LET c == handle_process_start(ctx, now + 1, pid, ppid, name) IN
    /\ ~os.proc[pid].alive /\ ppid # pid
    /\ KernelEvent("kernel", c, ProcessStarts(c, pid))

ProcessEnd ==
  \E pid \in Pids :
    /\ os.proc[pid].alive
    /\ \A t \in Tids : os.thr[t].pid # pid
    /\ KernelEvent("kernel", handle_process_end(ctx, pid),
                   [os EXCEPT !.proc[pid] = NoProcess])

ThreadDCStart ==
  \E tid \in Tids, pid \in Pids, name \in ThreadNames \cup {Empty, NoName} :
    LET c == handle_thread_dcstart(ctx, now + 1, tid, pid, name) IN
    /\ os.thr[tid] = NoOsThread /\ os.proc[pid].alive
    /\ KernelEvent("rundown", c, ThreadStarts(c, tid, pid))

ThreadStart ==
  \E tid \in Tids, pid \in Pids, name \in ThreadNames \cup {Empty, NoName} :
    LET c == handle_thread_start(ctx, now + 1, tid, pid, name) IN
    /\ os.thr[tid] = NoOsThread /\ os.proc[pid].alive
    /\ KernelEvent("kernel", c, ThreadStarts(c, tid, pid))

\* A name that is empty is ignored.
ThreadSetName ==
  \E tid \in Tids, name \in ThreadNames :
    LET pid == os.thr[tid].pid IN
    /\ os.thr[tid] # NoOsThread
    /\ KernelEvent("kernel",
         handle_thread_set_name(ctx, now + 1, pid, tid, name), os)

ThreadEnd ==
  \E tid \in Tids :
    /\ os.thr[tid] # NoOsThread
    /\ KernelEvent("kernel", handle_thread_end(ctx, os.thr[tid].pid, tid),
                   [os EXCEPT !.thr[tid] = NoOsThread])

-----------------------------------------------------------------------------
(* process_trace, on the file of the user session.  Its events are in the  *)
(* order of their times, and of threads and processes that ran then.       *)

EndOfKernelTrace ==
  /\ trace = "kernel" /\ trace' = "user"
  /\ UNCHANGED <<ctx, os, past, read>>

EventOfThread(tid, t) ==
  /\ trace = "user" /\ read.count < MaxUserEvents
  /\ t \in read.at..now /\ past[t].thr[tid].pid # 0
  /\ read' = [count |-> read.count + 1, at |-> t]
  /\ UNCHANGED <<os, past, trace>>

EventOfProcess(pid, t) ==
  /\ trace = "user" /\ read.count < MaxUserEvents
  /\ t \in read.at..now /\ past[t].proc[pid].alive
  /\ read' = [count |-> read.count + 1, at |-> t]
  /\ UNCHANGED <<os, past, trace>>

FreeformStart ==
  \E tid \in Tids, t \in 1..MaxTime :
    /\ EventOfThread(tid, t)
    /\ ctx' = handle_freeform_marker_start(ctx, t, tid)

FreeformEnd ==
  \E tid \in Tids, t \in 1..MaxTime :
    /\ EventOfThread(tid, t)
    /\ ctx' = handle_freeform_marker_end(ctx, t, tid)

JsSourceLoad ==
  \E pid \in Pids, t \in 1..MaxTime :
    /\ EventOfProcess(pid, t)
    /\ ctx' = handle_js_source_load(ctx, t, pid, past[t].proc[pid].entry)

Init ==
  /\ ctx \in {[reuse_threads |-> r, main_thread_only |-> m,
               threads |-> EmptyTable(Tids), processes |-> EmptyTable(Pids),
               thread_handles |-> {}, process_recycler |-> {},
               nprocesses |-> 0, owner |-> << >>] :
                 r \in BOOLEAN, m \in BOOLEAN}
  /\ os = [thr |-> [t \in Tids |-> NoOsThread], proc |-> [p \in Pids |-> NoProcess]]
  /\ past = << >> /\ trace = "rundown" /\ read = [count |-> 0, at |-> 0]

Next ==
  \/ ProcessDCStart \/ ProcessStart \/ ProcessEnd
  \/ ThreadDCStart \/ ThreadStart \/ ThreadSetName \/ ThreadEnd
  \/ EndOfKernelTrace
  \/ FreeformStart \/ FreeformEnd \/ JsSourceLoad

Spec == Init /\ [][Next]_vars

-----------------------------------------------------------------------------
(* Properties                                                              *)

\* A marker at time t, whenever it is read, is shown by the profile thread that
\* its thread had at that time (thread_handle_at_time), although by then the
\* thread may have got another one, or its tid another thread.  A marker of a
\* thread that samply does not track is not shown.
MarkerOnItsThread ==
  \A tid \in Tids, t \in 1..now :
    past[t].thr[tid].pid # 0 =>
      marker_handle(ctx, tid, t) = past[t].thr[tid].handle

\* The start and the end that handle_freeform_marker_end combines come from one
\* thread, and not from two that had the same tid one after the other.
IntervalOfOneThread ==
  \A tid \in Tids, t \in read.at..now :
    t # 0 /\ past[t].thr[tid].pid # 0 /\ interval_start(ctx, tid, t) # 0 =>
      past[interval_start(ctx, tid, t)].thr[tid].entry = past[t].thr[tid].entry

\* A JIT function loaded at time t goes to the process that had the pid then, and
\* is named after a script of that process (js_sources).
MethodInItsProcess ==
  \A pid \in Pids, t \in 1..now :
    past[t].proc[pid].alive =>
      LET entry == past[t].proc[pid].entry IN
      /\ get_index_at(ctx.processes, pid, t) = entry
      /\ method_script(ctx, pid, t) \in {0, entry}

\* The profile thread of a running thread is listed under the profile process
\* of its process, after any recycling of processes, threads and names.
ShownUnderItsProcess ==
  \A t \in Tids : os.thr[t].entry # 0 =>
    ctx.owner[ctx.threads.entries[os.thr[t].entry].handle]
      = ctx.processes.entries[os.proc[os.thr[t].pid].entry].handle
=============================================================================
