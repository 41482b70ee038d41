---------------------------- MODULE EtwTablesProofs ---------------------------
(***************************************************************************)
(* Proofs about the tables that samply keeps while it converts an ETW      *)
(* trace, for any ids, names and numbers of events.                        *)
(*                                                                         *)
(* Each handler is a composition of changes to the tables.  Grows says     *)
(* what no change may touch, namely what was there at an earlier time;     *)
(* KernelStep, that a handler which respects it keeps the invariant.       *)
(***************************************************************************)
EXTENDS EtwTables, WellFoundedInduction, TLAPS

ThreadData == [name : ThreadNames \cup {Empty}, handle : Handles]
Pools      == UNION {[D -> Handles] : D \in SUBSET ThreadData}

ThreadEntry  == [id : Tids, start : Times, reused : Times, handle : Handles,
                 name : ThreadNames \cup {Empty, NoName}, pending : Times]
ProcessEntry == [id : Pids, start : Times, reused : Times, name : ProcessNames,
                 handle : Handles, main : Handles, seen_main : BOOLEAN,
                 recycles : BOOLEAN, pool : Pools, source : Nat]
ProcessData  == [name : ProcessNames, handle : Handles, main : Handles, pool : Pools]
ThreadHandle == [tid : Tids, time : Times, handle : Handles]

Context ==
  [reuse_threads : BOOLEAN, main_thread_only : BOOLEAN,
   threads : [entries : Seq(ThreadEntry), by_id : [Tids -> Nat]],
   processes : [entries : Seq(ProcessEntry), by_id : [Pids -> Nat]],
   thread_handles : SUBSET ThreadHandle, process_recycler : SUBSET ProcessData,
   nprocesses : Nat, owner : Seq(Handles)]

Machine ==
  [thr  : [Tids -> [pid : Pids \cup {0}, entry : Nat]],
   proc : [Pids -> [alive : BOOLEAN, entry : Nat]]]

-----------------------------------------------------------------------------
(* The inductive invariant                                                 *)

\* A table whose entries start at s or before, and are reused at r or before.
TableSound(tab, ids, s, r) ==
  /\ tab.by_id \in [ids -> 0 .. Len(tab.entries)]
  /\ \A i \in 1 .. Len(tab.entries) :
       /\ tab.entries[i].id \in ids
       /\ tab.entries[i].start \in 1 .. s /\ tab.entries[i].reused \in 0 .. r
       /\ tab.entries[i].reused = 0 => tab.by_id[tab.entries[i].id] = i
  /\ \A id \in ids : tab.by_id[id] # 0 =>
       tab.entries[tab.by_id[id]].id = id /\ tab.entries[tab.by_id[id]].reused = 0
  /\ \A i, j \in 1 .. Len(tab.entries) : i < j =>
       /\ tab.entries[i].start < tab.entries[j].start
       /\ tab.entries[i].id = tab.entries[j].id =>
            tab.entries[i].reused \in 1 .. tab.entries[j].start

\* Each thread had at most one new handle at a time, which the profile has.
HandlesSound(c, s) ==
  /\ \A x \in c.thread_handles : x.time \in 1 .. s /\ x.handle <= Len(c.owner)
  /\ \A x, y \in c.thread_handles : x.tid = y.tid /\ x.time = y.time => x = y

\* The threads that a process, or recycling data, holds are listed under it.
Owns(c, e) ==
  /\ e.handle <= c.nprocesses
  /\ e.main <= Len(c.owner) /\ c.owner[e.main] = e.handle
  /\ \A d \in DOMAIN e.pool : d.handle <= Len(c.owner) /\ c.owner[d.handle] = e.handle

OwnersSound(c) ==
  /\ \A h \in 1 .. Len(c.owner) : c.owner[h] <= c.nprocesses
  /\ \A i \in 1 .. Len(c.processes.entries) : Owns(c, c.processes.entries[i])
  /\ \A d \in c.process_recycler : Owns(c, d)

Sound(c, s, r) ==
  /\ c \in Context
  /\ TableSound(c.threads, Tids, s, r) /\ TableSound(c.processes, Pids, s, r)
  /\ HandlesSound(c, s)
  /\ OwnersSound(c)

\* At time t, thread tid had got handle h last.
HandleAt(handles, tid, t, h) ==
  \E x \in handles : /\ x.tid = tid /\ x.time <= t /\ x.handle = h
                     /\ \A y \in handles : y.tid = tid /\ y.time <= t => y.time <= x.time

\* The tables know what runs now.
ThreadTracked(c, o, t, n) ==
  LET k == o.thr[t].entry
      h == c.threads.entries[k].handle
      i == o.proc[o.thr[t].pid].entry
  IN  IF o.thr[t].pid = 0 THEN k = 0
      ELSE /\ c.threads.by_id[t] = k
           /\ o.proc[o.thr[t].pid].alive
           /\ k # 0 => /\ HandleAt(c.thread_handles, t, n, h)
                       /\ i # 0 /\ h <= Len(c.owner)
                       /\ c.owner[h] = c.processes.entries[i].handle

ProcessTracked(c, o, p) == o.proc[p].alive => c.processes.by_id[p] = o.proc[p].entry

Tracked(c, o, n) ==
  /\ o \in Machine
  /\ \A t \in Tids : ThreadTracked(c, o, t, n)
  /\ \A p \in Pids : ProcessTracked(c, o, p)

\* Entry k was the one of id at time t; 0: there was none.
EntryAt(tab, id, t, k) ==
  IF k = 0
  THEN \A i \in 1 .. Len(tab.entries) :
         tab.entries[i].id = id /\ tab.entries[i].start <= t => tab.entries[i].reused \in 1 .. t
  ELSE /\ k \in 1 .. Len(tab.entries)
       /\ tab.entries[k].id = id /\ tab.entries[k].start <= t
       /\ tab.entries[k].reused \notin 1 .. t

\* The tables know what ran at time t, which is w.
Remembered(c, w, t) ==
  /\ \A tid \in Tids : w.thr[tid].pid # 0 =>
       /\ EntryAt(c.threads, tid, t, w.thr[tid].entry)
       /\ w.thr[tid].handle \in Nat
       /\ IF w.thr[tid].entry = 0 THEN w.thr[tid].handle = 0
          ELSE HandleAt(c.thread_handles, tid, t, w.thr[tid].handle)
  /\ \A pid \in Pids : w.proc[pid].alive => EntryAt(c.processes, pid, t, w.proc[pid].entry)

\* Starts of markers, and scripts, belong to the thread or process of the entry.
MarksSound(c, ps) ==
  /\ \A k \in 1 .. Len(c.threads.entries) :
       c.threads.entries[k].pending # 0 =>
         /\ c.threads.entries[k].pending \in 1 .. Len(ps)
         /\ ps[c.threads.entries[k].pending].thr[c.threads.entries[k].id].entry = k
  /\ \A i \in 1 .. Len(c.processes.entries) : c.processes.entries[i].source \in {0, i}

\* During the rundown no id is used again.
RundownSound(c, o) ==
  /\ \A t \in Tids : o.thr[t].pid = 0 => c.threads.by_id[t] = 0
  /\ \A p \in Pids : ~o.proc[p].alive => c.processes.by_id[p] = 0

IInv ==
  /\ Sound(ctx, now, now)
  /\ Tracked(ctx, os, now)
  /\ past \in Seq([proc : [Pids -> [alive : BOOLEAN, entry : Nat]],
                   thr  : [Tids -> [pid : Pids \cup {0}, entry : Nat, handle : Nat]]])
  /\ now <= MaxTime
  /\ \A t \in 1 .. now : Remembered(ctx, past[t], t)
  /\ MarksSound(ctx, past)
  /\ trace \in {"rundown", "kernel", "user"}
  /\ trace = "rundown" => RundownSound(ctx, os)
  /\ read \in [count : 0 .. MaxUserEvents, at : Times]

-----------------------------------------------------------------------------
(* Least and greatest numbers                                              *)

LEMMA HasLeast ==
  ASSUME NEW T, T \subseteq Nat, T # {}
  PROVE  \E x \in T : \A y \in T : x <= y
<1>1. PICK R : R = OpToRel(<, Nat)
  BY Zenon
<1>2. IsWellFoundedOn(R, Nat)
  BY <1>1, NatLessThanWellFounded, Zenon
<1>3. PICK x \in T : \A y \in T : ~(<<y, x>> \in R)
  BY <1>2, WFMin
<1>4. \A y \in Nat, z \in Nat : y < z => <<y, z>> \in R
  BY <1>1, Zenon DEF OpToRel
<1>5. \A y \in T : ~(y < x)
  BY <1>3, <1>4
<1> QED
  BY <1>5

LEMMA HasGreatest ==
  ASSUME NEW T, T \subseteq Nat, T # {}, NEW n \in Nat, \A x \in T : x <= n
  PROVE  \E x \in T : \A y \in T : y <= x
<1>1. PICK U : U = {n - x : x \in T}
  OBVIOUS
<1>2. U \subseteq Nat /\ U # {}
  <2>1. PICK x \in T : TRUE
    OBVIOUS
  <2>2. n - x \in U
    BY <1>1
  <2>3. \A u \in U : \E y \in T : u = n - y
    BY <1>1
  <2>4. \A y \in T : y \in Nat /\ n - y \in Nat
    OBVIOUS
  <2>5. \A u \in U : u \in Nat
    BY <2>3, <2>4
  <2> QED
    BY <2>2, <2>5
<1>3. PICK u \in U : \A v \in U : u <= v
  BY <1>2, HasLeast
<1>4. PICK x \in T : u = n - x
  BY <1>1
<1>5. ASSUME NEW y \in T PROVE y <= x
  <2>1. n - y \in U
    BY <1>1
  <2>2. n - x <= n - y
    BY <1>3, <1>4, <2>1
  <2> QED
    BY <2>2
<1> QED
  BY <1>5

-----------------------------------------------------------------------------
(* The tables                                                              *)

\* get_index_at finds what was there.
LEMMA IndexAt ==
  ASSUME NEW E, NEW tab, tab.entries \in Seq(E), NEW ids, NEW s \in Nat, NEW r \in Nat,
         TableSound(tab, ids, s, r), NEW id, NEW t \in Nat, NEW k \in Nat,
         EntryAt(tab, id, t, k)
  PROVE  get_index_at(tab, id, t) = k
<1> DEFINE before == {i \in DOMAIN tab.entries :
                        tab.entries[i].id = id /\ tab.entries[i].start <= t}
           latest(i) == i \in before
                        /\ \A j \in before : tab.entries[j].start <= tab.entries[i].start
           last == CHOOSE i \in before : \A j \in before :
                     tab.entries[j].start <= tab.entries[i].start
<1>0. /\ get_index_at(tab, id, t)
           = IF before = {} \/ tab.entries[last].reused \in 1 .. t THEN 0 ELSE last
      /\ DOMAIN tab.entries = 1 .. Len(tab.entries) /\ Len(tab.entries) \in Nat
  BY DEF get_index_at
<1>1. \A i \in before : tab.entries[i].start \in 1 .. s
  BY <1>0 DEF TableSound
<1>2. CASE k # 0
  <2>1. k \in before /\ tab.entries[k].reused \notin 1 .. t
    BY <1>0, <1>2 DEF EntryAt
  <2>2. ASSUME NEW j \in before, j # k
        PROVE  tab.entries[j].start < tab.entries[k].start
    <3>1. j \in 1 .. Len(tab.entries) /\ k \in 1 .. Len(tab.entries)
      BY <1>0, <2>1
    <3>2. j < k \/ k < j
      BY <2>2, <3>1
    <3>3. CASE j < k
      BY <3>1, <3>3 DEF TableSound
    <3>4. CASE k < j
      <4>1. tab.entries[k].reused \in 1 .. tab.entries[j].start
        BY <2>1, <3>1, <3>4 DEF TableSound
      <4> QED
        BY <1>1, <2>1, <4>1
    <3> QED
      BY <3>2, <3>3, <3>4
  <2>3. latest(k)
    BY <1>1, <2>1, <2>2
  <2>4. \A i : latest(i) => i = k
    BY <1>1, <2>1, <2>2
  <2>5. last = k
    BY <2>3, <2>4
  <2> QED
    BY <1>0, <2>1, <2>5
<1>3. CASE k = 0 /\ before = {}
  BY SMTT(30), <1>0, <1>3
<1>4. CASE k = 0 /\ before # {}
  <2>1. PICK T : T = {tab.entries[i].start : i \in before}
    OBVIOUS
  <2>2. T \subseteq Nat /\ T # {} /\ \A x \in T : x <= s
    <3>1. PICK i \in before : TRUE
      BY <1>4
    <3>2. tab.entries[i].start \in T
      BY <2>1
    <3>3. \A x \in T : \E j \in before : x = tab.entries[j].start
      BY <2>1
    <3>4. \A x \in T : x \in Nat /\ x <= s
      BY <1>1, <3>3
    <3> QED
      BY <3>2, <3>4
  <2>3. PICK x \in T : \A y \in T : y <= x
    BY <2>2, HasGreatest
  <2>4. \E i \in before : \A j \in before : tab.entries[j].start <= tab.entries[i].start
    BY <2>1, <2>3
  <2>5. last \in before
    BY <2>4
  <2>6. tab.entries[last].reused \in 1 .. t
    BY <1>0, <1>4, <2>5 DEF EntryAt
  <2> QED
    BY <1>0, <1>4, <2>6
<1> QED
  BY <1>2, <1>3, <1>4

\* The entry of an id is the one that is there now.
LEMMA EntryNow ==
  ASSUME NEW tab, NEW ids, NEW n \in Nat, TableSound(tab, ids, n, n), NEW id \in ids,
         Len(tab.entries) \in Nat
  PROVE  EntryAt(tab, id, n, tab.by_id[id])
<1>1. CASE tab.by_id[id] = 0
  BY <1>1 DEF TableSound, EntryAt
<1>2. CASE tab.by_id[id] # 0
  BY <1>2 DEF TableSound, EntryAt
<1> QED
  BY <1>1, <1>2

\* What an event at n + 1 may do to a table.
TableGrows(tab, tab2, n) ==
  /\ Len(tab.entries) <= Len(tab2.entries)
  /\ \A i \in 1 .. Len(tab.entries) :
       /\ tab2.entries[i].id = tab.entries[i].id
       /\ tab2.entries[i].start = tab.entries[i].start
       /\ \/ tab2.entries[i].reused = tab.entries[i].reused
          \/ tab.entries[i].reused = 0 /\ tab2.entries[i].reused = n + 1
  /\ \A i \in Len(tab.entries) + 1 .. Len(tab2.entries) : tab2.entries[i].start = n + 1

LEMMA EntryStays ==
  ASSUME NEW tab, NEW tab2, NEW n \in Nat, TableGrows(tab, tab2, n),
         Len(tab.entries) \in Nat, Len(tab2.entries) \in Nat,
         NEW t \in 1 .. n, NEW id, NEW k, EntryAt(tab, id, t, k)
  PROVE  EntryAt(tab2, id, t, k)
<1>1. CASE k = 0
  <2> SUFFICES ASSUME NEW i \in 1 .. Len(tab2.entries), tab2.entries[i].id = id,
                      tab2.entries[i].start <= t
               PROVE  tab2.entries[i].reused \in 1 .. t
    BY <1>1 DEF EntryAt
  <2>1. i \in 1 .. Len(tab.entries)
    BY DEF TableGrows
  <2> QED
    BY SMTT(30), <1>1, <2>1 DEF TableGrows, EntryAt
<1>2. CASE k # 0
  BY <1>2 DEF TableGrows, EntryAt
<1> QED
  BY <1>1, <1>2

\* The three changes to a table.
LEMMA TableKept ==
  ASSUME NEW tab, NEW tab2, NEW ids, NEW n \in Nat, NEW m \in Nat,
         TableSound(tab, ids, n, m), Len(tab.entries) \in Nat,
         tab2.by_id = tab.by_id, Len(tab2.entries) = Len(tab.entries),
         \A i \in 1 .. Len(tab.entries) : /\ tab2.entries[i].id = tab.entries[i].id
                                          /\ tab2.entries[i].start = tab.entries[i].start
                                          /\ tab2.entries[i].reused = tab.entries[i].reused
  PROVE  TableSound(tab2, ids, n, m) /\ TableGrows(tab, tab2, n)
<1>1. TableGrows(tab, tab2, n)
  BY DEF TableGrows
<1>2. /\ tab2.by_id \in [ids -> 0 .. Len(tab2.entries)]
      /\ \A i \in 1 .. Len(tab2.entries) :
           /\ tab2.entries[i].id \in ids
           /\ tab2.entries[i].start \in 1 .. n /\ tab2.entries[i].reused \in 0 .. m
           /\ tab2.entries[i].reused = 0 => tab2.by_id[tab2.entries[i].id] = i
  BY DEF TableSound
<1>3. \A id \in ids : tab2.by_id[id] # 0 =>
        tab2.entries[tab2.by_id[id]].id = id /\ tab2.entries[tab2.by_id[id]].reused = 0
  BY DEF TableSound
<1>4. \A i, j \in 1 .. Len(tab2.entries) : i < j =>
        /\ tab2.entries[i].start < tab2.entries[j].start
        /\ tab2.entries[i].id = tab2.entries[j].id =>
             tab2.entries[i].reused \in 1 .. tab2.entries[j].start
  BY DEF TableSound
<1> QED
  BY <1>1, <1>2, <1>3, <1>4 DEF TableSound

LEMMA TableLater ==
  ASSUME NEW tab, NEW ids, NEW s \in Nat, NEW r \in Nat, NEW s2 \in Nat, NEW r2 \in Nat,
         TableSound(tab, ids, s, r), s <= s2, r <= r2, Len(tab.entries) \in Nat
  PROVE  TableSound(tab, ids, s2, r2)
BY DEF TableSound

LEMMA TableNotified ==
  ASSUME NEW tab, NEW tab2, NEW ids, NEW id \in ids, NEW n \in Nat,
         TableSound(tab, ids, n, n), Len(tab.entries) \in Nat,
         tab2.by_id = [tab.by_id EXCEPT ![id] = 0], Len(tab2.entries) = Len(tab.entries),
         \A i \in 1 .. Len(tab.entries) :
           /\ tab2.entries[i].id = tab.entries[i].id
           /\ tab2.entries[i].start = tab.entries[i].start
           /\ tab2.entries[i].reused = IF i = tab.by_id[id] THEN n + 1
                                       ELSE tab.entries[i].reused
  PROVE  TableSound(tab2, ids, n, n + 1) /\ TableGrows(tab, tab2, n)
<1>1. TableGrows(tab, tab2, n)
  BY DEF TableGrows, TableSound
<1>2. /\ tab2.by_id \in [ids -> 0 .. Len(tab2.entries)]
      /\ \A i \in 1 .. Len(tab2.entries) :
           /\ tab2.entries[i].id \in ids
           /\ tab2.entries[i].start \in 1 .. n /\ tab2.entries[i].reused \in 0 .. n + 1
  <2>1. tab2.by_id \in [ids -> 0 .. Len(tab2.entries)]
    BY DEF TableSound
  <2>2. ASSUME NEW i \in 1 .. Len(tab2.entries)
        PROVE  /\ tab2.entries[i].id \in ids
               /\ tab2.entries[i].start \in 1 .. n /\ tab2.entries[i].reused \in 0 .. n + 1
    <3>1. /\ tab.entries[i].id \in ids
          /\ tab.entries[i].start \in 1 .. n /\ tab.entries[i].reused \in 0 .. n
      BY DEF TableSound
    <3> QED
      BY <3>1
  <2> QED
    BY <2>1, <2>2
<1>3. ASSUME NEW i \in 1 .. Len(tab2.entries), tab2.entries[i].reused = 0
      PROVE  tab2.by_id[tab2.entries[i].id] = i
  <2>1. i # tab.by_id[id] /\ tab.entries[i].reused = 0
    BY <1>3
  <2>2. tab.by_id[tab.entries[i].id] = i /\ tab.entries[i].id \in ids
    BY <2>1 DEF TableSound
  <2>3. tab.entries[i].id # id
    BY <2>1, <2>2
  <2> QED
    BY <2>2, <2>3 DEF TableSound
<1>4. ASSUME NEW x \in ids, tab2.by_id[x] # 0
      PROVE  tab2.entries[tab2.by_id[x]].id = x /\ tab2.entries[tab2.by_id[x]].reused = 0
  <2>1. x # id /\ tab2.by_id[x] = tab.by_id[x]
    BY <1>4 DEF TableSound
  <2>2. tab.by_id[x] \in 1 .. Len(tab.entries) /\ tab.entries[tab.by_id[x]].id = x
        /\ tab.entries[tab.by_id[x]].reused = 0
    BY <1>4, <2>1 DEF TableSound
  <2>3. tab.by_id[x] # tab.by_id[id]
    BY <2>1, <2>2 DEF TableSound
  <2> QED
    BY <2>1, <2>2, <2>3
<1>5. ASSUME NEW i \in 1 .. Len(tab2.entries), NEW j \in 1 .. Len(tab2.entries), i < j
      PROVE  /\ tab2.entries[i].start < tab2.entries[j].start
             /\ tab2.entries[i].id = tab2.entries[j].id =>
                  tab2.entries[i].reused \in 1 .. tab2.entries[j].start
  <2>1. /\ tab.entries[i].start < tab.entries[j].start
        /\ tab.entries[i].id = tab.entries[j].id =>
             tab.entries[i].reused \in 1 .. tab.entries[j].start
    BY <1>5 DEF TableSound
  <2>2. i = tab.by_id[id] => tab.entries[i].reused = 0
    BY <1>5 DEF TableSound
  <2> QED
    BY <2>1, <2>2
<1> QED
  BY <1>1, <1>2, <1>3, <1>4, <1>5 DEF TableSound

AddedTo(tab, tab2, E, ids, id, e, n) ==
  /\ TableSound(tab2, ids, n + 1, n + 1) /\ TableGrows(tab, tab2, n)
  /\ tab2.entries \in Seq(E) /\ Len(tab2.entries) = Len(tab.entries) + 1
  /\ \A i \in 1 .. Len(tab.entries) : tab2.entries[i] = tab.entries[i]
  /\ tab2.entries[Len(tab.entries) + 1] = e
  /\ tab2.by_id[id] = Len(tab.entries) + 1
  /\ \A x \in ids : x # id => tab2.by_id[x] = tab.by_id[x]

LEMMA TableAdded ==
  ASSUME NEW E, NEW tab, tab.entries \in Seq(E), NEW e \in E, NEW ids, NEW id \in ids,
         NEW n \in Nat, TableSound(tab, ids, n, n + 1), tab.by_id[id] = 0,
         e.id = id, e.start = n + 1, e.reused = 0,
         NEW tab2, tab2 = Added(tab, id, e)
  PROVE  AddedTo(tab, tab2, E, ids, id, e, n)
<1> USE DEF AddedTo
<1> DEFINE m == Len(tab.entries)
<1>1. /\ tab2.entries \in Seq(E) /\ Len(tab2.entries) = m + 1 /\ m \in Nat
      /\ \A i \in 1 .. m : tab2.entries[i] = tab.entries[i]
      /\ tab2.entries[m + 1] = e
      /\ tab2.by_id = [tab.by_id EXCEPT ![id] = m + 1]
  BY DEF Added
<1> HIDE DEF m
<1>2. TableGrows(tab, tab2, n)
  BY <1>1 DEF TableGrows, m
<1>3. tab2.by_id[id] = m + 1 /\ \A x \in ids : x # id => tab2.by_id[x] = tab.by_id[x]
  BY <1>1 DEF TableSound
<1>4. /\ tab2.by_id \in [ids -> 0 .. Len(tab2.entries)]
      /\ \A i \in 1 .. Len(tab2.entries) :
           /\ tab2.entries[i].id \in ids
           /\ tab2.entries[i].start \in 1 .. n + 1 /\ tab2.entries[i].reused \in 0 .. n + 1
  <2>1. tab2.by_id \in [ids -> 0 .. Len(tab2.entries)]
    <3>1. tab.by_id \in [ids -> 0 .. m]
      BY DEF TableSound, m
    <3> QED
      BY <1>1, <3>1
  <2>2. ASSUME NEW i \in 1 .. Len(tab2.entries)
        PROVE  /\ tab2.entries[i].id \in ids
               /\ tab2.entries[i].start \in 1 .. n + 1
               /\ tab2.entries[i].reused \in 0 .. n + 1
    <3>1. CASE i = m + 1
      BY <1>1, <3>1
    <3>2. CASE i # m + 1
      <4>1. i \in 1 .. m
        BY <1>1, <3>2
      <4>2. /\ tab.entries[i].id \in ids
            /\ tab.entries[i].start \in 1 .. n /\ tab.entries[i].reused \in 0 .. n + 1
        BY <4>1 DEF TableSound, m
      <4> QED
        BY SMTT(30), <1>1, <4>1, <4>2
    <3> QED
      BY <3>1, <3>2
  <2> QED
    BY <2>1, <2>2
<1>5. ASSUME NEW i \in 1 .. m
      PROVE  /\ tab2.entries[i] = tab.entries[i] /\ tab.entries[i].id \in ids
             /\ tab.entries[i].id = id => tab.entries[i].reused # 0
             /\ tab.entries[i].id # id /\ tab.entries[i].reused = 0 =>
                  tab2.by_id[tab.entries[i].id] = i
  BY <1>1, <1>3 DEF TableSound, m
<1>6. ASSUME NEW i \in 1 .. Len(tab2.entries), tab2.entries[i].reused = 0
      PROVE  tab2.by_id[tab2.entries[i].id] = i
  <2>1. CASE i = m + 1
    BY <1>1, <1>3, <2>1
  <2>2. CASE i # m + 1
    BY <1>1, <1>5, <1>6, <2>2
  <2> QED
    BY <2>1, <2>2
<1>7. ASSUME NEW x \in ids, tab2.by_id[x] # 0
      PROVE  tab2.entries[tab2.by_id[x]].id = x /\ tab2.entries[tab2.by_id[x]].reused = 0
  <2>1. CASE x = id
    BY <1>1, <1>3, <2>1
  <2>2. CASE x # id
    BY <1>1, <1>3, <1>7, <2>2 DEF TableSound, m
  <2> QED
    BY <2>1, <2>2
<1>8. ASSUME NEW i \in 1 .. Len(tab2.entries), NEW j \in 1 .. Len(tab2.entries), i < j
      PROVE  /\ tab2.entries[i].start < tab2.entries[j].start
             /\ tab2.entries[i].id = tab2.entries[j].id =>
                  tab2.entries[i].reused \in 1 .. tab2.entries[j].start
  <2>1. i \in 1 .. m /\ tab2.entries[i] = tab.entries[i]
        /\ tab.entries[i].start \in 1 .. n /\ tab.entries[i].reused \in 0 .. n + 1
    BY <1>1, <1>8 DEF TableSound, m
  <2>2. CASE j = m + 1
    BY SMTT(30), <1>1, <1>5, <2>1, <2>2
  <2>3. CASE j # m + 1
    <3>1. j \in 1 .. m /\ tab2.entries[j] = tab.entries[j]
      BY <1>1, <2>3
    <3>2. /\ tab.entries[i].start < tab.entries[j].start
          /\ tab.entries[i].id = tab.entries[j].id =>
                  tab.entries[i].reused \in 1 .. tab.entries[j].start
      BY <1>8, <2>1, <3>1 DEF TableSound, m
    <3> QED
      BY <2>1, <3>1, <3>2
  <2> QED
    BY <2>2, <2>3
<1> QED
  BY <1>1, <1>2, <1>3, <1>4, <1>6, <1>7, <1>8 DEF TableSound, m

-----------------------------------------------------------------------------
(* What an event of the kernel's trace has to respect                      *)

\* What an event at n + 1 may do to the context.
Grows(c, c2, n) ==
  /\ TableGrows(c.threads, c2.threads, n) /\ TableGrows(c.processes, c2.processes, n)
  /\ \A k \in 1 .. Len(c2.threads.entries) :
       c2.threads.entries[k].pending =
         IF k <= Len(c.threads.entries) THEN c.threads.entries[k].pending ELSE 0
  /\ \A i \in 1 .. Len(c2.processes.entries) :
       IF i <= Len(c.processes.entries)
       THEN /\ c2.processes.entries[i].source = c.processes.entries[i].source
            /\ c2.processes.entries[i].handle = c.processes.entries[i].handle
       ELSE c2.processes.entries[i].source = 0
  /\ c.thread_handles \subseteq c2.thread_handles
  /\ \A x \in c2.thread_handles \ c.thread_handles : x.time = n + 1
  /\ Len(c.owner) <= Len(c2.owner)
  /\ \A h \in 1 .. Len(c.owner) : c2.owner[h] = c.owner[h]

LEMMA ContextType ==
  ASSUME NEW c \in Context
  PROVE  /\ c.threads.entries \in Seq(ThreadEntry) /\ c.processes.entries \in Seq(ProcessEntry)
         /\ c.threads.by_id \in [Tids -> Nat] /\ c.processes.by_id \in [Pids -> Nat]
         /\ Len(c.threads.entries) \in Nat /\ Len(c.processes.entries) \in Nat
         /\ \A k \in 1 .. Len(c.threads.entries) : c.threads.entries[k] \in ThreadEntry
         /\ \A i \in 1 .. Len(c.processes.entries) : c.processes.entries[i] \in ProcessEntry
         /\ c.thread_handles \subseteq ThreadHandle /\ c.process_recycler \subseteq ProcessData
         /\ c.nprocesses \in Nat /\ c.owner \in Seq(Handles) /\ Len(c.owner) \in Nat
         /\ \A h \in 1 .. Len(c.owner) : c.owner[h] \in Handles
BY DEF Context

LEMMA GrowsTrans ==
  ASSUME NEW c \in Context, NEW d \in Context, NEW e \in Context, NEW n \in Nat,
         Grows(c, d, n), Grows(d, e, n)
  PROVE  Grows(c, e, n)
<1>1. ASSUME NEW a, NEW b, NEW z, Len(a.entries) \in Nat, Len(b.entries) \in Nat,
             Len(z.entries) \in Nat, TableGrows(a, b, n), TableGrows(b, z, n)
      PROVE  TableGrows(a, z, n)
  <2>1. Len(a.entries) <= Len(z.entries)
    BY <1>1 DEF TableGrows
  <2>2. ASSUME NEW i \in 1 .. Len(a.entries)
        PROVE  /\ z.entries[i].id = a.entries[i].id
               /\ z.entries[i].start = a.entries[i].start
               /\ \/ z.entries[i].reused = a.entries[i].reused
                  \/ a.entries[i].reused = 0 /\ z.entries[i].reused = n + 1
    <3>1. i \in 1 .. Len(b.entries)
      BY <1>1 DEF TableGrows
    <3> QED
      BY <1>1, <3>1 DEF TableGrows
  <2>3. ASSUME NEW i \in Len(a.entries) + 1 .. Len(z.entries)
        PROVE  z.entries[i].start = n + 1
    <3>1. CASE i <= Len(b.entries)
      <4>1. i \in Len(a.entries) + 1 .. Len(b.entries) /\ i \in 1 .. Len(b.entries)
        BY <1>1, <3>1
      <4> QED
        BY <1>1, <4>1 DEF TableGrows
    <3>2. CASE ~(i <= Len(b.entries))
      BY <1>1, <3>2 DEF TableGrows
    <3> QED
      BY <3>1, <3>2
  <2> QED
    BY <2>1, <2>2, <2>3 DEF TableGrows
<1>2. TableGrows(c.threads, e.threads, n) /\ TableGrows(c.processes, e.processes, n)
  BY <1>1, ContextType DEF Grows
<1>3. ASSUME NEW k \in 1 .. Len(e.threads.entries)
      PROVE  e.threads.entries[k].pending =
               IF k <= Len(c.threads.entries) THEN c.threads.entries[k].pending ELSE 0
  <2>1. Len(c.threads.entries) <= Len(d.threads.entries)
    BY DEF Grows, TableGrows
  <2>2. e.threads.entries[k].pending =
           IF k <= Len(d.threads.entries) THEN d.threads.entries[k].pending ELSE 0
    BY DEF Grows
  <2>3. k <= Len(d.threads.entries) => d.threads.entries[k].pending =
           IF k <= Len(c.threads.entries) THEN c.threads.entries[k].pending ELSE 0
    BY ContextType DEF Grows
  <2> QED
    BY <2>1, <2>2, <2>3, ContextType
<1>4. ASSUME NEW i \in 1 .. Len(e.processes.entries)
      PROVE  IF i <= Len(c.processes.entries)
             THEN /\ e.processes.entries[i].source = c.processes.entries[i].source
                  /\ e.processes.entries[i].handle = c.processes.entries[i].handle
             ELSE e.processes.entries[i].source = 0
  <2>1. Len(c.processes.entries) <= Len(d.processes.entries)
    BY DEF Grows, TableGrows
  <2>2. IF i <= Len(d.processes.entries)
        THEN /\ e.processes.entries[i].source = d.processes.entries[i].source
             /\ e.processes.entries[i].handle = d.processes.entries[i].handle
        ELSE e.processes.entries[i].source = 0
    BY DEF Grows
  <2>3. i <= Len(d.processes.entries) =>
          IF i <= Len(c.processes.entries)
          THEN /\ d.processes.entries[i].source = c.processes.entries[i].source
               /\ d.processes.entries[i].handle = c.processes.entries[i].handle
          ELSE d.processes.entries[i].source = 0
    BY ContextType DEF Grows
  <2> QED
    BY SMTT(30), <2>1, <2>2, <2>3, ContextType
<1>5. /\ c.thread_handles \subseteq e.thread_handles
      /\ \A x \in e.thread_handles \ c.thread_handles : x.time = n + 1
  BY DEF Grows
<1>6. /\ Len(c.owner) <= Len(e.owner)
      /\ \A h \in 1 .. Len(c.owner) : e.owner[h] = c.owner[h]
  <2>1. Len(c.owner) \in Nat /\ Len(d.owner) \in Nat /\ Len(e.owner) \in Nat
    BY ContextType
  <2> QED
    BY <2>1 DEF Grows
<1> QED
  BY <1>2, <1>3, <1>4, <1>5, <1>6 DEF Grows

LEMMA HandleStays ==
  ASSUME NEW H, NEW H2, NEW n \in Nat, H \subseteq H2, \A x \in H2 \ H : x.time = n + 1,
         NEW tid, NEW t \in 1 .. n, NEW h, HandleAt(H, tid, t, h)
  PROVE  HandleAt(H2, tid, t, h)
<1>1. PICK x \in H : /\ x.tid = tid /\ x.time <= t /\ x.handle = h
                     /\ \A y \in H : y.tid = tid /\ y.time <= t => y.time <= x.time
  BY DEF HandleAt
<1>2. ASSUME NEW y \in H2, y.tid = tid, y.time <= t PROVE y \in H
  BY <1>2
<1> QED
  BY <1>1, <1>2 DEF HandleAt

LEMMA RememberedStays ==
  ASSUME NEW c \in Context, NEW c2 \in Context, NEW n \in Nat, Grows(c, c2, n),
         NEW t \in 1 .. n, NEW w, Remembered(c, w, t)
  PROVE  Remembered(c2, w, t)
<1>1. /\ TableGrows(c.threads, c2.threads, n) /\ TableGrows(c.processes, c2.processes, n)
      /\ c.thread_handles \subseteq c2.thread_handles
      /\ \A x \in c2.thread_handles \ c.thread_handles : x.time = n + 1
      /\ Len(c.threads.entries) \in Nat /\ Len(c2.threads.entries) \in Nat
      /\ Len(c.processes.entries) \in Nat /\ Len(c2.processes.entries) \in Nat
  BY ContextType DEF Grows
<1>2. \A id, k : EntryAt(c.threads, id, t, k) => EntryAt(c2.threads, id, t, k)
  BY <1>1, EntryStays
<1>3. \A id, k : EntryAt(c.processes, id, t, k) => EntryAt(c2.processes, id, t, k)
  BY <1>1, EntryStays
<1>4. \A id, h : HandleAt(c.thread_handles, id, t, h) => HandleAt(c2.thread_handles, id, t, h)
  BY <1>1, HandleStays
<1> QED
  BY <1>2, <1>3, <1>4 DEF Remembered

\* The tables remember what runs now.
LEMMA RememberedNow ==
  ASSUME NEW c, NEW o, NEW n \in Nat, Sound(c, n, n), Tracked(c, o, n)
  PROVE  /\ Remembered(c, Snapshot(c, o), n)
         /\ Snapshot(c, o) \in [proc : [Pids -> [alive : BOOLEAN, entry : Nat]],
                   thr  : [Tids -> [pid : Pids \cup {0}, entry : Nat, handle : Nat]]]
<1> DEFINE w == Snapshot(c, o)
<1>1. c \in Context /\ o \in Machine
  BY DEF Sound, Tracked
<1>2. /\ TableSound(c.threads, Tids, n, n) /\ TableSound(c.processes, Pids, n, n)
      /\ Len(c.threads.entries) \in Nat /\ Len(c.processes.entries) \in Nat
      /\ \A k \in 1 .. Len(c.threads.entries) : c.threads.entries[k].handle \in Nat
  BY <1>1, ContextType DEF Sound, ThreadEntry, Handles
<1>3. /\ w.proc = o.proc
      /\ \A t \in Tids : /\ w.thr[t].pid = o.thr[t].pid /\ w.thr[t].entry = o.thr[t].entry
                         /\ w.thr[t].handle = IF o.thr[t].entry = 0 THEN 0
                              ELSE c.threads.entries[o.thr[t].entry].handle
      /\ w = [proc |-> w.proc, thr |-> w.thr]
      /\ w.thr = [t \in Tids |-> [pid |-> w.thr[t].pid, entry |-> w.thr[t].entry,
                                  handle |-> w.thr[t].handle]]
  BY DEF Snapshot
<1>4. ASSUME NEW t \in Tids
      PROVE  /\ o.thr[t].pid # 0 => o.thr[t].entry = c.threads.by_id[t]
             /\ o.thr[t].pid = 0 => o.thr[t].entry = 0
             /\ o.thr[t].entry # 0 => o.thr[t].entry \in 1 .. Len(c.threads.entries)
             /\ w.thr[t].handle \in Nat
  <2>1. /\ o.thr[t].pid # 0 => o.thr[t].entry = c.threads.by_id[t]
        /\ o.thr[t].pid = 0 => o.thr[t].entry = 0
    BY DEF Tracked, ThreadTracked
  <2>2. o.thr[t].entry # 0 => o.thr[t].entry \in 1 .. Len(c.threads.entries)
    BY <1>2, <2>1 DEF TableSound
  <2> QED
    BY <1>2, <1>3, <2>1, <2>2
<1>5. \A t \in Tids : o.thr[t].pid \in Pids \cup {0} /\ o.thr[t].entry \in Nat
  BY <1>1 DEF Machine
<1>6. w \in [proc : [Pids -> [alive : BOOLEAN, entry : Nat]],
             thr  : [Tids -> [pid : Pids \cup {0}, entry : Nat, handle : Nat]]]
  <2>1. w.proc \in [Pids -> [alive : BOOLEAN, entry : Nat]]
    BY <1>1, <1>3 DEF Machine
  <2>2. w.thr \in [Tids -> [pid : Pids \cup {0}, entry : Nat, handle : Nat]]
    <3> HIDE DEF w
    <3> QED
      BY <1>3, <1>4, <1>5
  <2> HIDE DEF w
  <2> QED
    BY <1>3, <2>1, <2>2
<1>7. ASSUME NEW t \in Tids, w.thr[t].pid # 0
      PROVE  /\ EntryAt(c.threads, t, n, w.thr[t].entry)
             /\ w.thr[t].handle \in Nat
             /\ IF w.thr[t].entry = 0 THEN w.thr[t].handle = 0
                ELSE HandleAt(c.thread_handles, t, n, w.thr[t].handle)
  <2>1. EntryAt(c.threads, t, n, c.threads.by_id[t])
    BY <1>2, EntryNow
  <2>2. o.thr[t].entry # 0 =>
          HandleAt(c.thread_handles, t, n, c.threads.entries[o.thr[t].entry].handle)
    BY Zenon, <1>3, <1>7 DEF Tracked, ThreadTracked
  <2> HIDE DEF w
  <2> QED
    BY <1>3, <1>4, <1>7, <2>1, <2>2
<1>8. ASSUME NEW p \in Pids, w.proc[p].alive
      PROVE  EntryAt(c.processes, p, n, w.proc[p].entry)
  <2>1. EntryAt(c.processes, p, n, c.processes.by_id[p])
    BY <1>2, EntryNow
  <2> QED
    BY <1>3, <1>8, <2>1 DEF Tracked, ProcessTracked
<1> QED
  BY <1>6, <1>7, <1>8 DEF Remembered

LEMMA KernelStep ==
  ASSUME IInv, NEW tr \in {"rundown", "kernel"}, NEW c2, NEW o2, KernelEvent(tr, c2, o2),
         Sound(c2, now + 1, now + 1), Grows(ctx, c2, now), Tracked(c2, o2, now + 1),
         tr = "rundown" => RundownSound(c2, o2)
  PROVE  IInv'
<1> DEFINE Snap == [proc : [Pids -> [alive : BOOLEAN, entry : Nat]],
                    thr  : [Tids -> [pid : Pids \cup {0}, entry : Nat, handle : Nat]]]
           w == Snapshot(c2, o2)
<1>1. /\ ctx' = c2 /\ os' = o2 /\ trace' = tr /\ read' = read
      /\ past' = Append(past, w) /\ now < MaxTime
  BY DEF KernelEvent
<1>2. past \in Seq(Snap) /\ now \in Nat /\ now + 1 \in Nat
  BY DEF IInv, now
<1>3. Remembered(c2, w, now + 1) /\ w \in Snap
  BY <1>2, RememberedNow
<1> HIDE DEF w, Snap
<1>4. /\ past' \in Seq(Snap) /\ now' = now + 1
      /\ \A t \in 1 .. now : past'[t] = past[t]
      /\ past'[now + 1] = w
  BY <1>1, <1>2, <1>3 DEF now
<1>5. ctx \in Context /\ c2 \in Context
  BY DEF IInv, Sound
<1>6. ASSUME NEW t \in 1 .. now + 1 PROVE Remembered(c2, past'[t], t)
  <2>1. CASE t = now + 1
    BY <1>3, <1>4, <2>1
  <2>2. CASE t \in 1 .. now
    <3>1. Remembered(ctx, past[t], t)
      BY SMTT(30), <2>2 DEF IInv
    <3> QED
      BY <1>2, <1>4, <1>5, <2>2, <3>1, RememberedStays
  <2> QED
    BY <1>2, <2>1, <2>2
<1>7. MarksSound(c2, past')
  <2>1. ASSUME NEW k \in 1 .. Len(c2.threads.entries), c2.threads.entries[k].pending # 0
        PROVE  /\ c2.threads.entries[k].pending \in 1 .. Len(past')
               /\ past'[c2.threads.entries[k].pending].thr[c2.threads.entries[k].id].entry = k
    <3>1. Len(ctx.threads.entries) \in Nat /\ Len(c2.threads.entries) \in Nat
      BY <1>5, ContextType
    <3>2. /\ k \in 1 .. Len(ctx.threads.entries)
          /\ c2.threads.entries[k].pending = ctx.threads.entries[k].pending
      BY <2>1, <3>1 DEF Grows
    <3>3. c2.threads.entries[k].id = ctx.threads.entries[k].id
      BY <3>2 DEF Grows, TableGrows
    <3>4. /\ ctx.threads.entries[k].pending \in 1 .. now
          /\ past[ctx.threads.entries[k].pending].thr[ctx.threads.entries[k].id].entry = k
      BY <2>1, <3>2 DEF IInv, MarksSound, now
    <3>5. Len(past') = now + 1
      BY <1>4 DEF now
    <3>6. PICK m : m = ctx.threads.entries[k].pending
      OBVIOUS
    <3>7. m \in 1 .. now /\ past'[m] = past[m]
      BY <1>4, <3>4, <3>6
    <3>8. m \in 1 .. Len(past')
      BY <1>2, <3>5, <3>7
    <3>9. past'[m].thr[c2.threads.entries[k].id].entry = k
      BY <3>3, <3>4, <3>6, <3>7
    <3> QED
      BY <3>2, <3>6, <3>8, <3>9
  <2>2. \A i \in 1 .. Len(c2.processes.entries) : c2.processes.entries[i].source \in {0, i}
    <3>1. Len(ctx.processes.entries) \in Nat /\ Len(c2.processes.entries) \in Nat
      BY <1>5, ContextType
    <3>2. \A i \in 1 .. Len(ctx.processes.entries) : ctx.processes.entries[i].source \in {0, i}
      BY DEF IInv, MarksSound
    <3>3. \A i \in 1 .. Len(c2.processes.entries) :
            IF i <= Len(ctx.processes.entries)
            THEN c2.processes.entries[i].source = ctx.processes.entries[i].source
            ELSE c2.processes.entries[i].source = 0
      BY DEF Grows
    <3> QED
      BY SMTT(30), <3>1, <3>2, <3>3
  <2> QED
    BY SMTT(30), <2>1, <2>2 DEF MarksSound
<1>8. Sound(ctx', now', now') /\ Tracked(ctx', os', now')
  BY <1>1, <1>4
<1>9. now' <= MaxTime
  BY <1>1, <1>2, <1>4, EtwTablesAssumption
<1>10. \A t \in 1 .. now' : Remembered(ctx', past'[t], t)
  BY <1>1, <1>4, <1>6
<1>11. trace' \in {"rundown", "kernel", "user"} /\ (trace' = "rundown" => RundownSound(ctx', os'))
  BY <1>1
<1>12. read' \in [count : 0 .. MaxUserEvents, at : Times]
  BY <1>1 DEF IInv
<1> QED
  BY <1>1, <1>4, <1>7, <1>8, <1>9, <1>10, <1>11, <1>12 DEF IInv, Snap

-----------------------------------------------------------------------------
(* The changes that the handlers are made of                               *)

\* c2 differs from c in its tables of threads only.
SameProcesses(c, c2) ==
  /\ c2.processes = c.processes /\ c2.process_recycler = c.process_recycler
  /\ c2.nprocesses = c.nprocesses /\ c2.owner = c.owner
  /\ c2.main_thread_only = c.main_thread_only

\* c2 differs from c in its tables of processes only.
SameThreads(c, c2) ==
  /\ c2.threads = c.threads /\ c2.thread_handles = c.thread_handles

LEMMA OwnsStays ==
  ASSUME NEW c \in Context, NEW c2 \in Context, c.nprocesses <= c2.nprocesses,
         Len(c.owner) <= Len(c2.owner), \A h \in 1 .. Len(c.owner) : c2.owner[h] = c.owner[h],
         NEW e, e.handle \in Handles, e.main \in Handles, e.pool \in Pools, Owns(c, e)
  PROVE  Owns(c2, e)
<1>1. /\ c.nprocesses \in Nat /\ c2.nprocesses \in Nat
      /\ Len(c.owner) \in Nat /\ Len(c2.owner) \in Nat
  BY ContextType
<1>2. e.handle \in Nat /\ e.main \in Nat /\ e.main > 0
  BY DEF Handles
<1>3. \A d \in DOMAIN e.pool : d.handle \in Nat /\ d.handle > 0
  BY DEF Pools, ThreadData, Handles
<1>4. e.handle <= c2.nprocesses /\ e.main <= Len(c2.owner) /\ c2.owner[e.main] = e.handle
  BY <1>1, <1>2 DEF Owns
<1>5. ASSUME NEW d \in DOMAIN e.pool
      PROVE  d.handle <= Len(c2.owner) /\ c2.owner[d.handle] = e.handle
  <2>1. d.handle \in 1 .. Len(c.owner) /\ c.owner[d.handle] = e.handle
    BY <1>1, <1>3 DEF Owns
  <2> QED
    BY <1>1, <2>1
<1> QED
  BY <1>4, <1>5 DEF Owns

LEMMA OwnersStay ==
  ASSUME NEW c \in Context, NEW c2 \in Context, OwnersSound(c),
         c.nprocesses <= c2.nprocesses, Len(c.owner) <= Len(c2.owner),
         \A h \in 1 .. Len(c.owner) : c2.owner[h] = c.owner[h]
  PROVE  /\ \A i \in 1 .. Len(c.processes.entries) : Owns(c2, c.processes.entries[i])
         /\ \A d \in c.process_recycler : Owns(c2, d)
<1>1. ASSUME NEW i \in 1 .. Len(c.processes.entries) PROVE Owns(c2, c.processes.entries[i])
  <2>1. c.processes.entries[i] \in ProcessEntry /\ Owns(c, c.processes.entries[i])
    BY ContextType DEF OwnersSound
  <2>2. /\ c.processes.entries[i].handle \in Handles /\ c.processes.entries[i].main \in Handles
        /\ c.processes.entries[i].pool \in Pools
    BY <2>1 DEF ProcessEntry
  <2> QED
    BY <2>1, <2>2, OwnsStays
<1>2. ASSUME NEW d \in c.process_recycler PROVE Owns(c2, d)
  <2>1. d \in ProcessData /\ Owns(c, d)
    BY ContextType DEF OwnersSound
  <2>2. d.handle \in Handles /\ d.main \in Handles /\ d.pool \in Pools
    BY <2>1 DEF ProcessData
  <2> QED
    BY <2>1, <2>2, OwnsStays
<1> QED
  BY <1>1, <1>2

\* The table of threads, or the handles of threads, change; nothing else does.
ThreadsStep(c, c2, n, s, r) ==
  /\ c2 \in Context /\ SameProcesses(c, c2)
  /\ TableSound(c2.threads, Tids, s, r) /\ TableGrows(c.threads, c2.threads, n)
  /\ \A k \in 1 .. Len(c2.threads.entries) :
       c2.threads.entries[k].pending =
         IF k <= Len(c.threads.entries) THEN c.threads.entries[k].pending ELSE 0
  /\ HandlesSound(c2, s) /\ c.thread_handles \subseteq c2.thread_handles
  /\ \A x \in c2.thread_handles \ c.thread_handles : x.time = n + 1

LEMMA ThreadsChanged ==
  ASSUME NEW c, NEW n \in Nat, NEW s \in Nat, NEW r \in Nat, NEW s2 \in Nat, NEW r2 \in Nat,
         Sound(c, s, r), s <= s2, r <= r2, NEW c2, ThreadsStep(c, c2, n, s2, r2)
  PROVE  Sound(c2, s2, r2) /\ Grows(c, c2, n)
<1> USE DEF ThreadsStep
<1>1. c \in Context /\ TableSound(c.processes, Pids, s, r) /\ OwnersSound(c)
  BY DEF Sound
<1>2. /\ Len(c.processes.entries) \in Nat /\ Len(c.owner) \in Nat
      /\ c.processes.entries \in Seq(ProcessEntry)
  BY <1>1, ContextType
<1>3. TableSound(c2.processes, Pids, s2, r2)
  BY <1>1, <1>2, TableLater DEF SameProcesses
<1>4. TableGrows(c.processes, c2.processes, n)
  BY <1>2 DEF TableGrows, SameProcesses
<1>5. OwnersSound(c2)
  BY <1>1 DEF OwnersSound, Owns, SameProcesses
<1>6. Sound(c2, s2, r2)
  BY <1>3, <1>5 DEF Sound
<1>7. Grows(c, c2, n)
  BY <1>2, <1>4 DEF Grows, SameProcesses
<1> QED
  BY <1>6, <1>7

\* The table of processes, recyclers or the profile change; nothing else does.
ProcessesStep(c, c2, n, s, r) ==
  /\ c2 \in Context /\ SameThreads(c, c2)
  /\ TableSound(c2.processes, Pids, s, r) /\ TableGrows(c.processes, c2.processes, n)
  /\ \A i \in 1 .. Len(c2.processes.entries) :
       IF i <= Len(c.processes.entries)
       THEN /\ c2.processes.entries[i].source = c.processes.entries[i].source
            /\ c2.processes.entries[i].handle = c.processes.entries[i].handle
       ELSE c2.processes.entries[i].source = 0
  /\ OwnersSound(c2) /\ Len(c.owner) <= Len(c2.owner)
  /\ \A h \in 1 .. Len(c.owner) : c2.owner[h] = c.owner[h]

LEMMA ProcessesChanged ==
  ASSUME NEW c, NEW n \in Nat, NEW s \in Nat, NEW r \in Nat, NEW s2 \in Nat, NEW r2 \in Nat,
         Sound(c, s, r), s <= s2, r <= r2, NEW c2, ProcessesStep(c, c2, n, s2, r2)
  PROVE  Sound(c2, s2, r2) /\ Grows(c, c2, n)
<1> USE DEF ProcessesStep
<1>1. c \in Context /\ TableSound(c.threads, Tids, s, r) /\ HandlesSound(c, s)
  BY DEF Sound
<1>2. /\ Len(c.threads.entries) \in Nat /\ Len(c.owner) \in Nat /\ Len(c2.owner) \in Nat
      /\ c.threads.entries \in Seq(ThreadEntry) /\ c.thread_handles \subseteq ThreadHandle
  BY <1>1, ContextType
<1>3. TableSound(c2.threads, Tids, s2, r2)
  BY <1>1, <1>2, TableLater DEF SameThreads
<1>4. TableGrows(c.threads, c2.threads, n)
  BY <1>2 DEF TableGrows, SameThreads
<1>5. HandlesSound(c2, s2)
  <2>1. ASSUME NEW x \in c2.thread_handles PROVE x.time \in 1 .. s2 /\ x.handle <= Len(c2.owner)
    <3>1. x.time \in 1 .. s /\ x.handle <= Len(c.owner) /\ x.handle \in Nat
      BY <1>1, <1>2 DEF HandlesSound, SameThreads, ThreadHandle, Handles
    <3> QED
      BY <1>2, <3>1
  <2> QED
    BY <1>1, <2>1 DEF HandlesSound, SameThreads
<1>6. Sound(c2, s2, r2)
  BY <1>3, <1>5 DEF Sound
<1>7. Grows(c, c2, n)
  BY <1>2, <1>4 DEF Grows, SameThreads
<1> QED
  BY <1>6, <1>7

\* An entry can be given another end.
Reusable(E, t) ==
  \A e \in E : /\ [e EXCEPT !.reused = t] \in E
               /\ [e EXCEPT !.reused = t].id = e.id
               /\ [e EXCEPT !.reused = t].start = e.start
               /\ [e EXCEPT !.reused = t].reused = t

NotifiedTo(tab, tab2, E, ids, id, n) ==
  /\ tab2 \in [entries : Seq(E), by_id : [ids -> Nat]]
  /\ Len(tab2.entries) = Len(tab.entries)
  /\ tab2.by_id = [tab.by_id EXCEPT ![id] = 0]
  /\ \A i \in 1 .. Len(tab.entries) :
       tab2.entries[i] = IF i = tab.by_id[id]
                         THEN [tab.entries[i] EXCEPT !.reused = n + 1]
                         ELSE tab.entries[i]
  /\ TableSound(tab2, ids, n, n + 1) /\ TableGrows(tab, tab2, n)

\* notify_created of either table.
LEMMA Notified ==
  ASSUME NEW E, NEW ids, NEW tab \in [entries : Seq(E), by_id : [ids -> Nat]],
         NEW id \in ids, NEW n \in Nat, TableSound(tab, ids, n, n), Reusable(E, n + 1),
         NEW tab2, tab2 = notify_created(tab, id, n + 1)
  PROVE  NotifiedTo(tab, tab2, E, ids, id, n)
<1> USE DEF NotifiedTo
<1>1. /\ tab.by_id \in [ids -> 0 .. Len(tab.entries)] /\ Len(tab.entries) \in Nat
      /\ tab.entries \in Seq(E) /\ tab.by_id \in [ids -> Nat]
  BY DEF TableSound
<1>2. /\ tab2 \in [entries : Seq(E), by_id : [ids -> Nat]]
      /\ Len(tab2.entries) = Len(tab.entries)
      /\ tab2.by_id = [tab.by_id EXCEPT ![id] = 0]
      /\ \A i \in 1 .. Len(tab.entries) :
           tab2.entries[i] = IF i = tab.by_id[id]
                             THEN [tab.entries[i] EXCEPT !.reused = n + 1]
                             ELSE tab.entries[i]
  <2>1. CASE tab.by_id[id] = 0
    <3>1. tab2 = tab
      BY <2>1 DEF notify_created
    <3>2. tab.by_id = [tab.by_id EXCEPT ![id] = 0]
      BY <1>1, <2>1
    <3>3. \A i \in 1 .. Len(tab.entries) : i # tab.by_id[id]
      BY <2>1
    <3> QED
      BY <3>1, <3>2, <3>3
  <2>2. CASE tab.by_id[id] # 0
    <3>1. PICK k : k = tab.by_id[id]
      OBVIOUS
    <3>2. PICK e : e = [tab.entries[k] EXCEPT !.reused = n + 1]
      OBVIOUS
    <3>3. PICK en : en = [tab.entries EXCEPT ![k] = e]
      OBVIOUS
    <3>4. PICK by : by = [tab.by_id EXCEPT ![id] = 0]
      OBVIOUS
    <3>5. k \in 1 .. Len(tab.entries) /\ tab.entries[k] \in E
      BY <1>1, <2>2, <3>1
    <3>6. tab2 = [tab EXCEPT !.entries[k].reused = n + 1, !.by_id[id] = 0]
      BY <2>2, <3>1 DEF notify_created
    <3>7. tab2.entries = en /\ tab2.by_id = by /\ tab2 = [entries |-> en, by_id |-> by]
      BY <3>2, <3>3, <3>4, <3>6
    <3>8. e \in E
      BY <3>2, <3>5 DEF Reusable
    <3>9. /\ en \in Seq(E) /\ Len(en) = Len(tab.entries)
          /\ \A i \in 1 .. Len(tab.entries) : en[i] = IF i = k THEN e ELSE tab.entries[i]
      BY <1>1, <3>3, <3>5, <3>8
    <3>10. by \in [ids -> Nat]
      BY <1>1, <3>4
    <3> QED
      BY <3>1, <3>2, <3>4, <3>7, <3>9, <3>10
  <2> QED
    BY <2>1, <2>2
<1>3. ASSUME NEW i \in 1 .. Len(tab.entries)
      PROVE  /\ tab2.entries[i].id = tab.entries[i].id
             /\ tab2.entries[i].start = tab.entries[i].start
             /\ tab2.entries[i].reused = IF i = tab.by_id[id] THEN n + 1
                                         ELSE tab.entries[i].reused
  <2>1. tab.entries[i] \in E
    BY <1>1
  <2> QED
    BY ZenonT(30), <1>2, <2>1 DEF Reusable
<1>4. TableSound(tab2, ids, n, n + 1) /\ TableGrows(tab, tab2, n)
  <2>1. Len(tab.entries) \in Nat /\ Len(tab2.entries) = Len(tab.entries)
    BY <1>1, <1>2
  <2>2. tab2.by_id = [tab.by_id EXCEPT ![id] = 0]
    BY <1>2
  <2>3. \A i \in 1 .. Len(tab.entries) :
          /\ tab2.entries[i].id = tab.entries[i].id
          /\ tab2.entries[i].start = tab.entries[i].start
          /\ tab2.entries[i].reused = IF i = tab.by_id[id] THEN n + 1
                                      ELSE tab.entries[i].reused
    BY <1>3
  <2> QED
    BY <2>1, <2>2, <2>3, TableNotified, ZenonT(60)
<1> QED
  BY <1>2, <1>4

ThreadNotification(c, d, n, tid) ==
  /\ Sound(d, n, n + 1) /\ Grows(c, d, n) /\ SameProcesses(c, d)
  /\ d.thread_handles = c.thread_handles
  /\ Len(d.threads.entries) = Len(c.threads.entries)
  /\ d.threads.by_id = [c.threads.by_id EXCEPT ![tid] = 0]
  /\ \A k \in 1 .. Len(c.threads.entries) :
       d.threads.entries[k].handle = c.threads.entries[k].handle

LEMMA NotifyThreads ==
  ASSUME NEW c, NEW n \in Nat, n < MaxTime, Sound(c, n, n), NEW tid \in Tids,
         NEW d, d = [c EXCEPT !.threads = notify_created(@, tid, n + 1)]
  PROVE  ThreadNotification(c, d, n, tid)
<1> USE DEF ThreadNotification
<1>1. PICK tab : tab = c.threads
  OBVIOUS
<1>2. PICK tab2 : tab2 = notify_created(tab, tid, n + 1)
  OBVIOUS
<1>3. /\ c \in Context /\ TableSound(tab, Tids, n, n) /\ HandlesSound(c, n)
      /\ n + 1 \in Times /\ n + 1 \in Nat
  BY <1>1, EtwTablesAssumption DEF Sound, Times
<1>4. tab \in [entries : Seq(ThreadEntry), by_id : [Tids -> Nat]]
  BY <1>1, <1>3 DEF Context
<1>5. Reusable(ThreadEntry, n + 1)
  BY <1>3 DEF Reusable, ThreadEntry
<1>6. /\ tab2 \in [entries : Seq(ThreadEntry), by_id : [Tids -> Nat]]
      /\ Len(tab2.entries) = Len(tab.entries)
      /\ tab2.by_id = [tab.by_id EXCEPT ![tid] = 0]
      /\ \A i \in 1 .. Len(tab.entries) :
              tab2.entries[i] = IF i = tab.by_id[tid]
                                THEN [tab.entries[i] EXCEPT !.reused = n + 1]
                                ELSE tab.entries[i]
      /\ TableSound(tab2, Tids, n, n + 1) /\ TableGrows(tab, tab2, n)
  <2>1. NotifiedTo(tab, tab2, ThreadEntry, Tids, tid, n)
    BY <1>2, <1>3, <1>4, <1>5, Notified
  <2> QED
    BY <2>1 DEF NotifiedTo
<1>7. d = [c EXCEPT !.threads = tab2]
  BY <1>1, <1>2
<1>8. /\ d \in Context /\ SameProcesses(c, d) /\ d.threads = tab2
      /\ d.thread_handles = c.thread_handles
  BY <1>3, <1>6, <1>7 DEF Context, SameProcesses
<1>9. \A k \in 1 .. Len(tab.entries) : tab.entries[k] \in ThreadEntry
  BY <1>4
<1>10. \A k \in 1 .. Len(tab.entries) : /\ tab2.entries[k].pending = tab.entries[k].pending
                                        /\ tab2.entries[k].handle = tab.entries[k].handle
  BY <1>6, <1>9 DEF ThreadEntry
<1>11. HandlesSound(d, n)
  BY <1>3, <1>8 DEF HandlesSound, SameProcesses
<1>12. Sound(d, n, n + 1) /\ Grows(c, d, n)
  <2>1. \A k \in 1 .. Len(d.threads.entries) :
          d.threads.entries[k].pending =
            IF k <= Len(c.threads.entries) THEN c.threads.entries[k].pending ELSE 0
    BY <1>1, <1>6, <1>8, <1>10
  <2>2. TableSound(d.threads, Tids, n, n + 1) /\ TableGrows(c.threads, d.threads, n)
    BY <1>1, <1>6, <1>8
  <2>3. /\ c.thread_handles \subseteq d.thread_handles
        /\ \A x \in d.thread_handles \ c.thread_handles : x.time = n + 1
    BY <1>8
  <2>4. n <= n /\ n <= n + 1 /\ n + 1 \in Nat
    OBVIOUS
  <2> QED
    <3>1. ThreadsStep(c, d, n, n, n + 1)
      BY <1>8, <1>11, <2>1, <2>2, <2>3 DEF ThreadsStep
    <3> QED
      BY <2>4, <3>1, ThreadsChanged
<1> QED
  BY <1>1, <1>6, <1>8, <1>10, <1>12

ProcessNotification(c, d, n, pid) ==
  /\ Sound(d, n, n + 1) /\ Grows(c, d, n) /\ SameThreads(c, d)
  /\ d.owner = c.owner
  /\ Len(d.processes.entries) = Len(c.processes.entries)
  /\ d.processes.by_id = [c.processes.by_id EXCEPT ![pid] = 0]

LEMMA NotifyProcesses ==
  ASSUME NEW c, NEW n \in Nat, n < MaxTime, Sound(c, n, n), NEW pid \in Pids,
         NEW d, d = [c EXCEPT !.processes = notify_created(@, pid, n + 1)]
  PROVE  ProcessNotification(c, d, n, pid)
<1> USE DEF ProcessNotification
<1>1. PICK tab : tab = c.processes
  OBVIOUS
<1>2. PICK tab2 : tab2 = notify_created(tab, pid, n + 1)
  OBVIOUS
<1>3. /\ c \in Context /\ TableSound(tab, Pids, n, n) /\ OwnersSound(c)
      /\ n + 1 \in Times /\ n + 1 \in Nat
  BY <1>1, EtwTablesAssumption DEF Sound, Times
<1>4. tab \in [entries : Seq(ProcessEntry), by_id : [Pids -> Nat]]
  BY <1>1, <1>3 DEF Context
<1>5. Reusable(ProcessEntry, n + 1)
  BY <1>3 DEF Reusable, ProcessEntry
<1>6. /\ tab2 \in [entries : Seq(ProcessEntry), by_id : [Pids -> Nat]]
      /\ Len(tab2.entries) = Len(tab.entries)
      /\ tab2.by_id = [tab.by_id EXCEPT ![pid] = 0]
      /\ \A i \in 1 .. Len(tab.entries) :
              tab2.entries[i] = IF i = tab.by_id[pid]
                                THEN [tab.entries[i] EXCEPT !.reused = n + 1]
                                ELSE tab.entries[i]
      /\ TableSound(tab2, Pids, n, n + 1) /\ TableGrows(tab, tab2, n)
  <2>1. NotifiedTo(tab, tab2, ProcessEntry, Pids, pid, n)
    BY <1>2, <1>3, <1>4, <1>5, Notified
  <2> QED
    BY <2>1 DEF NotifiedTo
<1>7. d = [c EXCEPT !.processes = tab2]
  BY <1>1, <1>2
<1>8. /\ d \in Context /\ SameThreads(c, d) /\ d.processes = tab2
      /\ d.owner = c.owner /\ d.nprocesses = c.nprocesses
      /\ d.process_recycler = c.process_recycler
  BY <1>3, <1>6, <1>7 DEF Context, SameThreads
<1>9. \A k \in 1 .. Len(tab.entries) : tab.entries[k] \in ProcessEntry
  BY <1>4
<1>10. \A k \in 1 .. Len(tab.entries) : /\ tab2.entries[k].source = tab.entries[k].source
                                        /\ tab2.entries[k].handle = tab.entries[k].handle
                                        /\ tab2.entries[k].main = tab.entries[k].main
                                        /\ tab2.entries[k].pool = tab.entries[k].pool
  BY <1>6, <1>9 DEF ProcessEntry
<1>11. OwnersSound(d)
  <2>1. ASSUME NEW i \in 1 .. Len(tab.entries) PROVE Owns(d, tab2.entries[i])
    <3>1. Owns(c, tab.entries[i])
      BY <1>1, <1>3 DEF OwnersSound
    <3> QED
      BY <1>8, <1>10, <3>1 DEF Owns
  <2>2. ASSUME NEW x \in d.process_recycler PROVE Owns(d, x)
    <3>1. Owns(c, x)
      BY <1>3, <1>8 DEF OwnersSound
    <3> QED
      BY <1>8, <3>1 DEF Owns
  <2>3. \A h \in 1 .. Len(d.owner) : d.owner[h] <= d.nprocesses
    BY <1>3, <1>8 DEF OwnersSound
  <2> QED
    BY <1>6, <1>8, <2>1, <2>2, <2>3 DEF OwnersSound
<1>12. Sound(d, n, n + 1) /\ Grows(c, d, n)
  <2>1. \A i \in 1 .. Len(d.processes.entries) :
           IF i <= Len(c.processes.entries)
           THEN /\ d.processes.entries[i].source = c.processes.entries[i].source
                /\ d.processes.entries[i].handle = c.processes.entries[i].handle
           ELSE d.processes.entries[i].source = 0
    BY <1>1, <1>6, <1>8, <1>10
  <2>2. TableSound(d.processes, Pids, n, n + 1) /\ TableGrows(c.processes, d.processes, n)
    BY <1>1, <1>6, <1>8
  <2>3. /\ Len(c.owner) <= Len(d.owner) /\ \A h \in 1 .. Len(c.owner) : d.owner[h] = c.owner[h]
        /\ n <= n /\ n <= n + 1
    BY <1>3, <1>8, ContextType
  <2> QED
    <3>1. ProcessesStep(c, d, n, n, n + 1)
      BY <1>8, <1>11, <2>1, <2>2, <2>3 DEF ProcessesStep
    <3> QED
      BY <1>3, <2>3, <3>1, ProcessesChanged
<1> QED
  BY <1>1, <1>6, <1>8, <1>12

ThreadAddition(c, d, n, tid, h) ==
  /\ Sound(d, n + 1, n + 1) /\ Grows(c, d, n) /\ SameProcesses(c, d)
  /\ d.thread_handles =
       c.thread_handles \cup {[tid |-> tid, time |-> n + 1, handle |-> h]}
  /\ Len(d.threads.entries) = Len(c.threads.entries) + 1
  /\ \A k \in 1 .. Len(c.threads.entries) : d.threads.entries[k] = c.threads.entries[k]
  /\ d.threads.entries[Len(c.threads.entries) + 1].handle = h
  /\ d.threads.by_id[tid] = Len(c.threads.entries) + 1
  /\ \A t \in Tids : t # tid => d.threads.by_id[t] = c.threads.by_id[t]

LEMMA AddThread ==
  ASSUME NEW c, NEW n \in Nat, n < MaxTime, Sound(c, n, n + 1), NEW tid \in Tids,
         c.threads.by_id[tid] = 0, NEW name \in ThreadNames \cup {Empty, NoName},
         NEW h \in Handles, h <= Len(c.owner),
         NEW d, d = add_thread(c, n + 1, tid, name, h)
  PROVE  ThreadAddition(c, d, n, tid, h)
<1> USE DEF ThreadAddition
<1>1. PICK tab : tab = c.threads
  OBVIOUS
<1>2. PICK e : e = [id |-> tid, start |-> n + 1, reused |-> 0, handle |-> h, name |-> name,
                    pending |-> 0]
  OBVIOUS
<1>3. PICK tab2 : tab2 = Added(tab, tid, e)
  OBVIOUS
<1>4. PICK x : x = [tid |-> tid, time |-> n + 1, handle |-> h]
  OBVIOUS
<1>5. /\ c \in Context /\ TableSound(tab, Tids, n, n + 1) /\ HandlesSound(c, n)
      /\ n + 1 \in Times /\ 0 \in Times
  BY <1>1, EtwTablesAssumption DEF Sound, Times
<1>6. tab.entries \in Seq(ThreadEntry) /\ tab.by_id[tid] = 0 /\ tab.by_id \in [Tids -> Nat]
  BY <1>1, <1>5, ContextType
<1>7. e \in ThreadEntry /\ x \in ThreadHandle
  BY <1>2, <1>4, <1>5 DEF ThreadEntry, ThreadHandle
<1>8. e.id = tid /\ e.start = n + 1 /\ e.reused = 0 /\ e.pending = 0 /\ e.handle = h
  BY <1>2
<1>9. /\ TableSound(tab2, Tids, n + 1, n + 1) /\ TableGrows(tab, tab2, n)
      /\ tab2.entries \in Seq(ThreadEntry) /\ Len(tab2.entries) = Len(tab.entries) + 1
      /\ \A i \in 1 .. Len(tab.entries) : tab2.entries[i] = tab.entries[i]
      /\ tab2.entries[Len(tab.entries) + 1] = e
      /\ tab2.by_id[tid] = Len(tab.entries) + 1
      /\ \A t \in Tids : t # tid => tab2.by_id[t] = tab.by_id[t]
  <2>1. AddedTo(tab, tab2, ThreadEntry, Tids, tid, e, n)
    BY <1>3, <1>5, <1>6, <1>7, <1>8, TableAdded
  <2> QED
    BY <2>1 DEF AddedTo
<1>10. tab2 \in [entries : Seq(ThreadEntry), by_id : [Tids -> Nat]]
  <2>1. tab2 = [entries |-> tab2.entries, by_id |-> tab2.by_id]
    BY <1>3 DEF Added
  <2>2. tab2.by_id \in [Tids -> Nat]
    BY <1>3, <1>6 DEF Added
  <2> QED
    BY <1>9, <2>1, <2>2
<1>11. d = [c EXCEPT !.threads = tab2, !.thread_handles = @ \cup {x}]
  BY <1>1, <1>2, <1>3, <1>4 DEF add_thread
<1>12. /\ d \in Context /\ SameProcesses(c, d) /\ d.threads = tab2
       /\ d.thread_handles = c.thread_handles \cup {x}
  <2>1. PICK u : u = c.thread_handles \cup {x}
    OBVIOUS
  <2>2. d = [c EXCEPT !.threads = tab2, !.thread_handles = u]
    BY <1>11, <2>1
  <2>3. u \subseteq ThreadHandle
    BY <1>5, <1>7, <2>1, ContextType
  <2>4. d \in Context /\ d.threads = tab2 /\ d.thread_handles = u
    BY <1>5, <1>10, <2>2, <2>3 DEF Context
  <2>5. SameProcesses(c, d)
    BY <1>5, <2>2 DEF SameProcesses, Context
  <2> QED
    BY <2>1, <2>4, <2>5
<1>13. HandlesSound(d, n + 1)
  <2>1. x.time = n + 1 /\ x.handle <= Len(d.owner)
    BY <1>4, <1>12 DEF SameProcesses
  <2>2. \A y \in c.thread_handles : y.time \in 1 .. n /\ y.handle <= Len(d.owner)
    BY <1>5, <1>12 DEF HandlesSound, SameProcesses
  <2>3. \A y \in d.thread_handles : y = x \/ y \in c.thread_handles
    BY <1>12
  <2>4. \A y, z \in c.thread_handles : y.tid = z.tid /\ y.time = z.time => y = z
    BY <1>5 DEF HandlesSound
  <2>5. \A y \in d.thread_handles : y.time \in 1 .. n + 1 /\ y.handle <= Len(d.owner)
    BY <2>1, <2>2, <2>3
  <2>6. \A y, z \in d.thread_handles : y.tid = z.tid /\ y.time = z.time => y = z
    BY <2>1, <2>2, <2>3, <2>4
  <2> QED
    BY <2>5, <2>6 DEF HandlesSound
<1>14. Sound(d, n + 1, n + 1) /\ Grows(c, d, n)
  <2>1. Len(tab.entries) \in Nat
    BY <1>6
  <2>2. \A k \in 1 .. Len(d.threads.entries) :
          d.threads.entries[k].pending =
            IF k <= Len(c.threads.entries) THEN c.threads.entries[k].pending ELSE 0
    BY SMTT(30), <1>1, <1>8, <1>9, <1>12, <2>1
  <2>3. TableSound(d.threads, Tids, n + 1, n + 1) /\ TableGrows(c.threads, d.threads, n)
    BY <1>1, <1>9, <1>12
  <2>4. /\ c.thread_handles \subseteq d.thread_handles
        /\ \A y \in d.thread_handles \ c.thread_handles : y.time = n + 1
    BY <1>4, <1>12
  <2>5. n <= n + 1 /\ n + 1 <= n + 1 /\ n + 1 \in Nat
    OBVIOUS
  <2> QED
    <3>1. ThreadsStep(c, d, n, n + 1, n + 1)
      BY <1>12, <1>13, <2>2, <2>3, <2>4 DEF ThreadsStep
    <3> QED
      BY <2>5, <3>1, ThreadsChanged
<1> QED
  BY <1>1, <1>4, <1>8, <1>9, <1>12, <1>14


LEMMA SoundLater ==
  ASSUME NEW c, NEW s \in Nat, NEW r \in Nat, NEW s2 \in Nat, NEW r2 \in Nat,
         Sound(c, s, r), s <= s2, r <= r2
  PROVE  Sound(c, s2, r2)
<1>1. c \in Context
  BY DEF Sound
<1>2. TableSound(c.threads, Tids, s2, r2) /\ TableSound(c.processes, Pids, s2, r2)
  BY <1>1, ContextType, TableLater DEF Sound
<1>3. HandlesSound(c, s2)
  BY DEF Sound, HandlesSound
<1> QED
  BY <1>1, <1>2, <1>3 DEF Sound

LEMMA GrowsSame ==
  ASSUME NEW c \in Context, NEW n \in Nat
  PROVE  Grows(c, c, n)
<1>1. Len(c.threads.entries) \in Nat /\ Len(c.processes.entries) \in Nat /\ Len(c.owner) \in Nat
  BY ContextType
<1> QED
  BY <1>1 DEF Grows, TableGrows

\* What an update leaves to the entry of a process.
SameProcess(a, b) ==
  /\ b.id = a.id /\ b.start = a.start /\ b.reused = a.reused /\ b.source = a.source
  /\ b.handle = a.handle /\ b.main = a.main

\* Entry i becomes e.
ProcessUpdate(c, d, n, s, r, i, e) ==
  /\ Sound(d, s, r) /\ Grows(c, d, n) /\ SameThreads(c, d)
  /\ d.owner = c.owner /\ d.nprocesses = c.nprocesses
  /\ d.main_thread_only = c.main_thread_only
  /\ d.processes.by_id = c.processes.by_id
  /\ Len(d.processes.entries) = Len(c.processes.entries)
  /\ \A j \in 1 .. Len(c.processes.entries) :
       d.processes.entries[j] = IF j = i THEN e ELSE c.processes.entries[j]

LEMMA ProcessUpdated ==
  ASSUME NEW c, NEW n \in Nat, NEW s \in Nat, NEW r \in Nat, Sound(c, s, r),
         NEW i \in 1 .. Len(c.processes.entries), NEW e \in ProcessEntry,
         SameProcess(c.processes.entries[i], e), Owns(c, e),
         NEW R, R \subseteq ProcessData, \A x \in R : Owns(c, x),
         NEW tab2, tab2 = [c.processes EXCEPT !.entries = [c.processes.entries EXCEPT ![i] = e]],
         NEW d, d = [c EXCEPT !.processes = tab2, !.process_recycler = R]
  PROVE  ProcessUpdate(c, d, n, s, r, i, e)
<1>1. PICK tab : tab = c.processes
  OBVIOUS
<1>2. PICK en : en = [tab.entries EXCEPT ![i] = e]
  OBVIOUS
<1>3. tab2 = [tab EXCEPT !.entries = en]
  BY <1>1, <1>2
<1>4. c \in Context /\ OwnersSound(c) /\ TableSound(tab, Pids, s, r)
  BY <1>1 DEF Sound
<1>5. tab \in [entries : Seq(ProcessEntry), by_id : [Pids -> Nat]]
  BY <1>1, <1>4 DEF Context
<1>6. /\ tab.entries \in Seq(ProcessEntry) /\ i \in 1 .. Len(tab.entries)
      /\ SameProcess(tab.entries[i], e)
  BY <1>1, <1>5
<1>7. /\ en \in Seq(ProcessEntry) /\ Len(en) = Len(tab.entries) /\ Len(tab.entries) \in Nat
      /\ \A j \in 1 .. Len(tab.entries) : en[j] = IF j = i THEN e ELSE tab.entries[j]
  BY <1>2, <1>6
<1>8. /\ tab2.entries = en /\ tab2.by_id = tab.by_id
      /\ tab2 \in [entries : Seq(ProcessEntry), by_id : [Pids -> Nat]]
  BY <1>3, <1>5, <1>7
<1>9. /\ d \in Context /\ d.processes = tab2 /\ d.process_recycler = R
       /\ SameThreads(c, d) /\ d.owner = c.owner /\ d.nprocesses = c.nprocesses
       /\ d.main_thread_only = c.main_thread_only
  BY <1>4, <1>8 DEF Context, SameThreads
<1>10. TableSound(tab2, Pids, s, r) /\ TableGrows(tab, tab2, n)
  <2>1. \A j \in 1 .. Len(tab.entries) : /\ tab2.entries[j].id = tab.entries[j].id
                                         /\ tab2.entries[j].start = tab.entries[j].start
                                         /\ tab2.entries[j].reused = tab.entries[j].reused
    BY <1>6, <1>7, <1>8 DEF SameProcess
  <2>2. tab2.by_id = tab.by_id /\ Len(tab2.entries) = Len(tab.entries)
        /\ Len(tab.entries) \in Nat
    BY <1>7, <1>8
  <2>3. TableSound(tab2, Pids, s, r)
    BY <1>4, <2>1, <2>2, TableKept
  <2> QED
    BY <2>1, <2>2, <2>3 DEF TableGrows
<1>11. OwnersSound(d)
  <2>1. \A j \in 1 .. Len(tab.entries) : Owns(c, tab.entries[j])
    BY <1>1, <1>4 DEF OwnersSound
  <2>2. \A j \in 1 .. Len(tab2.entries) : Owns(c, tab2.entries[j])
    BY <1>7, <1>8, <2>1
  <2>3. \A x : Owns(c, x) => Owns(d, x)
    BY <1>9 DEF Owns
  <2>4. \A h \in 1 .. Len(d.owner) : d.owner[h] <= d.nprocesses
    BY <1>4, <1>9 DEF OwnersSound
  <2> QED
    BY <1>9, <2>2, <2>3, <2>4 DEF OwnersSound
<1>12. ProcessesStep(c, d, n, s, r)
  <2>1. \A j \in 1 .. Len(d.processes.entries) :
          IF j <= Len(c.processes.entries)
          THEN /\ d.processes.entries[j].source = c.processes.entries[j].source
               /\ d.processes.entries[j].handle = c.processes.entries[j].handle
          ELSE d.processes.entries[j].source = 0
    BY <1>1, <1>6, <1>7, <1>8, <1>9 DEF SameProcess
  <2>2. Len(c.owner) <= Len(d.owner) /\ \A h \in 1 .. Len(c.owner) : d.owner[h] = c.owner[h]
    BY <1>4, <1>9, ContextType
  <2>3. TableSound(d.processes, Pids, s, r) /\ TableGrows(c.processes, d.processes, n)
    BY <1>1, <1>9, <1>10
  <2> QED
    BY <1>9, <1>11, <2>1, <2>2, <2>3 DEF ProcessesStep
<1>13. Sound(d, s, r) /\ Grows(c, d, n)
  BY <1>12, ProcessesChanged
<1> QED
  BY <1>1, <1>7, <1>8, <1>9, <1>13 DEF ProcessUpdate

\* A thread of profile process h is added to a profile of m processes.
ProfileGrowth(c, d, n, s, r, m, h) ==
  /\ Sound(d, s, r) /\ Grows(c, d, n) /\ SameThreads(c, d)
  /\ d.processes = c.processes /\ d.process_recycler = c.process_recycler
  /\ d.nprocesses = m /\ d.main_thread_only = c.main_thread_only
  /\ Len(d.owner) = Len(c.owner) + 1 /\ d.owner[Len(c.owner) + 1] = h

LEMMA ProfileGrown ==
  ASSUME NEW c, NEW n \in Nat, NEW s \in Nat, NEW r \in Nat, Sound(c, s, r),
         NEW m \in Nat, c.nprocesses <= m, NEW h \in 1 .. m,
         NEW d, d = [c EXCEPT !.nprocesses = m, !.owner = Append(@, h)]
  PROVE  ProfileGrowth(c, d, n, s, r, m, h)
<1>1. PICK ow : ow = Append(c.owner, h)
  OBVIOUS
<1>2. /\ c \in Context /\ OwnersSound(c) /\ TableSound(c.processes, Pids, s, r)
      /\ h \in Handles
  BY DEF Sound, Handles
<1>3. /\ c.owner \in Seq(Handles) /\ Len(c.owner) \in Nat /\ c.nprocesses \in Nat
      /\ \A x \in 1 .. Len(c.owner) : c.owner[x] \in Nat
      /\ Len(c.processes.entries) \in Nat
  BY <1>2, ContextType DEF Handles
<1>4. /\ ow \in Seq(Handles) /\ Len(ow) = Len(c.owner) + 1 /\ ow[Len(c.owner) + 1] = h
      /\ \A x \in 1 .. Len(c.owner) : ow[x] = c.owner[x]
  BY <1>1, <1>2, <1>3
<1>5. d = [c EXCEPT !.nprocesses = m, !.owner = ow]
  BY <1>1
<1>6. /\ d \in Context /\ SameThreads(c, d) /\ d.owner = ow /\ d.nprocesses = m
      /\ d.processes = c.processes /\ d.process_recycler = c.process_recycler
      /\ d.main_thread_only = c.main_thread_only
  BY <1>2, <1>4, <1>5 DEF Context, SameThreads
<1>7. Len(c.owner) <= Len(d.owner) /\ \A x \in 1 .. Len(c.owner) : d.owner[x] = c.owner[x]
  BY <1>3, <1>4, <1>6
<1>8. OwnersSound(d)
  <2>1. /\ \A i \in 1 .. Len(c.processes.entries) : Owns(d, c.processes.entries[i])
        /\ \A x \in c.process_recycler : Owns(d, x)
    BY <1>2, <1>6, <1>7, OwnersStay
  <2>2. \A x \in 1 .. Len(c.owner) : c.owner[x] <= c.nprocesses
    BY <1>2 DEF OwnersSound
  <2>3. \A x \in 1 .. Len(d.owner) : d.owner[x] <= d.nprocesses
    BY <1>3, <1>4, <1>6, <2>2
  <2> QED
    BY <1>6, <2>1, <2>3 DEF OwnersSound
<1>9. TableGrows(c.processes, d.processes, n)
  BY <1>3, <1>6 DEF TableGrows
<1>10. ProcessesStep(c, d, n, s, r)
  BY <1>2, <1>6, <1>7, <1>8, <1>9 DEF ProcessesStep
<1>11. Sound(d, s, r) /\ Grows(c, d, n)
  BY <1>10, ProcessesChanged
<1> QED
  BY <1>4, <1>6, <1>11 DEF ProfileGrowth


-----------------------------------------------------------------------------
(* Pools of threads                                                        *)

LEMMA PoolDomain ==
  \A p : p \in Pools <=> DOMAIN p \subseteq ThreadData /\ p \in [DOMAIN p -> Handles]
<1>1. \A p : p \in Pools => \E D \in SUBSET ThreadData : p \in [D -> Handles]
  BY DEF Pools
<1>2. \A p : \A D \in SUBSET ThreadData : p \in [D -> Handles] => p \in Pools
  BY DEF Pools
<1> QED
  BY <1>1, <1>2

LEMMA PoolAdd ==
  ASSUME NEW p \in Pools, NEW d \in ThreadData
  PROVE  PoolWith(p, d) \in Pools /\ DOMAIN PoolWith(p, d) = DOMAIN p \cup {d}
<1>1. PICK q : q = PoolWith(p, d)
  OBVIOUS
<1>2. p \in [DOMAIN p -> Handles] /\ DOMAIN p \subseteq ThreadData
  BY PoolDomain
<1>3. q = [e \in DOMAIN p \cup {d} |-> (IF e \in DOMAIN p THEN p[e] ELSE 0)
                                        + (IF e \in {d} THEN 1 ELSE 0)]
  BY <1>1 DEF PoolWith, SetToBag, (+)
<1>4. \A e \in DOMAIN p \cup {d} : q[e] \in Handles
  BY <1>2, <1>3 DEF Handles
<1>5. q \in [DOMAIN p \cup {d} -> Handles] /\ DOMAIN q = DOMAIN p \cup {d}
  BY <1>3, <1>4
<1> QED
  BY <1>1, <1>2, <1>5, PoolDomain

LEMMA PoolTake ==
  ASSUME NEW p \in Pools, NEW d
  PROVE  PoolWithout(p, d) \in Pools /\ DOMAIN PoolWithout(p, d) \subseteq DOMAIN p
<1>1. PICK q : q = PoolWithout(p, d)
  OBVIOUS
<1>2. p \in [DOMAIN p -> Handles] /\ DOMAIN p \subseteq ThreadData
  BY PoolDomain
<1>3. PICK b : b = [e \in DOMAIN p |-> IF e \in {d} THEN p[e] - 1 ELSE p[e]]
  OBVIOUS
<1>4. q = [e \in {x \in DOMAIN b : b[x] > 0} |-> b[e]]
  BY <1>1, <1>3 DEF PoolWithout, SetToBag, (-)
<1>5. DOMAIN b = DOMAIN p /\ \A e \in DOMAIN p : b[e] \in Int
  BY <1>2, <1>3 DEF Handles
<1>6. DOMAIN q \subseteq DOMAIN p /\ q \in [DOMAIN q -> Handles]
  BY <1>4, <1>5 DEF Handles
<1> QED
  BY <1>1, <1>2, <1>6, PoolDomain

LEMMA PoolEmpty ==
  EmptyBag \in Pools /\ DOMAIN EmptyBag = {}
<1>1. DOMAIN EmptyBag = {} /\ EmptyBag \in [{} -> Handles]
  BY DEF EmptyBag, SetToBag
<1> QED
  BY <1>1, PoolDomain

\* take_recycling_data finds a thread of the name.
LEMMA PoolLeast ==
  ASSUME NEW p \in Pools, NEW name, OfName(p, name) # {}
  PROVE  LeastOfName(p, name) \in DOMAIN p /\ LeastOfName(p, name).name = name
<1>1. PICK S : S = OfName(p, name)
  OBVIOUS
<1>2. S \subseteq DOMAIN p /\ S # {} /\ \A d \in S : d.name = name /\ d.handle \in Nat
  BY <1>1, PoolDomain DEF OfName, BagToSet, ThreadData, Handles
<1>3. PICK T : T = {d.handle : d \in S}
  OBVIOUS
<1>4. T \subseteq Nat /\ T # {}
  <2>1. PICK d \in S : TRUE
    BY <1>2
  <2>2. d.handle \in T
    BY <1>3
  <2>3. \A x \in T : \E z \in S : x = z.handle
    BY <1>3
  <2> QED
    BY <1>2, <2>2, <2>3
<1>5. PICK x \in T : \A y \in T : x <= y
  BY <1>4, HasLeast
<1>6. \E d \in S : \A e \in S : d.handle <= e.handle
  BY <1>3, <1>5
<1>7. LeastOfName(p, name) \in S
  BY <1>1, <1>6 DEF LeastOfName
<1> QED
  BY <1>2, <1>7


-----------------------------------------------------------------------------
(* Handlers of processes                                                   *)

\* A new entry for pid, and perhaps a process and a thread in the profile.
ProcessAddition(c, d, n, pid) ==
  /\ Sound(d, n + 1, n + 1) /\ Grows(c, d, n) /\ SameThreads(c, d)
  /\ Len(d.processes.entries) = Len(c.processes.entries) + 1
  /\ d.processes.by_id[pid] = Len(c.processes.entries) + 1
  /\ \A p \in Pids : p # pid => d.processes.by_id[p] = c.processes.by_id[p]

LEMMA AddProcess ==
  ASSUME NEW c, NEW n \in Nat, n < MaxTime, Sound(c, n, n + 1), NEW pid \in Pids,
         c.processes.by_id[pid] = 0, NEW name \in ProcessNames,
         NEW data, data.handle \in Handles, data.main \in Handles, data.pool \in Pools,
         Owns(c, data), NEW d, d = add_process(c, n + 1, pid, name, data)
  PROVE  ProcessAddition(c, d, n, pid)
<1>1. PICK tab : tab = c.processes
  OBVIOUS
<1>2. PICK e : e = [id |-> pid, start |-> n + 1, reused |-> 0, name |-> name,
                    handle |-> data.handle, main |-> data.main, seen_main |-> FALSE,
                    recycles |-> c.reuse_threads, pool |-> data.pool, source |-> 0]
  OBVIOUS
<1>3. PICK tab2 : tab2 = Added(tab, pid, e)
  OBVIOUS
<1>4. /\ c \in Context /\ TableSound(tab, Pids, n, n + 1) /\ OwnersSound(c)
      /\ n + 1 \in Times /\ 0 \in Times
  BY <1>1, EtwTablesAssumption DEF Sound, Times
<1>5. tab.entries \in Seq(ProcessEntry) /\ tab.by_id[pid] = 0 /\ tab.by_id \in [Pids -> Nat]
  BY <1>1, <1>4, ContextType
<1>6. e \in ProcessEntry
  BY <1>2, <1>4 DEF ProcessEntry, Context
<1>7. /\ e.id = pid /\ e.start = n + 1 /\ e.reused = 0 /\ e.source = 0
      /\ e.handle = data.handle /\ e.main = data.main /\ e.pool = data.pool
  BY <1>2
<1>8. /\ TableSound(tab2, Pids, n + 1, n + 1) /\ TableGrows(tab, tab2, n)
      /\ tab2.entries \in Seq(ProcessEntry) /\ Len(tab2.entries) = Len(tab.entries) + 1
      /\ \A i \in 1 .. Len(tab.entries) : tab2.entries[i] = tab.entries[i]
      /\ tab2.entries[Len(tab.entries) + 1] = e
      /\ tab2.by_id[pid] = Len(tab.entries) + 1
      /\ \A p \in Pids : p # pid => tab2.by_id[p] = tab.by_id[p]
  <2>1. AddedTo(tab, tab2, ProcessEntry, Pids, pid, e, n)
    BY <1>3, <1>4, <1>5, <1>6, <1>7, TableAdded
  <2> QED
    BY <2>1 DEF AddedTo
<1>9. tab2 \in [entries : Seq(ProcessEntry), by_id : [Pids -> Nat]]
  <2>1. tab2 = [entries |-> tab2.entries, by_id |-> tab2.by_id]
    BY <1>3 DEF Added
  <2>2. tab2.by_id \in [Pids -> Nat]
    BY <1>3, <1>5 DEF Added
  <2> QED
    BY <1>8, <2>1, <2>2
<1>10. d = [c EXCEPT !.processes = tab2]
  BY <1>1, <1>2, <1>3 DEF add_process
<1>11. /\ d \in Context /\ SameThreads(c, d) /\ d.processes = tab2
       /\ d.owner = c.owner /\ d.nprocesses = c.nprocesses
       /\ d.process_recycler = c.process_recycler
  BY <1>4, <1>9, <1>10 DEF Context, SameThreads
<1>12. Len(tab.entries) \in Nat /\ Len(c.owner) \in Nat
  BY <1>4, <1>5, ContextType
<1>13. OwnersSound(d)
  <2>1. \A i \in 1 .. Len(tab.entries) : Owns(c, tab.entries[i])
    BY <1>1, <1>4 DEF OwnersSound
  <2>2. Owns(c, e)
    BY <1>7 DEF Owns
  <2>3. ASSUME NEW i \in 1 .. Len(tab2.entries)
        PROVE  Owns(c, tab2.entries[i])
    <3>1. i \in 1 .. Len(tab.entries) \/ i = Len(tab.entries) + 1
      BY <1>8, <1>12
    <3>2. CASE i \in 1 .. Len(tab.entries)
      BY <1>8, <2>1, <3>2
    <3>3. CASE i = Len(tab.entries) + 1
      BY <1>8, <2>2, <3>3
    <3> QED
      BY <3>1, <3>2, <3>3
  <2>4. \A x : Owns(c, x) => Owns(d, x)
    BY <1>11 DEF Owns
  <2>5. \A x \in d.process_recycler : Owns(d, x)
    BY <1>4, <1>11, <2>4 DEF OwnersSound
  <2>6. \A h \in 1 .. Len(d.owner) : d.owner[h] <= d.nprocesses
    BY <1>4, <1>11 DEF OwnersSound
  <2> QED
    BY <1>11, <2>3, <2>4, <2>5, <2>6 DEF OwnersSound
<1>14. ProcessesStep(c, d, n, n + 1, n + 1)
  <2>1. ASSUME NEW j \in 1 .. Len(d.processes.entries)
        PROVE  IF j <= Len(c.processes.entries)
               THEN /\ d.processes.entries[j].source = c.processes.entries[j].source
                    /\ d.processes.entries[j].handle = c.processes.entries[j].handle
               ELSE d.processes.entries[j].source = 0
    <3>1. Len(d.processes.entries) = Len(tab.entries) + 1
      BY <1>8, <1>11
    <3>2. d.processes.entries[Len(tab.entries) + 1].source = 0
      BY <1>7, <1>8, <1>11
    <3>3. \A k \in 1 .. Len(tab.entries) : d.processes.entries[k] = c.processes.entries[k]
      BY <1>1, <1>8, <1>11
    <3>4. CASE j <= Len(tab.entries)
      BY SMTT(30), <1>1, <1>12, <3>1, <3>3, <3>4
    <3>5. CASE ~(j <= Len(tab.entries))
      <4>1. j = Len(tab.entries) + 1
        BY <1>12, <3>1, <3>5
      <4> QED
        BY <1>1, <3>2, <3>5, <4>1
    <3> QED
      BY <3>4, <3>5
  <2>2. Len(c.owner) <= Len(d.owner) /\ \A h \in 1 .. Len(c.owner) : d.owner[h] = c.owner[h]
    BY <1>11, <1>12
  <2>3. /\ TableSound(d.processes, Pids, n + 1, n + 1)
        /\ TableGrows(c.processes, d.processes, n)
    BY <1>1, <1>8, <1>11
  <2> QED
    BY <1>11, <1>13, <2>1, <2>2, <2>3 DEF ProcessesStep
<1>15. Sound(d, n + 1, n + 1) /\ Grows(c, d, n)
  <2>1. n <= n + 1 /\ n + 1 <= n + 1 /\ n + 1 \in Nat
    OBVIOUS
  <2> QED
    BY <1>14, <2>1, ProcessesChanged
<1> QED
  BY <1>1, <1>8, <1>11, <1>15 DEF ProcessAddition

LEMMA AddNewProcess ==
  ASSUME NEW c, NEW n \in Nat, n < MaxTime, Sound(c, n, n + 1), NEW pid \in Pids,
         c.processes.by_id[pid] = 0, NEW name \in ProcessNames,
         NEW d, d = add_new_process(c, n + 1, pid, name)
  PROVE  ProcessAddition(c, d, n, pid)
<1>1. PICK h : h = c.nprocesses + 1
  OBVIOUS
<1>2. PICK m : m = Len(c.owner) + 1
  OBVIOUS
<1>3. PICK b : b = [c EXCEPT !.nprocesses = h, !.owner = Append(@, h)]
  OBVIOUS
<1>4. PICK data : data = [handle |-> h, main |-> m, pool |-> EmptyBag]
  OBVIOUS
<1>5. d = add_process(b, n + 1, pid, name, data)
  BY <1>1, <1>2, <1>3, <1>4 DEF add_new_process
<1>6. /\ c \in Context /\ c.nprocesses \in Nat /\ Len(c.owner) \in Nat
      /\ h \in Handles /\ m \in Handles /\ h \in Nat /\ c.nprocesses <= h /\ h \in 1 .. h
      /\ n + 1 \in Nat
  BY <1>1, <1>2, ContextType DEF Sound, Handles
<1>7. ProfileGrowth(c, b, n, n, n + 1, h, h)
  BY Zenon, <1>3, <1>6, ProfileGrown
<1>8. /\ Sound(b, n, n + 1) /\ Grows(c, b, n) /\ SameThreads(c, b)
      /\ b.processes = c.processes /\ b.nprocesses = h
      /\ Len(b.owner) = m /\ b.owner[m] = h
  BY <1>2, <1>7 DEF ProfileGrowth
<1>9. /\ data.handle = h /\ data.main = m /\ data.pool \in Pools /\ DOMAIN data.pool = {}
  BY <1>4, PoolEmpty
<1>10. Owns(b, data)
  BY <1>6, <1>8, <1>9 DEF Owns, Handles
<1>11. ProcessAddition(b, d, n, pid)
  BY <1>5, <1>6, <1>8, <1>9, <1>10, AddProcess
<1>12. Grows(c, d, n)
  BY <1>6, <1>8, <1>11, GrowsTrans DEF ProcessAddition, Sound
<1> QED
  BY <1>8, <1>11, <1>12 DEF ProcessAddition, SameThreads

LEMMA RecycleProcess ==
  ASSUME NEW c, NEW n \in Nat, n < MaxTime, Sound(c, n, n + 1), NEW pid \in Pids,
         c.processes.by_id[pid] = 0, NEW data \in c.process_recycler,
         NEW d, d = recycle_process(c, n + 1, pid, data)
  PROVE  ProcessAddition(c, d, n, pid)
<1>1. PICK R : R = c.process_recycler \ {data}
  OBVIOUS
<1>2. PICK b : b = [c EXCEPT !.process_recycler = R]
  OBVIOUS
<1>3. d = add_process(b, n + 1, pid, data.name, data)
  BY <1>1, <1>2 DEF recycle_process
<1>4. /\ c \in Context /\ OwnersSound(c) /\ TableSound(c.processes, Pids, n, n + 1)
      /\ c.process_recycler \subseteq ProcessData /\ n + 1 \in Nat
  BY ContextType DEF Sound
<1>5. /\ b \in Context /\ SameThreads(c, b) /\ b.processes = c.processes
      /\ b.process_recycler = R /\ b.owner = c.owner /\ b.nprocesses = c.nprocesses
  BY <1>1, <1>2, <1>4 DEF Context, SameThreads
<1>6. \A x : Owns(c, x) => Owns(b, x)
  BY <1>5 DEF Owns
<1>7. OwnersSound(b)
  BY <1>1, <1>4, <1>5, <1>6 DEF OwnersSound
<1>8. Len(c.processes.entries) \in Nat /\ Len(c.owner) \in Nat
  BY <1>4, ContextType
<1>9. ProcessesStep(c, b, n, n, n + 1)
  <2>1. TableGrows(c.processes, b.processes, n)
    BY <1>5, <1>8 DEF TableGrows
  <2> QED
    BY <1>4, <1>5, <1>7, <1>8, <2>1 DEF ProcessesStep
<1>10. Sound(b, n, n + 1) /\ Grows(c, b, n)
  <2>1. n <= n /\ n + 1 <= n + 1
    OBVIOUS
  <2> QED
    BY <1>4, <1>9, <2>1, ProcessesChanged
<1>11. /\ data.name \in ProcessNames /\ data.handle \in Handles /\ data.main \in Handles
       /\ data.pool \in Pools /\ Owns(b, data)
  BY <1>4, <1>6 DEF ProcessData, OwnersSound
<1>12. ProcessAddition(b, d, n, pid)
  BY <1>3, <1>5, <1>10, <1>11, AddProcess
<1>13. Grows(c, d, n)
  BY <1>4, <1>5, <1>10, <1>12, GrowsTrans DEF ProcessAddition, Sound
<1> QED
  BY <1>5, <1>12, <1>13 DEF ProcessAddition, SameThreads


\* A thread that an event is not about is tracked as before.
ThreadKept(c, d, o, o2, t) ==
  /\ o2.thr[t] = o.thr[t]
  /\ o.thr[t].pid # 0 => o2.proc[o.thr[t].pid] = o.proc[o.thr[t].pid]
  /\ d.threads.by_id[t] = c.threads.by_id[t]
  /\ \A x \in d.thread_handles : x.tid = t => x \in c.thread_handles
  /\ o.thr[t].entry # 0 =>
       d.threads.entries[o.thr[t].entry].handle = c.threads.entries[o.thr[t].entry].handle

LEMMA ThreadStays ==
  ASSUME NEW c, NEW d \in Context, NEW n \in Nat, Sound(c, n, n), Grows(c, d, n),
         NEW o, NEW o2, Tracked(c, o, n), NEW t \in Tids, ThreadKept(c, d, o, o2, t)
  PROVE  ThreadTracked(d, o2, t, n + 1)
<1>1. ThreadTracked(c, o, t, n) /\ o \in Machine /\ c \in Context
  BY DEF Tracked, Sound
<1>2. CASE o.thr[t].pid = 0
  BY <1>1, <1>2 DEF ThreadTracked, ThreadKept
<1>3. CASE o.thr[t].pid # 0 /\ o.thr[t].entry = 0
  BY <1>1, <1>3 DEF ThreadTracked, ThreadKept
<1>4. CASE o.thr[t].pid # 0 /\ o.thr[t].entry # 0
  <2>1. PICK k : k = o.thr[t].entry
    OBVIOUS
  <2>2. PICK p : p = o.thr[t].pid
    OBVIOUS
  <2>3. PICK i : i = o.proc[p].entry
    OBVIOUS
  <2>4. PICK h : h = c.threads.entries[k].handle
    OBVIOUS
  <2>5. /\ c.threads.by_id[t] = k /\ o.proc[p].alive /\ p \in Pids
        /\ HandleAt(c.thread_handles, t, n, h) /\ i # 0 /\ h <= Len(c.owner)
        /\ c.owner[h] = c.processes.entries[i].handle
    BY Zenon, <1>1, <1>4, <2>1, <2>2, <2>3, <2>4 DEF ThreadTracked, Machine
  <2>6. c.processes.by_id[p] = i
    BY <2>3, <2>5 DEF Tracked, ProcessTracked
  <2>7. i \in 1 .. Len(c.processes.entries) /\ k \in 1 .. Len(c.threads.entries)
    BY <1>1, <1>4, <2>1, <2>5, <2>6, ContextType DEF Sound, TableSound
  <2>8. h \in 1 .. Len(c.owner)
    BY <1>1, <2>4, <2>5, <2>7, ContextType DEF ThreadEntry, Handles
  <2>9. /\ d.owner[h] = c.owner[h] /\ h <= Len(d.owner)
        /\ d.processes.entries[i].handle = c.processes.entries[i].handle
    <3>1. /\ Len(c.owner) \in Nat /\ Len(d.owner) \in Nat /\ Len(c.processes.entries) \in Nat
          /\ Len(d.processes.entries) \in Nat
      BY <1>1, ContextType
    <3>2. Len(c.processes.entries) <= Len(d.processes.entries)
      BY DEF Grows, TableGrows
    <3>3. i \in 1 .. Len(d.processes.entries) /\ i <= Len(c.processes.entries)
      BY <2>7, <3>1, <3>2
    <3> QED
      BY <2>8, <3>1, <3>3 DEF Grows
  <2>10. HandleAt(d.thread_handles, t, n + 1, h)
    <3>1. PICK x \in c.thread_handles :
            /\ x.tid = t /\ x.time <= n /\ x.handle = h
            /\ \A y \in c.thread_handles : y.tid = t /\ y.time <= n => y.time <= x.time
      BY <2>5 DEF HandleAt
    <3>2. c.thread_handles \subseteq d.thread_handles
      BY DEF Grows
    <3>3. \A y \in c.thread_handles : y.time \in Nat /\ y.time <= n
      BY DEF Sound, HandlesSound
    <3>4. \A y \in d.thread_handles : y.tid = t => y.time <= x.time
      BY <3>1, <3>3 DEF ThreadKept
    <3>5. x.time <= n + 1
      BY <3>1, <3>3
    <3> QED
      BY <3>1, <3>2, <3>4, <3>5 DEF HandleAt
  <2>11. /\ o2.thr[t].entry = k /\ o2.thr[t].pid = p /\ o2.proc[p] = o.proc[p]
         /\ d.threads.by_id[t] = k /\ d.threads.entries[k].handle = h /\ p # 0
    BY Zenon, <1>4, <2>1, <2>2, <2>4, <2>5 DEF ThreadKept
  <2> QED
    BY <2>3, <2>5, <2>9, <2>10, <2>11 DEF ThreadTracked
<1> QED
  BY <1>2, <1>3, <1>4

\* What an event about process pid leaves behind.
LEMMA ProcessEvent ==
  ASSUME NEW c, NEW d \in Context, NEW n \in Nat, Sound(c, n, n), Grows(c, d, n),
         SameThreads(c, d), NEW o, Tracked(c, o, n), NEW pid \in Pids,
         \A t \in Tids : o.thr[t].pid # pid,
         \A p \in Pids : p # pid => d.processes.by_id[p] = c.processes.by_id[p],
         NEW v \in [alive : BOOLEAN, entry : Nat],
         v.alive => d.processes.by_id[pid] = v.entry,
         NEW o2, o2 = [o EXCEPT !.proc[pid] = v]
  PROVE  Tracked(d, o2, n + 1)
<1>1. o \in Machine
  BY DEF Tracked
<1>2. /\ o2 \in Machine /\ o2.thr = o.thr /\ o2.proc[pid] = v
      /\ \A p \in Pids : p # pid => o2.proc[p] = o.proc[p]
  BY <1>1 DEF Machine
<1>3. ASSUME NEW t \in Tids PROVE ThreadTracked(d, o2, t, n + 1)
  <2>1. o.thr[t].pid \in Pids \cup {0} /\ o.thr[t].pid # pid
    BY <1>1 DEF Machine
  <2>2. ThreadKept(c, d, o, o2, t)
    BY <1>2, <2>1 DEF ThreadKept, SameThreads
  <2> QED
    BY <2>2, ThreadStays
<1>4. ASSUME NEW p \in Pids PROVE ProcessTracked(d, o2, p)
  <2>1. CASE p = pid
    BY <1>2, <2>1 DEF ProcessTracked
  <2>2. CASE p # pid
    BY <1>2, <2>2 DEF ProcessTracked, Tracked
  <2> QED
    BY <2>1, <2>2
<1> QED
  BY <1>2, <1>3, <1>4 DEF Tracked

\* No thread runs in a process that does not.
LEMMA DeadHasNoThreads ==
  ASSUME NEW c, NEW o, NEW n, Tracked(c, o, n), NEW pid \in Pids, ~o.proc[pid].alive
  PROVE  \A t \in Tids : o.thr[t].pid # pid
BY EtwTablesAssumption DEF Tracked, ThreadTracked


\* Whether or not the process gets an entry, it is tracked.
Started(c, c2, n, pid) ==
  /\ Sound(c2, n + 1, n + 1) /\ Grows(c, c2, n) /\ SameThreads(c, c2)
  /\ \A p \in Pids : p # pid => c2.processes.by_id[p] = c.processes.by_id[p]
  /\ \/ /\ Len(c2.processes.entries) = Len(c.processes.entries) + 1
        /\ c2.processes.by_id[pid] = Len(c.processes.entries) + 1
     \/ /\ Len(c2.processes.entries) = Len(c.processes.entries)
        /\ c2.processes.by_id[pid] = 0

LEMMA ProcessStarted ==
  ASSUME NEW n \in Nat, Sound(ctx, n, n), Tracked(ctx, os, n), NEW pid \in Pids,
         ~os.proc[pid].alive, NEW c2, Started(ctx, c2, n, pid)
  PROVE  Tracked(c2, ProcessStarts(c2, pid), n + 1)
<1>1. PICK k : k = NewEntry(ctx.processes.entries, c2.processes.entries)
  OBVIOUS
<1>2. PICK v : v = [alive |-> TRUE, entry |-> k]
  OBVIOUS
<1>3. PICK o2 : o2 = [os EXCEPT !.proc[pid] = v]
  OBVIOUS
<1>4. o2 = ProcessStarts(c2, pid)
  BY <1>1, <1>2, <1>3 DEF ProcessStarts
<1>5. c2 \in Context /\ ctx \in Context /\ Len(ctx.processes.entries) \in Nat
  BY ContextType DEF Started, Sound
<1>6. k \in Nat /\ c2.processes.by_id[pid] = k
  BY <1>1, <1>5 DEF NewEntry, Started
<1>7. v \in [alive : BOOLEAN, entry : Nat] /\ v.entry = k
  BY <1>2, <1>6
<1>8. \A t \in Tids : os.thr[t].pid # pid
  BY DeadHasNoThreads
<1>9. Tracked(c2, o2, n + 1)
  BY <1>3, <1>5, <1>6, <1>7, <1>8, ProcessEvent DEF Started
<1> QED
  BY <1>4, <1>9

LEMMA Facts ==
  ASSUME IInv
  PROVE  /\ now \in Nat /\ now + 1 \in Nat /\ now <= now + 1 /\ now + 1 <= now + 1
         /\ Sound(ctx, now, now) /\ Tracked(ctx, os, now)
         /\ ctx \in Context /\ os \in Machine
         /\ Sound(ctx, now, now + 1) /\ Sound(ctx, now + 1, now + 1) /\ Grows(ctx, ctx, now)
         /\ trace = "rundown" => RundownSound(ctx, os)
<1>1. now \in Nat
  BY DEF IInv, now
<1>2. now + 1 \in Nat /\ now <= now + 1 /\ now + 1 <= now + 1 /\ now <= now
  BY <1>1
<1>3. /\ Sound(ctx, now, now) /\ Tracked(ctx, os, now)
      /\ trace = "rundown" => RundownSound(ctx, os)
  BY DEF IInv
<1>4. ctx \in Context /\ os \in Machine
  BY <1>3 DEF Sound, Tracked
<1>5. Sound(ctx, now, now + 1) /\ Sound(ctx, now + 1, now + 1)
  BY <1>1, <1>2, <1>3, SoundLater
<1>6. Grows(ctx, ctx, now)
  BY <1>1, <1>4, GrowsSame
<1> QED
  BY <1>1, <1>2, <1>3, <1>4, <1>5, <1>6

LEMMA ProcessDCStartStep ==
  ASSUME IInv, ProcessDCStart
  PROVE  IInv'
<1>1. PICK pid \in Pids, ppid \in Pids \cup {0}, name \in ProcessNames :
        /\ ~os.proc[pid].alive
        /\ KernelEvent("rundown", handle_process_dcstart(ctx, now + 1, pid, ppid, name),
             ProcessStarts(handle_process_dcstart(ctx, now + 1, pid, ppid, name), pid))
  BY DEF ProcessDCStart
<1>2. PICK c2 : c2 = handle_process_dcstart(ctx, now + 1, pid, ppid, name)
  OBVIOUS
<1>3. PICK o2 : o2 = ProcessStarts(c2, pid)
  OBVIOUS
<1>4. KernelEvent("rundown", c2, o2)
  BY <1>1, <1>2, <1>3
<1>5. RundownSound(ctx, os) /\ now < MaxTime
  BY <1>4, Facts DEF KernelEvent
<1>6. ctx.processes.by_id[pid] = 0
  BY <1>1, <1>5 DEF RundownSound
<1>7. Started(ctx, c2, now, pid)
  <2>1. CASE is_interesting_process(ctx, pid, ppid, name)
    <3>1. c2 = add_new_process(ctx, now + 1, pid, name)
      BY <1>2, <2>1 DEF handle_process_dcstart
    <3>2. ProcessAddition(ctx, c2, now, pid)
      BY <1>5, <1>6, <3>1, Facts, AddNewProcess
    <3> QED
      BY <3>2 DEF ProcessAddition, Started
  <2>2. CASE ~is_interesting_process(ctx, pid, ppid, name)
    <3>1. c2 = ctx
      BY <1>2, <2>2 DEF handle_process_dcstart
    <3> QED
      BY <1>6, <3>1, Facts DEF Started, SameThreads
  <2> QED
    BY <2>1, <2>2
<1>8. Tracked(c2, o2, now + 1)
  BY <1>1, <1>3, <1>7, Facts, ProcessStarted
<1>9. RundownSound(c2, o2)
  <2>1. /\ o2.thr = os.thr /\ o2.proc[pid].alive
        /\ \A p \in Pids : p # pid => o2.proc[p] = os.proc[p]
    BY <1>3, Facts DEF ProcessStarts, Machine
  <2> QED
    BY <1>5, <1>7, <2>1 DEF RundownSound, Started, SameThreads
<1> QED
  BY <1>4, <1>7, <1>8, <1>9, KernelStep DEF Started

LEMMA ProcessStartStep ==
  ASSUME IInv, ProcessStart
  PROVE  IInv'
<1>1. PICK pid \in Pids, ppid \in Pids \cup {0}, name \in ProcessNames :
        /\ ~os.proc[pid].alive
        /\ KernelEvent("kernel", handle_process_start(ctx, now + 1, pid, ppid, name),
             ProcessStarts(handle_process_start(ctx, now + 1, pid, ppid, name), pid))
  BY DEF ProcessStart
<1>2. PICK c2 : c2 = handle_process_start(ctx, now + 1, pid, ppid, name)
  OBVIOUS
<1>3. PICK o2 : o2 = ProcessStarts(c2, pid)
  OBVIOUS
<1>4. KernelEvent("kernel", c2, o2) /\ now < MaxTime
  BY <1>1, <1>2, <1>3 DEF KernelEvent
<1>5. PICK d : d = [ctx EXCEPT !.processes = notify_created(@, pid, now + 1)]
  OBVIOUS
<1>6. PICK pool : pool = {x \in d.process_recycler : x.name = name}
  OBVIOUS
<1>7. /\ Sound(d, now, now + 1) /\ Grows(ctx, d, now) /\ SameThreads(ctx, d)
      /\ Len(d.processes.entries) = Len(ctx.processes.entries)
      /\ d.processes.by_id = [ctx.processes.by_id EXCEPT ![pid] = 0]
  <2>1. ProcessNotification(ctx, d, now, pid)
    BY <1>4, <1>5, Facts, NotifyProcesses
  <2> QED
    BY <2>1 DEF ProcessNotification
<1>8. /\ d.processes.by_id[pid] = 0 /\ d \in Context /\ Sound(d, now + 1, now + 1)
      /\ \A p \in Pids : p # pid => d.processes.by_id[p] = ctx.processes.by_id[p]
  BY <1>7, Facts, ContextType, SoundLater DEF Sound
<1>9. Started(ctx, c2, now, pid)
  <2>1. CASE ~is_interesting_process(d, pid, ppid, name)
    <3>1. c2 = d
      BY <1>2, <1>5, <2>1 DEF handle_process_start
    <3> QED
      BY <1>7, <1>8, <3>1 DEF Started
  <2>2. CASE is_interesting_process(d, pid, ppid, name)
    <3>1. ProcessAddition(d, c2, now, pid)
      <4>1. CASE pool = {}
        <5>1. c2 = add_new_process(d, now + 1, pid, name)
          BY <1>2, <1>5, <1>6, <2>2, <4>1 DEF handle_process_start
        <5> QED
          BY <1>4, <1>7, <1>8, <5>1, Facts, AddNewProcess
      <4>2. CASE pool # {}
        <5>1. PICK x : x = CHOOSE z \in pool : \A y \in pool : z.handle <= y.handle
          OBVIOUS
        <5>2. c2 = recycle_process(d, now + 1, pid, x)
          BY <1>2, <1>5, <1>6, <2>2, <4>2, <5>1 DEF handle_process_start
        <5>3. \A y \in pool : y.handle \in Nat
          BY <1>6, <1>8, ContextType DEF ProcessData, Handles
        <5>4. PICK T : T = {y.handle : y \in pool}
          OBVIOUS
        <5>5. T \subseteq Nat /\ T # {}
          <6>1. PICK y \in pool : TRUE
            BY <4>2
          <6>2. y.handle \in T
            BY <5>4
          <6>3. \A z \in T : \E u \in pool : z = u.handle
            BY <5>4
          <6> QED
            BY <5>3, <6>2, <6>3
        <5>6. PICK z \in T : \A y \in T : z <= y
          BY <5>5, HasLeast
        <5>7. \E y \in pool : \A u \in pool : y.handle <= u.handle
          BY <5>4, <5>6
        <5>8. x \in pool
          BY <5>1, <5>7
        <5>9. x \in d.process_recycler
          BY <1>6, <5>8
        <5> QED
          BY <1>4, <1>7, <1>8, <5>2, <5>9, Facts, RecycleProcess
      <4> QED
        BY <4>1, <4>2
    <3>2. Sound(c2, now + 1, now + 1) /\ Grows(d, c2, now) /\ c2 \in Context
      BY <3>1 DEF ProcessAddition, Sound
    <3>3. Grows(ctx, c2, now)
      BY <1>7, <1>8, <3>2, Facts, GrowsTrans
    <3> QED
      BY <1>7, <1>8, <3>1, <3>2, <3>3 DEF ProcessAddition, Started, SameThreads
  <2> QED
    BY <2>1, <2>2
<1>10. Tracked(c2, o2, now + 1)
  BY <1>1, <1>3, <1>9, Facts, ProcessStarted
<1> QED
  BY <1>4, <1>9, <1>10, KernelStep DEF Started


LEMMA ProcessEndStep ==
  ASSUME IInv, ProcessEnd
  PROVE  IInv'
<1>1. PICK pid \in Pids :
        /\ \A t \in Tids : os.thr[t].pid # pid
        /\ KernelEvent("kernel", handle_process_end(ctx, pid),
                       [os EXCEPT !.proc[pid] = NoProcess])
  BY DEF ProcessEnd
<1>2. PICK c2 : c2 = handle_process_end(ctx, pid)
  OBVIOUS
<1>3. PICK v : v = NoProcess
  OBVIOUS
<1>4. PICK o2 : o2 = [os EXCEPT !.proc[pid] = v]
  OBVIOUS
<1>5. KernelEvent("kernel", c2, o2)
  BY <1>1, <1>2, <1>3, <1>4
<1>6. v \in [alive : BOOLEAN, entry : Nat] /\ ~v.alive
  BY <1>3 DEF NoProcess
<1>7. PICK i : i = ctx.processes.by_id[pid]
  OBVIOUS
<1>8. /\ Sound(c2, now + 1, now + 1) /\ Grows(ctx, c2, now) /\ SameThreads(ctx, c2)
      /\ c2.processes.by_id = ctx.processes.by_id
  <2>1. CASE i = 0 \/ ~ctx.processes.entries[i].recycles
    <3>1. c2 = ctx
      BY <1>2, <1>7, <2>1 DEF handle_process_end
    <3> QED
      BY <3>1, Facts DEF SameThreads
  <2>2. CASE ~(i = 0 \/ ~ctx.processes.entries[i].recycles)
    <3>1. i \in 1 .. Len(ctx.processes.entries)
      <4>1. ctx \in Context /\ TableSound(ctx.processes, Pids, now, now + 1)
        BY Facts DEF Sound
      <4>2. ctx.processes.by_id[pid] \in 0 .. Len(ctx.processes.entries)
        BY <4>1 DEF TableSound
      <4>3. Len(ctx.processes.entries) \in Nat
        BY <4>1, ContextType
      <4> QED
        BY <1>7, <2>2, <4>2, <4>3
    <3>2. PICK e : e = ctx.processes.entries[i]
      OBVIOUS
    <3>3. e \in ProcessEntry /\ Owns(ctx, e)
      BY <3>1, <3>2, Facts, ContextType DEF Sound, OwnersSound
    <3>4. PICK e2 : e2 = [e EXCEPT !.recycles = FALSE, !.pool = EmptyBag]
      OBVIOUS
    <3>5. PICK data : data = [name |-> e.name, handle |-> e.handle, main |-> e.main,
                              pool |-> e.pool]
      OBVIOUS
    <3>6. PICK R : R = ctx.process_recycler \cup {data}
      OBVIOUS
    <3>7. PICK en : en = [ctx.processes.entries EXCEPT ![i] = e2]
      OBVIOUS
    <3>8. PICK tab2 : tab2 = [ctx.processes EXCEPT !.entries = en]
      BY Zenon
    <3>9. c2 = [ctx EXCEPT !.processes.entries[i].recycles = FALSE,
                           !.processes.entries[i].pool = EmptyBag,
                           !.process_recycler = R]
      BY Zenon, <1>2, <1>7, <2>2, <3>2, <3>5, <3>6 DEF handle_process_end
    <3>10. c2 = [ctx EXCEPT !.processes = tab2, !.process_recycler = R]
      <4>0. ctx \in Context
        BY Facts
      <4>1. /\ ctx.processes.entries \in Seq(ProcessEntry)
            /\ ctx.processes \in [entries : Seq(ProcessEntry), by_id : [Pids -> Nat]]
        BY <4>0 DEF Context
      <4>2. c2.processes.entries = [[ctx.processes.entries EXCEPT ![i].recycles = FALSE]
                                      EXCEPT ![i].pool = EmptyBag]
        BY <3>9, <4>1, <4>0 DEF Context
      <4>3. [[ctx.processes.entries EXCEPT ![i].recycles = FALSE] EXCEPT ![i].pool = EmptyBag]
              = en
        BY <3>1, <3>2, <3>3, <3>4, <3>7, <4>1 DEF ProcessEntry
      <4>4. c2.processes = tab2
        BY ZenonT(30), <3>8, <3>9, <4>1, <4>2, <4>3, <4>0 DEF Context
      <4>5. PICK a : a = [ctx EXCEPT !.processes.entries[i].recycles = FALSE]
        OBVIOUS
      <4>6. PICK b : b = [a EXCEPT !.processes.entries[i].pool = EmptyBag]
        OBVIOUS
      <4>7. a = [ctx EXCEPT !.processes = a.processes]
        BY <4>0, <4>5 DEF Context
      <4>8. b = [a EXCEPT !.processes = b.processes]
        BY <4>0, <4>5, <4>6 DEF Context
      <4>9. c2 = [b EXCEPT !.process_recycler = R]
        BY <3>9, <4>5, <4>6
      <4> QED
        BY <4>0, <4>4, <4>7, <4>8, <4>9 DEF Context
    <3>11. /\ e2 \in ProcessEntry /\ SameProcess(ctx.processes.entries[i], e2)
           /\ e2.pool = EmptyBag
      BY <3>2, <3>3, <3>4, PoolEmpty DEF ProcessEntry, SameProcess
    <3>12. Owns(ctx, e2)
      BY <3>2, <3>3, <3>11, PoolEmpty DEF Owns, SameProcess
    <3>13. data \in ProcessData /\ Owns(ctx, data)
      BY <3>3, <3>5 DEF ProcessEntry, ProcessData, Owns
    <3>14. R \subseteq ProcessData /\ \A x \in R : Owns(ctx, x)
      BY <3>6, <3>13, Facts, ContextType DEF Sound, OwnersSound
    <3>15. ProcessUpdate(ctx, c2, now, now + 1, now + 1, i, e2)
      BY Zenon, <3>1, <3>7, <3>8, <3>10, <3>11, <3>12, <3>14, Facts, ProcessUpdated
    <3> QED
      BY <3>15 DEF ProcessUpdate
  <2> QED
    BY <2>1, <2>2
<1>9. c2 \in Context
  BY <1>8 DEF Sound
<1>10. Tracked(c2, o2, now + 1)
  BY <1>1, <1>4, <1>6, <1>8, <1>9, Facts, ProcessEvent
<1> QED
  BY <1>5, <1>8, <1>10, KernelStep

-----------------------------------------------------------------------------
(* Handlers of threads                                                     *)

\* What an event about thread tid leaves behind.
ThreadsKept(c, d, tid) ==
  /\ d.processes.by_id = c.processes.by_id
  /\ \A t \in Tids : t # tid => d.threads.by_id[t] = c.threads.by_id[t]
  /\ \A k \in 1 .. Len(c.threads.entries) : c.threads.entries[k].id # tid =>
       d.threads.entries[k].handle = c.threads.entries[k].handle
  /\ \A x \in d.thread_handles : x.tid # tid => x \in c.thread_handles

LEMMA ThreadEvent ==
  ASSUME NEW c, NEW d \in Context, NEW n \in Nat, Sound(c, n, n), Grows(c, d, n),
         NEW o, Tracked(c, o, n), NEW tid \in Tids, ThreadsKept(c, d, tid),
         NEW v \in [pid : Pids \cup {0}, entry : Nat],
         NEW o2, o2 = [o EXCEPT !.thr[tid] = v], ThreadTracked(d, o2, tid, n + 1)
  PROVE  Tracked(d, o2, n + 1)
<1>1. o \in Machine /\ c \in Context
  BY DEF Tracked, Sound
<1>2. /\ o2 \in Machine /\ o2.proc = o.proc
      /\ \A t \in Tids : t # tid => o2.thr[t] = o.thr[t]
  BY <1>1 DEF Machine
<1>3. ASSUME NEW t \in Tids, t # tid PROVE ThreadTracked(d, o2, t, n + 1)
  <2>1. ASSUME o.thr[t].entry # 0
        PROVE  d.threads.entries[o.thr[t].entry].handle
                 = c.threads.entries[o.thr[t].entry].handle
    <3>1. PICK k : k = o.thr[t].entry
      OBVIOUS
    <3>2. c.threads.by_id[t] = k
      BY Zenon, <2>1, <3>1 DEF Tracked, ThreadTracked
    <3>3. k \in 1 .. Len(c.threads.entries) /\ c.threads.entries[k].id = t
      <4>1. TableSound(c.threads, Tids, n, n) /\ Len(c.threads.entries) \in Nat
        BY <1>1, ContextType DEF Sound
      <4> QED
        BY SMTT(30), <2>1, <3>1, <3>2, <4>1 DEF TableSound
    <3> QED
      BY Zenon, <1>3, <3>1, <3>3 DEF ThreadsKept
  <2>2. ThreadKept(c, d, o, o2, t)
    BY <1>2, <1>3, <2>1 DEF ThreadKept, ThreadsKept
  <2> QED
    BY <2>2, ThreadStays
<1>4. ASSUME NEW p \in Pids PROVE ProcessTracked(d, o2, p)
  BY <1>2 DEF ProcessTracked, Tracked, ThreadsKept
<1> QED
  BY <1>2, <1>3, <1>4 DEF Tracked

\* Whether or not the thread gets an entry, it is tracked.
ThreadStarted(c, c2, n, tid, pid) ==
  /\ Sound(c2, n + 1, n + 1) /\ Grows(c, c2, n) /\ ThreadsKept(c, c2, tid)
  /\ \/ /\ Len(c2.threads.entries) = Len(c.threads.entries)
        /\ c2.threads.by_id[tid] = 0
     \/ LET k == Len(c.threads.entries) + 1
            i == c.processes.by_id[pid]
            h == c2.threads.entries[k].handle
        IN  /\ Len(c2.threads.entries) = k /\ c2.threads.by_id[tid] = k
            /\ [tid |-> tid, time |-> n + 1, handle |-> h] \in c2.thread_handles
            /\ i # 0 /\ h <= Len(c2.owner)
            /\ c2.owner[h] = c2.processes.entries[i].handle

LEMMA ThreadStartTracked ==
  ASSUME NEW n \in Nat, Sound(ctx, n, n), Tracked(ctx, os, n), NEW tid \in Tids,
         NEW pid \in Pids, os.proc[pid].alive, NEW c2, ThreadStarted(ctx, c2, n, tid, pid)
  PROVE  Tracked(c2, ThreadStarts(c2, tid, pid), n + 1)
<1>1. PICK k : k = NewEntry(ctx.threads.entries, c2.threads.entries)
  OBVIOUS
<1>2. PICK v : v = [pid |-> pid, entry |-> k]
  OBVIOUS
<1>3. PICK o2 : o2 = [os EXCEPT !.thr[tid] = v]
  OBVIOUS
<1>4. o2 = ThreadStarts(c2, tid, pid)
  BY <1>1, <1>2, <1>3 DEF ThreadStarts
<1>5. /\ c2 \in Context /\ ctx \in Context /\ os \in Machine
      /\ Len(ctx.threads.entries) \in Nat
  BY ContextType DEF ThreadStarted, Sound, Tracked
<1>6. k \in Nat /\ c2.threads.by_id[tid] = k
  BY <1>1, <1>5 DEF NewEntry, ThreadStarted
<1>7. v \in [pid : Pids \cup {0}, entry : Nat] /\ v.pid = pid /\ v.entry = k
  BY <1>2, <1>6
<1>8. o2.thr[tid] = v /\ o2.proc = os.proc /\ pid # 0
  BY <1>3, <1>5, EtwTablesAssumption DEF Machine
<1>9. os.proc[pid].entry = ctx.processes.by_id[pid]
  BY DEF Tracked, ProcessTracked
<1>10. ThreadTracked(c2, o2, tid, n + 1)
  <2>1. CASE k = 0
    BY <1>6, <1>7, <1>8, <2>1 DEF ThreadTracked
  <2>2. CASE k # 0
    <3>1. PICK h : h = c2.threads.entries[k].handle
      OBVIOUS
    <3>2. PICK i : i = ctx.processes.by_id[pid]
      OBVIOUS
    <3>3. PICK x : x = [tid |-> tid, time |-> n + 1, handle |-> h]
      OBVIOUS
    <3>4. /\ x \in c2.thread_handles /\ i # 0 /\ h <= Len(c2.owner)
          /\ c2.owner[h] = c2.processes.entries[i].handle
      BY <1>5, <1>6, <2>2, <3>1, <3>2, <3>3 DEF ThreadStarted
    <3>5. x.tid = tid /\ x.time = n + 1 /\ x.handle = h /\ n + 1 <= n + 1
      BY <3>3
    <3>6. HandleAt(c2.thread_handles, tid, n + 1, h)
      BY <3>4, <3>5 DEF HandleAt
    <3> QED
      BY <1>6, <1>7, <1>8, <1>9, <3>1, <3>2, <3>4, <3>6 DEF ThreadTracked
  <2> QED
    BY <2>1, <2>2
<1>11. Tracked(c2, o2, n + 1)
  BY SMTT(30), <1>3, <1>5, <1>7, <1>10, ThreadEvent DEF ThreadStarted
<1> QED
  BY <1>4, <1>11


\* The table of threads is ready for a new entry of tid.
Ready(c, d, n, tid) ==
  /\ Sound(d, n, n + 1) /\ Grows(c, d, n) /\ SameProcesses(c, d)
  /\ d.thread_handles = c.thread_handles
  /\ Len(d.threads.entries) = Len(c.threads.entries)
  /\ d.threads.by_id[tid] = 0
  /\ \A t \in Tids : t # tid => d.threads.by_id[t] = c.threads.by_id[t]
  /\ \A k \in 1 .. Len(c.threads.entries) :
       d.threads.entries[k].handle = c.threads.entries[k].handle

\* Handle h belongs to the profile process of entry i.
Prepared(d, b, n, i, h) ==
  /\ Sound(b, n, n + 1) /\ Grows(d, b, n) /\ SameThreads(d, b)
  /\ b.processes.by_id = d.processes.by_id
  /\ h \in Handles /\ h <= Len(b.owner) /\ b.owner[h] = d.processes.entries[i].handle

LEMMA ThreadAdded ==
  ASSUME NEW c \in Context, NEW n \in Nat, n < MaxTime, NEW tid \in Tids, NEW pid \in Pids,
         NEW i, i = c.processes.by_id[pid], i \in 1 .. Len(c.processes.entries),
         NEW name \in ThreadNames \cup {Empty, NoName},
         NEW d, Ready(c, d, n, tid), NEW b, NEW h, Prepared(d, b, n, i, h),
         NEW c2, c2 = add_thread(b, n + 1, tid, name, h)
  PROVE  ThreadStarted(c, c2, n, tid, pid)
<1>1. d \in Context /\ b \in Context
  BY DEF Ready, Prepared, Sound
<1>2. b.threads.by_id[tid] = 0 /\ h \in Handles /\ h <= Len(b.owner) /\ Sound(b, n, n + 1)
  BY DEF Ready, Prepared, SameThreads
<1>3. ThreadAddition(b, c2, n, tid, h)
  BY <1>2, AddThread
<1>4. c2 \in Context /\ Grows(b, c2, n) /\ Sound(c2, n + 1, n + 1) /\ SameProcesses(b, c2)
  BY <1>3 DEF ThreadAddition, Sound
<1>5. Grows(c, b, n)
  BY <1>1, GrowsTrans DEF Ready, Prepared
<1>6. Grows(c, c2, n)
  BY <1>1, <1>4, <1>5, GrowsTrans
<1>7. PICK m : m = Len(c.threads.entries)
  OBVIOUS
<1>8. /\ m \in Nat /\ Len(b.threads.entries) = m /\ Len(c2.threads.entries) = m + 1
      /\ c2.threads.by_id[tid] = m + 1 /\ c2.threads.entries[m + 1].handle = h
      /\ \A k \in 1 .. m : c2.threads.entries[k].handle = c.threads.entries[k].handle
      /\ \A t \in Tids : t # tid => c2.threads.by_id[t] = c.threads.by_id[t]
      /\ c2.thread_handles =
           c.thread_handles \cup {[tid |-> tid, time |-> n + 1, handle |-> h]}
  <2>1. m \in Nat
    BY <1>7, ContextType
  <2>2. b.threads = d.threads /\ b.thread_handles = d.thread_handles
    BY DEF Prepared, SameThreads
  <2>3. /\ d.thread_handles = c.thread_handles /\ Len(d.threads.entries) = m
        /\ \A t \in Tids : t # tid => d.threads.by_id[t] = c.threads.by_id[t]
        /\ \A k \in 1 .. m : d.threads.entries[k].handle = c.threads.entries[k].handle
    BY <1>7 DEF Ready
  <2>4. /\ c2.thread_handles =
             b.thread_handles \cup {[tid |-> tid, time |-> n + 1, handle |-> h]}
        /\ Len(c2.threads.entries) = Len(b.threads.entries) + 1
        /\ \A k \in 1 .. Len(b.threads.entries) : c2.threads.entries[k] = b.threads.entries[k]
        /\ c2.threads.entries[Len(b.threads.entries) + 1].handle = h
        /\ c2.threads.by_id[tid] = Len(b.threads.entries) + 1
        /\ \A t \in Tids : t # tid => c2.threads.by_id[t] = b.threads.by_id[t]
    BY <1>3 DEF ThreadAddition
  <2> QED
    BY <2>1, <2>2, <2>3, <2>4
<1>9. c2.processes.by_id = c.processes.by_id
  BY <1>4 DEF Ready, Prepared, SameProcesses
<1>10. ThreadsKept(c, c2, tid)
  BY <1>7, <1>8, <1>9 DEF ThreadsKept
<1>11. c2.owner[h] = c2.processes.entries[i].handle /\ h <= Len(c2.owner)
  <2>1. c2.owner = b.owner /\ c2.processes = b.processes
    BY <1>4 DEF SameProcesses
  <2>2. d.processes = c.processes
    BY DEF Ready, SameProcesses
  <2>3. b.processes.entries[i].handle = d.processes.entries[i].handle
    <3>1. Len(d.processes.entries) \in Nat /\ Len(b.processes.entries) \in Nat
      BY <1>1, ContextType
    <3>2. i \in 1 .. Len(d.processes.entries)
      BY <2>2
    <3>3. Len(d.processes.entries) <= Len(b.processes.entries)
      BY DEF Prepared, Grows, TableGrows
    <3>4. i \in 1 .. Len(b.processes.entries) /\ i <= Len(d.processes.entries)
      BY <3>1, <3>2, <3>3
    <3> QED
      BY <3>4 DEF Prepared, Grows
  <2> QED
    BY <2>1, <2>2, <2>3 DEF Prepared
<1>12. [tid |-> tid, time |-> n + 1, handle |-> h] \in c2.thread_handles /\ i # 0
  BY <1>8
<1> QED
  BY <1>4, <1>6, <1>7, <1>8, <1>10, <1>11, <1>12 DEF ThreadStarted

\* The main thread's handle.
LEMMA MainThread ==
  ASSUME NEW d, NEW n \in Nat, Sound(d, n, n + 1), NEW i \in 1 .. Len(d.processes.entries),
         NEW b, b = [d EXCEPT !.processes.entries[i].seen_main = TRUE],
         NEW h, h = d.processes.entries[i].main
  PROVE  Prepared(d, b, n, i, h)
<1>1. d \in Context /\ n + 1 \in Nat
  BY DEF Sound
<1>2. PICK e : e = d.processes.entries[i]
  OBVIOUS
<1>3. e \in ProcessEntry /\ Owns(d, e)
  BY <1>1, <1>2, ContextType DEF Sound, OwnersSound
<1>4. PICK e2 : e2 = [e EXCEPT !.seen_main = TRUE]
  OBVIOUS
<1>5. PICK tab2 : tab2 = [d.processes EXCEPT !.entries = [d.processes.entries EXCEPT ![i] = e2]]
  OBVIOUS
<1>6. PICK R : R = d.process_recycler
  OBVIOUS
<1>7. b = [d EXCEPT !.processes = tab2, !.process_recycler = R]
  BY <1>1, <1>2, <1>4, <1>5, <1>6 DEF Context
<1>8. /\ e2 \in ProcessEntry /\ SameProcess(d.processes.entries[i], e2) /\ e2.pool = e.pool
      /\ e2.handle = e.handle /\ e2.main = e.main
  BY <1>2, <1>3, <1>4 DEF ProcessEntry, SameProcess
<1>9. Owns(d, e2)
  BY <1>3, <1>8 DEF Owns
<1>10. R \subseteq ProcessData /\ \A x \in R : Owns(d, x)
  BY <1>1, <1>6, ContextType DEF Sound, OwnersSound
<1>11. ProcessUpdate(d, b, n, n, n + 1, i, e2)
  BY Zenon, <1>1, <1>5, <1>7, <1>8, <1>9, <1>10, ProcessUpdated
<1>12. h \in Handles /\ h <= Len(d.owner) /\ d.owner[h] = e.handle
  BY <1>2, <1>3 DEF ProcessEntry, Owns
<1> QED
  BY <1>2, <1>11, <1>12 DEF ProcessUpdate, Prepared

\* A handle that was just made.
LEMMA NewThread ==
  ASSUME NEW d, NEW n \in Nat, Sound(d, n, n + 1), NEW i \in 1 .. Len(d.processes.entries),
         NEW b, b = [d EXCEPT !.owner = Append(@, d.processes.entries[i].handle)],
         NEW h, h = Len(d.owner) + 1
  PROVE  Prepared(d, b, n, i, h)
<1>1. d \in Context /\ n + 1 \in Nat
  BY DEF Sound
<1>2. PICK e : e = d.processes.entries[i]
  OBVIOUS
<1>3. e \in ProcessEntry /\ Owns(d, e)
  BY <1>1, <1>2, ContextType DEF Sound, OwnersSound
<1>4. PICK m : m = d.nprocesses
  OBVIOUS
<1>5. m \in Nat /\ d.nprocesses <= m /\ e.handle \in 1 .. m /\ Len(d.owner) \in Nat
  <2>1. m \in Nat /\ Len(d.owner) \in Nat
    BY <1>1, <1>4, ContextType
  <2>2. e.handle \in Nat /\ e.handle > 0 /\ e.handle <= m
    BY <1>3, <1>4 DEF ProcessEntry, Owns, Handles
  <2> QED
    BY <1>4, <2>1, <2>2
<1>6. b = [d EXCEPT !.nprocesses = m, !.owner = Append(@, e.handle)]
  BY <1>1, <1>2, <1>4 DEF Context
<1>7. ProfileGrowth(d, b, n, n, n + 1, m, e.handle)
  BY Zenon, <1>1, <1>5, <1>6, ProfileGrown
<1>8. h \in Handles /\ h <= Len(b.owner) /\ b.owner[h] = e.handle
  BY <1>5, <1>7 DEF ProfileGrowth, Handles
<1> QED
  BY <1>2, <1>7, <1>8 DEF ProfileGrowth, Prepared

\* A pool whose threads are all listed under the profile process of entry i.
PoolOf(d, i, p) ==
  /\ p \in Pools
  /\ \A x \in DOMAIN p : /\ x.handle <= Len(d.owner)
                         /\ d.owner[x.handle] = d.processes.entries[i].handle

LEMMA PoolReplaced ==
  ASSUME NEW d, NEW n \in Nat, NEW s \in Nat, NEW r \in Nat, Sound(d, s, r),
         NEW i \in 1 .. Len(d.processes.entries), NEW p, PoolOf(d, i, p),
         NEW b, b = [d EXCEPT !.processes.entries[i].pool = p]
  PROVE  \E e : ProcessUpdate(d, b, n, s, r, i, e)
<1>1. d \in Context
  BY DEF Sound
<1>2. PICK e : e = d.processes.entries[i]
  OBVIOUS
<1>3. e \in ProcessEntry /\ Owns(d, e)
  BY <1>1, <1>2, ContextType DEF Sound, OwnersSound
<1>4. PICK e2 : e2 = [e EXCEPT !.pool = p]
  OBVIOUS
<1>5. PICK tab2 : tab2 = [d.processes EXCEPT !.entries = [d.processes.entries EXCEPT ![i] = e2]]
  OBVIOUS
<1>6. PICK R : R = d.process_recycler
  OBVIOUS
<1>7. b = [d EXCEPT !.processes = tab2, !.process_recycler = R]
  BY <1>1, <1>2, <1>4, <1>5, <1>6 DEF Context
<1>8. /\ e2 \in ProcessEntry /\ SameProcess(d.processes.entries[i], e2) /\ e2.pool = p
      /\ e2.handle = e.handle /\ e2.main = e.main
  BY <1>2, <1>3, <1>4 DEF ProcessEntry, SameProcess, PoolOf
<1>9. Owns(d, e2)
  BY <1>2, <1>3, <1>8 DEF Owns, PoolOf
<1>10. R \subseteq ProcessData /\ \A x \in R : Owns(d, x)
  BY <1>1, <1>6, ContextType DEF Sound, OwnersSound
<1>11. ProcessUpdate(d, b, n, s, r, i, e2)
  BY Zenon, <1>1, <1>5, <1>7, <1>8, <1>9, <1>10, ProcessUpdated
<1> QED
  BY <1>11

\* A handle of the pool.
LEMMA RecycledThread ==
  ASSUME NEW d, NEW n \in Nat, Sound(d, n, n + 1), NEW i \in 1 .. Len(d.processes.entries),
         NEW data \in DOMAIN d.processes.entries[i].pool,
         NEW b, b = [d EXCEPT !.processes.entries[i].pool = PoolWithout(@, data)],
         NEW h, h = data.handle
  PROVE  Prepared(d, b, n, i, h)
<1>1. d \in Context /\ n + 1 \in Nat
  BY DEF Sound
<1>2. PICK e : e = d.processes.entries[i]
  OBVIOUS
<1>3. e \in ProcessEntry /\ Owns(d, e) /\ e.pool \in Pools
  BY <1>1, <1>2, ContextType DEF Sound, OwnersSound, ProcessEntry
<1>4. PICK p : p = PoolWithout(e.pool, data)
  OBVIOUS
<1>5. p \in Pools /\ DOMAIN p \subseteq DOMAIN e.pool
  BY <1>3, <1>4, PoolTake
<1>6. \A x \in DOMAIN e.pool : x.handle <= Len(d.owner) /\ d.owner[x.handle] = e.handle
  BY <1>3 DEF Owns
<1>7. b = [d EXCEPT !.processes.entries[i].pool = p]
  BY <1>2, <1>4
<1>8. PoolOf(d, i, p)
  BY <1>2, <1>5, <1>6 DEF PoolOf
<1>9. PICK e2 : ProcessUpdate(d, b, n, n, n + 1, i, e2)
  BY <1>1, <1>5, <1>7, <1>8, PoolReplaced
<1>10. h \in Handles
  <2>1. data \in ThreadData
    BY <1>2, <1>3, PoolDomain
  <2> QED
    BY <2>1 DEF ThreadData
<1> QED
  BY <1>2, <1>6, <1>9, <1>10 DEF ProcessUpdate, Prepared


LEMMA EntryOfProcess ==
  ASSUME NEW c, NEW n \in Nat, Sound(c, n, n), NEW pid \in Pids, c.processes.by_id[pid] # 0
  PROVE  c.processes.by_id[pid] \in 1 .. Len(c.processes.entries)
<1>1. TableSound(c.processes, Pids, n, n) /\ Len(c.processes.entries) \in Nat
  BY ContextType DEF Sound
<1> QED
  BY <1>1 DEF TableSound

LEMMA EntryOfThread ==
  ASSUME NEW c, NEW n \in Nat, Sound(c, n, n), NEW tid \in Tids, c.threads.by_id[tid] # 0
  PROVE  /\ c.threads.by_id[tid] \in 1 .. Len(c.threads.entries)
         /\ c.threads.entries[c.threads.by_id[tid]].id = tid
<1>1. TableSound(c.threads, Tids, n, n) /\ Len(c.threads.entries) \in Nat
  BY ContextType DEF Sound
<1> QED
  BY <1>1 DEF TableSound

LEMMA ThreadDCStartStep ==
  ASSUME IInv, ThreadDCStart
  PROVE  IInv'
<1>1. PICK tid \in Tids, pid \in Pids, ev \in ThreadNames \cup {Empty, NoName} :
        /\ os.thr[tid] = NoOsThread /\ os.proc[pid].alive
        /\ KernelEvent("rundown", handle_thread_dcstart(ctx, now + 1, tid, pid, ev),
             ThreadStarts(handle_thread_dcstart(ctx, now + 1, tid, pid, ev), tid, pid))
  BY DEF ThreadDCStart
<1>2. PICK c2 : c2 = handle_thread_dcstart(ctx, now + 1, tid, pid, ev)
  OBVIOUS
<1>3. PICK o2 : o2 = ThreadStarts(c2, tid, pid)
  OBVIOUS
<1>4. KernelEvent("rundown", c2, o2)
  BY <1>1, <1>2, <1>3
<1>5. RundownSound(ctx, os) /\ now < MaxTime
  BY <1>4, Facts DEF KernelEvent
<1>6. ctx.threads.by_id[tid] = 0
  BY <1>1, <1>5 DEF RundownSound, NoOsThread
<1>7. Ready(ctx, ctx, now, tid)
  BY <1>6, Facts DEF Ready, SameProcesses
<1>8. PICK i : i = ctx.processes.by_id[pid]
  OBVIOUS
<1>9. PICK name \in ThreadNames \cup {Empty, NoName} :
        name = IF ev = Empty THEN NoName ELSE ev
  OBVIOUS
<1>10. ThreadStarted(ctx, c2, now, tid, pid)
  <2>1. CASE c2 = ctx
    <3>1. ThreadsKept(ctx, c2, tid)
      BY <2>1 DEF ThreadsKept
    <3> QED
      BY <1>6, <2>1, <3>1, Facts DEF ThreadStarted
  <2>2. CASE i # 0 /\ ~ctx.processes.entries[i].seen_main
    <3>1. i \in 1 .. Len(ctx.processes.entries)
      BY <1>8, <2>2, Facts, EntryOfProcess
    <3>2. PICK b : b = [ctx EXCEPT !.processes.entries[i].seen_main = TRUE]
      OBVIOUS
    <3>3. PICK h : h = ctx.processes.entries[i].main
      OBVIOUS
    <3>4. c2 = add_thread(b, now + 1, tid, name, h)
      BY <1>2, <1>8, <1>9, <2>2, <3>2, <3>3 DEF handle_thread_dcstart, add_main_thread
    <3>5. Prepared(ctx, b, now, i, h)
      BY <3>1, <3>2, <3>3, Facts, MainThread
    <3> QED
      BY <1>5, <1>7, <1>8, <3>1, <3>4, <3>5, Facts, ThreadAdded
  <2>3. CASE i # 0 /\ ctx.processes.entries[i].seen_main /\ ~ctx.main_thread_only
    <3>1. i \in 1 .. Len(ctx.processes.entries)
      BY <1>8, <2>3, Facts, EntryOfProcess
    <3>2. PICK b : b = [ctx EXCEPT !.owner = Append(@, ctx.processes.entries[i].handle)]
      OBVIOUS
    <3>3. PICK h : h = Len(ctx.owner) + 1
      OBVIOUS
    <3>4. c2 = add_thread(b, now + 1, tid, name, h)
      BY <1>2, <1>8, <1>9, <2>3, <3>2, <3>3 DEF handle_thread_dcstart, add_new_thread
    <3>5. Prepared(ctx, b, now, i, h)
      BY <3>1, <3>2, <3>3, Facts, NewThread
    <3> QED
      BY <1>5, <1>7, <1>8, <3>1, <3>4, <3>5, Facts, ThreadAdded
  <2> QED
    BY <1>2, <1>8, <2>1, <2>2, <2>3 DEF handle_thread_dcstart
<1>11. Tracked(c2, o2, now + 1)
  BY <1>1, <1>3, <1>10, Facts, ThreadStartTracked
<1>12. RundownSound(c2, o2)
  <2>1. /\ o2.proc = os.proc /\ o2.thr[tid].pid = pid /\ pid # 0
        /\ \A t \in Tids : t # tid => o2.thr[t] = os.thr[t]
    BY <1>3, Facts, EtwTablesAssumption DEF ThreadStarts, Machine
  <2> QED
    BY <1>5, <1>10, <2>1 DEF RundownSound, ThreadStarted, ThreadsKept
<1> QED
  BY <1>4, <1>10, <1>11, <1>12, KernelStep DEF ThreadStarted

LEMMA ThreadStartStep ==
  ASSUME IInv, ThreadStart
  PROVE  IInv'
<1>1. PICK tid \in Tids, pid \in Pids, name \in ThreadNames \cup {Empty, NoName} :
        /\ os.proc[pid].alive
        /\ KernelEvent("kernel", handle_thread_start(ctx, now + 1, tid, pid, name),
             ThreadStarts(handle_thread_start(ctx, now + 1, tid, pid, name), tid, pid))
  BY DEF ThreadStart
<1>2. PICK c2 : c2 = handle_thread_start(ctx, now + 1, tid, pid, name)
  OBVIOUS
<1>3. PICK o2 : o2 = ThreadStarts(c2, tid, pid)
  OBVIOUS
<1>4. KernelEvent("kernel", c2, o2) /\ now < MaxTime
  BY <1>1, <1>2, <1>3 DEF KernelEvent
<1>5. PICK d : d = [ctx EXCEPT !.threads = notify_created(@, tid, now + 1)]
  OBVIOUS
<1>6. ThreadNotification(ctx, d, now, tid)
  BY <1>4, <1>5, Facts, NotifyThreads
<1>7. Ready(ctx, d, now, tid) /\ d \in Context /\ Sound(d, now, now + 1)
  <2>1. /\ d.threads.by_id[tid] = 0
        /\ \A t \in Tids : t # tid => d.threads.by_id[t] = ctx.threads.by_id[t]
    BY <1>6, Facts, ContextType DEF ThreadNotification
  <2> QED
    BY <1>6, <2>1 DEF ThreadNotification, Ready, Sound
<1>8. PICK i : i = ctx.processes.by_id[pid]
  OBVIOUS
<1>9. /\ d.processes = ctx.processes /\ d.main_thread_only = ctx.main_thread_only
      /\ i = d.processes.by_id[pid]
  BY <1>7, <1>8 DEF Ready, SameProcesses
<1>10. PICK p : p = d.processes.entries[i].pool
  OBVIOUS
<1>11. ThreadStarted(ctx, c2, now, tid, pid)
  <2>1. CASE c2 = d
    <3>1. ThreadsKept(ctx, c2, tid)
      BY <1>7, <1>9, <2>1 DEF ThreadsKept, Ready
    <3>2. Sound(c2, now + 1, now + 1)
      BY <1>7, <2>1, Facts, SoundLater
    <3> QED
      BY <1>7, <2>1, <3>1, <3>2 DEF ThreadStarted, Ready
  <2>2. ASSUME i # 0, NEW b, NEW h, Prepared(d, b, now, i, h),
               NEW nm \in ThreadNames \cup {Empty, NoName},
               c2 = add_thread(b, now + 1, tid, nm, h)
        PROVE  ThreadStarted(ctx, c2, now, tid, pid)
    <3>1. i \in 1 .. Len(ctx.processes.entries)
      BY <1>8, <2>2, Facts, EntryOfProcess
    <3> QED
      BY <1>4, <1>7, <1>8, <2>2, <3>1, Facts, ThreadAdded
  <2>3. i # 0 => i \in 1 .. Len(d.processes.entries)
    BY <1>8, <1>9, Facts, EntryOfProcess
  <2>4. CASE i # 0 /\ ~d.processes.entries[i].seen_main
    <3>1. PICK b : b = [d EXCEPT !.processes.entries[i].seen_main = TRUE]
      OBVIOUS
    <3>2. PICK h : h = d.processes.entries[i].main
      OBVIOUS
    <3>3. c2 = add_thread(b, now + 1, tid, name, h)
      BY <1>2, <1>5, <1>8, <1>9, <2>4, <3>1, <3>2 DEF handle_thread_start, add_main_thread
    <3>4. Prepared(d, b, now, i, h)
      BY <1>7, <2>3, <2>4, <3>1, <3>2, Facts, MainThread
    <3> QED
      BY <2>2, <2>4, <3>3, <3>4
  <2>5. CASE /\ i # 0 /\ d.processes.entries[i].seen_main /\ ~d.main_thread_only
             /\ OfName(p, name) = {}
    <3>1. PICK b : b = [d EXCEPT !.owner = Append(@, d.processes.entries[i].handle)]
      OBVIOUS
    <3>2. PICK h : h = Len(d.owner) + 1
      OBVIOUS
    <3>3. c2 = add_thread(b, now + 1, tid, name, h)
      BY <1>2, <1>5, <1>8, <1>9, <1>10, <2>5, <3>1, <3>2 DEF handle_thread_start, add_new_thread
    <3>4. Prepared(d, b, now, i, h)
      BY <1>7, <2>3, <2>5, <3>1, <3>2, Facts, NewThread
    <3> QED
      BY <2>2, <2>5, <3>3, <3>4
  <2>6. CASE /\ i # 0 /\ d.processes.entries[i].seen_main /\ ~d.main_thread_only
             /\ OfName(p, name) # {}
    <3>1. PICK data : data = LeastOfName(p, name)
      OBVIOUS
    <3>2. PICK b : b = [d EXCEPT !.processes.entries[i].pool = PoolWithout(@, data)]
      BY Zenon
    <3>3. PICK h : h = data.handle
      OBVIOUS
    <3>4. c2 = add_thread(b, now + 1, tid, data.name, h)
      BY Zenon, <1>2, <1>5, <1>8, <1>9, <1>10, <2>6, <3>1, <3>2, <3>3
         DEF handle_thread_start, recycle_thread
    <3>5. p \in Pools
      BY <1>7, <1>10, <2>3, <2>6, ContextType DEF ProcessEntry
    <3>6. data \in DOMAIN p /\ data \in ThreadData
      BY <2>6, <3>1, <3>5, PoolLeast, PoolDomain
    <3>7. data.name \in ThreadNames \cup {Empty, NoName}
      BY <3>6 DEF ThreadData
    <3>8. Prepared(d, b, now, i, h)
      BY <1>7, <1>10, <2>3, <2>6, <3>2, <3>3, <3>6, Facts, RecycledThread
    <3> QED
      BY <2>2, <2>6, <3>4, <3>7, <3>8
  <2>7. i = 0 \/ (d.processes.entries[i].seen_main /\ d.main_thread_only) => c2 = d
    BY <1>2, <1>5, <1>8, <1>9 DEF handle_thread_start
  <2> QED
    BY <2>1, <2>4, <2>5, <2>6, <2>7
<1>12. Tracked(c2, o2, now + 1)
  BY <1>1, <1>3, <1>11, Facts, ThreadStartTracked
<1> QED
  BY <1>4, <1>11, <1>12, KernelStep DEF ThreadStarted


\* A thread that runs, or ends, may go back to the pool of its process.
LEMMA WithThreadOwned ==
  ASSUME NEW c, NEW o, NEW n \in Nat, Sound(c, n, n), Tracked(c, o, n), NEW tid \in Tids,
         o.thr[tid].pid # 0, NEW k, k = c.threads.by_id[tid], k # 0,
         NEW i, i = c.processes.by_id[o.thr[tid].pid], i \in 1 .. Len(c.processes.entries),
         NEW p, p = WithThread(c.processes.entries[i].pool, c.threads.entries[k])
  PROVE  PoolOf(c, i, p)
<1>1. c \in Context /\ o \in Machine
  BY ZenonT(30) DEF Sound, Tracked
<1>2. PICK e : e = c.threads.entries[k]
  BY ZenonT(30)
<1>3. PICK q : q = c.processes.entries[i]
  BY ZenonT(30)
<1>4. e \in ThreadEntry
  BY ZenonT(30), <1>1, <1>2, EntryOfThread, ContextType
<1>5. q.pool \in Pools /\ Owns(c, q)
  BY ZenonT(30), <1>1, <1>3, ContextType DEF ProcessEntry, Sound, OwnersSound
<1>6. \A x \in DOMAIN q.pool : x.handle <= Len(c.owner) /\ c.owner[x.handle] = q.handle
  BY ZenonT(30), <1>5 DEF Owns
<1>7. e.handle <= Len(c.owner) /\ c.owner[e.handle] = q.handle
  <2>1. o.thr[tid].pid \in Pids
    BY ZenonT(30), <1>1 DEF Machine
  <2>2. o.thr[tid].entry = k /\ o.proc[o.thr[tid].pid].alive
    BY ZenonT(30) DEF Tracked, ThreadTracked
  <2>3. o.proc[o.thr[tid].pid].entry = i
    BY ZenonT(30), <2>1, <2>2 DEF Tracked, ProcessTracked
  <2> QED
    BY ZenonT(30), <1>2, <1>3, <2>2, <2>3 DEF Tracked, ThreadTracked
<1>8. CASE e.name = NoName
  <2>1. p = q.pool
    BY <1>2, <1>3, <1>8 DEF WithThread
  <2> QED
    BY Zenon, <1>3, <1>5, <1>6, <2>1 DEF PoolOf
<1>9. CASE e.name # NoName
  <2>1. PICK d : d = [name |-> e.name, handle |-> e.handle]
    BY ZenonT(30)
  <2>2. d \in ThreadData /\ d.handle = e.handle
    BY ZenonT(30), <1>4, <1>9, <2>1 DEF ThreadEntry, ThreadData
  <2>3. p = PoolWith(q.pool, d)
    BY Zenon, <1>2, <1>3, <1>9, <2>1 DEF WithThread
  <2>4. p \in Pools /\ DOMAIN p = DOMAIN q.pool \cup {d}
    BY <1>5, <2>2, <2>3, PoolAdd
  <2> QED
    BY ZenonT(30), <1>3, <1>6, <1>7, <2>2, <2>4 DEF PoolOf
<1> QED
  BY ZenonT(30), <1>8, <1>9

\* A running thread has a process.
LEMMA Running ==
  ASSUME NEW c, NEW o, NEW n, Tracked(c, o, n), NEW tid \in Tids, o.thr[tid] # NoOsThread
  PROVE  o.thr[tid].pid \in Pids /\ o.thr[tid].pid # 0
<1>1. o.thr[tid] \in [pid : Pids \cup {0}, entry : Nat]
  BY DEF Tracked, Machine
<1>2. ThreadTracked(c, o, tid, n)
  BY DEF Tracked
<1>3. CASE o.thr[tid].pid = 0
  <2>1. o.thr[tid].entry = 0
    BY <1>2, <1>3 DEF ThreadTracked
  <2> QED
    BY <1>1, <1>3, <2>1 DEF NoOsThread
<1> QED
  BY <1>1, <1>3

\* The entry of a thread becomes e, and X its handle if that is new.
ThreadUpdate(b, d, n, k, e, X) ==
  /\ Sound(d, n + 1, n + 1) /\ Grows(b, d, n) /\ SameProcesses(b, d)
  /\ d.threads.by_id = b.threads.by_id
  /\ d.thread_handles = b.thread_handles \cup X
  /\ Len(d.threads.entries) = Len(b.threads.entries)
  /\ \A j \in 1 .. Len(b.threads.entries) :
       d.threads.entries[j] = IF j = k THEN e ELSE b.threads.entries[j]

LEMMA ThreadUpdated ==
  ASSUME NEW b, NEW n \in Nat, Sound(b, n, n), NEW k \in 1 .. Len(b.threads.entries),
         NEW e \in ThreadEntry, e.id = b.threads.entries[k].id,
         e.start = b.threads.entries[k].start, e.reused = b.threads.entries[k].reused,
         e.pending = b.threads.entries[k].pending,
         NEW X, X \subseteq ThreadHandle, \A x \in X : x.time = n + 1 /\ x.handle <= Len(b.owner),
         \A x, y \in X : x = y,
         NEW tab2, tab2 = [b.threads EXCEPT !.entries = [b.threads.entries EXCEPT ![k] = e]],
         NEW d, d = [b EXCEPT !.threads = tab2, !.thread_handles = b.thread_handles \cup X]
  PROVE  ThreadUpdate(b, d, n, k, e, X)
<1>1. PICK tab : tab = b.threads
  OBVIOUS
<1>2. PICK en : en = [tab.entries EXCEPT ![k] = e]
  OBVIOUS
<1>3. tab2 = [tab EXCEPT !.entries = en]
  BY <1>1, <1>2
<1>4. b \in Context /\ HandlesSound(b, n) /\ TableSound(tab, Tids, n, n) /\ n + 1 \in Nat
  BY <1>1 DEF Sound
<1>5. tab \in [entries : Seq(ThreadEntry), by_id : [Tids -> Nat]]
  BY <1>1, <1>4 DEF Context
<1>6. tab.entries \in Seq(ThreadEntry) /\ k \in 1 .. Len(tab.entries)
  BY <1>1, <1>5
<1>7. /\ en \in Seq(ThreadEntry) /\ Len(en) = Len(tab.entries) /\ Len(tab.entries) \in Nat
      /\ \A j \in 1 .. Len(tab.entries) : en[j] = IF j = k THEN e ELSE tab.entries[j]
  BY <1>2, <1>6
<1>8. /\ tab2.entries = en /\ tab2.by_id = tab.by_id
      /\ tab2 \in [entries : Seq(ThreadEntry), by_id : [Tids -> Nat]]
  BY <1>3, <1>5, <1>7
<1>9. /\ d \in Context /\ d.threads = tab2 /\ d.thread_handles = b.thread_handles \cup X
      /\ SameProcesses(b, d)
  BY <1>4, <1>8 DEF Context, SameProcesses
<1>10. TableSound(tab2, Tids, n + 1, n + 1) /\ TableGrows(tab, tab2, n)
  <2>1. \A j \in 1 .. Len(tab.entries) : /\ tab2.entries[j].id = tab.entries[j].id
                                         /\ tab2.entries[j].start = tab.entries[j].start
                                         /\ tab2.entries[j].reused = tab.entries[j].reused
    BY <1>1, <1>7, <1>8
  <2>2. tab2.by_id = tab.by_id /\ Len(tab2.entries) = Len(tab.entries)
        /\ Len(tab.entries) \in Nat
    BY <1>7, <1>8
  <2>3. TableSound(tab2, Tids, n, n) /\ TableGrows(tab, tab2, n)
    BY <1>4, <2>1, <2>2, TableKept
  <2>4. n <= n + 1 /\ Len(tab2.entries) \in Nat
    BY <2>2
  <2> QED
    BY <1>4, <2>3, <2>4, TableLater
<1>11. HandlesSound(d, n + 1)
  <2>1. \A y \in b.thread_handles : y.time \in 1 .. n /\ y.handle <= Len(d.owner)
    BY <1>4, <1>9 DEF HandlesSound, SameProcesses
  <2>2. \A y \in X : y.time = n + 1 /\ y.handle <= Len(d.owner)
    BY <1>9 DEF SameProcesses
  <2>3. \A y \in d.thread_handles : y \in X \/ y \in b.thread_handles
    BY <1>9
  <2>4. \A y, z \in b.thread_handles : y.tid = z.tid /\ y.time = z.time => y = z
    BY <1>4 DEF HandlesSound
  <2>5. \A y \in d.thread_handles : y.time \in 1 .. n + 1 /\ y.handle <= Len(d.owner)
    BY <2>1, <2>2, <2>3
  <2>6. \A y, z \in d.thread_handles : y.tid = z.tid /\ y.time = z.time => y = z
    BY <2>1, <2>2, <2>3, <2>4
  <2> QED
    BY <2>5, <2>6 DEF HandlesSound
<1>12. ThreadsStep(b, d, n, n + 1, n + 1)
  <2>1. \A j \in 1 .. Len(d.threads.entries) :
          d.threads.entries[j].pending =
            IF j <= Len(b.threads.entries) THEN b.threads.entries[j].pending ELSE 0
    BY <1>1, <1>7, <1>8, <1>9
  <2>2. /\ b.thread_handles \subseteq d.thread_handles
        /\ \A x \in d.thread_handles \ b.thread_handles : x.time = n + 1
    BY <1>9
  <2>3. /\ TableSound(d.threads, Tids, n + 1, n + 1)
        /\ TableGrows(b.threads, d.threads, n)
    BY <1>1, <1>9, <1>10
  <2> QED
    BY <1>9, <1>11, <2>1, <2>2, <2>3 DEF ThreadsStep
<1>13. Sound(d, n + 1, n + 1) /\ Grows(b, d, n)
  <2>1. n <= n + 1
    OBVIOUS
  <2> QED
    BY <1>4, <1>12, <2>1, ThreadsChanged
<1> QED
  BY <1>1, <1>7, <1>8, <1>9, <1>13 DEF ThreadUpdate


LEMMA StillTracked ==
  ASSUME NEW c, NEW o, NEW n \in Nat, Sound(c, n, n), Tracked(c, o, n)
  PROVE  Tracked(c, o, n + 1)
<1>1. c \in Context
  BY DEF Sound
<1>2. Grows(c, c, n)
  BY <1>1, GrowsSame
<1>3. ASSUME NEW t \in Tids PROVE ThreadTracked(c, o, t, n + 1)
  <2>1. ThreadKept(c, c, o, o, t)
    BY DEF ThreadKept
  <2> QED
    BY <1>1, <1>2, <2>1, ThreadStays
<1> QED
  BY <1>3 DEF Tracked

\* Thread tid, of entry k and in the process of entry i, gets entry e.
RenamedEntry(c, n, tid, k, i, e, X) ==
  /\ e \in ThreadEntry /\ e.id = c.threads.entries[k].id
  /\ e.start = c.threads.entries[k].start /\ e.reused = c.threads.entries[k].reused
  /\ e.pending = c.threads.entries[k].pending
  /\ e.handle <= Len(c.owner) /\ c.owner[e.handle] = c.processes.entries[i].handle
  /\ \/ X = {} /\ e.handle = c.threads.entries[k].handle
     \/ X = {[tid |-> tid, time |-> n + 1, handle |-> e.handle]}

LEMMA Renamed ==
  ASSUME NEW n \in Nat, n + 1 \in Times, Sound(ctx, n, n), Tracked(ctx, os, n),
         NEW tid \in Tids, os.thr[tid].pid # 0, NEW k, k = ctx.threads.by_id[tid], k # 0,
         NEW i \in 1 .. Len(ctx.processes.entries), NEW pid, pid = os.thr[tid].pid,
         i = ctx.processes.by_id[pid], NEW b, NEW q, ProcessUpdate(ctx, b, n, n, n, i, q),
         NEW e, NEW X, RenamedEntry(ctx, n, tid, k, i, e, X),
         NEW d, ThreadUpdate(b, d, n, k, e, X)
  PROVE  Sound(d, n + 1, n + 1) /\ Grows(ctx, d, n) /\ Tracked(d, os, n + 1)
<1>1. ctx \in Context /\ os \in Machine
  BY DEF Sound, Tracked
<1>2. /\ Sound(b, n, n) /\ Grows(ctx, b, n) /\ b.threads = ctx.threads
      /\ b.thread_handles = ctx.thread_handles /\ b.owner = ctx.owner
      /\ b.processes.by_id = ctx.processes.by_id /\ b \in Context
  BY SMTT(30) DEF ProcessUpdate, SameThreads, Sound
<1>3. k \in 1 .. Len(ctx.threads.entries) /\ ctx.threads.entries[k].id = tid
  BY SMTT(30), EntryOfThread
<1>4. \A x \in X : x.tid = tid
  BY DEF RenamedEntry
<1>5. /\ Sound(d, n + 1, n + 1) /\ Grows(b, d, n) /\ d \in Context /\ SameProcesses(b, d)
      /\ d.threads.by_id = ctx.threads.by_id /\ d.thread_handles = ctx.thread_handles \cup X
      /\ \A j \in 1 .. Len(ctx.threads.entries) :
           d.threads.entries[j] = IF j = k THEN e ELSE ctx.threads.entries[j]
  BY <1>2 DEF ThreadUpdate, Sound
<1>6. Grows(ctx, d, n)
  BY SMTT(30), <1>1, <1>2, <1>5, GrowsTrans
<1>7. ThreadsKept(ctx, d, tid)
  BY <1>2, <1>3, <1>4, <1>5 DEF ThreadsKept, SameProcesses
<1>8. PICK v : v = os.thr[tid]
  OBVIOUS
<1>9. v \in [pid : Pids \cup {0}, entry : Nat] /\ os = [os EXCEPT !.thr[tid] = v]
  BY SMTT(30), <1>1, <1>8 DEF Machine
<1>10. ThreadTracked(d, os, tid, n + 1)
  <2>1. CASE X = {} /\ e.handle = ctx.threads.entries[k].handle
    <3>1. os.thr[tid].entry = k
      BY ZenonT(30) DEF Tracked, ThreadTracked
    <3>2. ThreadKept(ctx, d, os, os, tid)
      BY <1>3, <1>5, <2>1, <3>1 DEF ThreadKept
    <3> QED
      BY <1>5, <1>6, <3>2, ThreadStays
  <2>2. CASE X = {[tid |-> tid, time |-> n + 1, handle |-> e.handle]}
    <3>1. /\ os.thr[tid].entry = k /\ os.proc[os.thr[tid].pid].alive
          /\ os.thr[tid].pid \in Pids
      BY ZenonT(30), <1>1 DEF Tracked, ThreadTracked, Machine
    <3>2. os.proc[os.thr[tid].pid].entry = i
      BY <3>1 DEF Tracked, ProcessTracked
    <3>3. PICK x : x = [tid |-> tid, time |-> n + 1, handle |-> e.handle]
      OBVIOUS
    <3>4. /\ x \in d.thread_handles /\ x.tid = tid /\ x.time = n + 1 /\ x.handle = e.handle
          /\ n + 1 <= n + 1
      BY <1>5, <2>2, <3>3
    <3>5. HandleAt(d.thread_handles, tid, n + 1, e.handle)
      BY <3>4 DEF HandleAt
    <3>6. d.threads.entries[k] = e
      BY <1>3, <1>5
    <3>7. /\ d.owner = ctx.owner /\ i # 0 /\ e.handle <= Len(ctx.owner)
          /\ ctx.owner[e.handle] = ctx.processes.entries[i].handle
      <4>1. d.owner = ctx.owner
        BY <1>2, <1>5 DEF SameProcesses
      <4>2. i # 0
        OBVIOUS
      <4>3. /\ e.handle <= Len(ctx.owner)
            /\ ctx.owner[e.handle] = ctx.processes.entries[i].handle
        BY Zenon DEF RenamedEntry
      <4> QED
        BY Zenon, <4>1, <4>2, <4>3
    <3>8. d.processes.entries[i].handle = ctx.processes.entries[i].handle
      <4>1. Len(ctx.processes.entries) \in Nat /\ Len(d.processes.entries) \in Nat
        BY SMTT(30), <1>1, <1>5, ContextType
      <4>2. Len(ctx.processes.entries) <= Len(d.processes.entries)
        BY <1>6 DEF Grows, TableGrows
      <4>3. i \in 1 .. Len(d.processes.entries) /\ i <= Len(ctx.processes.entries)
        BY <4>1, <4>2
      <4> QED
        BY Zenon, <1>6, <4>3 DEF Grows
    <3> QED
      BY ZenonT(30), <1>5, <3>1, <3>2, <3>5, <3>6, <3>7, <3>8 DEF ThreadTracked
  <2> QED
    BY <2>1, <2>2 DEF RenamedEntry
<1>11. Tracked(d, os, n + 1)
  BY <1>5, <1>6, <1>7, <1>9, <1>10, ThreadEvent
<1> QED
  BY <1>5, <1>6, <1>11

LEMMA ThreadEndStep ==
  ASSUME IInv, ThreadEnd
  PROVE  IInv'
<1>1. PICK tid \in Tids :
        /\ os.thr[tid] # NoOsThread
        /\ KernelEvent("kernel", handle_thread_end(ctx, os.thr[tid].pid, tid),
                       [os EXCEPT !.thr[tid] = NoOsThread])
  BY DEF ThreadEnd
<1>2. PICK pid : pid = os.thr[tid].pid
  OBVIOUS
<1>3. PICK c2 : c2 = handle_thread_end(ctx, pid, tid)
  OBVIOUS
<1>4. PICK v : v = NoOsThread
  OBVIOUS
<1>5. PICK o2 : o2 = [os EXCEPT !.thr[tid] = v]
  OBVIOUS
<1>6. KernelEvent("kernel", c2, o2)
  BY <1>1, <1>2, <1>3, <1>4, <1>5
<1>7. v \in [pid : Pids \cup {0}, entry : Nat] /\ v.pid = 0 /\ v.entry = 0
  BY <1>4 DEF NoOsThread
<1>8. pid \in Pids /\ pid # 0
  BY <1>1, <1>2, Facts, Running
<1>9. PICK k : k = ctx.threads.by_id[tid]
  OBVIOUS
<1>10. PICK i : i = ctx.processes.by_id[pid]
  OBVIOUS
<1>11. /\ Sound(c2, now + 1, now + 1) /\ Grows(ctx, c2, now) /\ SameThreads(ctx, c2)
       /\ c2.processes.by_id = ctx.processes.by_id
  <2>1. CASE k = 0 \/ i = 0 \/ ~ctx.processes.entries[i].recycles
    <3>1. c2 = ctx
      BY <1>3, <1>9, <1>10, <2>1 DEF handle_thread_end
    <3> QED
      BY <3>1, Facts DEF SameThreads
  <2>2. CASE ~(k = 0 \/ i = 0 \/ ~ctx.processes.entries[i].recycles)
    <3>1. i \in 1 .. Len(ctx.processes.entries)
      BY <1>8, <1>10, <2>2, Facts, EntryOfProcess
    <3>2. PICK p : p = WithThread(ctx.processes.entries[i].pool, ctx.threads.entries[k])
      OBVIOUS
    <3>3. PoolOf(ctx, i, p)
      BY Zenon, <1>2, <1>8, <1>9, <1>10, <2>2, <3>1, <3>2, Facts, WithThreadOwned
    <3>4. c2 = [ctx EXCEPT !.processes.entries[i].pool = p]
      BY <1>3, <1>9, <1>10, <2>2, <3>2 DEF handle_thread_end
    <3>5. PICK e : ProcessUpdate(ctx, c2, now, now + 1, now + 1, i, e)
      BY <3>1, <3>3, <3>4, Facts, PoolReplaced
    <3> QED
      BY <3>5 DEF ProcessUpdate
  <2> QED
    BY <2>1, <2>2
<1>12. c2 \in Context
  BY <1>11 DEF Sound
<1>13. ThreadsKept(ctx, c2, tid)
  BY <1>11 DEF ThreadsKept, SameThreads
<1>14. ThreadTracked(c2, o2, tid, now + 1)
  <2>1. o2.thr[tid] = v
    BY <1>5, Facts DEF Machine
  <2> QED
    BY <1>7, <2>1 DEF ThreadTracked
<1>15. Tracked(c2, o2, now + 1)
  BY <1>5, <1>7, <1>11, <1>12, <1>13, <1>14, Facts, ThreadEvent
<1> QED
  BY <1>6, <1>11, <1>15, KernelStep


LEMMA ThreadSetNameStep ==
  ASSUME IInv, ThreadSetName
  PROVE  IInv'
<1>1. PICK tid \in Tids, name \in ThreadNames :
        /\ os.thr[tid] # NoOsThread
        /\ KernelEvent("kernel",
             handle_thread_set_name(ctx, now + 1, os.thr[tid].pid, tid, name), os)
  BY DEF ThreadSetName
<1>2. PICK pid : pid = os.thr[tid].pid
  OBVIOUS
<1>3. PICK c2 : c2 = handle_thread_set_name(ctx, now + 1, pid, tid, name)
  OBVIOUS
<1>4. KernelEvent("kernel", c2, os)
  BY <1>1, <1>2, <1>3
<1>5. pid \in Pids /\ pid # 0 /\ os.thr[tid].pid # 0
  BY <1>1, <1>2, Facts, Running
<1>6. ctx \in Context /\ now \in Nat /\ now + 1 \in Times
  BY <1>4, Facts, EtwTablesAssumption DEF KernelEvent, Times
<1>7. PICK k : k = ctx.threads.by_id[tid]
  OBVIOUS
<1>8. PICK i : i = ctx.processes.by_id[pid]
  OBVIOUS
<1>9. PICK e : e = ctx.threads.entries[k]
  OBVIOUS
<1>10. PICK p : p = ctx.processes.entries[i]
  OBVIOUS
<1>11. PICK pool : pool = WithThread(p.pool, e)
  OBVIOUS
<1>12. PICK data : data = LeastOfName(pool, name)
  OBVIOUS
<1>13. /\ k = 0 \/ i = 0 => c2 = ctx
       /\ k # 0 /\ i # 0 /\ p.recycles /\ OfName(pool, name) # {} =>
            c2 = [ctx EXCEPT
                   !.processes.entries[i].pool = PoolWithout(pool, data),
                   !.threads.entries[k].name   = name,
                   !.threads.entries[k].handle = data.handle,
                   !.thread_handles = @ \cup
                     {[tid |-> tid, time |-> now + 1, handle |-> data.handle]}]
       /\ k # 0 /\ i # 0 /\ ~(p.recycles /\ OfName(pool, name) # {}) =>
            c2 = [ctx EXCEPT
                   !.processes.entries[i].pool = IF p.recycles THEN pool ELSE @,
                   !.threads.entries[k].name   = name]
  BY Zenon, <1>3, <1>7, <1>8, <1>9, <1>10, <1>11, <1>12 DEF handle_thread_set_name
<1>14. Sound(c2, now + 1, now + 1) /\ Grows(ctx, c2, now) /\ Tracked(c2, os, now + 1)
  <2>1. CASE k = 0 \/ i = 0
    <3>1. c2 = ctx
      BY <1>13, <2>1
    <3> QED
      BY <3>1, Facts, StillTracked
  <2>2. CASE k # 0 /\ i # 0
    <3>1. i \in 1 .. Len(ctx.processes.entries)
      BY <1>5, <1>8, <2>2, Facts, EntryOfProcess
    <3>2. k \in 1 .. Len(ctx.threads.entries) /\ e.id = tid
      BY <1>7, <1>9, <2>2, Facts, EntryOfThread
    <3>3. PoolOf(ctx, i, pool)
      BY Zenon, <1>2, <1>5, <1>7, <1>8, <1>9, <1>10, <1>11, <2>2, <3>1, Facts, WithThreadOwned
    <3>4. /\ p \in ProcessEntry /\ p.pool \in Pools /\ PoolOf(ctx, i, p.pool)
          /\ e \in ThreadEntry
      <4>1. p \in ProcessEntry /\ Owns(ctx, p) /\ e \in ThreadEntry
        BY <1>6, <1>9, <1>10, <3>1, <3>2, Facts, ContextType DEF Sound, OwnersSound
      <4>2. p.pool \in Pools
        BY <4>1 DEF ProcessEntry
      <4> QED
        BY <1>10, <4>1, <4>2 DEF Owns, PoolOf
    <3>5. e.handle <= Len(ctx.owner) /\ ctx.owner[e.handle] = p.handle
      <4>1. os.thr[tid].entry = k /\ os.proc[pid].alive
        BY Zenon, <1>2, <1>5, <1>7, Facts DEF Tracked, ThreadTracked
      <4>2. os.proc[pid].entry = i
        BY <1>5, <1>8, <4>1, Facts DEF Tracked, ProcessTracked
      <4> QED
        BY ZenonT(30), <1>2, <1>5, <1>9, <1>10, <2>2, <4>1, <4>2, Facts DEF Tracked, ThreadTracked
    <3>6. ASSUME NEW q, PoolOf(ctx, i, q), NEW e2, NEW X,
                 RenamedEntry(ctx, now, tid, k, i, e2, X), NEW b,
                 b = [ctx EXCEPT !.processes.entries[i].pool = q], NEW tab2,
                 tab2 = [b.threads EXCEPT !.entries = [b.threads.entries EXCEPT ![k] = e2]],
                 c2 = [b EXCEPT !.threads = tab2, !.thread_handles = b.thread_handles \cup X]
          PROVE  /\ Sound(c2, now + 1, now + 1) /\ Grows(ctx, c2, now)
                 /\ Tracked(c2, os, now + 1)
      <4>1. PICK r : ProcessUpdate(ctx, b, now, now, now, i, r)
        BY <3>1, <3>6, Facts, PoolReplaced
      <4>2. /\ Sound(b, now, now) /\ b.threads = ctx.threads /\ b.owner = ctx.owner
        BY <4>1 DEF ProcessUpdate, SameThreads
      <4>3. /\ X \subseteq ThreadHandle /\ \A x, y \in X : x = y
            /\ \A x \in X : x.time = now + 1 /\ x.handle <= Len(b.owner)
        <5>1. e2.handle \in Handles /\ e2.handle <= Len(b.owner)
          BY <3>6, <4>2 DEF RenamedEntry, ThreadEntry
        <5>2. X = {} \/ X = {[tid |-> tid, time |-> now + 1, handle |-> e2.handle]}
          BY <3>6 DEF RenamedEntry
        <5>3. CASE X = {}
          BY <5>3
        <5>4. CASE X = {[tid |-> tid, time |-> now + 1, handle |-> e2.handle]}
          BY <1>6, <5>1, <5>4 DEF ThreadHandle
        <5> QED
          BY <5>2, <5>3, <5>4
      <4>4. /\ e2 \in ThreadEntry /\ e2.id = b.threads.entries[k].id
            /\ e2.start = b.threads.entries[k].start /\ e2.reused = b.threads.entries[k].reused
            /\ e2.pending = b.threads.entries[k].pending
        BY <3>6, <4>2 DEF RenamedEntry
      <4>5. ThreadUpdate(b, c2, now, k, e2, X)
        BY Zenon, <1>6, <3>2, <3>6, <4>2, <4>3, <4>4, ThreadUpdated
      <4>6. RenamedEntry(ctx, now, tid, k, i, e2, X)
        BY <3>6
      <4> QED
        BY <1>2, <1>5, <1>6, <1>7, <1>8, <2>2, <3>1, <4>1, <4>5, <4>6, Facts, Renamed
    <3>7. CASE p.recycles /\ OfName(pool, name) # {}
      <4>1. PICK q : q = PoolWithout(pool, data)
        OBVIOUS
      <4>2. data \in DOMAIN pool /\ data.handle \in Handles
        <5>1. data \in DOMAIN pool
          BY <1>12, <3>3, <3>7, PoolLeast DEF PoolOf
        <5>2. data \in ThreadData
          BY <3>3, <5>1, PoolDomain DEF PoolOf
        <5> QED
          BY <5>1, <5>2 DEF ThreadData
      <4>3. PoolOf(ctx, i, q)
        <5>1. q \in Pools /\ DOMAIN q \subseteq DOMAIN pool
          BY <3>3, <4>1, PoolTake DEF PoolOf
        <5> QED
          BY <3>3, <5>1 DEF PoolOf
      <4>4. data.handle <= Len(ctx.owner) /\ ctx.owner[data.handle] = p.handle
        BY <1>10, <3>3, <4>2 DEF PoolOf
      <4>5. PICK e2 : e2 = [e EXCEPT !.name = name, !.handle = data.handle]
        OBVIOUS
      <4>6. PICK X : X = {[tid |-> tid, time |-> now + 1, handle |-> data.handle]}
        OBVIOUS
      <4>7. /\ e2 \in ThreadEntry /\ e2.handle = data.handle /\ e2.id = e.id
            /\ e2.start = e.start /\ e2.reused = e.reused /\ e2.pending = e.pending
        BY <3>4, <4>2, <4>5 DEF ThreadEntry
      <4>8. RenamedEntry(ctx, now, tid, k, i, e2, X)
        BY <1>9, <1>10, <4>4, <4>6, <4>7 DEF RenamedEntry
      <4>9. PICK b : b = [ctx EXCEPT !.processes.entries[i].pool = q]
        OBVIOUS
      <4>10. PICK tab2 :
               tab2 = [b.threads EXCEPT !.entries = [b.threads.entries EXCEPT ![k] = e2]]
        OBVIOUS
      <4>11. c2 = [b EXCEPT !.threads = tab2, !.thread_handles = b.thread_handles \cup X]
        <5>1. PICK a1 : a1 = [b EXCEPT !.threads.entries[k].name = name]
          OBVIOUS
        <5>2. PICK a2 : a2 = [a1 EXCEPT !.threads.entries[k].handle = data.handle]
          OBVIOUS
        <5>3. c2 = [a2 EXCEPT !.thread_handles = @ \cup X]
          BY <1>13, <2>2, <3>7, <4>1, <4>6, <4>9, <5>1, <5>2
        <5>4. /\ b = [ctx EXCEPT !.processes = b.processes] /\ b.threads = ctx.threads
              /\ b.thread_handles = ctx.thread_handles
          BY <1>6, <4>9 DEF Context
        <5>5. a1 = [b EXCEPT !.threads = a1.threads]
          BY <1>6, <5>1, <5>4 DEF Context
        <5>6. a2 = [a1 EXCEPT !.threads = a2.threads]
          BY <1>6, <5>2, <5>4, <5>5 DEF Context
        <5>7. a2.threads = tab2
          <6>1. /\ b.threads \in [entries : Seq(ThreadEntry), by_id : [Tids -> Nat]]
                /\ b.threads.entries \in Seq(ThreadEntry) /\ b.threads.entries[k] = e
            BY <1>6, <1>9, <5>4 DEF Context
          <6>2. a2.threads.entries = [[b.threads.entries EXCEPT ![k].name = name]
                                         EXCEPT ![k].handle = data.handle]
            BY <1>6, <5>1, <5>2, <5>4, <6>1 DEF Context
          <6>3. [[b.threads.entries EXCEPT ![k].name = name] EXCEPT ![k].handle = data.handle]
                  = [b.threads.entries EXCEPT ![k] = e2]
            BY <3>2, <3>4, <4>5, <5>4, <6>1 DEF ThreadEntry
          <6>4. a1.threads = [b.threads EXCEPT !.entries = a1.threads.entries]
            BY <1>6, <5>1, <5>4, <6>1 DEF Context
          <6>5. a2.threads = [a1.threads EXCEPT !.entries = a2.threads.entries]
            BY <1>6, <5>2, <5>4, <5>5, <6>1, <6>4 DEF Context
          <6> QED
            BY <4>10, <6>1, <6>2, <6>3, <6>4, <6>5
        <5> QED
          BY <1>6, <5>3, <5>4, <5>5, <5>6, <5>7 DEF Context
      <4> QED
        BY Zenon, <3>6, <4>3, <4>8, <4>9, <4>10, <4>11
    <3>8. CASE ~(p.recycles /\ OfName(pool, name) # {})
      <4>1. PICK q : q = IF p.recycles THEN pool ELSE p.pool
        OBVIOUS
      <4>2. PoolOf(ctx, i, q)
        BY <3>3, <3>4, <4>1
      <4>3. PICK e2 : e2 = [e EXCEPT !.name = name]
        OBVIOUS
      <4>4. PICK X : X = {}
        OBVIOUS
      <4>5. /\ e2 \in ThreadEntry /\ e2.handle = e.handle /\ e2.id = e.id
            /\ e2.start = e.start /\ e2.reused = e.reused /\ e2.pending = e.pending
        BY <3>4, <4>3 DEF ThreadEntry
      <4>6. RenamedEntry(ctx, now, tid, k, i, e2, X)
        BY <1>9, <1>10, <3>5, <4>4, <4>5 DEF RenamedEntry
      <4>7. PICK b : b = [ctx EXCEPT !.processes.entries[i].pool = q]
        OBVIOUS
      <4>8. PICK tab2 :
              tab2 = [b.threads EXCEPT !.entries = [b.threads.entries EXCEPT ![k] = e2]]
        OBVIOUS
      <4>9. c2 = [b EXCEPT !.threads = tab2, !.thread_handles = b.thread_handles \cup X]
        <5>1. c2 = [b EXCEPT !.threads.entries[k].name = name]
          BY <1>10, <1>13, <2>2, <3>8, <4>1, <4>7
        <5>2. /\ b = [ctx EXCEPT !.processes = b.processes] /\ b.threads = ctx.threads
              /\ b.thread_handles = ctx.thread_handles
          BY <1>6, <4>7 DEF Context
        <5>3. c2 = [b EXCEPT !.threads = c2.threads]
          BY <1>6, <5>1, <5>2 DEF Context
        <5>4. c2.threads = tab2
          BY <1>6, <1>9, <4>3, <4>8, <5>1, <5>2 DEF Context
        <5> QED
          BY <1>6, <4>4, <5>2, <5>3, <5>4 DEF Context
      <4> QED
        BY Zenon, <3>6, <4>2, <4>6, <4>7, <4>8, <4>9
    <3> QED
      BY <3>7, <3>8
  <2> QED
    BY <2>1, <2>2
<1> QED
  BY <1>4, <1>14, KernelStep


-----------------------------------------------------------------------------
(* Events of the user session                                              *)

\* c2 differs from c in starts of markers and in scripts only.
OnlyMarks(c, c2) ==
  /\ c2 \in Context /\ c2.thread_handles = c.thread_handles
  /\ c2.owner = c.owner /\ c2.nprocesses = c.nprocesses
  /\ c2.process_recycler = c.process_recycler
  /\ c2.threads.by_id = c.threads.by_id /\ c2.processes.by_id = c.processes.by_id
  /\ Len(c2.threads.entries) = Len(c.threads.entries)
  /\ Len(c2.processes.entries) = Len(c.processes.entries)
  /\ \A k \in 1 .. Len(c.threads.entries) :
       /\ c2.threads.entries[k].id = c.threads.entries[k].id
       /\ c2.threads.entries[k].start = c.threads.entries[k].start
       /\ c2.threads.entries[k].reused = c.threads.entries[k].reused
       /\ c2.threads.entries[k].handle = c.threads.entries[k].handle
  /\ \A i \in 1 .. Len(c.processes.entries) :
       /\ c2.processes.entries[i].id = c.processes.entries[i].id
       /\ c2.processes.entries[i].start = c.processes.entries[i].start
       /\ c2.processes.entries[i].reused = c.processes.entries[i].reused
       /\ c2.processes.entries[i].handle = c.processes.entries[i].handle
       /\ c2.processes.entries[i].main = c.processes.entries[i].main
       /\ c2.processes.entries[i].pool = c.processes.entries[i].pool

LEMMA UserStep ==
  ASSUME IInv, trace = "user", NEW c2, OnlyMarks(ctx, c2), MarksSound(c2, past),
         ctx' = c2, os' = os, past' = past, trace' = trace,
         read' \in [count : 0 .. MaxUserEvents, at : Times]
  PROVE  IInv'
<1>1. /\ ctx \in Context /\ now \in Nat /\ c2 \in Context
      /\ TableSound(ctx.threads, Tids, now, now) /\ TableSound(ctx.processes, Pids, now, now)
      /\ HandlesSound(ctx, now) /\ OwnersSound(ctx)
  BY Facts DEF Sound, OnlyMarks
<1>2. /\ Len(ctx.threads.entries) \in Nat /\ Len(ctx.processes.entries) \in Nat
      /\ Len(c2.threads.entries) \in Nat /\ Len(c2.processes.entries) \in Nat
  BY <1>1, ContextType
<1>3. TableSound(c2.threads, Tids, now, now) /\ TableGrows(ctx.threads, c2.threads, now)
  <2>1. /\ c2.threads.by_id = ctx.threads.by_id
        /\ Len(c2.threads.entries) = Len(ctx.threads.entries)
    BY DEF OnlyMarks
  <2>2. \A k \in 1 .. Len(ctx.threads.entries) :
          /\ c2.threads.entries[k].id = ctx.threads.entries[k].id
          /\ c2.threads.entries[k].start = ctx.threads.entries[k].start
          /\ c2.threads.entries[k].reused = ctx.threads.entries[k].reused
    BY DEF OnlyMarks
  <2> QED
    BY <1>1, <1>2, <2>1, <2>2, TableKept
<1>4. /\ TableSound(c2.processes, Pids, now, now)
      /\ TableGrows(ctx.processes, c2.processes, now)
  <2>1. /\ c2.processes.by_id = ctx.processes.by_id
        /\ Len(c2.processes.entries) = Len(ctx.processes.entries)
    BY DEF OnlyMarks
  <2>2. \A k \in 1 .. Len(ctx.processes.entries) :
          /\ c2.processes.entries[k].id = ctx.processes.entries[k].id
          /\ c2.processes.entries[k].start = ctx.processes.entries[k].start
          /\ c2.processes.entries[k].reused = ctx.processes.entries[k].reused
    BY DEF OnlyMarks
  <2> QED
    BY <1>1, <1>2, <2>1, <2>2, TableKept
<1>5. HandlesSound(c2, now)
  BY <1>1 DEF HandlesSound, OnlyMarks
<1>6. OwnersSound(c2)
  <2>1. /\ c2.owner = ctx.owner /\ c2.nprocesses = ctx.nprocesses
        /\ c2.process_recycler = ctx.process_recycler
        /\ Len(c2.processes.entries) = Len(ctx.processes.entries)
    BY DEF OnlyMarks
  <2>2. \A x : Owns(ctx, x) => Owns(c2, x)
    BY <2>1 DEF Owns
  <2>3. ASSUME NEW i \in 1 .. Len(c2.processes.entries) PROVE Owns(c2, c2.processes.entries[i])
    <3>1. Owns(ctx, ctx.processes.entries[i])
      BY <1>1, <2>1 DEF OwnersSound
    <3>2. /\ c2.processes.entries[i].handle = ctx.processes.entries[i].handle
          /\ c2.processes.entries[i].main = ctx.processes.entries[i].main
          /\ c2.processes.entries[i].pool = ctx.processes.entries[i].pool
      BY <2>1 DEF OnlyMarks
    <3> QED
      BY <2>1, <3>1, <3>2 DEF Owns
  <2> QED
    BY <1>1, <2>1, <2>2, <2>3 DEF OwnersSound
<1>7. Sound(c2, now, now)
  BY <1>1, <1>3, <1>4, <1>5, <1>6 DEF Sound
<1>8. Tracked(c2, os, now)
  <2>1. Tracked(ctx, os, now) /\ os \in Machine /\ Sound(ctx, now, now)
    BY Facts
  <2>2. /\ c2.owner = ctx.owner /\ c2.thread_handles = ctx.thread_handles
        /\ c2.threads.by_id = ctx.threads.by_id /\ c2.processes.by_id = ctx.processes.by_id
        /\ \A k \in 1 .. Len(ctx.threads.entries) :
             c2.threads.entries[k].handle = ctx.threads.entries[k].handle
        /\ \A i \in 1 .. Len(ctx.processes.entries) :
             c2.processes.entries[i].handle = ctx.processes.entries[i].handle
    BY DEF OnlyMarks
  <2>3. ASSUME NEW t \in Tids PROVE ThreadTracked(c2, os, t, now)
    <3>1. ThreadTracked(ctx, os, t, now)
      BY <2>1 DEF Tracked
    <3>2. CASE os.thr[t].entry = 0 \/ os.thr[t].pid = 0
      BY ZenonT(30), <2>2, <3>1, <3>2 DEF ThreadTracked
    <3>3. CASE os.thr[t].entry # 0 /\ os.thr[t].pid # 0
      <4>1. PICK k : k = os.thr[t].entry
        OBVIOUS
      <4>2. PICK p : p = os.thr[t].pid
        OBVIOUS
      <4>3. PICK i : i = os.proc[p].entry
        OBVIOUS
      <4>4. /\ ctx.threads.by_id[t] = k /\ os.proc[p].alive /\ i # 0
            /\ HandleAt(ctx.thread_handles, t, now, ctx.threads.entries[k].handle)
            /\ ctx.threads.entries[k].handle <= Len(ctx.owner)
            /\ ctx.owner[ctx.threads.entries[k].handle] = ctx.processes.entries[i].handle
        BY Zenon, <3>1, <3>3, <4>1, <4>2, <4>3 DEF ThreadTracked
      <4>5. p \in Pids
        BY <2>1, <3>3, <4>2 DEF Machine
      <4>6. ctx.processes.by_id[p] = i
        BY <2>1, <4>3, <4>4, <4>5 DEF Tracked, ProcessTracked
      <4>7. i \in 1 .. Len(ctx.processes.entries)
        BY <1>1, <2>1, <4>4, <4>5, <4>6, EntryOfProcess
      <4>8. k \in 1 .. Len(ctx.threads.entries)
        BY Zenon, <1>1, <2>1, <3>3, <4>1, <4>4, EntryOfThread
      <4>9. /\ c2.threads.entries[k].handle = ctx.threads.entries[k].handle
            /\ c2.processes.entries[i].handle = ctx.processes.entries[i].handle
        BY <2>2, <4>7, <4>8
      <4> QED
        BY ZenonT(30), <2>2, <3>3, <4>1, <4>2, <4>3, <4>4, <4>9 DEF ThreadTracked
    <3> QED
      BY <3>2, <3>3
  <2>4. \A p \in Pids : ProcessTracked(c2, os, p)
    BY <2>1, <2>2 DEF Tracked, ProcessTracked
  <2> QED
    BY <2>1, <2>3, <2>4 DEF Tracked
<1>9. ASSUME NEW t \in 1 .. now PROVE Remembered(c2, past[t], t)
  <2>1. Remembered(ctx, past[t], t)
    BY DEF IInv
  <2>2. \A id, k : EntryAt(ctx.threads, id, t, k) => EntryAt(c2.threads, id, t, k)
    BY <1>1, <1>2, <1>3, EntryStays
  <2>3. \A id, k : EntryAt(ctx.processes, id, t, k) => EntryAt(c2.processes, id, t, k)
    BY <1>1, <1>2, <1>4, EntryStays
  <2>4. c2.thread_handles = ctx.thread_handles
    BY DEF OnlyMarks
  <2> QED
    BY <2>1, <2>2, <2>3, <2>4 DEF Remembered
<1>10. now' = now
  BY DEF now
<1>11. /\ past' \in Seq([proc : [Pids -> [alive : BOOLEAN, entry : Nat]],
                         thr  : [Tids -> [pid : Pids \cup {0}, entry : Nat, handle : Nat]]])
       /\ now' <= MaxTime /\ trace' \in {"rundown", "kernel", "user"}
  BY <1>10 DEF IInv
<1>12. Sound(ctx', now', now') /\ Tracked(ctx', os', now')
  BY <1>7, <1>8, <1>10
<1>13. \A t \in 1 .. now' : Remembered(ctx', past'[t], t)
  BY <1>9, <1>10
<1>14. MarksSound(ctx', past') /\ (trace' = "rundown" => RundownSound(ctx', os'))
  BY DEF IInv
<1> QED
  BY <1>11, <1>12, <1>13, <1>14 DEF IInv

\* What get_index_at finds, at a time of the past.
LEMMA Found ==
  ASSUME IInv, NEW t \in 1 .. now
  PROVE  /\ \A tid \in Tids : past[t].thr[tid].pid # 0 =>
              /\ get_index_at(ctx.threads, tid, t) = past[t].thr[tid].entry
              /\ EntryAt(ctx.threads, tid, t, past[t].thr[tid].entry)
         /\ \A pid \in Pids : past[t].proc[pid].alive =>
              /\ get_index_at(ctx.processes, pid, t) = past[t].proc[pid].entry
              /\ EntryAt(ctx.processes, pid, t, past[t].proc[pid].entry)
<1>1. /\ ctx \in Context /\ now \in Nat /\ t \in Nat
      /\ TableSound(ctx.threads, Tids, now, now) /\ TableSound(ctx.processes, Pids, now, now)
      /\ ctx.threads.entries \in Seq(ThreadEntry)
      /\ ctx.processes.entries \in Seq(ProcessEntry)
  BY Facts, ContextType DEF Sound
<1>2. past[t] \in [proc : [Pids -> [alive : BOOLEAN, entry : Nat]],
                   thr  : [Tids -> [pid : Pids \cup {0}, entry : Nat, handle : Nat]]]
  <2>1. PICK S : S = [proc : [Pids -> [alive : BOOLEAN, entry : Nat]],
                      thr  : [Tids -> [pid : Pids \cup {0}, entry : Nat, handle : Nat]]]
    OBVIOUS
  <2>2. past \in Seq(S) /\ t \in 1 .. Len(past)
    BY <2>1 DEF IInv, now
  <2>3. past[t] \in S
    BY <2>2
  <2> QED
    BY <2>1, <2>3
<1>3. Remembered(ctx, past[t], t)
  BY DEF IInv
<1>4. ASSUME NEW tid \in Tids, past[t].thr[tid].pid # 0
      PROVE  /\ get_index_at(ctx.threads, tid, t) = past[t].thr[tid].entry
             /\ EntryAt(ctx.threads, tid, t, past[t].thr[tid].entry)
  <2>1. EntryAt(ctx.threads, tid, t, past[t].thr[tid].entry) /\ past[t].thr[tid].entry \in Nat
    BY <1>2, <1>3, <1>4 DEF Remembered
  <2> QED
    BY <1>1, <2>1, IndexAt
<1>5. ASSUME NEW pid \in Pids, past[t].proc[pid].alive
      PROVE  /\ get_index_at(ctx.processes, pid, t) = past[t].proc[pid].entry
             /\ EntryAt(ctx.processes, pid, t, past[t].proc[pid].entry)
  <2>1. EntryAt(ctx.processes, pid, t, past[t].proc[pid].entry) /\ past[t].proc[pid].entry \in Nat
    BY <1>2, <1>3, <1>5 DEF Remembered
  <2> QED
    BY <1>1, <2>1, IndexAt
<1> QED
  BY <1>4, <1>5


\* A marker starts or ends on thread tid at time t.
LEMMA MarkerStep ==
  ASSUME IInv, NEW tid \in Tids, NEW t \in 1 .. MaxTime, EventOfThread(tid, t),
         NEW m \in {0, t}, NEW k, k = get_index_at(ctx.threads, tid, t),
         ctx' = IF k = 0 THEN ctx ELSE [ctx EXCEPT !.threads.entries[k].pending = m]
  PROVE  IInv'
<1>1. /\ trace = "user" /\ t \in 1 .. now /\ past[t].thr[tid].pid # 0
      /\ read.count < MaxUserEvents
      /\ read' = [count |-> read.count + 1, at |-> t]
      /\ os' = os /\ past' = past /\ trace' = trace
  BY Facts, EtwTablesAssumption DEF EventOfThread, IInv, Times
<1>2. PICK c2 : c2 = ctx'
  OBVIOUS
<1>3. read' \in [count : 0 .. MaxUserEvents, at : Times]
  <2>1. read \in [count : 0 .. MaxUserEvents, at : Times]
    BY DEF IInv
  <2>2. read.count \in 0 .. MaxUserEvents /\ MaxUserEvents \in Nat /\ t \in Times
    BY <2>1, EtwTablesAssumption DEF Times
  <2>3. read.count + 1 \in 0 .. MaxUserEvents
    BY <1>1, <2>2
  <2> QED
    BY <1>1, <2>2, <2>3
<1>4. k = past[t].thr[tid].entry /\ EntryAt(ctx.threads, tid, t, k)
  BY <1>1, Found
<1>5. ctx \in Context /\ MarksSound(ctx, past) /\ now \in Nat
  BY Facts DEF IInv
<1>6. OnlyMarks(ctx, c2) /\ MarksSound(c2, past)
  <2>1. CASE k = 0
    <3>1. c2 = ctx
      BY <1>2, <2>1
    <3> QED
      BY <1>5, <3>1 DEF OnlyMarks
  <2>2. CASE k # 0
    <3>1. /\ k \in 1 .. Len(ctx.threads.entries) /\ ctx.threads.entries[k].id = tid
      BY Zenon, <1>4, <2>2 DEF EntryAt
    <3>2. PICK e : e = ctx.threads.entries[k]
      OBVIOUS
    <3>3. PICK e2 : e2 = [e EXCEPT !.pending = m]
      OBVIOUS
    <3>4. PICK en : en = [ctx.threads.entries EXCEPT ![k] = e2]
      OBVIOUS
    <3>5. PICK tab2 : tab2 = [ctx.threads EXCEPT !.entries = en]
      OBVIOUS
    <3>6. c2 = [ctx EXCEPT !.threads = tab2]
      BY <1>2, <1>5, <2>2, <3>2, <3>3, <3>4, <3>5 DEF Context
    <3>7. /\ ctx.threads \in [entries : Seq(ThreadEntry), by_id : [Tids -> Nat]]
          /\ ctx.threads.entries \in Seq(ThreadEntry) /\ e \in ThreadEntry
      BY <1>5, <3>1, <3>2 DEF Context
    <3>8. /\ e2 \in ThreadEntry /\ e2.id = e.id /\ e2.start = e.start
          /\ e2.reused = e.reused /\ e2.handle = e.handle /\ e2.pending = m
      <4>1. m \in Times
        BY EtwTablesAssumption DEF Times
      <4> QED
        BY <3>3, <3>7, <4>1 DEF ThreadEntry
    <3>9. /\ en \in Seq(ThreadEntry) /\ Len(en) = Len(ctx.threads.entries)
          /\ \A j \in 1 .. Len(ctx.threads.entries) :
               en[j] = IF j = k THEN e2 ELSE ctx.threads.entries[j]
      BY <3>1, <3>4, <3>7, <3>8
    <3>10. /\ tab2.entries = en /\ tab2.by_id = ctx.threads.by_id
           /\ tab2 \in [entries : Seq(ThreadEntry), by_id : [Tids -> Nat]]
      BY <3>5, <3>7, <3>9
    <3>11. /\ c2 \in Context /\ c2.threads = tab2 /\ c2.thread_handles = ctx.thread_handles
           /\ c2.processes = ctx.processes /\ c2.process_recycler = ctx.process_recycler
           /\ c2.owner = ctx.owner /\ c2.nprocesses = ctx.nprocesses
      BY <1>5, <3>6, <3>10 DEF Context
    <3>12. \A j \in 1 .. Len(ctx.threads.entries) :
             /\ c2.threads.entries[j].id = ctx.threads.entries[j].id
             /\ c2.threads.entries[j].start = ctx.threads.entries[j].start
             /\ c2.threads.entries[j].reused = ctx.threads.entries[j].reused
             /\ c2.threads.entries[j].handle = ctx.threads.entries[j].handle
             /\ c2.threads.entries[j].pending = IF j = k THEN m
                                                ELSE ctx.threads.entries[j].pending
      BY <3>2, <3>8, <3>9, <3>10, <3>11
    <3>13. Len(c2.threads.entries) = Len(ctx.threads.entries)
      BY <3>9, <3>10, <3>11
    <3>14. OnlyMarks(ctx, c2)
      BY SMTT(30), <3>10, <3>11, <3>12, <3>13 DEF OnlyMarks
    <3>15. ASSUME NEW j \in 1 .. Len(c2.threads.entries), c2.threads.entries[j].pending # 0
           PROVE  /\ c2.threads.entries[j].pending \in 1 .. Len(past)
                  /\ past[c2.threads.entries[j].pending].thr[c2.threads.entries[j].id].entry = j
      <4>1. CASE j = k
        <5>1. c2.threads.entries[j].pending = t /\ c2.threads.entries[j].id = tid
          BY SMTT(30), <3>1, <3>12, <3>13, <3>15, <4>1
        <5>2. t \in 1 .. Len(past)
          BY <1>1 DEF now
        <5> QED
          BY Zenon, <1>4, <4>1, <5>1, <5>2
      <4>2. CASE j # k
        BY <1>5, <3>12, <3>13, <3>15, <4>2 DEF MarksSound
      <4> QED
        BY <4>1, <4>2
    <3>16. MarksSound(c2, past)
      BY <1>5, <3>11, <3>15 DEF MarksSound
    <3> QED
      BY <3>14, <3>16
  <2> QED
    BY <2>1, <2>2
<1> QED
  BY <1>1, <1>2, <1>3, <1>6, UserStep

LEMMA JsSourceLoadStep ==
  ASSUME IInv, JsSourceLoad
  PROVE  IInv'
<1>1. PICK pid \in Pids, t \in 1 .. MaxTime :
        /\ EventOfProcess(pid, t)
        /\ ctx' = handle_js_source_load(ctx, t, pid, past[t].proc[pid].entry)
  BY DEF JsSourceLoad
<1>2. /\ trace = "user" /\ t \in 1 .. now /\ past[t].proc[pid].alive
      /\ read.count < MaxUserEvents
      /\ read' = [count |-> read.count + 1, at |-> t]
      /\ os' = os /\ past' = past /\ trace' = trace
  BY <1>1, Facts, EtwTablesAssumption DEF EventOfProcess, IInv, Times
<1>3. PICK c2 : c2 = ctx'
  OBVIOUS
<1>4. PICK i : i = past[t].proc[pid].entry
  OBVIOUS
<1>5. read' \in [count : 0 .. MaxUserEvents, at : Times]
  <2>1. read \in [count : 0 .. MaxUserEvents, at : Times]
    BY DEF IInv
  <2>2. read.count \in 0 .. MaxUserEvents /\ MaxUserEvents \in Nat /\ t \in Times
    BY <2>1, EtwTablesAssumption DEF Times
  <2>3. read.count + 1 \in 0 .. MaxUserEvents
    BY <1>2, <2>2
  <2> QED
    BY <1>2, <2>2, <2>3
<1>6. i = get_index_at(ctx.processes, pid, t) /\ EntryAt(ctx.processes, pid, t, i)
  BY <1>2, <1>4, Found
<1>7. ctx \in Context /\ MarksSound(ctx, past)
  BY Facts DEF IInv
<1>8. OnlyMarks(ctx, c2) /\ MarksSound(c2, past)
  <2>1. CASE i = 0
    <3>1. c2 = ctx
      BY <1>1, <1>3, <1>6, <2>1 DEF handle_js_source_load
    <3> QED
      BY <1>7, <3>1 DEF OnlyMarks
  <2>2. CASE i # 0
    <3>1. i \in 1 .. Len(ctx.processes.entries) /\ i \in Nat
      BY <1>6, <2>2 DEF EntryAt
    <3>2. PICK e : e = ctx.processes.entries[i]
      OBVIOUS
    <3>3. PICK e2 : e2 = [e EXCEPT !.source = i]
      OBVIOUS
    <3>4. PICK en : en = [ctx.processes.entries EXCEPT ![i] = e2]
      OBVIOUS
    <3>5. PICK tab2 : tab2 = [ctx.processes EXCEPT !.entries = en]
      OBVIOUS
    <3>6. c2 = [ctx EXCEPT !.processes = tab2]
      <4>1. c2 = [ctx EXCEPT !.processes.entries[i].source = i]
        BY <1>1, <1>3, <1>4, <1>6, <2>2 DEF handle_js_source_load
      <4> QED
        BY <1>7, <3>2, <3>3, <3>4, <3>5, <4>1 DEF Context
    <3>7. /\ ctx.processes \in [entries : Seq(ProcessEntry), by_id : [Pids -> Nat]]
          /\ ctx.processes.entries \in Seq(ProcessEntry) /\ e \in ProcessEntry
      BY <1>7, <3>1, <3>2 DEF Context
    <3>8. /\ e2 \in ProcessEntry /\ e2.id = e.id /\ e2.start = e.start
          /\ e2.reused = e.reused /\ e2.handle = e.handle /\ e2.main = e.main
          /\ e2.pool = e.pool /\ e2.source = i
      BY <3>1, <3>3, <3>7 DEF ProcessEntry
    <3>9. /\ en \in Seq(ProcessEntry) /\ Len(en) = Len(ctx.processes.entries)
          /\ \A j \in 1 .. Len(ctx.processes.entries) :
               en[j] = IF j = i THEN e2 ELSE ctx.processes.entries[j]
      BY <3>1, <3>4, <3>7, <3>8
    <3>10. /\ tab2.entries = en /\ tab2.by_id = ctx.processes.by_id
           /\ tab2 \in [entries : Seq(ProcessEntry), by_id : [Pids -> Nat]]
      BY <3>5, <3>7, <3>9
    <3>11. /\ c2 \in Context /\ c2.processes = tab2 /\ c2.thread_handles = ctx.thread_handles
           /\ c2.threads = ctx.threads /\ c2.process_recycler = ctx.process_recycler
           /\ c2.owner = ctx.owner /\ c2.nprocesses = ctx.nprocesses
      BY <1>7, <3>6, <3>10 DEF Context
    <3>12. \A j \in 1 .. Len(ctx.processes.entries) :
             /\ c2.processes.entries[j].id = ctx.processes.entries[j].id
             /\ c2.processes.entries[j].start = ctx.processes.entries[j].start
             /\ c2.processes.entries[j].reused = ctx.processes.entries[j].reused
             /\ c2.processes.entries[j].handle = ctx.processes.entries[j].handle
             /\ c2.processes.entries[j].main = ctx.processes.entries[j].main
             /\ c2.processes.entries[j].pool = ctx.processes.entries[j].pool
             /\ c2.processes.entries[j].source = IF j = i THEN i
                                                 ELSE ctx.processes.entries[j].source
      BY <3>2, <3>8, <3>9, <3>10, <3>11
    <3>13. Len(c2.processes.entries) = Len(ctx.processes.entries)
      BY <3>9, <3>10, <3>11
    <3>14. OnlyMarks(ctx, c2)
      BY <3>10, <3>11, <3>12, <3>13 DEF OnlyMarks
    <3>15. \A j \in 1 .. Len(c2.processes.entries) : c2.processes.entries[j].source \in {0, j}
      BY <1>7, <3>12, <3>13 DEF MarksSound
    <3>16. MarksSound(c2, past)
      BY <1>7, <3>11, <3>15 DEF MarksSound
    <3> QED
      BY <3>14, <3>16
  <2> QED
    BY <2>1, <2>2
<1> QED
  BY <1>2, <1>3, <1>5, <1>8, UserStep


-----------------------------------------------------------------------------
(* The theorems                                                            *)

LEMMA InitSound == Init => IInv
<1> SUFFICES ASSUME Init PROVE IInv
  OBVIOUS
<1>1. PICK r \in BOOLEAN, m \in BOOLEAN :
        ctx = [reuse_threads |-> r, main_thread_only |-> m,
               threads |-> EmptyTable(Tids), processes |-> EmptyTable(Pids),
               thread_handles |-> {}, process_recycler |-> {},
               nprocesses |-> 0, owner |-> << >>]
  BY DEF Init
<1>2. /\ os = [thr |-> [t \in Tids |-> NoOsThread], proc |-> [p \in Pids |-> NoProcess]]
      /\ past = << >> /\ trace = "rundown" /\ read = [count |-> 0, at |-> 0]
  BY DEF Init
<1>3. now = 0 /\ 0 \in Times
  BY <1>2, EtwTablesAssumption DEF now, Times
<1>4. /\ EmptyTable(Tids).entries = << >> /\ EmptyTable(Tids).by_id = [t \in Tids |-> 0]
      /\ EmptyTable(Tids) \in [entries : Seq(ThreadEntry), by_id : [Tids -> Nat]]
      /\ EmptyTable(Pids).entries = << >> /\ EmptyTable(Pids).by_id = [p \in Pids |-> 0]
      /\ EmptyTable(Pids) \in [entries : Seq(ProcessEntry), by_id : [Pids -> Nat]]
  BY DEF EmptyTable
<1>5. /\ ctx \in Context /\ ctx.threads.entries = << >> /\ ctx.processes.entries = << >>
      /\ ctx.threads.by_id = [t \in Tids |-> 0] /\ ctx.processes.by_id = [p \in Pids |-> 0]
      /\ ctx.thread_handles = {} /\ ctx.process_recycler = {} /\ ctx.owner = << >>
  BY <1>1, <1>4 DEF Context
<1>6. Sound(ctx, 0, 0)
  <2>1. TableSound(ctx.threads, Tids, 0, 0)
    BY <1>5 DEF TableSound
  <2>2. TableSound(ctx.processes, Pids, 0, 0)
    BY <1>5 DEF TableSound
  <2>3. HandlesSound(ctx, 0) /\ OwnersSound(ctx)
    BY <1>5 DEF HandlesSound, OwnersSound
  <2> QED
    BY <1>5, <2>1, <2>2, <2>3 DEF Sound
<1>7. /\ os \in Machine
      /\ \A t \in Tids : os.thr[t].pid = 0 /\ os.thr[t].entry = 0
      /\ \A p \in Pids : ~os.proc[p].alive
  BY SMTT(30), <1>2 DEF Machine, NoOsThread, NoProcess
<1>8. Tracked(ctx, os, 0)
  BY <1>7 DEF Tracked, ThreadTracked, ProcessTracked
<1>9. MarksSound(ctx, past) /\ RundownSound(ctx, os)
  BY <1>5 DEF MarksSound, RundownSound
<1>10. read \in [count : 0 .. MaxUserEvents, at : Times]
  BY <1>2, <1>3, EtwTablesAssumption
<1>11. past \in Seq([proc : [Pids -> [alive : BOOLEAN, entry : Nat]],
                     thr  : [Tids -> [pid : Pids \cup {0}, entry : Nat, handle : Nat]]])
  BY <1>2
<1>12. now <= MaxTime /\ \A t \in 1 .. now : Remembered(ctx, past[t], t)
  BY <1>3, EtwTablesAssumption
<1> QED
  BY <1>2, <1>3, <1>6, <1>8, <1>9, <1>10, <1>11, <1>12 DEF IInv

LEMMA StepSound == IInv /\ [Next]_vars => IInv'
<1> SUFFICES ASSUME IInv, [Next]_vars PROVE IInv'
  OBVIOUS
<1>1. CASE ProcessDCStart
  BY <1>1, ProcessDCStartStep
<1>2. CASE ProcessStart
  BY <1>2, ProcessStartStep
<1>3. CASE ProcessEnd
  BY <1>3, ProcessEndStep
<1>4. CASE ThreadDCStart
  BY <1>4, ThreadDCStartStep
<1>5. CASE ThreadStart
  BY <1>5, ThreadStartStep
<1>6. CASE ThreadSetName
  BY <1>6, ThreadSetNameStep
<1>7. CASE ThreadEnd
  BY <1>7, ThreadEndStep
<1>8. CASE EndOfKernelTrace
  <2>1. /\ ctx' = ctx /\ os' = os /\ past' = past /\ read' = read /\ trace' = "user"
        /\ now' = now
    BY <1>8 DEF EndOfKernelTrace, now
  <2>2. /\ Sound(ctx', now', now') /\ Tracked(ctx', os', now') /\ MarksSound(ctx', past')
        /\ now' <= MaxTime /\ read' \in [count : 0 .. MaxUserEvents, at : Times]
        /\ past' \in Seq([proc : [Pids -> [alive : BOOLEAN, entry : Nat]],
                          thr  : [Tids -> [pid : Pids \cup {0}, entry : Nat, handle : Nat]]])
    BY <2>1 DEF IInv
  <2>3. \A t \in 1 .. now' : Remembered(ctx', past'[t], t)
    BY <2>1 DEF IInv
  <2>4. trace' \in {"rundown", "kernel", "user"} /\ trace' # "rundown"
    BY <2>1
  <2> QED
    BY <2>2, <2>3, <2>4 DEF IInv
<1>9. CASE FreeformStart
  <2>1. PICK tid \in Tids, t \in 1 .. MaxTime :
          EventOfThread(tid, t) /\ ctx' = handle_freeform_marker_start(ctx, t, tid)
    BY <1>9 DEF FreeformStart
  <2>2. PICK k : k = get_index_at(ctx.threads, tid, t)
    OBVIOUS
  <2>3. ctx' = IF k = 0 THEN ctx ELSE [ctx EXCEPT !.threads.entries[k].pending = t]
    BY <2>1, <2>2 DEF handle_freeform_marker_start
  <2>4. t \in {0, t}
    OBVIOUS
  <2> QED
    BY <2>1, <2>2, <2>3, <2>4, MarkerStep
<1>10. CASE FreeformEnd
  <2>1. PICK tid \in Tids, t \in 1 .. MaxTime :
          EventOfThread(tid, t) /\ ctx' = handle_freeform_marker_end(ctx, t, tid)
    BY <1>10 DEF FreeformEnd
  <2>2. PICK k : k = get_index_at(ctx.threads, tid, t)
    OBVIOUS
  <2>3. ctx' = IF k = 0 THEN ctx ELSE [ctx EXCEPT !.threads.entries[k].pending = 0]
    BY <2>1, <2>2 DEF handle_freeform_marker_end
  <2>4. 0 \in {0, t}
    OBVIOUS
  <2> QED
    BY <2>1, <2>2, <2>3, <2>4, MarkerStep
<1>11. CASE JsSourceLoad
  BY <1>11, JsSourceLoadStep
<1>12. CASE UNCHANGED vars
  <2>1. ctx' = ctx /\ os' = os /\ past' = past /\ read' = read /\ trace' = trace /\ now' = now
    BY <1>12 DEF vars, now
  <2> QED
    BY <2>1 DEF IInv
<1> QED
  BY <1>1, <1>2, <1>3, <1>4, <1>5, <1>6, <1>7, <1>8, <1>9, <1>10, <1>11, <1>12 DEF Next

\* IInv is an invariant of the conversion.
THEOREM Inductive == Spec => []IInv
BY InitSound, StepSound, PTL DEF Spec

LEMMA TypeSound == IInv => TypeOK
<1> SUFFICES ASSUME IInv PROVE TypeOK
  OBVIOUS
<1>1. /\ ctx \in Context /\ TableSound(ctx.threads, Tids, now, now)
      /\ TableSound(ctx.processes, Pids, now, now) /\ HandlesSound(ctx, now) /\ OwnersSound(ctx)
  BY Facts DEF Sound
<1>2. /\ ctx.reuse_threads \in BOOLEAN /\ ctx.main_thread_only \in BOOLEAN
      /\ ctx.threads.by_id \in [Tids -> 0 .. Len(ctx.threads.entries)]
      /\ ctx.threads.entries \in Seq(ThreadEntry)
      /\ ctx.processes.by_id \in [Pids -> 0 .. Len(ctx.processes.entries)]
  BY <1>1 DEF Context, TableSound
<1>3. /\ ctx.processes.entries \in Seq(ProcessEntry) /\ ctx.owner \in Seq(Handles)
      /\ Len(ctx.owner) \in Nat /\ DOMAIN ctx.owner = 1 .. Len(ctx.owner)
      /\ ctx.nprocesses \in Nat
      /\ DOMAIN ctx.processes.entries = 1 .. Len(ctx.processes.entries)
      /\ \A h \in 1 .. Len(ctx.owner) : ctx.owner[h] \in Handles
      /\ ctx.thread_handles \subseteq ThreadHandle
  BY <1>1, ContextType
<1>4. ASSUME NEW i \in DOMAIN ctx.processes.entries
      PROVE  LET e == ctx.processes.entries[i] IN
               /\ e.id \in Pids /\ e.start \in Times /\ e.reused \in Times
               /\ e.name \in ProcessNames
               /\ e.handle \in 1 .. ctx.nprocesses /\ e.main \in DOMAIN ctx.owner
               /\ e.seen_main \in BOOLEAN /\ e.recycles \in BOOLEAN
               /\ e.source \in Nat /\ ThreadRecycler(e.pool)
  <2>1. PICK e : e = ctx.processes.entries[i]
    OBVIOUS
  <2>2. e \in ProcessEntry /\ Owns(ctx, e)
    BY <1>1, <1>3, <2>1, ContextType DEF OwnersSound
  <2>3. /\ e.id \in Pids /\ e.start \in Times /\ e.reused \in Times
        /\ e.name \in ProcessNames /\ e.handle \in Handles /\ e.main \in Handles
        /\ e.seen_main \in BOOLEAN /\ e.recycles \in BOOLEAN
        /\ e.source \in Nat /\ e.pool \in Pools
    BY <2>2 DEF ProcessEntry
  <2>4. e.handle \in 1 .. ctx.nprocesses /\ e.main \in DOMAIN ctx.owner
    BY <1>3, <2>2, <2>3 DEF Owns, Handles
  <2>5. ThreadRecycler(e.pool)
    <3>1. DOMAIN e.pool \subseteq ThreadData /\ e.pool \in [DOMAIN e.pool -> Handles]
      BY <2>3, PoolDomain
    <3>2. Handles = {n \in Nat : n > 0}
      BY DEF Handles
    <3> QED
      BY <3>1, <3>2 DEF ThreadRecycler, IsABag, ThreadData
  <2> QED
    BY <2>1, <2>3, <2>4, <2>5
<1>5. ctx.owner \in Seq(1 .. ctx.nprocesses)
  <2>1. \A h \in 1 .. Len(ctx.owner) : ctx.owner[h] \in 1 .. ctx.nprocesses
    BY <1>1, <1>3 DEF OwnersSound, Handles
  <2> QED
    BY <1>3, <2>1
<1>6. ctx.thread_handles \subseteq [tid : Tids, time : Times, handle : DOMAIN ctx.owner]
  <2>1. ASSUME NEW x \in ctx.thread_handles
        PROVE  x \in [tid : Tids, time : Times, handle : DOMAIN ctx.owner]
    <3>1. x \in ThreadHandle /\ x.handle <= Len(ctx.owner)
      BY <1>1, <1>3 DEF HandlesSound
    <3>2. x.handle \in DOMAIN ctx.owner
      BY <1>3, <3>1 DEF ThreadHandle, Handles
    <3> QED
      BY <3>1, <3>2 DEF ThreadHandle
  <2> QED
    BY <2>1
<1>7. /\ now <= MaxTime /\ read \in [count : 0 .. MaxUserEvents, at : Times]
      /\ trace \in {"rundown", "kernel", "user"}
  BY DEF IInv
<1> QED
  BY <1>2, <1>3, <1>4, <1>5, <1>6, <1>7 DEF TypeOK, ThreadEntry

\* The state of the conversion has its type.
THEOREM TypeCorrect == Spec => []TypeOK
<1>1. IInv => TypeOK
  BY TypeSound
<1> QED
  BY <1>1, Inductive, PTL

\* A marker, whenever it is read, is shown by the profile thread that its thread
\* had at the marker's time.
THEOREM MarkersOnTheirThreads == Spec => []MarkerOnItsThread
<1>1. ASSUME IInv PROVE MarkerOnItsThread
  <2> SUFFICES ASSUME NEW tid \in Tids, NEW t \in 1 .. now, past[t].thr[tid].pid # 0
               PROVE  marker_handle(ctx, tid, t) = past[t].thr[tid].handle
    BY DEF MarkerOnItsThread
  <2>1. PICK h : h = past[t].thr[tid].handle
    OBVIOUS
  <2>2. PICK k : k = past[t].thr[tid].entry
    OBVIOUS
  <2>3. k = get_index_at(ctx.threads, tid, t)
    BY <1>1, <2>2, Found
  <2>4. IF k = 0 THEN h = 0 ELSE HandleAt(ctx.thread_handles, tid, t, h)
    BY <1>1, <2>1, <2>2 DEF IInv, Remembered
  <2>5. CASE k = 0
    BY <2>1, <2>3, <2>4, <2>5 DEF marker_handle, has_thread_at_time
  <2>6. CASE k # 0
    <3>1. PICK H : H = ctx.thread_handles
      OBVIOUS
    <3>2. PICK S : S = {y \in H : y.tid = tid /\ y.time <= t}
      OBVIOUS
    <3>3. PICK x \in H : /\ x.tid = tid /\ x.time <= t /\ x.handle = h
                         /\ \A y \in H : y.tid = tid /\ y.time <= t => y.time <= x.time
      BY <2>4, <2>6, <3>1 DEF HandleAt
    <3>4. x \in S /\ \A y \in S : y \in H /\ y.tid = tid /\ y.time <= x.time
      BY <3>2, <3>3
    <3>5. /\ \A y \in H : y.time \in Nat
          /\ \A y, z \in H : y.tid = z.tid /\ y.time = z.time => y = z
      BY <1>1, <3>1, Facts DEF Sound, HandlesSound
    <3>6. \A z \in S : (\A y \in S : y.time <= z.time) => z = x
      <4>1. SUFFICES ASSUME NEW z \in S, \A y \in S : y.time <= z.time PROVE z = x
        OBVIOUS
      <4>2. x.time <= z.time /\ z.time <= x.time /\ x.time \in Nat /\ z.time \in Nat
        BY <3>4, <3>5, <4>1
      <4>3. x.time = z.time
        BY <4>2
      <4> QED
        BY <3>3, <3>4, <3>5, <4>3
    <3>7. (CHOOSE z \in S : \A y \in S : y.time <= z.time) = x
      BY <3>4, <3>6
    <3>8. S # {} /\ thread_handle_at_time(ctx, tid, t)
                      = IF S = {} THEN 0 ELSE (CHOOSE z \in S : \A y \in S : y.time <= z.time).handle
      BY <3>1, <3>2, <3>4 DEF thread_handle_at_time
    <3>9. thread_handle_at_time(ctx, tid, t) = h
      BY Zenon, <3>3, <3>7, <3>8
    <3> QED
      BY <2>1, <2>3, <2>6, <3>9 DEF marker_handle, has_thread_at_time
  <2> QED
    BY <2>5, <2>6
<1> QED
  BY <1>1, Inductive, PTL

\* A marker that is completed starts and ends on one thread.
THEOREM IntervalsOfOneThread == Spec => []IntervalOfOneThread
<1>1. ASSUME IInv PROVE IntervalOfOneThread
  <2> SUFFICES ASSUME NEW tid \in Tids, NEW t \in read.at .. now, t # 0,
                      past[t].thr[tid].pid # 0, interval_start(ctx, tid, t) # 0
               PROVE  past[interval_start(ctx, tid, t)].thr[tid].entry = past[t].thr[tid].entry
    BY DEF IntervalOfOneThread
  <2>1. read.at \in Nat /\ now \in Nat
    BY <1>1, Facts DEF IInv, Times
  <2>2. t \in 1 .. now
    BY <2>1
  <2>3. PICK k : k = past[t].thr[tid].entry
    OBVIOUS
  <2>4. k = get_index_at(ctx.threads, tid, t) /\ EntryAt(ctx.threads, tid, t, k)
    BY <1>1, <2>2, <2>3, Found
  <2>5. k # 0 /\ interval_start(ctx, tid, t) = ctx.threads.entries[k].pending
    BY <2>4 DEF interval_start
  <2>6. k \in 1 .. Len(ctx.threads.entries) /\ ctx.threads.entries[k].id = tid
    BY <2>4, <2>5 DEF EntryAt
  <2> QED
    BY Zenon, <1>1, <2>3, <2>5, <2>6 DEF IInv, MarksSound
<1> QED
  BY <1>1, Inductive, PTL

\* A JIT function goes to the process that had its pid when it was loaded, and is
\* named after a script of that process.
THEOREM MethodsInTheirProcesses == Spec => []MethodInItsProcess
<1>1. ASSUME IInv PROVE MethodInItsProcess
  <2> SUFFICES ASSUME NEW pid \in Pids, NEW t \in 1 .. now, past[t].proc[pid].alive
               PROVE  /\ get_index_at(ctx.processes, pid, t) = past[t].proc[pid].entry
                      /\ method_script(ctx, pid, t) \in {0, past[t].proc[pid].entry}
    BY DEF MethodInItsProcess
  <2>1. PICK i : i = past[t].proc[pid].entry
    OBVIOUS
  <2>2. i = get_index_at(ctx.processes, pid, t) /\ EntryAt(ctx.processes, pid, t, i)
    BY <1>1, <2>1, Found
  <2>3. CASE i = 0
    BY <2>1, <2>2, <2>3 DEF method_script
  <2>4. CASE i # 0
    <3>1. i \in 1 .. Len(ctx.processes.entries)
      BY <2>2, <2>4 DEF EntryAt
    <3>2. ctx.processes.entries[i].source \in {0, i}
      BY <1>1, <3>1 DEF IInv, MarksSound
    <3> QED
      BY <2>1, <2>2, <2>4, <3>2 DEF method_script
  <2> QED
    BY <2>3, <2>4
<1> QED
  BY <1>1, Inductive, PTL

\* A running thread is listed under the profile process of its process.
THEOREM ListedUnderTheirProcesses == Spec => []ShownUnderItsProcess
<1>1. ASSUME IInv PROVE ShownUnderItsProcess
  <2> SUFFICES ASSUME NEW t \in Tids, os.thr[t].entry # 0
               PROVE  ctx.owner[ctx.threads.entries[os.thr[t].entry].handle]
                        = ctx.processes.entries[os.proc[os.thr[t].pid].entry].handle
    BY Zenon DEF ShownUnderItsProcess
  <2>1. ThreadTracked(ctx, os, t, now)
    BY <1>1, Facts DEF Tracked
  <2> QED
    BY ZenonT(30), <2>1 DEF ThreadTracked
<1> QED
  BY <1>1, Inductive, PTL
=============================================================================
