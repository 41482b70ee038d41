--------------------------- MODULE ProcessesProofs ---------------------------
(***************************************************************************)
(* Proofs about the converter's tables of processes and threads, for any   *)
(* pids, tids, names and any number of processes and threads.              *)
(*                                                                         *)
(* Each handler of the converter is a composition of operations on one     *)
(* process.  Update says what such an operation has to respect, and there  *)
(* is one lemma per operation.                                             *)
(***************************************************************************)
EXTENDS Processes, LibMappings, TLAPS

ProfileThread == [owner : Handles, name : MaybeName]

States == [allow_reuse : BOOLEAN,
           processes_by_pid : [Pids -> Process \cup {NoProcess}],
           process_recycler : SUBSET ProcessRecyclingData,
           processes : Seq(MaybeName),
           threads   : Seq(ProfileThread)]

Alive(st, p) == Proc(st, p) # NoProcess

Runs(x, t) == x.threads[t] # NoThread

\* The thread handles that a recycler, a process and recycling data hold.
Pools(pool, h) == \E d \in pool : d.handle = h

Holds(x, h) ==
  \/ x.main.handle = h
  \/ \E t \in Tids : Runs(x, t) /\ x.threads[t].handle = h
  \/ Pools(x.thread_recycler, h)

Keeps(d, h) == d.main = h \/ Pools(d.thread_recycler, h)

-----------------------------------------------------------------------------
(* The inductive invariant                                                 *)

\* A recycler has a handle under one name, and not that of the main thread.
RecyclerUnshared(pool, main) ==
  /\ \A d, e \in pool : d.handle = e.handle => d = e
  /\ ~Pools(pool, main)

\* No two threads of a process, running or pooled, have the same handle.
ThreadsUnshared(x) ==
  /\ RecyclerUnshared(x.thread_recycler, x.main.handle)
  /\ \A t \in Tids : Runs(x, t) =>
       /\ x.threads[t].handle # x.main.handle
       /\ ~Pools(x.thread_recycler, x.threads[t].handle)
       /\ \A u \in Tids : Runs(x, u) /\ x.threads[u].handle = x.threads[t].handle => u = t

\* The profile shows what a process, and what waits to be recycled, is called.
RecyclerShown(st, pool) == \A d \in pool : st.threads[d.handle].name = d.name

ProcessShown(st, x) ==
  /\ st.processes[x.handle] = x.name
  /\ \A t \in Tids : Runs(x, t) => st.threads[x.threads[t].handle].name = x.threads[t].name
  /\ RecyclerShown(st, x.thread_recycler)

\* The main thread belongs to the process, and without recycling all threads do.
ProcessOwns(st, x) ==
  /\ st.threads[x.main.handle].owner = x.handle
  /\ ~st.allow_reuse =>
       /\ x.thread_recycler = {}
       /\ \A t \in Tids : Runs(x, t) => st.threads[x.threads[t].handle].owner = x.handle

ProcessSound(st, x) ==
  /\ x.handle <= Len(st.processes)
  /\ \A h \in Handles : Holds(x, h) => h <= Len(st.threads)
  /\ ThreadsUnshared(x)
  /\ ProcessShown(st, x)
  /\ ProcessOwns(st, x)

DataSound(st, d) ==
  /\ st.allow_reuse
  /\ d.handle <= Len(st.processes)
  /\ \A h \in Handles : Keeps(d, h) => h <= Len(st.threads)
  /\ RecyclerUnshared(d.thread_recycler, d.main)
  /\ st.processes[d.handle] = d.name
  /\ RecyclerShown(st, d.thread_recycler)
  /\ st.threads[d.main].owner = d.handle

\* Two processes, alive or waiting to be recycled, have nothing in common.
ApartFrom(x, y) ==
  x.handle # y.handle /\ \A h \in Handles : ~(Holds(x, h) /\ Holds(y, h))

ApartFromData(x, d) ==
  x.handle # d.handle /\ \A h \in Handles : ~(Holds(x, h) /\ Keeps(d, h))

DataApart(d, e) ==
  d.handle # e.handle /\ \A h \in Handles : ~(Keeps(d, h) /\ Keeps(e, h))

Sound(st) ==
  /\ st \in States
  /\ \A p \in Pids : Alive(st, p) => ProcessSound(st, Proc(st, p))
  /\ \A d \in st.process_recycler : DataSound(st, d)
  /\ \A p, q \in Pids : Alive(st, p) /\ Alive(st, q) /\ p # q =>
       ApartFrom(Proc(st, p), Proc(st, q))
  /\ \A p \in Pids, d \in st.process_recycler : Alive(st, p) => ApartFromData(Proc(st, p), d)
  /\ \A d, e \in st.process_recycler : d # e => DataApart(d, e)

\* Without recycling, a thread that is not known was not named, and one that is known
\* has the name that it was given last.
NamesGiven(st, names) ==
  ~st.allow_reuse =>
    \A p \in Pids, t \in Tids :
      names[p][t] # None =>
        Alive(st, p) /\ Runs(Proc(st, p), t) /\ Proc(st, p).threads[t].name = names[p][t]

IInv ==
  /\ Sound(s)
  /\ comm \in [Pids -> [Tids -> MaybeName]]
  /\ attaching \in BOOLEAN
  /\ NamesGiven(s, comm)

-----------------------------------------------------------------------------
(* What a change of one process has to respect                             *)

LEMMA PopFacts ==
  ASSUME NEW pool, NEW n, LeastOfName(pool, n) # {}
  PROVE  Popped(pool, n) \in pool /\ Popped(pool, n).name = n
BY DEF Popped, LeastOfName, OfName

LEMMA AppendFacts ==
  ASSUME NEW S, NEW q \in Seq(S), NEW x \in S
  PROVE  /\ Append(q, x) \in Seq(S) /\ Len(Append(q, x)) = Len(q) + 1
         /\ \A i \in 1 .. Len(q) : Append(q, x)[i] = q[i]
         /\ Append(q, x)[Len(q) + 1] = x
OBVIOUS

LEMMA ProcessType ==
  ASSUME NEW st \in States, NEW p \in Pids, Alive(st, p)
  PROVE  /\ Proc(st, p) \in Process
         /\ Proc(st, p).handle \in Handles
         /\ Proc(st, p).main \in Thread
         /\ Proc(st, p).main.handle \in Handles
         /\ \A t \in Tids : Runs(Proc(st, p), t) => Proc(st, p).threads[t] \in Thread
         /\ Proc(st, p).thread_recycler \in Recycler
BY DEF States, Alive, Proc, Process, Thread, Runs

\* What h is called is the affair of p alone, or h is new.
Keep(st, st2, p) ==
  /\ st2.allow_reuse = st.allow_reuse
  /\ Len(st.processes) <= Len(st2.processes)
  /\ Len(st.threads) <= Len(st2.threads)
  /\ \A h \in 1 .. Len(st.processes) :
       st2.processes[h] = st.processes[h] \/ (Alive(st, p) /\ Proc(st, p).handle = h)
  /\ \A h \in 1 .. Len(st.threads) :
       st2.threads[h] = st.threads[h] \/ (Alive(st, p) /\ Holds(Proc(st, p), h))

\* The handles that p may have after it: its own, those of recycled data and new ones.
OfProcess(st, p, D, h) ==
  (Alive(st, p) /\ Proc(st, p).handle = h) \/ (\E d \in D : d.handle = h) \/ h > Len(st.processes)

OfThread(st, p, D, h) ==
  (Alive(st, p) /\ Holds(Proc(st, p), h)) \/ (\E d \in D : Keeps(d, h)) \/ h > Len(st.threads)

\* The others stay as they are.
LEMMA OtherProcess ==
  ASSUME NEW st, NEW st2 \in States, Sound(st), NEW p \in Pids, Keep(st, st2, p),
         NEW q \in Pids, q # p, Alive(st, q)
  PROVE  ProcessSound(st2, Proc(st, q))
<1> DEFINE x == Proc(st, q)
<1>1. st \in States /\ ProcessSound(st, x) /\ (Alive(st, p) => ApartFrom(Proc(st, p), x))
  BY DEF Sound
<1>2. x.handle \in 1 .. Len(st.processes) /\ st2.processes[x.handle] = st.processes[x.handle]
  <2>1. x.handle \in Nat /\ x.handle > 0
        /\ x.handle <= Len(st.processes) /\ Len(st.processes) \in Nat
    BY <1>1, ProcessType DEF ProcessSound, Handles, States
  <2>2. x.handle \in 1 .. Len(st.processes)
    BY <2>1
  <2> QED
    BY <1>1, <2>2 DEF Keep, ApartFrom
<1>3. ASSUME NEW h \in Handles, Holds(x, h)
      PROVE  h \in 1 .. Len(st.threads) /\ st2.threads[h] = st.threads[h]
  BY <1>1, <1>3 DEF ProcessSound, Keep, ApartFrom, Handles, States
<1>4. x.main.handle \in Handles /\ Holds(x, x.main.handle)
  BY <1>1, ProcessType DEF Holds
<1>5. ASSUME NEW t \in Tids, Runs(x, t)
      PROVE  x.threads[t].handle \in Handles /\ Holds(x, x.threads[t].handle)
  BY <1>1, <1>5, ProcessType DEF Holds, Thread
<1>6. ASSUME NEW d \in x.thread_recycler PROVE d.handle \in Handles /\ Holds(x, d.handle)
  BY <1>1, <1>6, ProcessType DEF Holds, Pools, Recycler
<1>7. x.handle <= Len(st2.processes) /\ \A h \in Handles : Holds(x, h) => h <= Len(st2.threads)
  BY <1>1, <1>2 DEF ProcessSound, Keep, States, Handles
<1>8. ProcessShown(st2, x)
  BY <1>1, <1>2, <1>3, <1>5, <1>6 DEF ProcessSound, ProcessShown, RecyclerShown
<1>9. ProcessOwns(st2, x)
  BY <1>1, <1>3, <1>4, <1>5 DEF ProcessSound, ProcessOwns, Keep
<1> QED
  BY <1>1, <1>7, <1>8, <1>9 DEF ProcessSound

LEMMA OtherData ==
  ASSUME NEW st, NEW st2 \in States, Sound(st), NEW p \in Pids, Keep(st, st2, p),
         NEW d \in st.process_recycler
  PROVE  DataSound(st2, d)
<1>1. /\ st \in States /\ DataSound(st, d) /\ d \in ProcessRecyclingData
      /\ Alive(st, p) => ApartFromData(Proc(st, p), d)
  BY DEF Sound, States
<1>2. d.handle \in 1 .. Len(st.processes) /\ st2.processes[d.handle] = st.processes[d.handle]
  BY <1>1 DEF DataSound, Keep, ApartFromData, Handles, States, ProcessRecyclingData
<1>3. ASSUME NEW h \in Handles, Keeps(d, h)
      PROVE  h \in 1 .. Len(st.threads) /\ st2.threads[h] = st.threads[h]
  BY <1>1, <1>3 DEF DataSound, Keep, ApartFromData, Handles, States
<1>4. d.main \in Handles /\ Keeps(d, d.main)
  BY <1>1 DEF Keeps, ProcessRecyclingData
<1>5. ASSUME NEW e \in d.thread_recycler PROVE e.handle \in Handles /\ Keeps(d, e.handle)
  BY <1>1, <1>5 DEF Keeps, Pools, ProcessRecyclingData, Recycler
<1>6. d.handle <= Len(st2.processes) /\ \A h \in Handles : Keeps(d, h) => h <= Len(st2.threads)
  BY <1>1, <1>2 DEF DataSound, Keep, States, Handles
<1>7. RecyclerShown(st2, d.thread_recycler) /\ st2.threads[d.main].owner = d.handle
  BY <1>1, <1>3, <1>4, <1>5 DEF DataSound, RecyclerShown
<1> QED
  BY <1>1, <1>2, <1>6, <1>7 DEF DataSound, Keep

\* p may be x, with recycled data D.
MayBe(st, st2, p, x, D) ==
  /\ D \subseteq st.process_recycler
  /\ st2.processes_by_pid = [st.processes_by_pid EXCEPT ![p] = x]
  /\ x # NoProcess => /\ ProcessSound(st2, x)
                      /\ OfProcess(st, p, D, x.handle)
                      /\ \A h \in Handles : Holds(x, h) => OfThread(st, p, D, h)

\* p may leave recycling data E, one at most, to the pool.
MayLeave(st, st2, p, x, D, E) ==
  /\ st2.process_recycler = (st.process_recycler \ D) \cup E
  /\ \A e \in E : /\ DataSound(st2, e)
                  /\ OfProcess(st, p, D, e.handle)
                  /\ \A h \in Handles : Keeps(e, h) => OfThread(st, p, D, h)
                  /\ x # NoProcess => ApartFromData(x, e)
  /\ \A e, f \in E : e = f

LEMMA Update ==
  ASSUME NEW st, NEW st2 \in States, Sound(st), NEW p \in Pids, Keep(st, st2, p),
         NEW x \in Process \cup {NoProcess}, NEW D, NEW E,
         MayBe(st, st2, p, x, D), MayLeave(st, st2, p, x, D, E)
  PROVE  Sound(st2)
<1> USE DEF MayBe, MayLeave
<1>1. st \in States
  BY DEF Sound
<1>2. Proc(st2, p) = x /\ \A q \in Pids \ {p} : Proc(st2, q) = Proc(st, q)
  BY <1>1 DEF States, Proc
\* What p or recycled data had is not what others have.
<1>3. ASSUME NEW q \in Pids \ {p}, Alive(st, q)
      PROVE  /\ ~OfProcess(st, p, D, Proc(st, q).handle)
             /\ \A h \in Handles : Holds(Proc(st, q), h) => ~OfThread(st, p, D, h)
  <2>1. ProcessSound(st, Proc(st, q)) /\ Proc(st, q).handle \in Handles
    BY <1>1, <1>3, ProcessType DEF Sound
  <2>2. Alive(st, p) => ApartFrom(Proc(st, p), Proc(st, q))
    BY <1>3 DEF Sound
  <2>3. \A d \in D : ApartFromData(Proc(st, q), d)
    BY <1>3 DEF Sound
  <2>4. Len(st.processes) \in Nat /\ Len(st.threads) \in Nat
    BY <1>1 DEF States
  <2> QED
    BY <2>1, <2>2, <2>3, <2>4
       DEF OfProcess, OfThread, ProcessSound, ApartFrom, ApartFromData, Handles
<1>4. ASSUME NEW d \in st.process_recycler \ D
      PROVE  /\ ~OfProcess(st, p, D, d.handle)
             /\ \A h \in Handles : Keeps(d, h) => ~OfThread(st, p, D, h)
  <2>1. DataSound(st, d) /\ d.handle \in Handles
    BY <1>1, <1>4 DEF Sound, States, ProcessRecyclingData
  <2>2. Alive(st, p) => ApartFromData(Proc(st, p), d)
    BY <1>4 DEF Sound
  <2>3. \A e \in D : DataApart(e, d)
    BY <1>4 DEF Sound
  <2>4. Len(st.processes) \in Nat /\ Len(st.threads) \in Nat
    BY <1>1 DEF States
  <2> QED
    BY <2>1, <2>2, <2>3, <2>4
       DEF OfProcess, OfThread, DataSound, DataApart, ApartFromData, Handles
<1>5. ASSUME NEW q \in Pids, Alive(st2, q) PROVE ProcessSound(st2, Proc(st2, q))
  BY <1>2, <1>5, OtherProcess DEF Alive
<1>6. ASSUME NEW d \in st2.process_recycler PROVE DataSound(st2, d)
  BY <1>6, OtherData
<1>7. ASSUME NEW q \in Pids \ {p}, Alive(st, q)
      PROVE  /\ x # NoProcess => ApartFrom(x, Proc(st, q)) /\ ApartFrom(Proc(st, q), x)
             /\ \A e \in E : ApartFromData(Proc(st, q), e)
  BY <1>3, <1>7 DEF ApartFrom, ApartFromData
<1>8. ASSUME NEW d \in st.process_recycler \ D
      PROVE  /\ x # NoProcess => ApartFromData(x, d)
             /\ \A e \in E : DataApart(d, e) /\ DataApart(e, d)
  BY <1>4, <1>8 DEF DataApart, ApartFromData
<1>9. ASSUME NEW q \in Pids, NEW r \in Pids, Alive(st2, q), Alive(st2, r), q # r
      PROVE  ApartFrom(Proc(st2, q), Proc(st2, r))
  <2>1. CASE q = p
    BY <1>2, <1>7, <1>9, <2>1 DEF Alive
  <2>2. CASE r = p
    BY <1>2, <1>7, <1>9, <2>2 DEF Alive
  <2>3. CASE q # p /\ r # p
    BY <1>2, <1>9, <2>3 DEF Alive, Sound
  <2> QED
    BY <2>1, <2>2, <2>3
<1>10. ASSUME NEW q \in Pids, NEW d \in st2.process_recycler, Alive(st2, q)
       PROVE  ApartFromData(Proc(st2, q), d)
  <2>1. CASE q = p
    BY <1>2, <1>8, <1>10, <2>1 DEF Alive
  <2>2. CASE q # p
    <3>1. Alive(st, q) /\ Proc(st2, q) = Proc(st, q)
      BY <1>2, <1>10, <2>2 DEF Alive
    <3> QED
      BY <1>7, <1>10, <2>2, <3>1 DEF Sound
  <2> QED
    BY <2>1, <2>2
<1>11. ASSUME NEW d \in st2.process_recycler, NEW e \in st2.process_recycler, d # e
       PROVE  DataApart(d, e)
  BY <1>8, <1>11 DEF Sound
<1> QED
  BY <1>5, <1>6, <1>9, <1>10, <1>11 DEF Sound

\* Without an exchange of recycling data.
LEMMA UpdateAlone ==
  ASSUME NEW st, NEW st2 \in States, Sound(st), NEW p \in Pids, Keep(st, st2, p),
         NEW x \in Process \cup {NoProcess},
         st2.processes_by_pid = [st.processes_by_pid EXCEPT ![p] = x],
         st2.process_recycler = st.process_recycler,
         x # NoProcess => /\ ProcessSound(st2, x)
                          /\ OfProcess(st, p, {}, x.handle)
                          /\ \A h \in Handles : Holds(x, h) => OfThread(st, p, {}, h)
  PROVE  Sound(st2)
<1>1. PICK D : D = {}
  OBVIOUS
<1>2. D \subseteq st.process_recycler /\ st2.process_recycler = (st.process_recycler \ D) \cup D
  BY <1>1
<1>3. \A e \in D : FALSE
  BY <1>1
<1>4. x # NoProcess => /\ ProcessSound(st2, x)
                       /\ OfProcess(st, p, D, x.handle)
                       /\ \A h \in Handles : Holds(x, h) => OfThread(st, p, D, h)
  BY <1>1
<1> QED
  BY <1>2, <1>3, <1>4, Update DEF MayBe, MayLeave

-----------------------------------------------------------------------------
(* ProcessThreads                                                          *)

\* A change of one thread and of the recycler of a process.
WithThread(x, t, y, R) == [x EXCEPT !.threads[t] = y, !.thread_recycler = R]

SetThread(st, p, t, y, R) ==
  [st EXCEPT !.processes_by_pid = [@ EXCEPT ![p] = WithThread(Proc(st, p), t, y, R)]]

LEMMA WithThreadFacts ==
  ASSUME NEW x \in Process, NEW t \in Tids, NEW y \in Thread \cup {NoThread}, NEW R \in Recycler,
         NEW z, z = WithThread(x, t, y, R)
  PROVE  /\ z \in Process /\ z.handle = x.handle /\ z.name = x.name /\ z.main = x.main
         /\ z.thread_recycler = R /\ z.threads[t] = y
         /\ \A u \in Tids : u # t => z.threads[u] = x.threads[u]
BY DEF WithThread, Process

\* Thread t of x may have become y: it is as before, or it has a new handle or one from
\* the recycler.
MayRun(st, st2, x, t, y, R) ==
  y # NoThread =>
    /\ y.handle <= Len(st2.threads)
    /\ st2.threads[y.handle].name = y.name
    /\ ~st.allow_reuse => st2.threads[y.handle].owner = x.handle
    /\ ~Pools(R, y.handle)
    /\ \/ y.handle > Len(st.threads)
       \/ Pools(x.thread_recycler, y.handle)
       \/ Runs(x, t) /\ x.threads[t].handle = y.handle

\* R may be the recycler of x: besides what was there, it can have the handle of t.
MayPool(st, st2, x, t, R) ==
  /\ RecyclerShown(st2, R)
  /\ ~st.allow_reuse => R = {}
  /\ \A d \in R : d \in x.thread_recycler \/ (Runs(x, t) /\ d.handle = x.threads[t].handle)

\* Only that thread and the recycler change, and only that thread is renamed.
ThreadChange(st, st2, p, x, t, y, R) ==
  /\ st2.allow_reuse = st.allow_reuse
  /\ st2.processes_by_pid = [st.processes_by_pid EXCEPT ![p] = WithThread(x, t, y, R)]
  /\ st2.process_recycler = st.process_recycler
  /\ st2.processes = st.processes
  /\ Len(st.threads) <= Len(st2.threads)
  /\ \A h \in 1 .. Len(st.threads) :
       st2.threads[h] = st.threads[h] \/ (Runs(x, t) /\ x.threads[t].handle = h)

LEMMA UpdateThread ==
  ASSUME NEW st, Sound(st), NEW p \in Pids, Alive(st, p), NEW t \in Tids,
         NEW y \in Thread \cup {NoThread}, NEW R \in Recycler, NEW st2 \in States,
         NEW x, x = Proc(st, p), ThreadChange(st, st2, p, x, t, y, R),
         MayRun(st, st2, x, t, y, R), MayPool(st, st2, x, t, R)
  PROVE  Sound(st2)
<1>0. PICK z : z = WithThread(x, t, y, R)
  OBVIOUS
<1>1. /\ st \in States /\ x \in Process /\ ProcessSound(st, x)
      /\ Len(st.threads) \in Nat /\ Len(st2.threads) \in Nat
  BY ProcessType DEF Sound, States
<1>2. /\ z \in Process /\ z.handle = x.handle /\ z.name = x.name /\ z.main = x.main
      /\ z.thread_recycler = R /\ z.threads[t] = y
      /\ \A u \in Tids : u # t => z.threads[u] = x.threads[u]
  BY <1>0, <1>1, WithThreadFacts
<1> USE DEF ThreadChange, MayRun, MayPool
<1>3. x.main.handle \in Handles /\ Holds(x, x.main.handle)
  BY <1>1, ProcessType DEF Holds
<1>4. ASSUME NEW u \in Tids, Runs(x, u)
      PROVE  x.threads[u].handle \in Handles /\ Holds(x, x.threads[u].handle)
  BY <1>4, ProcessType, <1>1 DEF Holds, Thread
<1>5. \A d \in R : d.handle \in Handles /\ Holds(x, d.handle)
  BY <1>4 DEF Holds, Pools, Recycler
<1>6. y # NoThread => y.handle \in Handles /\ (y.handle > Len(st.threads) \/ Holds(x, y.handle))
  BY <1>4 DEF Holds, Thread
<1>7. ASSUME NEW h \in Handles, Holds(z, h) PROVE h > Len(st.threads) \/ Holds(x, h)
  <2>1. CASE z.main.handle = h
    BY <1>2, <1>3, <2>1
  <2>2. ASSUME NEW u \in Tids, Runs(z, u), z.threads[u].handle = h
        PROVE  h > Len(st.threads) \/ Holds(x, h)
    BY <1>2, <1>4, <1>6, <2>2 DEF Runs
  <2>3. CASE Pools(z.thread_recycler, h)
    BY <1>2, <1>5, <2>3 DEF Pools
  <2> QED
    BY <1>7, <2>1, <2>2, <2>3 DEF Holds
\* The handles in use are not in the recycler of before.
<1>8. ASSUME NEW u \in Tids, Runs(x, u), u # t
      PROVE  /\ x.threads[u].handle # x.main.handle
             /\ ~Pools(R, x.threads[u].handle)
             /\ y # NoThread => y.handle # x.threads[u].handle
             /\ st2.threads[x.threads[u].handle] = st.threads[x.threads[u].handle]
  <2>0. ThreadsUnshared(x)
    BY <1>1 DEF ProcessSound
  <2>1. x.threads[u].handle # x.main.handle /\ ~Pools(x.thread_recycler, x.threads[u].handle)
        /\ ~(Runs(x, t) /\ x.threads[t].handle = x.threads[u].handle)
    BY <1>8, <2>0 DEF ThreadsUnshared
  <2>2. x.threads[u].handle \in 1 .. Len(st.threads)
    BY <1>1, <1>4, <1>8 DEF ProcessSound, Handles
  <2>3. ~Pools(R, x.threads[u].handle)
    BY <2>1 DEF Pools
  <2> QED
    BY <1>1, <2>1, <2>2, <2>3
<1>9. /\ ~Pools(R, x.main.handle) /\ (y # NoThread => y.handle # x.main.handle)
      /\ st2.threads[x.main.handle] = st.threads[x.main.handle]
  <2>0. ThreadsUnshared(x)
    BY <1>1 DEF ProcessSound
  <2>1. ~Pools(x.thread_recycler, x.main.handle)
        /\ ~(Runs(x, t) /\ x.threads[t].handle = x.main.handle)
    BY <2>0 DEF ThreadsUnshared, RecyclerUnshared
  <2>2. x.main.handle \in 1 .. Len(st.threads)
    BY <1>1, <1>3 DEF ProcessSound, Handles
  <2>3. ~Pools(R, x.main.handle)
    BY <2>1 DEF Pools
  <2> QED
    BY <1>1, <2>1, <2>2, <2>3
<1>10. ThreadsUnshared(z)
  <2>1. \A d, e \in R : d.handle = e.handle => d = e
    BY DEF RecyclerShown, Recycler
  <2>2. RecyclerUnshared(z.thread_recycler, z.main.handle)
    BY <1>2, <1>9, <2>1 DEF RecyclerUnshared
  <2>3. ASSUME NEW u \in Tids, Runs(z, u)
        PROVE  z.threads[u].handle # z.main.handle /\ ~Pools(z.thread_recycler, z.threads[u].handle)
    BY <1>2, <1>8, <1>9, <2>3 DEF Runs
  <2>4. ASSUME NEW u \in Tids, Runs(z, u), NEW v \in Tids, Runs(z, v),
               z.threads[v].handle = z.threads[u].handle, u # v
        PROVE  FALSE
    <3>1. CASE u # t /\ v # t
      BY <1>1, <1>2, <2>4, <3>1 DEF Runs, ProcessSound, ThreadsUnshared
    <3>2. CASE u = t \/ v = t
      BY <1>2, <1>8, <2>4, <3>2 DEF Runs
    <3> QED
      BY <3>1, <3>2
  <2> QED
    BY <2>2, <2>3, <2>4 DEF ThreadsUnshared
<1>11. ProcessSound(st2, z)
  <2>1. z.handle <= Len(st2.processes) /\ st2.processes[z.handle] = z.name
    BY <1>1, <1>2 DEF ProcessSound, ProcessShown
  <2>2. ASSUME NEW u \in Tids, Runs(z, u)
        PROVE  /\ st2.threads[z.threads[u].handle].name = z.threads[u].name
               /\ ~st.allow_reuse => st2.threads[z.threads[u].handle].owner = z.handle
    <3>1. CASE u = t
      BY <1>2, <2>2, <3>1 DEF Runs
    <3>2. CASE u # t
      <4>1. z.threads[u] = x.threads[u] /\ Runs(x, u)
        BY <1>2, <2>2, <3>2 DEF Runs
      <4>2. st2.threads[x.threads[u].handle] = st.threads[x.threads[u].handle]
        BY <1>8, <3>2, <4>1
      <4> QED
        BY <1>1, <1>2, <4>1, <4>2 DEF ProcessSound, ProcessShown, ProcessOwns
    <3> QED
      BY <3>1, <3>2
  <2>3. ASSUME NEW h \in Handles, Holds(z, h) PROVE h <= Len(st2.threads)
    <3>1. CASE Holds(x, h)
      BY <1>1, <3>1 DEF ProcessSound, Handles
    <3>2. ASSUME NEW u \in Tids, Runs(z, u), z.threads[u].handle = h PROVE h <= Len(st2.threads)
      <4>1. CASE u = t
        BY <1>2, <3>2, <4>1 DEF Runs
      <4>2. CASE u # t
        BY <1>2, <1>4, <3>1, <3>2, <4>2 DEF Runs
      <4> QED
        BY <4>1, <4>2
    <3> QED
      BY <1>2, <1>3, <1>5, <2>3, <3>1, <3>2 DEF Holds, Pools
  <2>4. ProcessShown(st2, z)
    BY <1>2, <2>1, <2>2 DEF ProcessShown
  <2>5. ProcessOwns(st2, z)
    BY <1>1, <1>2, <1>9, <2>2 DEF ProcessOwns, ProcessSound
  <2> QED
    BY <1>10, <2>1, <2>3, <2>4, <2>5 DEF ProcessSound
<1>12. Keep(st, st2, p)
  BY <1>1, <1>4 DEF Keep, States
<1>13. OfProcess(st, p, {}, z.handle) /\ \A h \in Handles : Holds(z, h) => OfThread(st, p, {}, h)
  BY <1>2, <1>7 DEF OfProcess, OfThread
<1> QED
  BY <1>0, <1>11, <1>12, <1>13, <1>2, UpdateAlone

\* Nothing but thread t of p changes.
Touches(st, st2, p, t) ==
  /\ st2.allow_reuse = st.allow_reuse
  /\ Alive(st2, p)
  /\ \A q \in Pids \ {p} : Proc(st2, q) = Proc(st, q)
  /\ \A u \in Tids \ {t} : Proc(st2, p).threads[u] = Proc(st, p).threads[u]

LEMMA TouchesFacts ==
  ASSUME NEW st \in States, NEW p \in Pids, Alive(st, p), NEW t \in Tids,
         NEW y \in Thread \cup {NoThread}, NEW R \in Recycler, NEW st2,
         NEW x, x = Proc(st, p), ThreadChange(st, st2, p, x, t, y, R)
  PROVE  Touches(st, st2, p, t) /\ Proc(st2, p).threads[t] = y
<1>2. PICK z : z = WithThread(x, t, y, R)
  OBVIOUS
<1>3. x \in Process
  BY ProcessType
<1>4. /\ z \in Process /\ z.threads[t] = y
      /\ \A u \in Tids : u # t => z.threads[u] = x.threads[u]
  BY <1>2, <1>3, WithThreadFacts
<1>5. st2.processes_by_pid = [st.processes_by_pid EXCEPT ![p] = z]
  BY <1>2 DEF ThreadChange
<1>6. Proc(st2, p) = z /\ \A q \in Pids \ {p} : Proc(st2, q) = Proc(st, q)
  BY <1>5 DEF Proc, States
<1>7. z # NoProcess
  BY <1>4 DEF Process, NoProcess, Handles
<1> QED
  BY <1>4, <1>6, <1>7 DEF Touches, Alive, ThreadChange

LEMMA AddThread ==
  ASSUME NEW st, Sound(st), NEW p \in Pids, Alive(st, p), NEW t \in Tids,
         ~Runs(Proc(st, p), t), NEW n \in MaybeName, NEW st2, st2 = add_thread(st, p, t, n)
  PROVE  /\ Sound(st2) /\ Touches(st, st2, p, t)
         /\ Runs(Proc(st2, p), t) /\ Proc(st2, p).threads[t].name = n
<1>1. PICK x : x = Proc(st, p)
  OBVIOUS
<1>2. st \in States /\ x \in Process /\ x.handle \in Handles /\ x.thread_recycler \in Recycler
  BY <1>1, ProcessType DEF Sound
<1>3. PICK h \in Handles : h = Len(st.threads) + 1
  BY <1>2 DEF States, Handles
<1>4. PICK y \in Thread : y = [handle |-> h, name |-> n]
  BY DEF Thread
<1>5. PICK z : z = WithThread(x, t, y, x.thread_recycler)
  OBVIOUS
<1>6. z = [x EXCEPT !.threads[t] = y] /\ z \in Process
  BY <1>2, <1>5 DEF WithThread, Process
<1>7. PICK f : f = [st.processes_by_pid EXCEPT ![p] = z]
  OBVIOUS
<1>8. f \in [Pids -> Process \cup {NoProcess}]
  BY <1>2, <1>6, <1>7 DEF States
<1>9. PICK g : g = Append(st.threads, [owner |-> x.handle, name |-> n])
  OBVIOUS
<1>10. /\ g \in Seq(ProfileThread) /\ Len(g) = h
       /\ \A i \in 1 .. Len(st.threads) : g[i] = st.threads[i]
       /\ g[h] = [owner |-> x.handle, name |-> n]
  <2>1. [owner |-> x.handle, name |-> n] \in ProfileThread /\ st.threads \in Seq(ProfileThread)
    BY <1>2 DEF ProfileThread, States
  <2> QED
    BY <1>3, <1>9, <2>1, AppendFacts
<1>11. st2 = [st EXCEPT !.threads = g, !.processes_by_pid = f]
  BY <1>1, <1>2, <1>3, <1>4, <1>6, <1>7, <1>9 DEF add_thread, Proc, States
<1>12. /\ st2 \in States /\ st2.allow_reuse = st.allow_reuse /\ st2.processes_by_pid = f
       /\ st2.process_recycler = st.process_recycler /\ st2.processes = st.processes
       /\ st2.threads = g
  BY <1>2, <1>8, <1>10, <1>11 DEF States
<1>13. y # NoThread /\ y.name = n /\ y.handle = h
  BY <1>4 DEF NoThread, Handles
<1>14. ThreadChange(st, st2, p, x, t, y, x.thread_recycler) /\ Sound(st2)
  <2>0. ProcessSound(st, x)
    BY <1>1 DEF Sound
  <2>1. Len(st.threads) \in Nat /\ h > Len(st.threads) /\ h = Len(st2.threads)
    BY <1>2, <1>3, <1>10, <1>12 DEF States
  <2>2. ASSUME NEW d \in x.thread_recycler PROVE d.handle \in 1 .. Len(st.threads)
    BY <1>2, <2>0, <2>2 DEF ProcessSound, Holds, Pools, Recycler, Handles
  <2>3. ~Pools(x.thread_recycler, h)
    BY <2>1, <2>2 DEF Pools
  <2>4. RecyclerShown(st2, x.thread_recycler)
    BY <1>10, <1>12, <2>0, <2>2 DEF RecyclerShown, ProcessSound, ProcessShown
  <2>5. ~st.allow_reuse => x.thread_recycler = {}
    BY <2>0 DEF ProcessSound, ProcessOwns
  <2>6. st2.threads[h].name = n /\ st2.threads[h].owner = x.handle
    BY <1>10, <1>12
  <2>7. \A i \in 1 .. Len(st.threads) : st2.threads[i] = st.threads[i]
    BY <1>10, <1>12
  <2>8. Len(st.threads) <= Len(st2.threads)
    BY <2>1
  <2>9. /\ y.handle <= Len(st2.threads)
        /\ st2.threads[y.handle].name = y.name
        /\ st2.threads[y.handle].owner = x.handle
        /\ ~Pools(x.thread_recycler, y.handle)
        /\ y.handle > Len(st.threads)
    BY <1>13, <2>1, <2>3, <2>6
  <2>10. ThreadChange(st, st2, p, x, t, y, x.thread_recycler)
    BY <1>5, <1>7, <1>12, <2>7, <2>8 DEF ThreadChange
  <2>11. MayRun(st, st2, x, t, y, x.thread_recycler)
    BY <2>9 DEF MayRun
  <2>12. MayPool(st, st2, x, t, x.thread_recycler)
    BY <2>4, <2>5 DEF MayPool
  <2> QED
    BY <1>1, <1>2, <1>12, <2>10, <2>11, <2>12, UpdateThread
<1>15. Touches(st, st2, p, t) /\ Proc(st2, p).threads[t] = y
  BY <1>1, <1>2, <1>14, TouchesFacts
<1> QED
  BY <1>13, <1>14, <1>15 DEF Runs

LEMMA RecyclableFacts ==
  ASSUME NEW st, NEW W \in SUBSET (Thread \cup {NoThread}), NEW q \in Recyclable(st, W)
  PROVE  /\ q \in [name : Names, handle : Handles] /\ st.allow_reuse
         /\ \E w \in W : w # NoThread /\ q.handle = w.handle /\ q.name = w.name
<1>1. st.allow_reuse
  BY DEF Recyclable
<1>2. PICK w \in W : w # NoThread /\ w.name # None /\ q = [name |-> w.name, handle |-> w.handle]
  BY <1>1 DEF Recyclable
<1>3. w.name \in Names /\ w.handle \in Handles
  BY <1>2 DEF Thread, MaybeName
<1> QED
  BY <1>1, <1>2, <1>3

\* A thread takes a handle from the recycler, and its own one may be put there.
Swap(st, p, t, n, Q) ==
  LET pool == Proc(st, p).thread_recycler
      d    == Popped(pool, n)
  IN  SetThread(st, p, t, [handle |-> d.handle, name |-> n], (pool \ {d}) \cup Q)

MayReturn(st, p, t, Q) == Q \subseteq Recyclable(st, {Proc(st, p).threads[t]})

LEMMA SwapThread ==
  ASSUME NEW st, Sound(st), NEW p \in Pids, Alive(st, p), NEW t \in Tids, st.allow_reuse,
         NEW n \in Names, LeastOfName(Proc(st, p).thread_recycler, n) # {},
         NEW Q, MayReturn(st, p, t, Q), NEW st2, st2 = Swap(st, p, t, n, Q)
  PROVE  Sound(st2) /\ Touches(st, st2, p, t)
<1>a. PICK x : x = Proc(st, p)
  OBVIOUS
<1>b. PICK d : d = Popped(x.thread_recycler, n)
  OBVIOUS
<1>c. PICK y : y = [handle |-> d.handle, name |-> n]
  OBVIOUS
<1>d. PICK R : R = (x.thread_recycler \ {d}) \cup Q
  OBVIOUS
<1>e. st2 = SetThread(st, p, t, y, R)
  BY <1>a, <1>b, <1>c, <1>d DEF Swap
<1>1. /\ st \in States /\ x \in Process /\ x.thread_recycler \in Recycler
      /\ x.threads[t] \in Thread \cup {NoThread} /\ ProcessSound(st, x)
  BY <1>a, ProcessType DEF Sound, Process
<1>2. d \in x.thread_recycler /\ d.name = n /\ d.handle \in Handles
  BY <1>a, <1>b, <1>1, PopFacts DEF Recycler
<1>3. y \in Thread /\ y # NoThread /\ y.handle = d.handle /\ y.name = n
  BY <1>c, <1>2 DEF Thread, MaybeName, NoThread, Handles
<1>4. \A q \in Q : /\ q \in [name : Names, handle : Handles]
                   /\ Runs(x, t) /\ q.handle = x.threads[t].handle /\ q.name = x.threads[t].name
  BY <1>a, <1>1, RecyclableFacts DEF Runs, MayReturn
<1>5. R \in Recycler
  BY <1>d, <1>1, <1>4 DEF Recycler
<1>6. PICK z \in Process : z = WithThread(x, t, y, R)
  BY <1>1, <1>3, <1>5, WithThreadFacts
<1>7. PICK f \in [Pids -> Process \cup {NoProcess}] : f = [st.processes_by_pid EXCEPT ![p] = z]
  BY <1>1, <1>6 DEF States
<1>8. st2 = [st EXCEPT !.processes_by_pid = f]
  BY <1>a, <1>e, <1>1, <1>6, <1>7 DEF States, SetThread
<1>9. /\ st2 \in States /\ st2.allow_reuse = st.allow_reuse /\ st2.processes_by_pid = f
      /\ st2.process_recycler = st.process_recycler /\ st2.processes = st.processes
      /\ st2.threads = st.threads
  BY <1>1, <1>8 DEF States
<1>10. ThreadChange(st, st2, p, x, t, y, R)
  <2>1. Len(st.threads) <= Len(st.threads)
    BY <1>1 DEF States
  <2> QED
    BY <1>6, <1>7, <1>9, <2>1 DEF ThreadChange
<1>11. /\ ThreadsUnshared(x) /\ ProcessShown(st, x) /\ Pools(x.thread_recycler, d.handle)
  BY <1>1, <1>2 DEF ProcessSound, Pools
<1>12. MayRun(st, st2, x, t, y, R)
  <2>1. ~Pools(R, d.handle)
    BY <1>d, <1>2, <1>4, <1>11 DEF Pools, ThreadsUnshared, RecyclerUnshared
  <2>2. d.handle <= Len(st2.threads)
    BY <1>1, <1>2, <1>9, <1>11 DEF ProcessSound, Holds
  <2>3. st2.threads[d.handle].name = n
    BY <1>2, <1>9, <1>11 DEF ProcessShown, RecyclerShown
  <2> QED
    BY <1>3, <1>11, <2>1, <2>2, <2>3 DEF MayRun
<1>13. MayPool(st, st2, x, t, R)
  BY <1>d, <1>4, <1>9, <1>11 DEF MayPool, RecyclerShown, ProcessShown
<1>14. Sound(st2)
  BY <1>a, <1>3, <1>5, <1>9, <1>10, <1>12, <1>13, UpdateThread
<1> QED
  BY <1>a, <1>1, <1>3, <1>5, <1>10, <1>14, TouchesFacts

TwoSteps(st, p, t, y, R) ==
  [st EXCEPT !.processes_by_pid[p].thread_recycler = R, !.processes_by_pid[p].threads[t] = y]

LEMMA InTwoSteps ==
  ASSUME NEW st \in States, NEW p \in Pids, NEW t \in Tids, NEW y, NEW R,
         NEW x \in Process, x = Proc(st, p)
  PROVE  TwoSteps(st, p, t, y, R) = SetThread(st, p, t, y, R)
<1>1. PICK f : f = st.processes_by_pid
  OBVIOUS
<1>2. f[p] = x /\ f = [q \in Pids |-> f[q]]
  BY <1>1 DEF States, Proc
<1>3. PICK w : w = [x EXCEPT !.thread_recycler = R]
  OBVIOUS
<1>4. [w EXCEPT !.threads[t] = y] = WithThread(x, t, y, R)
  BY <1>3 DEF WithThread, Process
<1>5. PICK z : z = WithThread(x, t, y, R)
  OBVIOUS
<1>6. PICK g : g = [f EXCEPT ![p] = w]
  OBVIOUS
<1>7. g[p] = w /\ [g EXCEPT ![p] = z] = [f EXCEPT ![p] = z]
  BY <1>2, <1>6
<1>8. PICK st1 : st1 = [st EXCEPT !.processes_by_pid = g]
  OBVIOUS
<1>9. st1 = [st EXCEPT !.processes_by_pid[p].thread_recycler = R]
  BY <1>1, <1>2, <1>3, <1>6, <1>8
<1>10. st1.processes_by_pid = g
  BY <1>8 DEF States
<1>11. [st1 EXCEPT !.processes_by_pid[p].threads[t] = y] =
         [st1 EXCEPT !.processes_by_pid = [g EXCEPT ![p] = z]]
  BY <1>4, <1>5, <1>7, <1>10
<1>12. [st1 EXCEPT !.processes_by_pid = [g EXCEPT ![p] = z]] =
         [st EXCEPT !.processes_by_pid = [f EXCEPT ![p] = z]]
  BY <1>7, <1>8 DEF States
<1> QED
  BY <1>1, <1>5, <1>9, <1>11, <1>12 DEF SetThread, TwoSteps

LEMMA RecycleOrGetNewThread ==
  ASSUME NEW st, Sound(st), NEW p \in Pids, Alive(st, p), NEW t \in Tids, NEW n \in MaybeName,
         NEW st2, st2 = recycle_or_get_new_thread(st, p, t, n)
  PROVE  /\ Sound(st2) /\ Touches(st, st2, p, t)
         /\ ~st.allow_reuse /\ ~Runs(Proc(st, p), t) =>
              Runs(Proc(st2, p), t) /\ Proc(st2, p).threads[t].name = n
<1>1. PICK x : x = Proc(st, p)
  OBVIOUS
<1>2. st \in States /\ x \in Process /\ t # p
  BY <1>1, ProcessType, ProcessesAssumption DEF Sound
<1>3. CASE Runs(x, t)
  <2>1. st2 = st
    BY <1>1, <1>3 DEF recycle_or_get_new_thread, Runs
  <2> QED
    BY <1>1, <1>3, <2>1 DEF Touches
<1>4. CASE ~Runs(x, t) /\ st.allow_reuse /\ n # None /\ LeastOfName(x.thread_recycler, n) # {}
  <2>1. PICK d : d = Popped(x.thread_recycler, n)
    OBVIOUS
  <2>2. PICK Q : Q = {}
    OBVIOUS
  <2>3. PICK R : R = (x.thread_recycler \ {d}) \cup Q
    OBVIOUS
  <2>4. PICK y : y = [handle |-> d.handle, name |-> n]
    OBVIOUS
  <2>5. x.thread_recycler \ {d} = R
    BY <2>2, <2>3
  <2>6. st2 = TwoSteps(st, p, t, y, R)
    BY <1>1, <1>2, <1>4, <2>1, <2>4, <2>5
       DEF recycle_or_get_new_thread, Runs, TakenFrom, Proc, TwoSteps
  <2>7. st2 = Swap(st, p, t, n, Q)
    BY <1>1, <1>2, <2>1, <2>3, <2>4, <2>6, InTwoSteps DEF Swap
  <2>8. MayReturn(st, p, t, Q) /\ n \in Names
    BY <1>4, <2>2 DEF MaybeName, MayReturn
  <2>9. Sound(st2) /\ Touches(st, st2, p, t)
    BY <1>1, <1>4, <2>7, <2>8, SwapThread
  <2> QED
    BY <1>4, <2>9
<1>5. CASE ~Runs(x, t) /\ ~(st.allow_reuse /\ n # None /\ LeastOfName(x.thread_recycler, n) # {})
  <2>1. st2 = add_thread(st, p, t, n)
    BY <1>1, <1>2, <1>5 DEF recycle_or_get_new_thread, Runs
  <2> QED
    BY <1>1, <1>5, <2>1, AddThread
<1> QED
  BY <1>3, <1>4, <1>5

LEMMA GetThreadByTid ==
  ASSUME NEW st, Sound(st), NEW p \in Pids, Alive(st, p), NEW t \in Tids \cup {p},
         NEW st2, st2 = get_thread_by_tid(st, p, t)
  PROVE  /\ Sound(st2)
         /\ t = p => st2 = st
         /\ t # p => /\ t \in Tids /\ Touches(st, st2, p, t) /\ Runs(Proc(st2, p), t)
                     /\ Runs(Proc(st, p), t) => Proc(st2, p).threads[t] = Proc(st, p).threads[t]
<1>1. CASE t = p
  BY <1>1 DEF get_thread_by_tid
<1>2. CASE t # p /\ Runs(Proc(st, p), t)
  <2>1. st2 = st
    BY <1>2 DEF get_thread_by_tid, Runs
  <2> QED
    BY <1>2, <2>1 DEF Touches
<1>3. CASE t # p /\ ~Runs(Proc(st, p), t)
  <2>1. st2 = add_thread(st, p, t, None) /\ None \in MaybeName /\ t \in Tids
    BY <1>3 DEF get_thread_by_tid, Runs, MaybeName
  <2>2. Sound(st2) /\ Touches(st, st2, p, t) /\ Runs(Proc(st2, p), t)
    BY <1>3, <2>1, AddThread
  <2> QED
    BY <1>3, <2>1, <2>2
<1> QED
  BY <1>1, <1>2, <1>3

\* The profile thread of h and thread t of p are renamed.
RenameInPlace(st, p, t, h, n) ==
  [st EXCEPT !.threads[h].name = n, !.processes_by_pid[p].threads[t].name = n]

LEMMA RenameThread ==
  ASSUME NEW st, Sound(st), NEW p \in Pids, Alive(st, p), NEW t \in Tids,
         Runs(Proc(st, p), t), NEW n \in MaybeName,
         NEW h, h = Proc(st, p).threads[t].handle, NEW st2, st2 = RenameInPlace(st, p, t, h, n)
  PROVE  /\ Sound(st2) /\ Touches(st, st2, p, t)
         /\ Runs(Proc(st2, p), t) /\ Proc(st2, p).threads[t].name = n
<1>1. PICK x : x = Proc(st, p)
  OBVIOUS
<1>2. /\ st \in States /\ x \in Process /\ x.thread_recycler \in Recycler
      /\ x.threads[t] \in Thread /\ ProcessSound(st, x)
  BY <1>1, ProcessType DEF Sound
<1>3. h \in Handles /\ Holds(x, h)
  BY <1>1, <1>2 DEF Thread, Holds
<1>4. h \in 1 .. Len(st.threads)
  BY <1>2, <1>3 DEF ProcessSound, Handles, States
<1>5. PICK y \in Thread : y = [handle |-> h, name |-> n]
  BY <1>3 DEF Thread
<1>6. y = [x.threads[t] EXCEPT !.name = n]
  BY <1>1, <1>2, <1>5 DEF Thread
<1>7. PICK z : z = WithThread(x, t, y, x.thread_recycler)
  OBVIOUS
<1>8. z = [x EXCEPT !.threads[t].name = n] /\ z \in Process
  BY <1>2, <1>6, <1>7 DEF WithThread, Process
<1>9. PICK f \in [Pids -> Process \cup {NoProcess}] : f = [st.processes_by_pid EXCEPT ![p] = z]
  BY <1>2, <1>8 DEF States
<1>10. PICK g : g = [st.threads EXCEPT ![h].name = n]
  OBVIOUS
<1>11. /\ g \in Seq(ProfileThread) /\ Len(g) = Len(st.threads)
       /\ \A i \in 1 .. Len(st.threads) : i # h => g[i] = st.threads[i]
       /\ g[h].name = n /\ g[h].owner = st.threads[h].owner
  <2>1. st.threads \in Seq(ProfileThread) /\ st.threads[h] \in ProfileThread
    BY <1>2, <1>4 DEF States
  <2>2. PICK w \in ProfileThread : w = [st.threads[h] EXCEPT !.name = n]
    BY <2>1 DEF ProfileThread
  <2>3. w.name = n /\ w.owner = st.threads[h].owner
    BY <2>1, <2>2 DEF ProfileThread
  <2>4. g = [st.threads EXCEPT ![h] = w]
    BY <1>10, <2>2
  <2> QED
    BY <1>4, <2>1, <2>3, <2>4
<1>12. st2 = [st EXCEPT !.threads = g, !.processes_by_pid = f]
  BY <1>1, <1>2, <1>8, <1>9, <1>10 DEF RenameInPlace, Proc, States
<1>13. /\ st2 \in States /\ st2.allow_reuse = st.allow_reuse /\ st2.processes_by_pid = f
       /\ st2.process_recycler = st.process_recycler /\ st2.processes = st.processes
       /\ st2.threads = g
  BY <1>2, <1>11, <1>12 DEF States
<1>14. ThreadChange(st, st2, p, x, t, y, x.thread_recycler)
  <2>1. Len(st.threads) <= Len(st2.threads)
    BY <1>2, <1>11, <1>13 DEF States
  <2> QED
    BY <1>1, <1>7, <1>9, <1>11, <1>13, <2>1 DEF ThreadChange
<1>15. y # NoThread /\ y.name = n /\ y.handle = h
  BY <1>3, <1>5 DEF NoThread, Handles
<1>16. ~Pools(x.thread_recycler, h)
  BY <1>1, <1>2 DEF ProcessSound, ThreadsUnshared
<1>17. MayRun(st, st2, x, t, y, x.thread_recycler)
  <2>1. ~st.allow_reuse => st2.threads[h].owner = x.handle
    BY <1>1, <1>2, <1>11, <1>13 DEF ProcessSound, ProcessOwns
  <2>2. h <= Len(st2.threads) /\ st2.threads[h].name = n
    BY <1>4, <1>11, <1>13
  <2> QED
    BY <1>1, <1>15, <1>16, <2>1, <2>2 DEF MayRun
<1>18. MayPool(st, st2, x, t, x.thread_recycler)
  <2>1. ASSUME NEW d \in x.thread_recycler PROVE st2.threads[d.handle].name = d.name
    <3>1. d.handle # h /\ d.handle \in Handles /\ Holds(x, d.handle)
      BY <1>2, <1>16, <2>1 DEF Pools, Holds, Recycler
    <3>2. d.handle \in 1 .. Len(st.threads)
      BY <1>2, <3>1 DEF ProcessSound, Handles, States
    <3> QED
      BY <1>2, <1>11, <1>13, <2>1, <3>1, <3>2 DEF ProcessSound, ProcessShown, RecyclerShown
  <2> QED
    BY <1>2, <2>1 DEF MayPool, RecyclerShown, ProcessSound, ProcessOwns
<1>19. Sound(st2)
  BY <1>1, <1>2, <1>13, <1>14, <1>17, <1>18, UpdateThread
<1>20. Touches(st, st2, p, t) /\ Proc(st2, p).threads[t] = y
  BY <1>1, <1>2, <1>14, TouchesFacts
<1> QED
  BY <1>15, <1>19, <1>20 DEF Runs

LEMMA RenameNonMainThread ==
  ASSUME NEW st, Sound(st), NEW p \in Pids, Alive(st, p), NEW t \in Tids, NEW n \in Names,
         NEW st2, st2 = rename_non_main_thread(st, p, t, n)
  PROVE  /\ Sound(st2) /\ Touches(st, st2, p, t)
         /\ ~st.allow_reuse => Runs(Proc(st2, p), t) /\ Proc(st2, p).threads[t].name = n
<1>1. PICK x : x = Proc(st, p)
  OBVIOUS
<1>2. st \in States /\ x \in Process /\ n \in MaybeName
  BY <1>1, ProcessType DEF Sound, MaybeName
<1>3. CASE ~Runs(x, t)
  <2>1. st2 = recycle_or_get_new_thread(st, p, t, n)
    BY <1>1, <1>3 DEF rename_non_main_thread, Runs
  <2> QED
    BY <1>1, <1>2, <1>3, <2>1, RecycleOrGetNewThread
<1>4. CASE Runs(x, t) /\ x.threads[t].name = n
  <2>1. st2 = st
    BY <1>1, <1>4 DEF rename_non_main_thread, Runs
  <2> QED
    BY <1>1, <1>4, <2>1 DEF Touches
<1>5. CASE Runs(x, t) /\ x.threads[t].name # n /\ ~st.allow_reuse
  <2>1. PICK h : h = x.threads[t].handle
    OBVIOUS
  <2>2. st2 = RenameInPlace(st, p, t, h, n)
    BY <1>1, <1>5, <2>1 DEF rename_non_main_thread, Runs, RenameInPlace
  <2> QED
    BY <1>1, <1>2, <1>5, <2>1, <2>2, RenameThread
<1>6. CASE Runs(x, t) /\ x.threads[t].name # n
           /\ st.allow_reuse /\ LeastOfName(x.thread_recycler, n) # {}
  <2>1. PICK d : d = Popped(x.thread_recycler, n)
    OBVIOUS
  <2>2. PICK Q : Q = Recyclable(st, {x.threads[t]})
    OBVIOUS
  <2>3. PICK R : R = (x.thread_recycler \ {d}) \cup Q
    OBVIOUS
  <2>4. PICK y : y = [handle |-> d.handle, name |-> n]
    OBVIOUS
  <2>5. st2 = TwoSteps(st, p, t, y, R)
    BY <1>1, <1>2, <1>6, <2>1, <2>2, <2>3, <2>4
       DEF rename_non_main_thread, PooledOnRename, Runs, TakenFrom, Proc, TwoSteps
  <2>6. st2 = Swap(st, p, t, n, Q)
    BY <1>1, <1>2, <2>1, <2>3, <2>4, <2>5, InTwoSteps DEF Swap
  <2>7. MayReturn(st, p, t, Q)
    BY <1>1, <2>2 DEF MayReturn
  <2>8. Sound(st2) /\ Touches(st, st2, p, t)
    BY <1>1, <1>6, <2>6, <2>7, SwapThread
  <2> QED
    BY <1>6, <2>8
<1>7. CASE Runs(x, t) /\ x.threads[t].name # n
           /\ st.allow_reuse /\ LeastOfName(x.thread_recycler, n) = {}
  <2>1. st2 = st
    BY <1>1, <1>7 DEF rename_non_main_thread, Runs
  <2> QED
    BY <1>7, <2>1 DEF Touches
<1> QED
  BY <1>3, <1>4, <1>5, <1>6, <1>7

LEMMA RemoveNonMainThread ==
  ASSUME NEW st, Sound(st), NEW p \in Pids, Alive(st, p), NEW t \in Tids,
         NEW st2, st2 = remove_non_main_thread(st, p, t)
  PROVE  Sound(st2) /\ Touches(st, st2, p, t) /\ ~Runs(Proc(st2, p), t)
<1>1. PICK x : x = Proc(st, p)
  OBVIOUS
<1>2. /\ st \in States /\ x \in Process /\ x.thread_recycler \in Recycler
      /\ x.threads[t] \in Thread \cup {NoThread} /\ ProcessSound(st, x)
  BY <1>1, ProcessType DEF Sound, Process
<1>3. PICK Q : Q = Recyclable(st, {x.threads[t]})
  OBVIOUS
<1>4. \A q \in Q : /\ q \in [name : Names, handle : Handles] /\ st.allow_reuse
                   /\ Runs(x, t) /\ q.handle = x.threads[t].handle /\ q.name = x.threads[t].name
  BY <1>2, <1>3, RecyclableFacts DEF Runs
<1>5. PICK R \in Recycler : R = x.thread_recycler \cup Q
  BY <1>2, <1>4 DEF Recycler
<1>6. PICK y : y = NoThread
  OBVIOUS
<1>7. st2 = TwoSteps(st, p, t, y, R)
  BY <1>1, <1>3, <1>5, <1>6 DEF remove_non_main_thread, TwoSteps, Proc
<1>8. st2 = SetThread(st, p, t, y, R)
  BY <1>1, <1>2, <1>7, InTwoSteps
<1>9. PICK z \in Process : z = WithThread(x, t, y, R)
  BY <1>2, <1>6, WithThreadFacts
<1>10. PICK f \in [Pids -> Process \cup {NoProcess}] : f = [st.processes_by_pid EXCEPT ![p] = z]
  BY <1>2, <1>9 DEF States
<1>11. st2 = [st EXCEPT !.processes_by_pid = f]
  BY <1>1, <1>2, <1>8, <1>9, <1>10 DEF States, SetThread
<1>12. /\ st2 \in States /\ st2.allow_reuse = st.allow_reuse /\ st2.processes_by_pid = f
       /\ st2.process_recycler = st.process_recycler /\ st2.processes = st.processes
       /\ st2.threads = st.threads
  BY <1>2, <1>11 DEF States
<1>13. ThreadChange(st, st2, p, x, t, y, R)
  <2>1. Len(st.threads) <= Len(st.threads)
    BY <1>2 DEF States
  <2> QED
    BY <1>9, <1>10, <1>12, <2>1 DEF ThreadChange
<1>14. MayRun(st, st2, x, t, y, R)
  BY <1>6 DEF MayRun
<1>15. MayPool(st, st2, x, t, R)
  <2>1. ~st.allow_reuse => R = {}
    BY <1>2, <1>4, <1>5 DEF ProcessSound, ProcessOwns
  <2>2. RecyclerShown(st2, R)
    BY <1>2, <1>4, <1>5, <1>12 DEF RecyclerShown, ProcessSound, ProcessShown
  <2> QED
    BY <1>4, <1>5, <2>1, <2>2 DEF MayPool
<1>16. Sound(st2)
  BY <1>1, <1>6, <1>12, <1>13, <1>14, <1>15, UpdateThread
<1>17. Touches(st, st2, p, t) /\ Proc(st2, p).threads[t] = y
  BY <1>1, <1>2, <1>6, <1>13, TouchesFacts
<1> QED
  BY <1>6, <1>16, <1>17 DEF Runs

-----------------------------------------------------------------------------
(* Processes                                                               *)

LEMMA NewProcessFacts ==
  ASSUME NEW h \in Handles, NEW n \in MaybeName, NEW m \in Handles, NEW R \in Recycler,
         NEW z, z = NewProcess(h, n, m, R)
  PROVE  /\ z \in Process /\ z # NoProcess /\ z.handle = h /\ z.name = n /\ z.main.handle = m
         /\ z.thread_recycler = R /\ \A t \in Tids : ~Runs(z, t)
BY DEF NewProcess, Process, Thread, Runs, NoProcess, NoThread, Handles

\* A process without other threads is sound if its main thread and its recycler are.
LEMMA NewProcessSound ==
  ASSUME NEW h \in Handles, NEW n \in MaybeName, NEW m \in Handles, NEW R \in Recycler,
         NEW z, z = NewProcess(h, n, m, R), NEW st,
         h <= Len(st.processes), m <= Len(st.threads),
         \A d \in R : d.handle <= Len(st.threads), RecyclerUnshared(R, m),
         st.processes[h] = n, RecyclerShown(st, R), st.threads[m].owner = h,
         ~st.allow_reuse => R = {}
  PROVE  ProcessSound(st, z) /\ \A k \in Handles : Holds(z, k) => k = m \/ Pools(R, k)
<1>1. /\ z.handle = h /\ z.name = n /\ z.main.handle = m
      /\ z.thread_recycler = R /\ \A t \in Tids : ~Runs(z, t)
  BY NewProcessFacts
<1>2. \A k \in Handles : Holds(z, k) => k = m \/ Pools(R, k)
  BY <1>1 DEF Holds
<1>3. \A k \in Handles : Holds(z, k) => k <= Len(st.threads)
  BY <1>2 DEF Pools
<1>4. ThreadsUnshared(z)
  BY <1>1 DEF ThreadsUnshared
<1>5. ProcessShown(st, z) /\ ProcessOwns(st, z)
  BY <1>1 DEF ProcessShown, ProcessOwns
<1> QED
  BY <1>1, <1>2, <1>3, <1>4, <1>5 DEF ProcessSound

\* p is there afterwards, without other threads if it is new.
Arrives(st, st2, p) ==
  /\ st2.allow_reuse = st.allow_reuse
  /\ Alive(st2, p)
  /\ \A q \in Pids \ {p} : Proc(st2, q) = Proc(st, q)
  /\ IF Alive(st, p) THEN st2 = st ELSE \A t \in Tids : ~Runs(Proc(st2, p), t)

LEMMA ArrivesFacts ==
  ASSUME NEW st \in States, NEW p \in Pids, ~Alive(st, p), NEW h \in Handles, NEW n \in MaybeName,
         NEW m \in Handles, NEW R \in Recycler, NEW z, z = NewProcess(h, n, m, R),
         NEW st2, st2.allow_reuse = st.allow_reuse,
         st2.processes_by_pid = [st.processes_by_pid EXCEPT ![p] = z]
  PROVE  Arrives(st, st2, p)
<1>1. z # NoProcess /\ \A t \in Tids : ~Runs(z, t)
  BY NewProcessFacts
<1>2. Proc(st2, p) = z /\ \A q \in Pids \ {p} : Proc(st2, q) = Proc(st, q)
  BY DEF Proc, States
<1> QED
  BY <1>1, <1>2 DEF Arrives, Alive

LEMMA AddProcess ==
  ASSUME NEW st, Sound(st), NEW p \in Pids, ~Alive(st, p), NEW n \in MaybeName,
         NEW st2, st2 = add_process(st, p, n)
  PROVE  Sound(st2) /\ Arrives(st, st2, p)
<1>1. st \in States
  BY DEF Sound
<1>2. PICK h \in Handles : h = Len(st.processes) + 1
  BY <1>1 DEF States, Handles
<1>3. PICK m \in Handles : m = Len(st.threads) + 1
  BY <1>1 DEF States, Handles
<1>4. PICK R \in Recycler : R = {}
  BY DEF Recycler
<1>5. PICK z : z = NewProcess(h, n, m, R)
  OBVIOUS
<1>6. z \in Process /\ z # NoProcess /\ z.handle = h
  BY <1>5, NewProcessFacts
<1>7. PICK f \in [Pids -> Process \cup {NoProcess}] : f = [st.processes_by_pid EXCEPT ![p] = z]
  BY <1>1, <1>6 DEF States
<1>8. PICK a : a = Append(st.processes, n)
  OBVIOUS
<1>9. /\ a \in Seq(MaybeName) /\ Len(a) = h /\ a[h] = n
      /\ \A i \in 1 .. Len(st.processes) : a[i] = st.processes[i]
  BY <1>1, <1>2, <1>8, AppendFacts DEF States
<1>10. PICK g : g = Append(st.threads, [owner |-> h, name |-> n])
  OBVIOUS
<1>11. /\ g \in Seq(ProfileThread) /\ Len(g) = m /\ g[m].owner = h
       /\ \A i \in 1 .. Len(st.threads) : g[i] = st.threads[i]
  <2>1. [owner |-> h, name |-> n] \in ProfileThread /\ st.threads \in Seq(ProfileThread)
    BY <1>1 DEF ProfileThread, States
  <2> QED
    BY <1>3, <1>10, <2>1, AppendFacts
<1>12. st2 = [st EXCEPT !.processes = a, !.threads = g, !.processes_by_pid = f]
  BY <1>1, <1>2, <1>3, <1>4, <1>5, <1>7, <1>8, <1>10 DEF add_process
<1>13. /\ st2 \in States /\ st2.allow_reuse = st.allow_reuse /\ st2.processes_by_pid = f
       /\ st2.process_recycler = st.process_recycler /\ st2.processes = a /\ st2.threads = g
  BY <1>1, <1>9, <1>11, <1>12 DEF States
<1>14. Len(st.processes) \in Nat /\ Len(st.threads) \in Nat
  BY <1>1 DEF States
<1>15. ProcessSound(st2, z) /\ \A k \in Handles : Holds(z, k) => k = m
  <2>1. h <= Len(st2.processes) /\ m <= Len(st2.threads)
    BY <1>2, <1>3, <1>9, <1>11, <1>13, <1>14
  <2>2. RecyclerUnshared(R, m) /\ RecyclerShown(st2, R) /\ ~Pools(R, m) /\ \A k : ~Pools(R, k)
    BY <1>4 DEF RecyclerUnshared, RecyclerShown, Pools
  <2>3. \A d \in R : d.handle <= Len(st2.threads)
    BY <1>4
  <2>4. st2.processes[h] = n /\ st2.threads[m].owner = h
    BY <1>9, <1>11, <1>13
  <2>5. ProcessSound(st2, z) /\ \A k \in Handles : Holds(z, k) => k = m \/ Pools(R, k)
    BY <1>4, <1>5, <2>1, <2>2, <2>3, <2>4, NewProcessSound
  <2> QED
    BY <2>2, <2>5
<1>16. Keep(st, st2, p)
  <2>1. Len(st.processes) <= Len(st2.processes) /\ Len(st.threads) <= Len(st2.threads)
    BY <1>2, <1>3, <1>9, <1>11, <1>13, <1>14
  <2> QED
    BY <1>9, <1>11, <1>13, <2>1 DEF Keep
<1>17. OfProcess(st, p, {}, z.handle) /\ \A k \in Handles : Holds(z, k) => OfThread(st, p, {}, k)
  BY <1>2, <1>3, <1>6, <1>14, <1>15 DEF OfProcess, OfThread
<1>18. Sound(st2)
  BY <1>6, <1>7, <1>13, <1>15, <1>16, <1>17, UpdateAlone
<1> QED
  BY <1>1, <1>5, <1>7, <1>13, <1>18, ArrivesFacts

LEMMA GetByPid ==
  ASSUME NEW st, Sound(st), NEW p \in Pids, NEW st2, st2 = get_by_pid(st, p)
  PROVE  Sound(st2) /\ Arrives(st, st2, p)
<1>1. CASE Alive(st, p)
  BY <1>1 DEF get_by_pid, Arrives, Alive
<1>2. CASE ~Alive(st, p)
  <2>1. st2 = add_process(st, p, None) /\ None \in MaybeName
    BY <1>2 DEF get_by_pid, Alive, MaybeName
  <2> QED
    BY <1>2, <2>1, AddProcess
<1> QED
  BY <1>1, <1>2

LEMMA RecycleOrGetNew ==
  ASSUME NEW st, Sound(st), NEW p \in Pids, NEW n \in MaybeName,
         NEW st2, st2 = recycle_or_get_new(st, p, n)
  PROVE  Sound(st2) /\ Arrives(st, st2, p)
<1>1. PICK pool : pool = st.process_recycler
  OBVIOUS
<1>2. CASE Alive(st, p)
  BY <1>2 DEF recycle_or_get_new, Arrives, Alive
<1>3. CASE ~Alive(st, p) /\ ~(st.allow_reuse /\ n # None /\ LeastOfName(pool, n) # {})
  <2>1. st2 = add_process(st, p, n)
    BY <1>1, <1>3 DEF recycle_or_get_new, Alive
  <2> QED
    BY <1>3, <2>1, AddProcess
<1>4. CASE ~Alive(st, p) /\ st.allow_reuse /\ n # None /\ LeastOfName(pool, n) # {}
  <2>1. PICK d : d = Popped(pool, n)
    OBVIOUS
  <2>2. st \in States /\ d \in pool /\ d.name = n
    BY <1>4, <2>1, PopFacts DEF Sound
  <2>3. d \in ProcessRecyclingData /\ DataSound(st, d)
    BY <1>1, <2>2 DEF Sound, States
  <2>4. PICK h \in Handles : h = d.handle
    BY <2>3 DEF ProcessRecyclingData
  <2>5. PICK m \in Handles : m = d.main
    BY <2>3 DEF ProcessRecyclingData
  <2>6. PICK R \in Recycler : R = d.thread_recycler
    BY <2>3 DEF ProcessRecyclingData
  <2>7. PICK z : z = NewProcess(h, n, m, R)
    OBVIOUS
  <2>8. z \in Process /\ z # NoProcess /\ z.handle = h
    BY <2>7, NewProcessFacts
  <2>9. PICK f \in [Pids -> Process \cup {NoProcess}] : f = [st.processes_by_pid EXCEPT ![p] = z]
    BY <2>2, <2>8 DEF States
  <2>10. PICK D : D = {d}
    OBVIOUS
  <2>11. PICK E : E = {}
    OBVIOUS
  <2>12. PICK P : P = pool \ {d}
    OBVIOUS
  <2>13. P \in SUBSET ProcessRecyclingData /\ P = (st.process_recycler \ D) \cup E
         /\ D \subseteq st.process_recycler
    BY <1>1, <2>2, <2>10, <2>11, <2>12 DEF States
  <2>14. st2 = [st EXCEPT !.process_recycler = P, !.processes_by_pid = f]
    BY <1>1, <1>4, <2>1, <2>2, <2>4, <2>5, <2>6, <2>7, <2>9, <2>12
       DEF recycle_or_get_new, Alive, TakenFrom
  <2>15. /\ st2 \in States /\ st2.allow_reuse = st.allow_reuse /\ st2.processes_by_pid = f
         /\ st2.process_recycler = P /\ st2.processes = st.processes /\ st2.threads = st.threads
    BY <2>2, <2>13, <2>14 DEF States
  <2>16. ProcessSound(st2, z) /\ \A k \in Handles : Holds(z, k) => k = m \/ Pools(R, k)
    <3>1. /\ h <= Len(st2.processes) /\ st2.processes[h] = n /\ st2.threads[m].owner = h
          /\ RecyclerUnshared(R, m) /\ RecyclerShown(st2, R)
      BY <2>2, <2>3, <2>4, <2>5, <2>6, <2>15 DEF DataSound, RecyclerShown
    <3>2. Keeps(d, m) /\ \A e \in R : e.handle \in Handles /\ Keeps(d, e.handle)
      BY <2>5, <2>6 DEF Keeps, Pools, Recycler
    <3>3. m <= Len(st2.threads) /\ \A e \in R : e.handle <= Len(st2.threads)
      BY <2>3, <2>15, <3>2 DEF DataSound
    <3>4. ~st2.allow_reuse => R = {}
      BY <1>4, <2>15
    <3> QED
      BY <2>7, <3>1, <3>3, <3>4, NewProcessSound
  <2>17. OfProcess(st, p, D, z.handle) /\ \A k \in Handles : Holds(z, k) => OfThread(st, p, D, k)
    BY <2>4, <2>5, <2>6, <2>8, <2>10, <2>16 DEF OfProcess, OfThread, Keeps
  <2>18. Keep(st, st2, p)
    BY <2>2, <2>15 DEF Keep, States
  <2>19. st2.processes_by_pid = [st.processes_by_pid EXCEPT ![p] = z]
         /\ st2.process_recycler = (st.process_recycler \ D) \cup E
    BY <2>9, <2>13, <2>15
  <2>20. \A e \in E : FALSE
    BY <2>11
  <2>21. Sound(st2)
    <3>1. MayBe(st, st2, p, z, D)
      BY <2>13, <2>16, <2>17, <2>19 DEF MayBe
    <3>2. MayLeave(st, st2, p, z, D, E)
      BY <2>19, <2>20 DEF MayLeave
    <3>3. z \in Process \cup {NoProcess}
      BY <2>8
    <3> QED
      BY <2>15, <2>18, <3>1, <3>2, <3>3, Update
  <2>22. /\ ~Alive(st, p) /\ st \in States /\ st2.allow_reuse = st.allow_reuse
         /\ st2.processes_by_pid = [st.processes_by_pid EXCEPT ![p] = z]
    BY <1>4, <2>2, <2>15, <2>19
  <2>23. Arrives(st, st2, p)
    BY <2>7, <2>22, ArrivesFacts
  <2> QED
    BY <2>21, <2>23
<1> QED
  BY <1>2, <1>3, <1>4

\* What the pool gets when a process is finished: the threads that it may recycle.
LEMMA RecyclingDataSound ==
  ASSUME NEW st, Sound(st), NEW p \in Pids, Alive(st, p), NEW x, x = Proc(st, p),
         NEW R \in Recycler, NEW e \in RecyclingData(st, x, R),
         \A d \in R : \/ d \in x.thread_recycler
                      \/ \E t \in Tids : /\ Runs(x, t) /\ d.handle = x.threads[t].handle
                                         /\ d.name = x.threads[t].name
  PROVE  /\ e \in ProcessRecyclingData /\ e.handle = x.handle /\ e.thread_recycler = R
         /\ e.main = x.main.handle /\ DataSound(st, e)
         /\ \A h \in Handles : Keeps(e, h) => Holds(x, h)
<1>1. /\ st \in States /\ x \in Process /\ x.main.handle \in Handles /\ x.handle \in Handles
      /\ ProcessSound(st, x)
  BY ProcessType DEF Sound
<1>2. /\ st.allow_reuse /\ x.name # None
      /\ e = [name |-> x.name, handle |-> x.handle, main |-> x.main.handle, thread_recycler |-> R]
  BY DEF RecyclingData
<1>3. x.name \in Names
  BY <1>1, <1>2 DEF Process, MaybeName
<1>4. /\ e \in ProcessRecyclingData /\ e.handle = x.handle /\ e.thread_recycler = R
      /\ e.main = x.main.handle /\ e.name = x.name
  BY <1>1, <1>2, <1>3 DEF ProcessRecyclingData
<1>5. \A d \in R : d.handle \in Handles /\ Holds(x, d.handle)
  BY DEF Holds, Pools, Recycler
<1>6. \A h \in Handles : Keeps(e, h) => Holds(x, h)
  BY <1>4, <1>5 DEF Keeps, Pools, Holds
<1>7. \A h \in Handles : Keeps(e, h) => h <= Len(st.threads)
  BY <1>1, <1>6 DEF ProcessSound
<1>8. RecyclerShown(st, R)
  BY <1>1 DEF ProcessSound, ProcessShown, RecyclerShown
<1>9. RecyclerUnshared(R, x.main.handle)
  <2>1. \A d, f \in R : d.handle = f.handle => d = f
    BY <1>8 DEF RecyclerShown, Recycler
  <2>2. ThreadsUnshared(x)
    BY <1>1 DEF ProcessSound
  <2>3. ASSUME NEW d \in R, d.handle = x.main.handle PROVE FALSE
    BY <2>2, <2>3 DEF ThreadsUnshared, RecyclerUnshared, Pools
  <2> QED
    BY <2>1, <2>3 DEF RecyclerUnshared, Pools
<1>10. DataSound(st, e)
  BY <1>1, <1>2, <1>4, <1>7, <1>8, <1>9 DEF DataSound, ProcessSound, ProcessShown, ProcessOwns
<1> QED
  BY <1>4, <1>6, <1>10

LEMMA DataSoundKept ==
  ASSUME NEW st, NEW st2, NEW e, DataSound(st, e), st2.allow_reuse = st.allow_reuse,
         st2.processes = st.processes, st2.threads = st.threads
  PROVE  DataSound(st2, e)
BY DEF DataSound, RecyclerShown

LEMMA RemoveProcess ==
  ASSUME NEW st, Sound(st), NEW p \in Pids, NEW st2, st2 = remove(st, p)
  PROVE  /\ Sound(st2) /\ ~Alive(st2, p) /\ st2.allow_reuse = st.allow_reuse
         /\ \A q \in Pids \ {p} : Proc(st2, q) = Proc(st, q)
<1>1. PICK x : x = Proc(st, p)
  OBVIOUS
<1>2. CASE ~Alive(st, p)
  BY <1>1, <1>2 DEF remove, Alive
<1>3. CASE Alive(st, p)
  <2>1. st \in States /\ x \in Process /\ x.thread_recycler \in Recycler
    BY <1>1, <1>3, ProcessType DEF Sound
  <2>2. PICK W : W = {x.threads[t] : t \in Tids}
    OBVIOUS
  <2>3. W \in SUBSET (Thread \cup {NoThread})
    BY <2>1, <2>2 DEF Process
  <2>4. PICK Q : Q = Recyclable(st, W)
    OBVIOUS
  <2>5. \A q \in Q : /\ q \in [name : Names, handle : Handles]
                     /\ \E w \in W : w # NoThread /\ q.handle = w.handle /\ q.name = w.name
    BY <2>3, <2>4, RecyclableFacts
  <2>6. PICK R \in Recycler : R = x.thread_recycler \cup Q
    BY <2>1, <2>5 DEF Recycler
  <2>7. \A d \in R : \/ d \in x.thread_recycler
                     \/ \E t \in Tids : /\ Runs(x, t) /\ d.handle = x.threads[t].handle
                                        /\ d.name = x.threads[t].name
    BY <2>2, <2>5, <2>6 DEF Runs
  <2>8. PICK E : E = RecyclingData(st, x, R)
    OBVIOUS
  <2>9. PICK D : D = {}
    OBVIOUS
  <2>10. \A e \in E : /\ e \in ProcessRecyclingData /\ e.handle = x.handle /\ DataSound(st, e)
                      /\ \A h \in Handles : Keeps(e, h) => Holds(x, h)
    BY <1>1, <1>3, <2>7, <2>8, RecyclingDataSound
  <2>11. PICK P \in SUBSET ProcessRecyclingData : P = st.process_recycler \cup E
    BY <2>1, <2>10 DEF States
  <2>12. PICK f \in [Pids -> Process \cup {NoProcess}] :
           f = [st.processes_by_pid EXCEPT ![p] = NoProcess]
    BY <2>1 DEF States
  <2>13. st2 = [st EXCEPT !.processes_by_pid = f, !.process_recycler = P]
    BY <1>1, <1>3, <2>1, <2>2, <2>4, <2>6, <2>8, <2>11, <2>12 DEF remove, Alive
  <2>14. /\ st2 \in States /\ st2.allow_reuse = st.allow_reuse /\ st2.processes_by_pid = f
         /\ st2.process_recycler = P /\ st2.processes = st.processes /\ st2.threads = st.threads
    BY <2>1, <2>13 DEF States
  <2>15. Keep(st, st2, p)
    BY <2>1, <2>14 DEF Keep, States
  <2>16. /\ D \subseteq st.process_recycler
         /\ st2.process_recycler = (st.process_recycler \ D) \cup E
         /\ st2.processes_by_pid = [st.processes_by_pid EXCEPT ![p] = NoProcess]
    BY <2>9, <2>11, <2>12, <2>14
  <2>17. \A e \in E : /\ DataSound(st2, e)
                      /\ OfProcess(st, p, D, e.handle)
                      /\ \A h \in Handles : Keeps(e, h) => OfThread(st, p, D, h)
    <3>1. ASSUME NEW e \in E PROVE DataSound(st2, e)
      BY <2>10, <2>14, <3>1, DataSoundKept
    <3> QED
      BY <1>1, <1>3, <2>10, <3>1 DEF OfProcess, OfThread
  <2>18. \A e, g \in E : e = g
    BY <2>8 DEF RecyclingData
  <2>19. NoProcess \in Process \cup {NoProcess}
    OBVIOUS
  <2>20. MayBe(st, st2, p, NoProcess, D)
    BY <2>16 DEF MayBe
  <2>21. MayLeave(st, st2, p, NoProcess, D, E)
    BY <2>16, <2>17, <2>18 DEF MayLeave
  <2>22. Sound(st2)
    BY <2>14, <2>15, <2>19, <2>20, <2>21, Update
  <2> QED
    BY <2>1, <2>12, <2>14, <2>22 DEF Alive, Proc, States
<1> QED
  BY <1>2, <1>3

\* The threads of p besides the main thread stay as they are.
Remains(st, st2, p) ==
  /\ st2.allow_reuse = st.allow_reuse
  /\ Alive(st, p) /\ Alive(st2, p)
  /\ \A q \in Pids \ {p} : Proc(st2, q) = Proc(st, q)
  /\ Proc(st2, p).threads = Proc(st, p).threads

LEMMA RemainsFacts ==
  ASSUME NEW st \in States, NEW p \in Pids, Alive(st, p), NEW z \in Process,
         z.threads = Proc(st, p).threads, NEW st2, st2.allow_reuse = st.allow_reuse,
         st2.processes_by_pid = [st.processes_by_pid EXCEPT ![p] = z]
  PROVE  Remains(st, st2, p)
<1>1. z # NoProcess
  BY DEF Process, NoProcess, Handles
<1>2. Proc(st2, p) = z /\ \A q \in Pids \ {p} : Proc(st2, q) = Proc(st, q)
  BY DEF Proc, States
<1> QED
  BY <1>1, <1>2 DEF Remains, Alive

\* New names for a process and its main thread.
SameHandles(x, z) ==
  /\ z.handle = x.handle /\ z.main.handle = x.main.handle
  /\ z.threads = x.threads /\ z.thread_recycler = x.thread_recycler

OnlyRenamed(st, st2, x, z) ==
  /\ st2.allow_reuse = st.allow_reuse
  /\ st2.process_recycler = st.process_recycler
  /\ Len(st2.processes) = Len(st.processes)
  /\ Len(st2.threads) = Len(st.threads)
  /\ st2.processes[x.handle] = z.name
  /\ st2.threads[x.main.handle].owner = st.threads[x.main.handle].owner
  /\ \A h \in 1 .. Len(st.processes) : h # x.handle => st2.processes[h] = st.processes[h]
  /\ \A h \in 1 .. Len(st.threads) : h # x.main.handle => st2.threads[h] = st.threads[h]

LEMMA UpdateNames ==
  ASSUME NEW st, Sound(st), NEW p \in Pids, Alive(st, p), NEW x, x = Proc(st, p),
         NEW z \in Process, SameHandles(x, z), NEW st2 \in States, OnlyRenamed(st, st2, x, z),
         st2.processes_by_pid = [st.processes_by_pid EXCEPT ![p] = z]
  PROVE  Sound(st2) /\ Remains(st, st2, p)
<1>1. /\ st \in States /\ x \in Process /\ x.main.handle \in Handles /\ x.handle \in Handles
      /\ ProcessSound(st, x)
  BY ProcessType DEF Sound
<1>2. \A t \in Tids : Runs(z, t) <=> Runs(x, t)
  BY DEF Runs, SameHandles
<1>3. \A h \in Handles : Holds(z, h) <=> Holds(x, h)
  BY <1>2 DEF Holds, SameHandles
<1>4. ASSUME NEW h \in Handles, Holds(x, h), h # x.main.handle
      PROVE  st2.threads[h] = st.threads[h]
  BY <1>1, <1>4 DEF ProcessSound, OnlyRenamed, Handles, States
<1>5. ASSUME NEW t \in Tids, Runs(x, t)
      PROVE  st2.threads[x.threads[t].handle] = st.threads[x.threads[t].handle]
  <2>1. x.threads[t].handle \in Handles /\ Holds(x, x.threads[t].handle)
    BY <1>1, <1>5, ProcessType DEF Holds, Thread
  <2>2. x.threads[t].handle # x.main.handle
    BY <1>1, <1>5 DEF ProcessSound, ThreadsUnshared
  <2> QED
    BY <1>4, <2>1, <2>2
<1>6. ASSUME NEW d \in x.thread_recycler PROVE st2.threads[d.handle] = st.threads[d.handle]
  <2>1. d.handle \in Handles /\ Holds(x, d.handle)
    BY <1>1, <1>6, ProcessType DEF Holds, Pools, Recycler
  <2>2. d.handle # x.main.handle
    BY <1>1, <1>6 DEF ProcessSound, ThreadsUnshared, RecyclerUnshared, Pools
  <2> QED
    BY <1>4, <2>1, <2>2
<1>7. ThreadsUnshared(z)
  BY <1>1, <1>2 DEF ProcessSound, ThreadsUnshared, SameHandles
<1>8. ProcessShown(st2, z)
  BY <1>1, <1>2, <1>5, <1>6 DEF ProcessSound, ProcessShown, SameHandles, OnlyRenamed, RecyclerShown
<1>9. ProcessOwns(st2, z)
  BY <1>1, <1>2, <1>5 DEF ProcessSound, ProcessOwns, SameHandles, OnlyRenamed
<1>10. ProcessSound(st2, z)
  BY <1>1, <1>3, <1>7, <1>8, <1>9 DEF ProcessSound, SameHandles, OnlyRenamed
<1>11. Holds(x, x.main.handle)
  BY DEF Holds
<1>12. Keep(st, st2, p)
  <2>1. Len(st.processes) <= Len(st2.processes) /\ Len(st.threads) <= Len(st2.threads)
    BY <1>1 DEF OnlyRenamed, States
  <2> QED
    BY <1>11, <2>1 DEF Keep, OnlyRenamed
<1>13. OfProcess(st, p, {}, z.handle) /\ \A h \in Handles : Holds(z, h) => OfThread(st, p, {}, h)
  BY <1>3 DEF OfProcess, OfThread, SameHandles
<1>14. Sound(st2)
  BY <1>10, <1>12, <1>13, UpdateAlone DEF OnlyRenamed
<1> QED
  BY <1>1, <1>14, RemainsFacts DEF OnlyRenamed, SameHandles

\* The process takes over d, and the pool gets what it had.
Exchange(st, p, x, n, d) ==
  [st EXCEPT !.process_recycler = TakenFrom(@, d) \cup RecyclingData(st, x, x.thread_recycler),
             !.processes_by_pid[p] = rename_with_recycling(x, n, d)]

LEMMA TakeOver ==
  ASSUME NEW st, Sound(st), NEW p \in Pids, Alive(st, p), NEW x, x = Proc(st, p), st.allow_reuse,
         NEW n \in Names, LeastOfName(st.process_recycler, n) # {},
         NEW d, d = Popped(st.process_recycler, n), NEW st2,
         st2 = Exchange(st, p, x, n, d)
  PROVE  Sound(st2) /\ Remains(st, st2, p)
<1>1. /\ st \in States /\ x \in Process /\ x.main.handle \in Handles /\ x.handle \in Handles
      /\ x.thread_recycler \in Recycler /\ ProcessSound(st, x)
  BY ProcessType DEF Sound
<1>2. d \in st.process_recycler /\ d.name = n
  BY PopFacts
<1>3. d \in ProcessRecyclingData /\ DataSound(st, d) /\ ApartFromData(x, d)
  BY <1>1, <1>2 DEF Sound, States
<1>4. d.handle \in Handles /\ d.main \in Handles /\ d.thread_recycler \in Recycler
  BY <1>3 DEF ProcessRecyclingData
<1>5. PICK z : z = rename_with_recycling(x, n, d)
  OBVIOUS
<1>6. /\ z \in Process /\ z.handle = d.handle /\ z.name = n /\ z.main.handle = d.main
      /\ z.thread_recycler = d.thread_recycler /\ z.threads = x.threads
  <2>1. PICK m \in Thread : m = [handle |-> d.main, name |-> n]
    BY <1>4 DEF Thread, MaybeName
  <2>2. n \in MaybeName /\ m.handle = d.main
    BY <2>1 DEF MaybeName
  <2>3. z = [x EXCEPT !.handle = d.handle, !.name = n, !.main = m,
                      !.thread_recycler = d.thread_recycler]
    BY <1>5, <2>1 DEF rename_with_recycling
  <2> QED
    BY <1>1, <1>4, <2>2, <2>3 DEF Process
<1>7. PICK E : E = RecyclingData(st, x, x.thread_recycler)
  OBVIOUS
<1>8. \A e \in E : /\ e \in ProcessRecyclingData /\ e.handle = x.handle /\ DataSound(st, e)
                   /\ e.main = x.main.handle /\ e.thread_recycler = x.thread_recycler
                   /\ \A h \in Handles : Keeps(e, h) => Holds(x, h)
  BY <1>1, <1>7, RecyclingDataSound
<1>9. PICK D : D = {d}
  OBVIOUS
<1>10. PICK P \in SUBSET ProcessRecyclingData : P = (st.process_recycler \ D) \cup E
  BY <1>1, <1>8 DEF States
<1>11. PICK f \in [Pids -> Process \cup {NoProcess}] : f = [st.processes_by_pid EXCEPT ![p] = z]
  BY <1>1, <1>6 DEF States
<1>12. st2 = [st EXCEPT !.process_recycler = P, !.processes_by_pid = f]
  BY <1>1, <1>5, <1>7, <1>9, <1>10, <1>11 DEF TakenFrom, Exchange
<1>13. /\ st2 \in States /\ st2.allow_reuse = st.allow_reuse /\ st2.processes_by_pid = f
       /\ st2.process_recycler = P /\ st2.processes = st.processes /\ st2.threads = st.threads
  BY <1>1, <1>12 DEF States
<1>14. \A t \in Tids : Runs(z, t) <=> Runs(x, t)
  BY <1>6 DEF Runs
<1>15. ASSUME NEW t \in Tids, Runs(x, t)
       PROVE  /\ x.threads[t].handle \in Handles /\ Holds(x, x.threads[t].handle)
              /\ ~Keeps(d, x.threads[t].handle)
  <2>1. x.threads[t].handle \in Handles /\ Holds(x, x.threads[t].handle)
    BY <1>1, <1>15, ProcessType DEF Holds, Thread
  <2> QED
    BY <1>3, <2>1 DEF ApartFromData
<1>16. ASSUME NEW h \in Handles, Holds(z, h)
       PROVE  Keeps(d, h) \/ \E t \in Tids : Runs(x, t) /\ x.threads[t].handle = h
  BY <1>6, <1>14, <1>16 DEF Holds, Keeps
<1>17. ProcessSound(st2, z)
  <2>1. z.handle <= Len(st2.processes)
    BY <1>3, <1>6, <1>13 DEF DataSound
  <2>2. \A h \in Handles : Holds(z, h) => h <= Len(st2.threads)
    BY <1>1, <1>3, <1>13, <1>15, <1>16 DEF DataSound, ProcessSound
  <2>3. ThreadsUnshared(z)
    BY <1>1, <1>3, <1>6, <1>14, <1>15 DEF ThreadsUnshared, ProcessSound, DataSound, Keeps
  <2>4. ProcessShown(st2, z)
    BY <1>1, <1>2, <1>3, <1>6, <1>13, <1>14
       DEF ProcessShown, ProcessSound, DataSound, RecyclerShown
  <2>5. ProcessOwns(st2, z)
    BY <1>3, <1>6, <1>13 DEF ProcessOwns, DataSound
  <2> QED
    BY <2>1, <2>2, <2>3, <2>4, <2>5 DEF ProcessSound
<1>18. OfProcess(st, p, D, z.handle) /\ \A h \in Handles : Holds(z, h) => OfThread(st, p, D, h)
  BY <1>6, <1>9, <1>15, <1>16 DEF OfProcess, OfThread
<1>19. ASSUME NEW e \in E
       PROVE  /\ DataSound(st2, e) /\ OfProcess(st, p, D, e.handle)
              /\ \A h \in Handles : Keeps(e, h) => OfThread(st, p, D, h)
              /\ ApartFromData(z, e)
  <2>1. DataSound(st2, e)
    BY <1>8, <1>13, <1>19, DataSoundKept
  <2>2. OfProcess(st, p, D, e.handle) /\ \A h \in Handles : Keeps(e, h) => OfThread(st, p, D, h)
    BY <1>8, <1>19 DEF OfProcess, OfThread
  <2>3. ASSUME NEW h \in Handles, Keeps(e, h), NEW t \in Tids, Runs(x, t), x.threads[t].handle = h
        PROVE  FALSE
    BY <1>1, <1>8, <1>19, <2>3 DEF Keeps, ProcessSound, ThreadsUnshared
  <2>4. \A h \in Handles : Keeps(e, h) => ~Keeps(d, h)
    BY <1>3, <1>8, <1>19 DEF ApartFromData
  <2>5. ApartFromData(z, e)
    BY <1>3, <1>6, <1>8, <1>16, <1>19, <2>3, <2>4 DEF ApartFromData
  <2> QED
    BY <2>1, <2>2, <2>5
<1>20. \A e, g \in E : e = g
  BY <1>7 DEF RecyclingData
<1>21. Keep(st, st2, p)
  <2>1. Len(st.processes) <= Len(st.processes) /\ Len(st.threads) <= Len(st.threads)
    BY <1>1 DEF States
  <2> QED
    BY <1>13, <2>1 DEF Keep
<1>22. /\ D \subseteq st.process_recycler
       /\ st2.process_recycler = (st.process_recycler \ D) \cup E
       /\ st2.processes_by_pid = [st.processes_by_pid EXCEPT ![p] = z]
  BY <1>2, <1>9, <1>10, <1>11, <1>13
<1>23. Sound(st2)
  <2>1. z \in Process \cup {NoProcess} /\ st2 \in States
    BY <1>6, <1>13
  <2>2. MayBe(st, st2, p, z, D)
    BY <1>17, <1>18, <1>22 DEF MayBe
  <2>3. MayLeave(st, st2, p, z, D, E)
    BY <1>19, <1>20, <1>22 DEF MayLeave
  <2> QED
    BY <1>21, <2>1, <2>2, <2>3, Update
<1> QED
  BY <1>1, <1>6, <1>13, <1>22, <1>23, RemainsFacts

\* Sequences of names: one entry of the profile is renamed.
LEMMA ThreadRenamed ==
  ASSUME NEW q \in Seq(ProfileThread), NEW h \in 1 .. Len(q), NEW n \in MaybeName,
         NEW g, g = [q EXCEPT ![h].name = n]
  PROVE  /\ g \in Seq(ProfileThread) /\ Len(g) = Len(q) /\ g[h].owner = q[h].owner
         /\ \A i \in 1 .. Len(q) : i # h => g[i] = q[i]
<1>1. q[h] \in ProfileThread
  OBVIOUS
<1>2. PICK w \in ProfileThread : w = [q[h] EXCEPT !.name = n]
  BY <1>1 DEF ProfileThread
<1>3. w.owner = q[h].owner /\ g = [q EXCEPT ![h] = w]
  BY <1>1, <1>2 DEF ProfileThread
<1> QED
  BY <1>3

LEMMA HandlesInRange ==
  ASSUME NEW st, Sound(st), NEW p \in Pids, Alive(st, p), NEW x, x = Proc(st, p)
  PROVE  x.handle \in 1 .. Len(st.processes) /\ x.main.handle \in 1 .. Len(st.threads)
<1>1. /\ st \in States /\ x.handle \in Handles /\ x.main.handle \in Handles /\ ProcessSound(st, x)
      /\ Len(st.processes) \in Nat /\ Len(st.threads) \in Nat
  BY ProcessType DEF Sound, States
<1>2. x.handle <= Len(st.processes) /\ x.main.handle <= Len(st.threads)
  BY <1>1 DEF ProcessSound, Holds
<1> QED
  BY <1>1, <1>2 DEF Handles

\* p becomes z, which has the same handles, and the profile has their new names in a and g.
NewNames(st, x, z, a, g) ==
  /\ SameHandles(x, z)
  /\ Len(a) = Len(st.processes) /\ a[x.handle] = z.name
  /\ \A h \in 1 .. Len(a) : h # x.handle => a[h] = st.processes[h]
  /\ Len(g) = Len(st.threads) /\ g[x.main.handle].owner = st.threads[x.main.handle].owner
  /\ \A h \in 1 .. Len(g) : h # x.main.handle => g[h] = st.threads[h]

WithNames(st, p, z, a, g) ==
  [st EXCEPT !.processes = a, !.threads = g, !.processes_by_pid = [@ EXCEPT ![p] = z]]

LEMMA Renamed ==
  ASSUME NEW st, Sound(st), NEW p \in Pids, Alive(st, p), NEW x, x = Proc(st, p),
         NEW z \in Process, NEW a \in Seq(MaybeName), NEW g \in Seq(ProfileThread),
         NewNames(st, x, z, a, g), NEW st2, st2 = WithNames(st, p, z, a, g)
  PROVE  Sound(st2) /\ Remains(st, st2, p)
<1>0. PICK f : f = [st.processes_by_pid EXCEPT ![p] = z]
  OBVIOUS
<1>1. st \in States
  BY DEF Sound
<1>2. f \in [Pids -> Process \cup {NoProcess}]
  BY <1>0, <1>1 DEF States
<1>3. /\ st2 \in States /\ st2.allow_reuse = st.allow_reuse /\ st2.processes_by_pid = f
      /\ st2.process_recycler = st.process_recycler /\ st2.processes = a /\ st2.threads = g
  BY <1>0, <1>1, <1>2 DEF States, WithNames
<1>4. OnlyRenamed(st, st2, x, z) /\ SameHandles(x, z)
  BY <1>3 DEF OnlyRenamed, NewNames
<1>5. st2.processes_by_pid = [st.processes_by_pid EXCEPT ![p] = z] /\ st2 \in States
  BY <1>0, <1>3
<1> QED
  BY <1>4, <1>5, UpdateNames

LEMMA RenameProcess ==
  ASSUME NEW st, Sound(st), NEW p \in Pids, NEW n \in Names,
         NEW st2, st2 = rename_process(st, p, n)
  PROVE  Sound(st2) /\ IF Alive(st, p) THEN Remains(st, st2, p) ELSE Arrives(st, st2, p)
<1>1. PICK x : x = Proc(st, p)
  OBVIOUS
<1>2. PICK pool : pool = st.process_recycler
  OBVIOUS
<1>3. CASE ~Alive(st, p)
  <2>1. st2 = recycle_or_get_new(st, p, n) /\ n \in MaybeName
    BY <1>1, <1>3 DEF rename_process, Alive, MaybeName
  <2> QED
    BY <1>3, <2>1, RecycleOrGetNew
<1>4. CASE Alive(st, p) /\ x.name = n
  <2>1. st2 = st
    BY <1>1, <1>4 DEF rename_process, Alive
  <2> QED
    BY <1>4, <2>1 DEF Remains
<1>5. CASE Alive(st, p) /\ x.name # n /\ st.allow_reuse /\ LeastOfName(pool, n) # {}
  <2>1. PICK d : d = Popped(pool, n)
    OBVIOUS
  <2>2. st2 = Exchange(st, p, x, n, d)
    BY <1>1, <1>2, <1>5, <2>1 DEF rename_process, Alive, Exchange
  <2> QED
    BY <1>1, <1>2, <1>5, <2>1, <2>2, TakeOver
<1>6. CASE Alive(st, p) /\ x.name # n /\ ~(st.allow_reuse /\ LeastOfName(pool, n) # {})
  <2>1. /\ st \in States /\ x \in Process /\ x.main \in Thread /\ n \in MaybeName
        /\ x.handle \in 1 .. Len(st.processes) /\ x.main.handle \in 1 .. Len(st.threads)
    BY <1>1, <1>6, ProcessType, HandlesInRange DEF Sound, MaybeName
  <2>2. PICK m \in Thread : m = [x.main EXCEPT !.name = n]
    BY <2>1 DEF Thread
  <2>3. PICK z \in Process : z = [x EXCEPT !.name = n, !.main = m]
    BY <2>1 DEF Process
  <2>4. SameHandles(x, z) /\ z.name = n
    BY <2>1, <2>2, <2>3 DEF SameHandles, Process, Thread
  <2>5. st.processes \in Seq(MaybeName) /\ st.threads \in Seq(ProfileThread)
    BY <2>1 DEF States
  <2>6. PICK a : a = [st.processes EXCEPT ![x.handle] = n]
    OBVIOUS
  <2>7. /\ a \in Seq(MaybeName) /\ Len(a) = Len(st.processes) /\ a[x.handle] = n
        /\ \A h \in 1 .. Len(a) : h # x.handle => a[h] = st.processes[h]
    BY <2>1, <2>5, <2>6
  <2>8. PICK g : g = [st.threads EXCEPT ![x.main.handle].name = n]
    OBVIOUS
  <2>9. /\ g \in Seq(ProfileThread) /\ Len(g) = Len(st.threads)
        /\ g[x.main.handle].owner = st.threads[x.main.handle].owner
        /\ \A h \in 1 .. Len(g) : h # x.main.handle => g[h] = st.threads[h]
    BY <2>1, <2>5, <2>8, ThreadRenamed
  <2>10. PICK y : y = [x EXCEPT !.name = n]
    OBVIOUS
  <2>11. z = [y EXCEPT !.main.name = n]
    BY <2>1, <2>2, <2>3, <2>10 DEF Process
  <2>12. PICK st1 : st1 = [st EXCEPT !.processes = a, !.threads = g, !.processes_by_pid[p] = y]
    OBVIOUS
  <2>13. st2 = [st1 EXCEPT !.processes_by_pid[p].main.name = n]
    BY <1>1, <1>2, <1>6, <2>6, <2>8, <2>10, <2>12 DEF rename_process, Alive, Proc
  <2>14. st1.processes_by_pid = [st.processes_by_pid EXCEPT ![p] = y] /\ st1.processes_by_pid[p] = y
    BY <2>1, <2>12 DEF States
  <2>15. [st1.processes_by_pid EXCEPT ![p] = z] = [st.processes_by_pid EXCEPT ![p] = z]
    BY <2>1, <2>14 DEF States
  <2>16. st2 = [st1 EXCEPT !.processes_by_pid = [@ EXCEPT ![p] = z]]
    BY <2>11, <2>13, <2>14
  <2>17. st2 = WithNames(st, p, z, a, g)
    BY <2>1, <2>12, <2>15, <2>16 DEF States, WithNames
  <2>18. NewNames(st, x, z, a, g)
    BY <2>4, <2>7, <2>9 DEF NewNames
  <2> QED
    BY <1>1, <1>6, <2>7, <2>9, <2>17, <2>18, Renamed
<1> QED
  BY <1>3, <1>4, <1>5, <1>6

NameProcess(st, p, n) ==
  [st EXCEPT !.processes[Proc(st, p).handle] = n, !.processes_by_pid[p].name = n]

LEMMA RegisterProcess ==
  ASSUME NEW st, Sound(st), NEW p \in Pids, Alive(st, p), NEW n \in Names, NEW st2,
         st2 = NameProcess(st, p, n)
  PROVE  Sound(st2) /\ Remains(st, st2, p)
<1>1. PICK x : x = Proc(st, p)
  OBVIOUS
<1>2. /\ st \in States /\ x \in Process /\ n \in MaybeName /\ x.handle \in 1 .. Len(st.processes)
  BY <1>1, ProcessType, HandlesInRange DEF Sound, MaybeName
<1>3. PICK z \in Process : z = [x EXCEPT !.name = n]
  BY <1>2 DEF Process
<1>4. SameHandles(x, z) /\ z.name = n
  BY <1>2, <1>3 DEF SameHandles, Process
<1>5. st.processes \in Seq(MaybeName) /\ st.threads \in Seq(ProfileThread)
  BY <1>2 DEF States
<1>6. PICK a : a = [st.processes EXCEPT ![x.handle] = n]
  OBVIOUS
<1>7. /\ a \in Seq(MaybeName) /\ Len(a) = Len(st.processes) /\ a[x.handle] = n
      /\ \A h \in 1 .. Len(a) : h # x.handle => a[h] = st.processes[h]
  BY <1>2, <1>5, <1>6
<1>8. PICK g : g = st.threads
  OBVIOUS
<1>9. st2 = [st EXCEPT !.processes = a, !.processes_by_pid[p] = z]
  BY <1>1, <1>3, <1>6 DEF Proc, NameProcess
<1>10. st2 = WithNames(st, p, z, a, g)
  BY <1>2, <1>8, <1>9 DEF WithNames, States
<1>11. NewNames(st, x, z, a, g)
  BY <1>4, <1>7, <1>8 DEF NewNames
<1> QED
  BY <1>1, <1>5, <1>7, <1>8, <1>10, <1>11, Renamed

NameMain(st, p, n) ==
  [st EXCEPT !.threads[Proc(st, p).main.handle].name = n, !.processes_by_pid[p].main.name = n]

LEMMA RegisterMainThread ==
  ASSUME NEW st, Sound(st), NEW p \in Pids, Alive(st, p), NEW n \in Names, NEW st2,
         st2 = NameMain(st, p, n)
  PROVE  Sound(st2) /\ Remains(st, st2, p)
<1>1. PICK x : x = Proc(st, p)
  OBVIOUS
<1>2. /\ st \in States /\ x \in Process /\ x.main \in Thread /\ n \in MaybeName
      /\ x.main.handle \in 1 .. Len(st.threads) /\ ProcessSound(st, x)
  BY <1>1, ProcessType, HandlesInRange DEF Sound, MaybeName
<1>3. PICK m \in Thread : m = [x.main EXCEPT !.name = n]
  BY <1>2 DEF Thread
<1>4. PICK z \in Process : z = [x EXCEPT !.main = m]
  BY <1>2 DEF Process
<1>5. SameHandles(x, z) /\ z.name = x.name
  BY <1>2, <1>3, <1>4 DEF SameHandles, Process, Thread
<1>6. st.processes \in Seq(MaybeName) /\ st.threads \in Seq(ProfileThread)
  BY <1>2 DEF States
<1>7. PICK g : g = [st.threads EXCEPT ![x.main.handle].name = n]
  OBVIOUS
<1>8. /\ g \in Seq(ProfileThread) /\ Len(g) = Len(st.threads)
      /\ g[x.main.handle].owner = st.threads[x.main.handle].owner
      /\ \A h \in 1 .. Len(g) : h # x.main.handle => g[h] = st.threads[h]
  BY <1>2, <1>6, <1>7, ThreadRenamed
<1>9. PICK a : a = st.processes
  OBVIOUS
<1>10. st2 = [st EXCEPT !.threads = g, !.processes_by_pid[p] = z]
  BY <1>1, <1>3, <1>4, <1>7 DEF Proc, NameMain
<1>11. st2 = WithNames(st, p, z, a, g)
  BY <1>2, <1>9, <1>10 DEF WithNames, States
<1>12. a[x.handle] = z.name
  BY <1>2, <1>5, <1>9 DEF ProcessSound, ProcessShown
<1>13. NewNames(st, x, z, a, g)
  BY <1>5, <1>8, <1>9, <1>12 DEF NewNames
<1> QED
  BY <1>1, <1>6, <1>8, <1>9, <1>11, <1>13, Renamed

-----------------------------------------------------------------------------
(* The names that records gave                                             *)

LEMMA NamesArrive ==
  ASSUME NEW st, NEW names, NamesGiven(st, names), NEW st2, NEW p \in Pids, Arrives(st, st2, p)
  PROVE  NamesGiven(st2, names)
BY DEF NamesGiven, Arrives, Alive

LEMMA NamesRemain ==
  ASSUME NEW st, NEW names, NamesGiven(st, names), NEW st2, NEW p \in Pids, Remains(st, st2, p)
  PROVE  NamesGiven(st2, names)
BY DEF NamesGiven, Remains, Alive, Runs

\* Named(p, t, n), for constants.
NamedOf(names, p, t, n) == IF t = p THEN names ELSE [names EXCEPT ![p][t] = n]

\* The thread is named n, or gets to be unnamed.
LEMMA NamesTouched ==
  ASSUME NEW st, NEW names \in [Pids -> [Tids -> MaybeName]], NamesGiven(st, names),
         NEW st2, NEW p \in Pids, NEW t \in Tids, Touches(st, st2, p, t),
         NEW n \in MaybeName,
         ~st.allow_reuse /\ n # None => Runs(Proc(st2, p), t) /\ Proc(st2, p).threads[t].name = n,
         NEW names2, names2 = NamedOf(names, p, t, n)
  PROVE  NamesGiven(st2, names2) /\ names2 \in [Pids -> [Tids -> MaybeName]]
<1>0. names2 = [names EXCEPT ![p][t] = n]
  BY ProcessesAssumption DEF NamedOf
<1>1. /\ names2 \in [Pids -> [Tids -> MaybeName]] /\ names2[p][t] = n
      /\ \A q \in Pids, u \in Tids : q # p \/ u # t => names2[q][u] = names[q][u]
  BY <1>0
<1>2. ASSUME ~st2.allow_reuse, NEW q \in Pids, NEW u \in Tids, names2[q][u] # None
      PROVE  Alive(st2, q) /\ Runs(Proc(st2, q), u) /\ Proc(st2, q).threads[u].name = names2[q][u]
  <2>0. ~st.allow_reuse
    BY <1>2 DEF Touches
  <2>1. CASE q = p /\ u = t
    BY <1>1, <1>2, <2>0, <2>1 DEF Touches
  <2>2. CASE q # p \/ u # t
    <3>1. names2[q][u] = names[q][u]
      BY <1>1, <2>2
    <3>2. Alive(st, q) /\ Runs(Proc(st, q), u) /\ Proc(st, q).threads[u].name = names[q][u]
      BY <1>2, <2>0, <3>1 DEF NamesGiven
    <3>3. CASE q # p
      BY <3>1, <3>2, <3>3 DEF Touches, Alive
    <3>4. CASE q = p /\ u # t
      BY <3>1, <3>2, <3>4 DEF Touches, Runs
    <3> QED
      BY <2>2, <3>3, <3>4
  <2> QED
    BY <2>1, <2>2
<1> QED
  BY <1>1, <1>2 DEF NamesGiven

\* Without a new name.
LEMMA NamesUntouched ==
  ASSUME NEW st, NEW names, NamesGiven(st, names), NEW st2, NEW p \in Pids, NEW t \in Tids,
         Touches(st, st2, p, t),
         Runs(Proc(st, p), t) => Proc(st2, p).threads[t] = Proc(st, p).threads[t]
  PROVE  NamesGiven(st2, names)
<1>1. ASSUME ~st2.allow_reuse, NEW q \in Pids, NEW u \in Tids, names[q][u] # None
      PROVE  Alive(st2, q) /\ Runs(Proc(st2, q), u) /\ Proc(st2, q).threads[u].name = names[q][u]
  <2>1. ~st.allow_reuse
    BY <1>1 DEF Touches
  <2>2. Alive(st, q) /\ Runs(Proc(st, q), u) /\ Proc(st, q).threads[u].name = names[q][u]
    BY <1>1, <2>1 DEF NamesGiven
  <2>3. CASE q # p
    BY <2>2, <2>3 DEF Touches, Alive
  <2>4. CASE q = p
    BY <2>2, <2>4 DEF Touches, Runs
  <2> QED
    BY <2>3, <2>4
<1> QED
  BY <1>1 DEF NamesGiven

LEMMA NamesRemoved ==
  ASSUME NEW st, NEW names \in [Pids -> [Tids -> MaybeName]], NamesGiven(st, names),
         NEW st2, NEW p \in Pids, st2.allow_reuse = st.allow_reuse,
         \A q \in Pids \ {p} : Proc(st2, q) = Proc(st, q),
         NEW names2, names2 = [names EXCEPT ![p] = [t \in Tids |-> None]]
  PROVE  NamesGiven(st2, names2) /\ names2 \in [Pids -> [Tids -> MaybeName]]
<1>1. names2 \in [Pids -> [Tids -> MaybeName]]
  BY DEF MaybeName
<1>2. \A q \in Pids, u \in Tids : names2[q][u] # None => q # p /\ names2[q][u] = names[q][u]
  OBVIOUS
<1> QED
  BY <1>1, <1>2 DEF NamesGiven, Alive

-----------------------------------------------------------------------------
(* The handlers                                                            *)

LEMMA InitHolds == Init => IInv
<1> SUFFICES ASSUME Init PROVE IInv
  OBVIOUS
<1>1. PICK reuse \in BOOLEAN :
        s = [allow_reuse |-> reuse, processes_by_pid |-> [p \in Pids |-> NoProcess],
             process_recycler |-> {}, processes |-> <<>>, threads |-> <<>>]
  BY DEF Init
<1>2. <<>> \in Seq(MaybeName) /\ <<>> \in Seq(ProfileThread)
  OBVIOUS
<1>3. s \in States
  BY <1>1, <1>2 DEF States
<1>4. s.process_recycler = {} /\ \A p \in Pids : ~Alive(s, p)
  BY <1>1 DEF Alive, Proc
<1>5. Sound(s)
  BY <1>3, <1>4 DEF Sound
<1>6. comm \in [Pids -> [Tids -> MaybeName]] /\ \A p \in Pids, t \in Tids : comm[p][t] = None
  BY DEF Init, MaybeName
<1> QED
  BY <1>5, <1>6 DEF Init, IInv, NamesGiven

\* What a step leaves behind, for the state and the names that it goes to.
Reached(st, names) ==
  Sound(st) /\ names \in [Pids -> [Tids -> MaybeName]] /\ NamesGiven(st, names)

LEMMA HandlesOne ==
  ASSUME NEW p \in Pids, Reached(s, comm), NEW st, st = get_by_pid(s, p)
  PROVE  Reached(st, comm) /\ Alive(st, p)
<1>1. Sound(st) /\ Arrives(s, st, p)
  BY GetByPid DEF Reached
<1>2. NamesGiven(st, comm)
  BY <1>1, NamesArrive DEF Reached
<1> QED
  BY <1>1, <1>2 DEF Reached, Arrives

LEMMA HandlesThread ==
  ASSUME NEW st, NEW names, Reached(st, names), NEW st2, Sound(st2), NEW p \in Pids,
         NEW t \in Tids, Touches(st, st2, p, t), NEW n \in MaybeName,
         ~st.allow_reuse /\ n # None => Runs(Proc(st2, p), t) /\ Proc(st2, p).threads[t].name = n,
         NEW names2, names2 = NamedOf(names, p, t, n)
  PROVE  Reached(st2, names2)
<1>1. names \in [Pids -> [Tids -> MaybeName]] /\ NamesGiven(st, names)
  BY DEF Reached
<1>2. NamesGiven(st2, names2) /\ names2 \in [Pids -> [Tids -> MaybeName]]
  BY <1>1, NamesTouched
<1> QED
  BY <1>2 DEF Reached

LEMMA ForkProcess ==
  ASSUME NEW p \in Pids, NEW q \in Pids, Reached(s, comm), NEW st, st = get_by_pid(s, p),
         NEW st2, st2 = recycle_or_get_new(st, q, Proc(st, p).name)
  PROVE  Reached(st2, comm)
<1>1. Reached(st, comm) /\ Alive(st, p)
  BY HandlesOne
<1>2. PICK n \in MaybeName : n = Proc(st, p).name
  BY <1>1, ProcessType DEF Reached, Sound, Process
<1>3. Sound(st2) /\ Arrives(st, st2, q)
  BY <1>1, <1>2, RecycleOrGetNew DEF Reached
<1> QED
  BY <1>1, <1>3, NamesArrive DEF Reached

LEMMA GetThread ==
  ASSUME NEW p \in Pids, NEW t \in Tids \cup {p}, NEW names, NEW st0, Reached(st0, names),
         Alive(st0, p), NEW st, st = get_thread_by_tid(st0, p, t)
  PROVE  /\ Reached(st, names) /\ Alive(st, p) /\ ThreadOf(st, p, t).name \in MaybeName
         /\ t = p \/ Runs(Proc(st, p), t)
<1>1. /\ Sound(st) /\ (t = p => st = st0)
      /\ t # p => /\ t \in Tids /\ Touches(st0, st, p, t) /\ Runs(Proc(st, p), t)
                  /\ Runs(Proc(st0, p), t) => Proc(st, p).threads[t] = Proc(st0, p).threads[t]
  BY GetThreadByTid DEF Reached
<1>2. Alive(st, p)
  BY <1>1 DEF Touches
<1>3. NamesGiven(st, names)
  <2>1. CASE t = p
    BY <1>1, <2>1 DEF Reached
  <2>2. CASE t # p
    BY <1>1, <2>2, NamesUntouched DEF Reached
  <2> QED
    BY <2>1, <2>2
<1>4. ThreadOf(st, p, t).name \in MaybeName
  <2>1. st \in States
    BY <1>1 DEF Sound
  <2> QED
    BY <1>1, <1>2, <2>1, ProcessType DEF ThreadOf, Thread
<1> QED
  BY <1>1, <1>2, <1>3, <1>4 DEF Reached

LEMMA ForkThread ==
  ASSUME NEW p \in Pids, NEW u \in Tids \cup {p}, NEW t \in Tids \cup {p}, Reached(s, comm),
         NEW st0, st0 = get_by_pid(s, p), NEW st, st = get_thread_by_tid(st0, p, u),
         NEW st2, st2 = recycle_or_get_new_thread(st, p, t, ThreadOf(st, p, u).name),
         NEW names2, names2 = NamedOf(comm, p, t, None)
  PROVE  Reached(st2, names2)
<1>1. Reached(st0, comm) /\ Alive(st0, p)
  BY HandlesOne
<1>2. Reached(st, comm) /\ Alive(st, p) /\ ThreadOf(st, p, u).name \in MaybeName
  BY <1>1, GetThread
<1>3. PICK n \in MaybeName : n = ThreadOf(st, p, u).name
  BY <1>2
<1>4. CASE t = p
  BY <1>2, <1>4 DEF recycle_or_get_new_thread, NamedOf
<1>5. CASE t # p
  <2>1. Sound(st2) /\ Touches(st, st2, p, t) /\ t \in Tids
    BY <1>2, <1>3, <1>5, RecycleOrGetNewThread DEF Reached
  <2>2. None \in MaybeName
    BY DEF MaybeName
  <2> QED
    BY <1>2, <2>1, <2>2, HandlesThread
<1> QED
  BY <1>4, <1>5

LEMMA ExitThread ==
  ASSUME NEW p \in Pids, NEW t \in Tids, Reached(s, comm), NEW st, st = get_by_pid(s, p),
         NEW st2, st2 = remove_non_main_thread(st, p, t),
         NEW names2, names2 = NamedOf(comm, p, t, None)
  PROVE  Reached(st2, names2) /\ Alive(st2, p) /\ ~Runs(Proc(st2, p), t)
<1>1. Reached(st, comm) /\ Alive(st, p)
  BY HandlesOne
<1>2. Sound(st2) /\ Touches(st, st2, p, t) /\ ~Runs(Proc(st2, p), t)
  BY <1>1, RemoveNonMainThread DEF Reached
<1>3. None \in MaybeName
  BY DEF MaybeName
<1>4. Reached(st2, names2)
  BY <1>1, <1>2, <1>3, HandlesThread
<1> QED
  BY <1>2, <1>4 DEF Touches

LEMMA ExitProcess ==
  ASSUME NEW p \in Pids, Reached(s, comm), NEW st2, st2 = remove(s, p),
         NEW names2, names2 = [comm EXCEPT ![p] = [t \in Tids |-> None]]
  PROVE  Reached(st2, names2) /\ ~Alive(st2, p)
<1>1. /\ Sound(st2) /\ ~Alive(st2, p) /\ st2.allow_reuse = s.allow_reuse
      /\ \A q \in Pids \ {p} : Proc(st2, q) = Proc(s, q)
  BY RemoveProcess DEF Reached
<1>2. NamesGiven(st2, names2) /\ names2 \in [Pids -> [Tids -> MaybeName]]
  BY <1>1, NamesRemoved DEF Reached
<1> QED
  BY <1>1, <1>2 DEF Reached

LEMMA ExecProcess ==
  ASSUME NEW p \in Pids, Reached(s, comm), NEW n \in Names, NEW st, st = remove(s, p),
         NEW st2, st2 = recycle_or_get_new(st, p, n),
         NEW names2, names2 = [comm EXCEPT ![p] = [t \in Tids |-> None]]
  PROVE  Reached(st2, names2)
<1>1. Reached(st, names2) /\ n \in MaybeName
  BY ExitProcess DEF MaybeName
<1>2. Sound(st2) /\ Arrives(st, st2, p)
  BY <1>1, RecycleOrGetNew DEF Reached
<1> QED
  BY <1>1, <1>2, NamesArrive DEF Reached

LEMMA ExecThread ==
  ASSUME NEW p \in Pids, NEW t \in Tids, Reached(s, comm), NEW n \in Names,
         NEW st0, st0 = get_by_pid(s, p), NEW st, st = remove_non_main_thread(st0, p, t),
         NEW st2, st2 = recycle_or_get_new_thread(st, p, t, n),
         NEW names2, names2 = NamedOf(comm, p, t, n)
  PROVE  Reached(st2, names2)
<1>1. Reached(st0, comm) /\ Alive(st0, p) /\ n \in MaybeName
  BY HandlesOne DEF MaybeName
<1>2. Sound(st) /\ Touches(st0, st, p, t) /\ ~Runs(Proc(st, p), t)
  BY <1>1, RemoveNonMainThread DEF Reached
<1>3. /\ Sound(st2) /\ Touches(st, st2, p, t)
      /\ ~st.allow_reuse => Runs(Proc(st2, p), t) /\ Proc(st2, p).threads[t].name = n
  BY <1>1, <1>2, RecycleOrGetNewThread DEF Touches
<1>4. Touches(st0, st2, p, t) /\ st.allow_reuse = st0.allow_reuse
  BY <1>2, <1>3 DEF Touches
<1> QED
  BY <1>1, <1>3, <1>4, HandlesThread

LEMMA RenameMain ==
  ASSUME NEW p \in Pids, Reached(s, comm), NEW n \in Names, NEW st2, st2 = rename_process(s, p, n)
  PROVE  Reached(st2, comm)
<1>1. Sound(st2) /\ IF Alive(s, p) THEN Remains(s, st2, p) ELSE Arrives(s, st2, p)
  BY RenameProcess DEF Reached
<1>2. NamesGiven(st2, comm)
  BY <1>1, NamesArrive, NamesRemain DEF Reached
<1> QED
  BY <1>1, <1>2 DEF Reached

LEMMA RenameOther ==
  ASSUME NEW p \in Pids, NEW t \in Tids, Reached(s, comm), NEW n \in Names,
         NEW st, st = get_by_pid(s, p), NEW st2, st2 = rename_non_main_thread(st, p, t, n),
         NEW names2, names2 = NamedOf(comm, p, t, n)
  PROVE  Reached(st2, names2)
<1>1. Reached(st, comm) /\ Alive(st, p) /\ n \in MaybeName
  BY HandlesOne DEF MaybeName
<1>2. /\ Sound(st2) /\ Touches(st, st2, p, t)
      /\ ~st.allow_reuse => Runs(Proc(st2, p), t) /\ Proc(st2, p).threads[t].name = n
  BY <1>1, RenameNonMainThread DEF Reached
<1> QED
  BY <1>1, <1>2, HandlesThread

LEMMA ExistingProcess ==
  ASSUME NEW p \in Pids, Reached(s, comm), NEW n \in Names, NEW st, st = get_by_pid(s, p),
         NEW st2, st2 = NameProcess(st, p, n)
  PROVE  Reached(st2, comm)
<1>1. Reached(st, comm) /\ Alive(st, p) /\ Sound(st)
  BY HandlesOne DEF Reached
<1>2. Sound(st2) /\ Remains(st, st2, p)
  BY <1>1, RegisterProcess
<1> QED
  BY <1>1, <1>2, NamesRemain DEF Reached

NameThread(st, p, t, n) ==
  LET named == [st EXCEPT !.threads[ThreadOf(st, p, t).handle].name = n]
  IN  IF t = p THEN [named EXCEPT !.processes_by_pid[p].main.name = n]
               ELSE [named EXCEPT !.processes_by_pid[p].threads[t].name = n]

LEMMA ExistingThread ==
  ASSUME NEW p \in Pids, NEW t \in Tids \cup {p}, Reached(s, comm), Alive(s, p), NEW n \in Names,
         NEW st, st = get_thread_by_tid(s, p, t), NEW st2, st2 = NameThread(st, p, t, n),
         NEW names2, names2 = NamedOf(comm, p, t, n)
  PROVE  Reached(st2, names2)
<1>1. /\ Reached(st, comm) /\ Alive(st, p) /\ n \in MaybeName /\ Sound(st)
      /\ t = p \/ Runs(Proc(st, p), t)
  BY GetThread DEF MaybeName, Reached
<1>2. CASE t = p
  <2>1. st2 = NameMain(st, p, n)
    BY <1>2 DEF ThreadOf, NameMain, NameThread
  <2>2. Sound(st2) /\ Remains(st, st2, p)
    BY <1>1, <2>1, RegisterMainThread
  <2> QED
    BY <1>1, <1>2, <2>2, NamesRemain DEF Reached, NamedOf
<1>3. CASE t # p
  <2>1. PICK h : h = Proc(st, p).threads[t].handle
    OBVIOUS
  <2>2. st2 = RenameInPlace(st, p, t, h, n) /\ t \in Tids
    BY <1>3, <2>1 DEF ThreadOf, RenameInPlace, NameThread
  <2>3. /\ Sound(st2) /\ Touches(st, st2, p, t)
        /\ Runs(Proc(st2, p), t) /\ Proc(st2, p).threads[t].name = n
    BY <1>1, <1>3, <2>1, <2>2, RenameThread
  <2> QED
    BY <1>1, <2>2, <2>3, HandlesThread
<1> QED
  BY <1>2, <1>3

LEMMA Step == IInv /\ [Next]_vars => IInv'
<1> SUFFICES ASSUME IInv, [Next]_vars PROVE IInv'
  OBVIOUS
<1>1. Reached(s, comm)
  BY DEF IInv, Reached
<1>2. PICK st2 : st2 = s'
  OBVIOUS
<1>3. PICK names2 : names2 = comm'
  OBVIOUS
<1>4. attaching' \in BOOLEAN
  <2>1. ASSUME NEW p, NEW q, NEW n, NEW t, NEW u
        PROVE  /\ handle_exit_process(p) => attaching' = FALSE
               /\ handle_fork_process(p, q) => attaching' = FALSE
               /\ register_existing_process(p, n) => attaching' = attaching
               /\ handle_exit_thread(p, t) => attaching' = FALSE
               /\ handle_sample(p, t) => attaching' = FALSE
               /\ handle_fork_thread(p, u, t) => attaching' = FALSE
               /\ handle_exec(p, t, n) => attaching' = FALSE
               /\ handle_thread_rename(p, t, n) => attaching' = FALSE
               /\ register_existing_thread(p, t, n) => attaching' = attaching
    BY Zenon DEF Handled, handle_exit_process, handle_fork_process, register_existing_process,
           handle_exit_thread, handle_sample, handle_fork_thread, handle_exec,
           handle_thread_rename, register_existing_thread
  <2>2. attaching' = FALSE \/ attaching' = attaching
    BY <2>1 DEF Next, vars
  <2> QED
    BY <2>2 DEF IInv
<1>5. \A p \in Pids, t \in Tids : t # p
  BY ProcessesAssumption
<1>6. ASSUME NEW p \in Pids, handle_exit_process(p) PROVE Reached(st2, names2)
  <2>1. st2 = remove(s, p) /\ names2 = [comm EXCEPT ![p] = [t \in Tids |-> None]]
    BY <1>2, <1>3, <1>6 DEF handle_exit_process, Handled, AllUnnamed
  <2> QED
    BY <1>1, <2>1, ExitProcess, Zenon
<1>7. ASSUME NEW p \in Pids, NEW q \in Pids, handle_fork_process(p, q) PROVE Reached(st2, names2)
  <2>1. PICK st : st = get_by_pid(s, p)
    OBVIOUS
  <2>2. st2 = recycle_or_get_new(st, q, Proc(st, p).name) /\ names2 = comm
    BY <1>2, <1>3, <1>7, <2>1 DEF handle_fork_process, Handled
  <2> QED
    BY <1>1, <2>1, <2>2, ForkProcess
<1>8. ASSUME NEW p \in Pids, NEW n \in Names, register_existing_process(p, n)
      PROVE  Reached(st2, names2)
  <2>1. PICK st : st = get_by_pid(s, p)
    OBVIOUS
  <2>2. st2 = NameProcess(st, p, n) /\ names2 = comm
    BY <1>2, <1>3, <1>8, <2>1 DEF register_existing_process, NameProcess
  <2> QED
    BY <1>1, <2>1, <2>2, ExistingProcess
<1>9. ASSUME NEW p \in Pids, NEW t \in Tids, handle_exit_thread(p, t) PROVE Reached(st2, names2)
  <2>1. PICK st : st = get_by_pid(s, p)
    OBVIOUS
  <2>2. st2 = remove_non_main_thread(st, p, t) /\ names2 = NamedOf(comm, p, t, None)
    BY <1>2, <1>3, <1>9, <2>1 DEF handle_exit_thread, Handled, Named, NamedOf
  <2> QED
    BY <1>1, <2>1, <2>2, ExitThread
<1>10. ASSUME NEW p \in Pids, NEW t \in Tids \cup {p}, handle_sample(p, t)
       PROVE  Reached(st2, names2)
  <2>1. PICK st : st = get_by_pid(s, p)
    OBVIOUS
  <2>2. st2 = get_thread_by_tid(st, p, t) /\ names2 = comm
    BY <1>2, <1>3, <1>10, <2>1 DEF handle_sample, Handled
  <2>3. Reached(st, comm) /\ Alive(st, p)
    BY <1>1, <2>1, HandlesOne
  <2> QED
    BY <2>2, <2>3, GetThread
<1>11. ASSUME NEW p \in Pids, NEW t \in Tids \cup {p}, NEW u \in Tids \cup {p},
              handle_fork_thread(p, u, t)
       PROVE  Reached(st2, names2)
  <2>1. PICK st0 : st0 = get_by_pid(s, p)
    OBVIOUS
  <2>2. PICK st : st = get_thread_by_tid(st0, p, u)
    OBVIOUS
  <2>3. /\ st2 = recycle_or_get_new_thread(st, p, t, ThreadOf(st, p, u).name)
        /\ names2 = NamedOf(comm, p, t, None)
    BY <1>2, <1>3, <1>11, <2>1, <2>2 DEF handle_fork_thread, Handled, Named, NamedOf
  <2> QED
    BY <1>1, <2>1, <2>2, <2>3, ForkThread
<1>12. ASSUME NEW p \in Pids, NEW t \in Tids \cup {p}, NEW n \in Names, handle_exec(p, t, n)
       PROVE  Reached(st2, names2)
  <2>1. CASE t = p
    <3>1. PICK st : st = remove(s, p)
      OBVIOUS
    <3>2. st2 = recycle_or_get_new(st, p, n) /\ names2 = [comm EXCEPT ![p] = [v \in Tids |-> None]]
      BY <1>2, <1>3, <1>12, <2>1, <3>1 DEF handle_exec, Handled, AllUnnamed
    <3> QED
      BY <1>1, <3>1, <3>2, ExecProcess, Zenon
  <2>2. CASE t # p
    <3>1. PICK st0 : st0 = get_by_pid(s, p)
      OBVIOUS
    <3>2. PICK st : st = remove_non_main_thread(st0, p, t)
      OBVIOUS
    <3>3. st2 = recycle_or_get_new_thread(st, p, t, n) /\ names2 = NamedOf(comm, p, t, n)
      BY <1>2, <1>3, <1>12, <2>2, <3>1, <3>2 DEF handle_exec, Handled, Named, NamedOf
    <3> QED
      BY <1>1, <2>2, <3>1, <3>2, <3>3, ExecThread
  <2> QED
    BY <2>1, <2>2
<1>13. ASSUME NEW p \in Pids, NEW t \in Tids \cup {p}, NEW n \in Names,
              handle_thread_rename(p, t, n)
       PROVE  Reached(st2, names2)
  <2>1. CASE t = p
    <3>1. st2 = rename_process(s, p, n) /\ names2 = comm
      BY <1>2, <1>3, <1>13, <2>1 DEF handle_thread_rename, Handled, Named
    <3> QED
      BY <1>1, <3>1, RenameMain
  <2>2. CASE t # p
    <3>1. PICK st : st = get_by_pid(s, p)
      OBVIOUS
    <3>2. st2 = rename_non_main_thread(st, p, t, n) /\ names2 = NamedOf(comm, p, t, n)
      BY <1>2, <1>3, <1>13, <2>2, <3>1 DEF handle_thread_rename, Handled, Named, NamedOf
    <3> QED
      BY <1>1, <2>2, <3>1, <3>2, RenameOther
  <2> QED
    BY <2>1, <2>2
<1>14. ASSUME NEW p \in Pids, NEW t \in Tids \cup {p}, NEW n \in Names,
              register_existing_thread(p, t, n)
       PROVE  Reached(st2, names2)
  <2>1. PICK st : st = get_thread_by_tid(s, p, t)
    OBVIOUS
  <2>2. Alive(s, p) /\ names2 = NamedOf(comm, p, t, n) /\ st2 = NameThread(st, p, t, n)
    BY <1>2, <1>3, <1>14, <2>1 DEF register_existing_thread, Alive, Named, NamedOf, NameThread
  <2> QED
    BY <1>1, <2>1, <2>2, ExistingThread
<1>15. ASSUME UNCHANGED vars PROVE Reached(st2, names2)
  <2>1. st2 = s /\ names2 = comm
    BY <1>2, <1>3, <1>15 DEF vars
  <2> QED
    BY <1>1, <2>1
<1>16. ASSUME Next PROVE Reached(st2, names2)
  <2>1. PICK p \in Pids :
          \/ handle_exit_process(p)
          \/ \E q \in Pids : handle_fork_process(p, q)
          \/ \E n \in Names : register_existing_process(p, n)
          \/ \E t \in Tids : handle_exit_thread(p, t)
          \/ \E t \in Tids \cup {p} :
               \/ handle_sample(p, t)
               \/ \E u \in Tids \cup {p} : handle_fork_thread(p, u, t)
               \/ \E n \in Names : \/ handle_exec(p, t, n)
                                   \/ handle_thread_rename(p, t, n)
                                   \/ register_existing_thread(p, t, n)
    BY <1>16 DEF Next
  <2> QED
    BY <2>1, <1>6, <1>7, <1>8, <1>9, <1>10, <1>11, <1>12, <1>13, <1>14
<1>17. Sound(s)' /\ (comm \in [Pids -> [Tids -> MaybeName]])' /\ NamesGiven(s, comm)'
  BY <1>2, <1>3, <1>15, <1>16 DEF Reached
<1> QED
  BY <1>4, <1>17 DEF IInv

-----------------------------------------------------------------------------
(* Theorems                                                                *)

\* Every handler keeps the handles of processes and threads apart, and the profile in
\* agreement with the tables.
THEOREM Inductive == Spec => []IInv
BY InitHolds, Step, PTL DEF Spec

\* The variables have their types: no handler leaves a table half-made.
THEOREM TypeCorrect == Spec => []TypeOK
<1>1. IInv => TypeOK
  BY DEF IInv, Sound, States, ProfileThread, TypeOK
<1> QED
  BY <1>1, Inductive, PTL

\* A holder of a handle is a live process, by one of its threads or its recycler ...
HeldBy(x, h, p) ==
  /\ Alive(s, p)
  /\ \/ x = <<"thread", p, p>> /\ Proc(s, p).main.handle = h
     \/ \E t \in Tids : /\ x = <<"thread", p, t>>
                        /\ Runs(Proc(s, p), t) /\ Proc(s, p).threads[t].handle = h
     \/ \E n \in Names : /\ x = <<"recycler", p, n>>
                         /\ [name |-> n, handle |-> h] \in Proc(s, p).thread_recycler

\* ... or recycling data.
KeptBy(x, h, d) ==
  \/ x = <<"dead", d, None>> /\ d.main = h
  \/ \E n \in Names : /\ x = <<"dead_recycler", d, n>>
                      /\ [name |-> n, handle |-> h] \in d.thread_recycler

LEMMA HolderCases ==
  ASSUME NEW h, NEW x \in HoldersOf(h)
  PROVE  (\E p \in Pids : HeldBy(x, h, p)) \/ (\E d \in s.process_recycler : KeptBy(x, h, d))
<1>1. CASE x \in {y \in {"thread"} \X Live \X (Tids \cup Pids) :
                    /\ y[3] = y[2] \/ y[3] \in LiveTids(y[2])
                    /\ ThreadOf(s, y[2], y[3]).handle = h}
  <2>1. PICK p \in Live, t \in Tids \cup Pids : x = <<"thread", p, t>>
    BY <1>1
  <2>2. (t = p \/ t \in LiveTids(p)) /\ ThreadOf(s, p, t).handle = h /\ p \in Pids /\ Alive(s, p)
    BY <1>1, <2>1 DEF Live, Alive
  <2>3. CASE t = p
    BY <2>1, <2>2, <2>3 DEF HeldBy, ThreadOf
  <2>4. CASE t # p
    BY <2>1, <2>2, <2>4 DEF HeldBy, ThreadOf, LiveTids, Runs
  <2> QED
    BY <2>3, <2>4
<1>2. CASE x \in {y \in {"recycler"} \X Live \X Names :
                    [name |-> y[3], handle |-> h] \in Proc(s, y[2]).thread_recycler}
  <2>1. PICK p \in Live, n \in Names : x = <<"recycler", p, n>>
    BY <1>2
  <2>2. [name |-> n, handle |-> h] \in Proc(s, p).thread_recycler /\ p \in Pids /\ Alive(s, p)
    BY <1>2, <2>1 DEF Live, Alive
  <2> QED
    BY <2>1, <2>2 DEF HeldBy
<1>3. CASE x \in {y \in {"dead"} \X s.process_recycler \X {None} : y[2].main = h}
  <2>1. PICK d \in s.process_recycler : x = <<"dead", d, None>>
    BY <1>3
  <2>2. d.main = h
    BY <1>3, <2>1
  <2> QED
    BY <2>1, <2>2 DEF KeptBy
<1>4. CASE x \in {y \in {"dead_recycler"} \X s.process_recycler \X Names :
                    [name |-> y[3], handle |-> h] \in y[2].thread_recycler}
  <2>1. PICK d \in s.process_recycler, n \in Names : x = <<"dead_recycler", d, n>>
    BY <1>4
  <2>2. [name |-> n, handle |-> h] \in d.thread_recycler
    BY <1>4, <2>1
  <2> QED
    BY <2>1, <2>2 DEF KeptBy
<1> QED
  BY <1>1, <1>2, <1>3, <1>4 DEF HoldersOf

LEMMA OneHolder ==
  ASSUME Sound(s), NEW h \in Handles, NEW x \in HoldersOf(h), NEW y \in HoldersOf(h)
  PROVE  x = y
<1>1. ASSUME NEW p \in Pids, NEW z, HeldBy(z, h, p) PROVE Alive(s, p) /\ Holds(Proc(s, p), h)
  BY <1>1 DEF HeldBy, Holds, Pools
<1>2. ASSUME NEW d, NEW z, KeptBy(z, h, d) PROVE Keeps(d, h)
  BY <1>2 DEF KeptBy, Keeps, Pools
<1>3. ASSUME NEW p \in Pids, HeldBy(x, h, p), NEW q \in Pids, HeldBy(y, h, q) PROVE x = y
  <2>1. q = p
    BY <1>1, <1>3 DEF Sound, ApartFrom
  <2>2. ThreadsUnshared(Proc(s, p))
    BY <1>1, <1>3 DEF Sound, ProcessSound
  <2>3. PICK w : w = Proc(s, p)
    OBVIOUS
  <2>4. ASSUME NEW n \in Names, [name |-> n, handle |-> h] \in w.thread_recycler
        PROVE  /\ w.main.handle # h
               /\ \A t \in Tids : Runs(w, t) => w.threads[t].handle # h
               /\ \A m \in Names : [name |-> m, handle |-> h] \in w.thread_recycler => m = n
    <3>1. Pools(w.thread_recycler, h)
      BY <2>4 DEF Pools
    <3>2. ASSUME NEW m \in Names, [name |-> m, handle |-> h] \in w.thread_recycler PROVE m = n
      <4>1. [name |-> m, handle |-> h] = [name |-> n, handle |-> h]
        BY <2>2, <2>3, <2>4, <3>2 DEF ThreadsUnshared, RecyclerUnshared
      <4> QED
        BY <4>1
    <3> QED
      BY <2>2, <2>3, <3>1, <3>2 DEF ThreadsUnshared, RecyclerUnshared
  <2>5. ASSUME NEW t \in Tids, Runs(w, t), w.threads[t].handle = h
        PROVE  w.main.handle # h /\ \A u \in Tids : Runs(w, u) /\ w.threads[u].handle = h => u = t
    BY <2>2, <2>3, <2>5 DEF ThreadsUnshared
  <2> DEFINE Main(z) == z = <<"thread", p, p>> /\ w.main.handle = h
             Other(z) == \E t \in Tids : z = <<"thread", p, t>>
             /\ Runs(w, t) /\ w.threads[t].handle = h
             Pooled(z) == \E n \in Names : /\ z = <<"recycler", p, n>>
                                           /\ [name |-> n, handle |-> h] \in w.thread_recycler
  <2>6. (Main(x) \/ Other(x) \/ Pooled(x)) /\ (Main(y) \/ Other(y) \/ Pooled(y))
    BY <1>3, <2>1, <2>3 DEF HeldBy
  <2>7. CASE Main(x)
    BY <2>4, <2>5, <2>6, <2>7
  <2>8. CASE Other(x)
    BY <2>4, <2>5, <2>6, <2>8
  <2>9. CASE Pooled(x)
    BY <2>4, <2>5, <2>6, <2>9
  <2> QED
    BY <2>6, <2>7, <2>8, <2>9
<1>4. ASSUME NEW d \in s.process_recycler, KeptBy(x, h, d),
             NEW e \in s.process_recycler, KeptBy(y, h, e)
      PROVE  x = y
  <2>1. d = e
    BY <1>2, <1>4 DEF Sound, DataApart
  <2>2. RecyclerUnshared(d.thread_recycler, d.main)
    BY <1>4 DEF Sound, DataSound
  <2>3. ASSUME NEW n \in Names, [name |-> n, handle |-> h] \in d.thread_recycler
        PROVE  /\ d.main # h
               /\ \A m \in Names : [name |-> m, handle |-> h] \in d.thread_recycler => m = n
    <3>1. Pools(d.thread_recycler, h)
      BY <2>3 DEF Pools
    <3>2. ASSUME NEW m \in Names, [name |-> m, handle |-> h] \in d.thread_recycler PROVE m = n
      <4>1. [name |-> m, handle |-> h] = [name |-> n, handle |-> h]
        BY <2>2, <2>3, <3>2 DEF RecyclerUnshared
      <4> QED
        BY <4>1
    <3> QED
      BY <2>2, <3>1, <3>2 DEF RecyclerUnshared
  <2> QED
    BY <1>4, <2>1, <2>3 DEF KeptBy
<1>5. ASSUME NEW p \in Pids, NEW d \in s.process_recycler, NEW v, NEW z,
             HeldBy(v, h, p), KeptBy(z, h, d)
      PROVE  FALSE
  BY <1>1, <1>2, <1>5 DEF Sound, ApartFromData
<1> QED
  BY <1>3, <1>4, <1>5, HolderCases

\* "Merge non-overlapping threads of the same name": for any processes, threads and names,
\* whatever is lost, renamed and recycled, no two live threads share a profile thread and
\* no two live processes a profile process.
THEOREM Unshared == Spec => []HandlesUnshared
<1>1. IInv => HandlesUnshared
  <2> SUFFICES ASSUME IInv PROVE HandlesUnshared
    OBVIOUS
  <2>1. Sound(s) /\ s \in States
    BY DEF IInv, Sound
  <2>2. \A h \in 1 .. Len(s.threads) : h \in Handles
    BY <2>1 DEF Handles, States
  <2>3. \A h \in 1 .. Len(s.threads) : \A x, y \in HoldersOf(h) : x = y
    BY <2>1, <2>2, OneHolder
  <2>4. \A p, q \in Live : Proc(s, p).handle = Proc(s, q).handle => p = q
    BY <2>1 DEF Live, Sound, Alive, ApartFrom
  <2>5. \A d, e \in s.process_recycler : d.handle = e.handle => d = e
    BY <2>1 DEF Sound, DataApart
  <2>6. \A p \in Live, d \in s.process_recycler : Proc(s, p).handle # d.handle
    BY <2>1 DEF Live, Sound, Alive, ApartFromData
  <2> QED
    BY <2>3, <2>4, <2>5, <2>6 DEF HandlesUnshared
<1> QED
  BY <1>1, Inductive, PTL

\* The names under which processes and threads are kept and recycled are the ones that
\* the profile shows, and without --reuse-threads the ones that COMM records gave last.
THEOREM Shown == Spec => []ShownNames
<1>1. IInv => ShownNames
  <2> SUFFICES ASSUME IInv PROVE ShownNames
    OBVIOUS
  <2>1. ASSUME NEW p \in Live, NEW t \in LiveTids(p)
        PROVE  p \in Pids /\ Alive(s, p) /\ t \in Tids /\ Runs(Proc(s, p), t)
               /\ ThreadOf(s, p, t) = Proc(s, p).threads[t]
    BY <2>1, ProcessesAssumption DEF Live, LiveTids, Alive, Runs, ThreadOf
  <2>2. NamesUpToDate
    BY <2>1 DEF IInv, NamesGiven, NamesUpToDate
  <2>3. ASSUME NEW p \in Live PROVE ProcessShown(s, Proc(s, p))
    BY <2>3 DEF IInv, Sound, ProcessSound, Live, Alive
  <2>4. \A e \in s.process_recycler : s.processes[e.handle] = e.name
        /\ RecyclerShown(s, e.thread_recycler)
    BY DEF IInv, Sound, DataSound
  <2> QED
    BY <2>1, <2>2, <2>3, <2>4 DEF ShownNames, ProcessShown, RecyclerShown
<1> QED
  BY <1>1, Inductive, PTL

\* A process's main thread, and without --reuse-threads each of its threads, is shown
\* under that process, so that no sample is shown under another one.
THEOREM UnderItsProcess == Spec => []ShownUnderItsProcess
<1>1. IInv => ShownUnderItsProcess
  <2> SUFFICES ASSUME IInv PROVE ShownUnderItsProcess
    OBVIOUS
  <2>1. ASSUME NEW p \in Live, NEW t \in LiveTids(p)
        PROVE  t \in Tids /\ Runs(Proc(s, p), t) /\ ThreadOf(s, p, t) = Proc(s, p).threads[t]
    BY <2>1, ProcessesAssumption DEF Live, LiveTids, Runs, ThreadOf
  <2>2. ASSUME NEW p \in Live PROVE ProcessOwns(s, Proc(s, p))
    BY <2>2 DEF IInv, Sound, ProcessSound, Live, Alive
  <2> QED
    BY <2>1, <2>2 DEF ShownUnderItsProcess, ProcessOwns
<1> QED
  BY <1>1, Inductive, PTL

-----------------------------------------------------------------------------
(***************************************************************************)
(* The library mappings of a process, for any set of mappings: they never  *)
(* overlap, a lookup finds the one mapping that covers an address, and a   *)
(* new mapping removes exactly the ones it overlaps with.                  *)
(***************************************************************************)

\* What add_mapping and the queued operations keep.
WellFormed(map) == (\A m \in map : IsMapping(m)) /\ NonOverlapping(map)

\* m covers avma.
Covers(m, avma) == m.start <= avma /\ avma < m.end

\* The two ranges have an address in common.
Overlap(m, n) == m.start < n.end /\ n.start < m.end

-----------------------------------------------------------------------------

(* The one range lookup of lookup_impl is enough: it finds the mapping     *)
(* that covers the address, if there is one, and nothing else.             *)
THEOREM LookupIsExact ==
  ASSUME NEW map, WellFormed(map), NEW avma \in Address
  PROVE  lookup_impl(map, avma) = {m \in map : Covers(m, avma)}
<1>1. ASSUME NEW m \in map, Covers(m, avma)
      PROVE  m \in lookup_impl(map, avma)
  <2>1. ASSUME NEW n \in map, n.start <= avma
        PROVE  n.start <= m.start
    <3>1. CASE n = m
      BY <3>1 DEF WellFormed, IsMapping, Address
    <3>2. CASE n # m
      <4>1. ~(m.start <= n.start /\ n.start < m.end)
        BY <3>2 DEF WellFormed, NonOverlapping
      <4>2. m.start \in Nat /\ m.end \in Nat /\ n.start \in Nat /\ avma \in Nat
        BY DEF WellFormed, IsMapping, Address
      <4> QED
        BY <1>1, <2>1, <4>1, <4>2 DEF Covers
    <3> QED BY <3>1, <3>2
  <2> QED
    BY <1>1, <2>1 DEF Covers, lookup_impl, LastStartingUpTo, StartingUpTo
<1>2. ASSUME NEW m \in lookup_impl(map, avma)
      PROVE  m \in map /\ Covers(m, avma)
  BY DEF Covers, lookup_impl, LastStartingUpTo, StartingUpTo
<1> QED BY <1>1, <1>2

(* Two mappings of a well-formed map do not cover the same address.        *)
LEMMA CoveringIsUnique ==
  ASSUME NEW map, WellFormed(map), NEW avma \in Address,
         NEW m \in map, NEW n \in map, Covers(m, avma), Covers(n, avma)
  PROVE  m = n
<1> SUFFICES ASSUME m # n PROVE FALSE
  OBVIOUS
<1>1. ~(m.start <= n.start /\ n.start < m.end) /\ ~(n.start <= m.start /\ m.start < n.end)
  BY DEF WellFormed, NonOverlapping
<1>2. m.start \in Nat /\ m.end \in Nat /\ n.start \in Nat /\ n.end \in Nat /\ avma \in Nat
  BY DEF WellFormed, IsMapping, Address
<1> QED BY <1>1, <1>2 DEF Covers

(* Where the removal in add_mapping starts: at the new mapping, or at the  *)
(* mapping that covers its start.                                          *)
LEMMA RemovalStartFact ==
  ASSUME NEW map, WellFormed(map), NEW start \in Address
  PROVE  /\ RemovalStart(map, start) \in Address
         /\ RemovalStart(map, start) <= start
         /\ \A m \in map : Covers(m, start) => RemovalStart(map, start) = m.start
         /\ (\A m \in map : ~Covers(m, start)) => RemovalStart(map, start) = start
<1>1. lookup_impl(map, start) = {m \in map : Covers(m, start)}
  BY LookupIsExact
<1>2. CASE lookup_impl(map, start) = {}
  BY <1>1, <1>2 DEF RemovalStart, Address
<1>3. CASE lookup_impl(map, start) # {}
  <2> DEFINE c == CHOOSE m \in lookup_impl(map, start) : TRUE
  <2>1. c \in map /\ Covers(c, start)
    BY <1>1, <1>3
  <2>2. RemovalStart(map, start) = c.start
    BY <1>3 DEF RemovalStart
  <2>3. c.start \in Nat /\ c.start <= start
    BY <2>1 DEF Covers, WellFormed, IsMapping, Address
  <2>4. \A m \in map : Covers(m, start) => m = c
    BY <2>1, CoveringIsUnique
  <2> QED BY <2>1, <2>2, <2>3, <2>4 DEF Address
<1> QED BY <1>2, <1>3

(* Whatever is left of the old mappings starts before the new one and ends *)
(* before it, or starts after its end.                                     *)
LEMMA KeptAreApart ==
  ASSUME NEW map, WellFormed(map), NEW new, IsMapping(new),
         NEW m \in add_mapping(map, new), m # new
  PROVE  /\ m \in map
         /\ m.start # new.start
         /\ ~Covers(new, m.start)
         /\ ~Covers(m, new.start)
<1> DEFINE from == RemovalStart(map, new.start)
<1>1. m \in map /\ m.start # new.start /\ ~(from <= m.start /\ m.start < new.end)
  BY DEF add_mapping, Insert
<1>2. from \in Nat /\ from <= new.start
  BY RemovalStartFact DEF IsMapping, Address
<1>3. m.start \in Nat /\ m.end \in Nat /\ new.start \in Nat /\ new.end \in Nat
      /\ new.start <= new.end
  BY <1>1 DEF WellFormed, IsMapping, Address
<1>4. ~Covers(new, m.start)
  BY <1>1, <1>2, <1>3 DEF Covers
<1>5. ~Covers(m, new.start)
  <2> SUFFICES ASSUME Covers(m, new.start) PROVE FALSE
    OBVIOUS
  <2>1. from = m.start
    BY <1>1, RemovalStartFact DEF IsMapping
  <2>2. m.start < new.end
    BY <1>1, <1>3 DEF Covers
  <2> QED BY <1>1, <1>3, <2>1, <2>2
<1> QED BY <1>1, <1>4, <1>5

(* "When a new mapping is added, overlapping mappings are removed": after  *)
(* add_mapping the mappings still do not overlap.                          *)
THEOREM AddKeepsNonOverlapping ==
  ASSUME NEW map, WellFormed(map), NEW new, IsMapping(new)
  PROVE  WellFormed(add_mapping(map, new))
<1> DEFINE result == add_mapping(map, new)
<1>1. \A m \in result : IsMapping(m)
  BY KeptAreApart DEF WellFormed
<1>2. ASSUME NEW m \in result, NEW n \in result, m # n
      PROVE  ~(m.start <= n.start /\ n.start < m.end) /\ m.start # n.start
  <2>1. CASE m = new
    BY <1>2, <2>1, KeptAreApart DEF Covers
  <2>2. CASE n = new
    BY <1>2, <2>2, KeptAreApart DEF Covers
  <2>3. CASE m # new /\ n # new
    <3>1. m \in map /\ n \in map
      BY <2>3, KeptAreApart
    <3> QED BY <1>2, <3>1 DEF WellFormed, NonOverlapping
  <2> QED BY <2>1, <2>2, <2>3
<1> QED BY <1>1, <1>2 DEF WellFormed, NonOverlapping

(* add_mapping removes nothing but what is in the way of a mapping that is *)
(* not empty: it contains the new mapping and all old ones that have no    *)
(* address and no start in common with it.                                 *)
THEOREM AddRemovesOverlappingOnly ==
  ASSUME NEW map, WellFormed(map), NEW new, IsMapping(new), new.start < new.end
  PROVE  add_mapping(map, new) =
           {m \in map : ~Overlap(m, new) /\ ~Covers(new, m.start)} \cup {new}
<1> DEFINE from == RemovalStart(map, new.start)
<1>1. ASSUME NEW m \in add_mapping(map, new), m # new
      PROVE  m \in map /\ ~Overlap(m, new) /\ ~Covers(new, m.start)
  <2>1. m \in map /\ ~Covers(new, m.start) /\ ~Covers(m, new.start)
    BY <1>1, KeptAreApart
  <2>2. m.start \in Nat /\ m.end \in Nat /\ new.start \in Nat /\ new.end \in Nat
    BY <2>1 DEF WellFormed, IsMapping, Address
  <2> QED BY <2>1, <2>2 DEF Overlap, Covers
<1>2. new \in add_mapping(map, new)
  BY DEF add_mapping, Insert
<1>3. ASSUME NEW m \in map, ~Overlap(m, new), ~Covers(new, m.start)
      PROVE  m \in add_mapping(map, new)
  <2>1. m.start \in Nat /\ m.end \in Nat /\ new.start \in Nat /\ new.end \in Nat
        /\ m.start <= m.end
    BY DEF WellFormed, IsMapping, Address
  <2>2. m.start # new.start
    BY <1>3, <2>1 DEF Covers
  <2>3. ~(from <= m.start /\ m.start < new.end)
    <3> SUFFICES ASSUME from <= m.start, m.start < new.end PROVE FALSE
      OBVIOUS
    <3>1. m.start < new.start
      BY <1>3, <2>1 DEF Covers
    <3>2. m.end <= new.start
      BY <1>3, <2>1, <3>1 DEF Overlap
    <3>3. PICK c \in map : Covers(c, new.start)
      <4>1. from # new.start
        BY <2>1, <3>1
      <4> QED BY <4>1, RemovalStartFact DEF IsMapping
    <3>4. from = c.start
      BY <3>3, RemovalStartFact DEF IsMapping
    <3>5. c.start \in Nat /\ c.end \in Nat
      BY DEF WellFormed, IsMapping, Address
    <3>6. c # m
      BY <2>1, <3>2, <3>3 DEF Covers
    <3>7. ~(c.start <= m.start /\ m.start < c.end)
      BY <3>6 DEF WellFormed, NonOverlapping
    <3> QED BY <2>1, <3>1, <3>3, <3>4, <3>5, <3>7 DEF Covers
  <2> QED BY <2>2, <2>3 DEF add_mapping, Insert
<1> QED BY <1>1, <1>2, <1>3

(* After add_mapping every address of the new mapping resolves to it, and  *)
(* an address outside it resolves as before or, when its mapping had to    *)
(* go, to nothing: never to a third mapping.                               *)
THEOREM LookupAfterAdd ==
  ASSUME NEW map, WellFormed(map), NEW new, IsMapping(new), NEW avma \in Address
  PROVE  /\ Covers(new, avma) => lookup_impl(add_mapping(map, new), avma) = {new}
         /\ ~Covers(new, avma) =>
              lookup_impl(add_mapping(map, new), avma) \subseteq lookup_impl(map, avma)
<1> DEFINE result == add_mapping(map, new)
<1>1. WellFormed(result)
  BY AddKeepsNonOverlapping
<1>2. lookup_impl(result, avma) = {m \in result : Covers(m, avma)}
  BY <1>1, LookupIsExact
<1>3. lookup_impl(map, avma) = {m \in map : Covers(m, avma)}
  BY LookupIsExact
<1>4. new \in result
  BY DEF add_mapping, Insert
<1>5. ASSUME Covers(new, avma)
      PROVE  lookup_impl(result, avma) = {new}
  <2>1. \A m \in result : Covers(m, avma) => m = new
    BY <1>1, <1>4, <1>5, CoveringIsUnique
  <2> QED BY <1>2, <1>4, <1>5, <2>1
<1>6. ASSUME ~Covers(new, avma)
      PROVE  lookup_impl(result, avma) \subseteq lookup_impl(map, avma)
  <2>1. \A m \in result : m # new => m \in map
    BY KeptAreApart
  <2> QED BY <1>2, <1>3, <1>6, <2>1
<1> QED BY <1>5, <1>6

\* An operation with a range that is one.
IsOp(op) ==
  \/ op.op = "Add" /\ IsMapping(op.mapping)
  \/ op.op = "Move" /\ op.start \in Address /\ op.end \in Address /\ op.start <= op.end
  \/ op.op = "Remove" /\ op.start \in Address
  \/ op.op = "Clear"

(* Every queued operation, the move of a JIT function and the removal of a *)
(* library included, keeps the mappings free of overlaps, whatever it      *)
(* finds there.                                                            *)
THEOREM ApplyKeepsNonOverlapping ==
  ASSUME NEW map, WellFormed(map), NEW op, IsOp(op)
  PROVE  WellFormed(apply_to(map, op))
<1>1. CASE op.op = "Add"
  <2>1. apply_to(map, op) = add_mapping(map, op.mapping)
    BY <1>1 DEF apply_to
  <2>2. IsMapping(op.mapping)
    BY <1>1 DEF IsOp
  <2> QED BY <2>1, <2>2, AddKeepsNonOverlapping
<1>2. CASE op.op = "Move"
  <2> DEFINE moved == Removed(map, op.old)
             m     == CHOOSE n \in moved : TRUE
             new   == [start |-> op.start, end |-> op.end, rel |-> m.rel, value |-> m.value]
  <2>1. apply_to(map, op) = IF moved = {} THEN map
                            ELSE add_mapping(remove_mapping(map, op.old), new)
    BY <1>2 DEF apply_to
  <2>2. IsMapping(new)
    BY <1>2 DEF IsOp, IsMapping
  <2>3. WellFormed(remove_mapping(map, op.old))
    BY DEF remove_mapping, WellFormed, NonOverlapping
  <2>4. WellFormed(add_mapping(remove_mapping(map, op.old), new))
    BY <2>2, <2>3, AddKeepsNonOverlapping
  <2> QED BY <2>1, <2>4
<1>3. CASE op.op = "Remove"
  BY <1>3 DEF apply_to, remove_mapping, WellFormed, NonOverlapping
<1>4. CASE op.op = "Clear"
  BY <1>4 DEF apply_to, WellFormed, NonOverlapping
<1> QED BY <1>1, <1>2, <1>3, <1>4 DEF IsOp

=============================================================================
