--------------------------- MODULE AddressResolution --------------------------
(***************************************************************************)
(* How the Linux converter finds out which library or JIT function a       *)
(* sampled address belongs to.  Mappings and samples are only noted when   *)
(* their records arrive; when a process ends its samples are resolved      *)
(* against the mappings replayed in time (process_sample_data.rs).  JIT    *)
(* functions come from a jitdump file, which the process writes while the  *)
(* converter reads it (jitdump_manager.rs).                                *)
(*                                                                         *)
(* Every event has a time of its own.  Libraries and JIT code share the    *)
(* addresses of a process, and a stack is one address.  Without            *)
(* --reuse-threads, perf maps and simpleperf.                              *)
(***************************************************************************)
EXTENDS LibMappings, FiniteSets

CONSTANTS Pids,     \* process ids
          First,    \* the one that is recorded from the beginning
          Span,     \* the addresses are 0 .. Span-1
          MaxTime   \* bound: the number of events

ASSUME AddressResolutionAssumption ==
  /\ First \in Pids
  /\ Span \in Nat /\ MaxTime \in Nat

VARIABLES
  now,      \* the time of the last event
  space,    \* what is really mapped: pid -> address -> instance
  asleep,   \* pid -> a thread that was switched out
  dump,     \* pid -> the jitdump file it writes
  process,  \* pid -> the converter's Process
  profile   \* the resolved samples

vars == <<now, space, asleep, dump, process, profile>>

Addresses == 0 .. Span - 1
Ranges    == {r \in Addresses \X (1 .. Span) : r[1] < r[2]}

In(a, range) == range[1] <= a /\ a < range[2]

\* An instance is a library or JIT function mapped at a certain time, its id.
NoInstance == [kind |-> "none", id |-> 0, start |-> 0, end |-> 0, known |-> TRUE, own |-> TRUE]
Instance(kind, range, known) ==
  [kind |-> kind, id |-> now + 1, start |-> range[1], end |-> range[2], known |-> known,
   own |-> TRUE]
\* What a forked child gets to see of it.
Inherited(instance) ==
  IF instance = NoInstance THEN NoInstance ELSE [instance EXCEPT !.own = FALSE]
\* The place in it that an address stands for.
Place(instance, avma) == [id |-> instance.id, off |-> avma - instance.start]

Empty   == [a \in Addresses |-> NoInstance]
NoSleep == [time |-> 0, addr |-> 0, seen |-> {}, known |-> TRUE]
NoDump  == [open |-> FALSE, records |-> <<>>, written |-> 0]

\* Process, with its JitDumpManager of at most one file: the path is known but
\* not yet opened, the reader is at record "read", or it met JIT_CODE_CLOSE.
NewProcess == [lib_mapping_ops |-> <<>>, unresolved_samples |-> <<>>, jitdump |-> "none",
               read |-> 0, jitdump_ops |-> <<>>, symbols |-> {}, cumulative_address |-> 0]
NoProcess  == [NewProcess EXCEPT !.jitdump = "no process"]
Exists(pid) == process[pid] # NoProcess

Init ==
  /\ now = 0
  /\ space = [p \in Pids |-> Empty]
  /\ asleep = [p \in Pids |-> NoSleep]
  /\ dump = [p \in Pids |-> NoDump]
  /\ process = [p \in Pids |-> IF p = First THEN NewProcess ELSE NoProcess]
  /\ profile = {}

TypeOK ==
  /\ now \in 0 .. MaxTime
  /\ \A p \in Pids :
       /\ \A a \in Addresses : space[p][a].id \in 0 .. now
       /\ dump[p].written \in 0 .. Len(dump[p].records)
       /\ process[p].read \in 0 .. dump[p].written
       /\ process[p].jitdump \in {"no process", "none", "pending", "open", "closed"}
       /\ Len(process[p].unresolved_samples) <= now

-----------------------------------------------------------------------------
(* jitdump_manager.rs                                                      *)

\* A slip: the next function starts where the last one starts.
CodeLoad_same_address(p, r) ==
  [p EXCEPT
     !.jitdump_ops = Append(@, [time |-> r.time,
                                op |-> Add([start |-> r.start, end |-> r.start + r.size,
                                            rel |-> p.cumulative_address, value |-> "jit"])]),
     !.symbols = @ \cup {[address |-> p.cumulative_address, size |-> r.size, id |-> r.id]}]

\* The code of all functions is laid out one after the other.
CodeLoad(p, r) ==
  [p EXCEPT
     !.cumulative_address = @ + r.size,
     !.jitdump_ops = Append(@, [time |-> r.time,
                                op |-> Add([start |-> r.start, end |-> r.start + r.size,
                                            rel |-> p.cumulative_address, value |-> "jit"])]),
     !.symbols = @ \cup {[address |-> p.cumulative_address, size |-> r.size, id |-> r.id]}]

CodeMove(p, r) ==
  [p EXCEPT !.jitdump_ops = Append(@, [time |-> r.time,
                                       op |-> Move(r.old, r.start, r.start + r.size)])]

CodeClose(p, r) ==
  [p EXCEPT !.jitdump_ops = Append(@, [time |-> r.time, op |-> Clear]),
            !.jitdump = "closed"]

process_record(p, r) ==
  IF p.jitdump = "closed" THEN p
  ELSE LET q == [p EXCEPT !.read = @ + 1]
       IN  CASE r.kind = "load"  -> CodeLoad(q, r)
             [] r.kind = "move"  -> CodeMove(q, r)
             [] r.kind = "close" -> CodeClose(q, r)

\* Reads what the process has written since the last time.
process_pending_records(p, d) ==
  IF p.jitdump = "open"
  THEN FoldLeft(process_record, p, SubSeq(d.records, p.read + 1, d.written))
  ELSE p

\* The file of a pending path is opened, or it is tried again the next time.
check_jitdump(p, d, opens) ==
  process_pending_records(IF p.jitdump = "pending" /\ opens THEN [p EXCEPT !.jitdump = "open"]
                          ELSE p, d)

-----------------------------------------------------------------------------
(* process_sample_data.rs, and convert_address of LibMappingsHierarchy     *)

\* The place a library's relative address stands for, and what the symbols
\* committed for the jitdump file say about one.
LibPlace(c)          == [id |-> c.value, off |-> c.rel]
JitPlaces(c, p)      == {[id |-> s.id, off |-> c.rel - s.address] :
                           s \in {t \in p.symbols : t.address <= c.rel
                                                    /\ c.rel < t.address + t.size}}

\* A slip: all mappings the process ever had, whatever the time of the sample.
Resolve_latest(p, libs, jits, avma) ==
  LET lib == convert_address(MappingsAfter(p.lib_mapping_ops, Len(p.lib_mapping_ops)), avma)
      jit == convert_address(MappingsAfter(p.jitdump_ops, Len(p.jitdump_ops)), avma)
  IN  IF lib # {} THEN {LibPlace(c) : c \in lib} ELSE UNION {JitPlaces(c, p) : c \in jit}

\* Libraries come first.  libs and jits say how many ops have been applied.
Resolve(p, libs, jits, avma) ==
  LET lib == convert_address(MappingsAfter(p.lib_mapping_ops, libs), avma)
      jit == convert_address(MappingsAfter(p.jitdump_ops, jits), avma)
  IN  IF lib # {} THEN {LibPlace(c) : c \in lib} ELSE UNION {JitPlaces(c, p) : c \in jit}

\* One round of the loop: process_ops(sample.timestamp_mono), convert_stack.
FlushSample(p, acc, s) ==
  LET libs == Applied(p.lib_mapping_ops, acc.libs, s.time)
      jits == Applied(p.jitdump_ops, acc.jits, s.time)
  IN  [libs |-> libs, jits |-> jits,
       out |-> acc.out \cup
         {[got |-> Resolve(p, libs, jits, s.addr), main |-> s.main, place |-> s.place,
           seen |-> s.seen, noted |-> s.known /\ p.read >= s.records, whole |-> s.whole]}]

\* A process that is done: jitdump_manager.finish, then all of its samples.
flush_samples_to_profile(p, d, opens) ==
  LET q == check_jitdump(p, d, opens)
  IN  FoldLeft(LAMBDA acc, s : FlushSample(q, acc, s),
               [libs |-> 0, jits |-> 0, out |-> {}], q.unresolved_samples).out

-----------------------------------------------------------------------------
(* The recorded processes, and the converter's handler for each record     *)

Event == now < MaxTime /\ now' = now + 1

\* Was there ever a library at this address that the converter was told of, or
\* a JIT function?
NotedLibAt(pid, a) ==
  \E i \in DOMAIN process[pid].lib_mapping_ops :
    LET mapping == process[pid].lib_mapping_ops[i].op.mapping
    IN  In(a, <<mapping.start, mapping.end>>)

NotedJitAt(pid, a) ==
  \E i \in DOMAIN dump[pid].records :
    LET r == dump[pid].records[i]
    IN  r.kind # "close" /\ In(a, <<r.start, r.start + r.size>>)

\* The instance is still where it was mapped.
Whole(map, instance) ==
  \A a \in Addresses : In(a, <<instance.start, instance.end>>) => map[a] = instance

\* Was the converter told all about what is at this address?  It never hears that
\* a library or JIT function went away, which matters for JIT code where a
\* library was, and for the rest of a library where JIT code was.
Known(pid, map, a) ==
  /\ map[a].known
  /\ map[a].kind = "jit" => ~NotedLibAt(pid, a)
  /\ map[a].kind = "lib" => Whole(map, map[a]) \/ ~NotedJitAt(pid, a)

Overlaps(instance, range) == instance.start < range[2] /\ range[1] < instance.end

\* What is left of an address space when something else comes to a range: JIT
\* functions in the way are given up.
Without(pid, range) ==
  [a \in Addresses |->
     IF In(a, range) \/ (space[pid][a].kind = "jit" /\ Overlaps(space[pid][a], range))
     THEN NoInstance ELSE space[pid][a]]

With(rest, instance) ==
  [a \in Addresses |-> IF In(a, <<instance.start, instance.end>>) THEN instance ELSE rest[a]]

\* JIT code is not put where a library is.
NoLibIn(pid, range) == \A a \in Addresses : In(a, range) => space[pid][a].kind # "lib"

\* The address space changes under the sleeping thread too.
SetSpace(pid, new) ==
  /\ space' = [space EXCEPT ![pid] = new]
  /\ asleep' = IF asleep[pid] = NoSleep THEN asleep
               ELSE LET at == new[asleep[pid].addr]
                    IN  [asleep EXCEPT ![pid].seen = @ \cup {Place(at, asleep[pid].addr)},
                                       ![pid].known = @ /\ Known(pid, new, asleep[pid].addr)]

add_regular_lib_mapping(p, range, id) ==
  [p EXCEPT !.lib_mapping_ops =
     Append(@, [time |-> now + 1,
                op |-> Add([start |-> range[1], end |-> range[2], rel |-> 0, value |-> id])])]

\* Returns early if the file is not what was expected.
add_module_to_process(p, range, id, known) ==
  IF known THEN add_regular_lib_mapping(p, range, id) ELSE p

\* mmap of an executable file.
handle_mmap2(pid, range, known) ==
  LET new == Instance("lib", range, known)
  IN  /\ Event
      /\ Exists(pid)
      /\ SetSpace(pid, With(Without(pid, range), new))
      /\ process' = [process EXCEPT ![pid] = add_module_to_process(@, range, new.id, known)]
      /\ UNCHANGED <<dump, profile>>

\* There is no record for munmap.
Munmap(pid, range) ==
  /\ Event
  /\ Exists(pid)
  /\ SetSpace(pid, Without(pid, range))
  /\ UNCHANGED <<dump, process, profile>>

\* The JIT maps its dump file: check_jitdump_or_marker_file notes the path.
MmapJitdump(pid) ==
  /\ Event
  /\ Exists(pid) /\ ~dump[pid].open /\ dump[pid].records = <<>>
  /\ dump' = [dump EXCEPT ![pid].open = TRUE]
  /\ process' = [process EXCEPT ![pid].jitdump = "pending"]
  /\ UNCHANGED <<space, asleep, profile>>

\* The JIT gives up the functions in the way, and writes a record into its buffer.
JitLoad(pid, range) ==
  /\ Event
  /\ Exists(pid) /\ dump[pid].open
  /\ NoLibIn(pid, range)
  /\ SetSpace(pid, With(Without(pid, range), Instance("jit", range, TRUE)))
  /\ dump' = [dump EXCEPT ![pid].records =
                Append(@, [time |-> now + 1, kind |-> "load", start |-> range[1],
                           size |-> range[2] - range[1], id |-> now + 1])]
  /\ UNCHANGED <<process, profile>>

\* The garbage collector moves one of the process's own functions.
JitMove(pid, from, to) ==
  LET old   == space[pid][from]
      size  == old.end - old.start
      moved == [old EXCEPT !.start = to, !.end = to + size]
      rest  == Without(pid, <<to, to + size>>)
  IN  /\ Event
      /\ Exists(pid) /\ dump[pid].open
      /\ old.kind = "jit" /\ old.start = from /\ old.own
      /\ to # from /\ to + size <= Span
      /\ NoLibIn(pid, <<to, to + size>>)
      /\ SetSpace(pid, With([a \in Addresses |-> IF rest[a] = old THEN NoInstance ELSE rest[a]],
                            moved))
      /\ dump' = [dump EXCEPT ![pid].records =
                    Append(@, [time |-> now + 1, kind |-> "move", old |-> from, start |-> to,
                               size |-> size])]
      /\ UNCHANGED <<process, profile>>

\* The JIT shuts down.
JitClose(pid) ==
  /\ Event
  /\ Exists(pid) /\ dump[pid].open
  /\ SetSpace(pid, [a \in Addresses |-> IF space[pid][a].kind = "jit" THEN NoInstance
                                        ELSE space[pid][a]])
  /\ dump' = [dump EXCEPT ![pid].open = FALSE,
                          ![pid].records = Append(@, [time |-> now + 1, kind |-> "close"])]
  /\ UNCHANGED <<process, profile>>

\* The JIT's buffer reaches the file.
JitWrite(pid) ==
  /\ \E n \in dump[pid].written + 1 .. Len(dump[pid].records) :
       dump' = [dump EXCEPT ![pid].written = n]
  /\ UNCHANGED <<now, space, asleep, process, profile>>

\* add_sample: what it is about and what the model remembers of it.
add_sample(p, time, addr, main, place, seen, known, whole, records) ==
  [p EXCEPT !.unresolved_samples =
     Append(@, [time |-> time, addr |-> addr, main |-> main, place |-> place, seen |-> seen,
                known |-> known, whole |-> whole, records |-> records])]

handle_main_event_sample(pid, addr, opens) ==
  LET at == space[pid][addr]
      p  == check_jitdump(process[pid], dump[pid], opens)
  IN  /\ Event
      /\ Exists(pid)
      /\ at # NoInstance
      /\ process' = [process EXCEPT ![pid] =
                       add_sample(p, now + 1, addr, TRUE, Place(at, addr), {},
                                  Known(pid, space[pid], addr),
                                  Whole(space[pid], at) /\ (at.kind = "jit" => at.own), Len(dump[pid].records))]
      /\ UNCHANGED <<space, asleep, dump, profile>>

\* A sched_switch sample: another check of the jitdump, and a stack is saved.
handle_sched_switch_sample(pid, addr, opens) ==
  LET at == space[pid][addr]
  IN  /\ Event
      /\ Exists(pid)
      /\ at # NoInstance
      /\ asleep[pid] = NoSleep
      /\ asleep' = [asleep EXCEPT ![pid] = [time |-> now + 1, addr |-> addr,
                                           seen |-> {Place(at, addr)},
                                           known |-> Known(pid, space[pid], addr)]]
      /\ process' = [process EXCEPT ![pid] = check_jitdump(@, dump[pid], opens)]
      /\ UNCHANGED <<space, dump, profile>>

\* The thread is back: a sample with the saved stack, put into its sleep.
handle_switch_in(pid, time) ==
  /\ Event
  /\ Exists(pid) /\ asleep[pid] # NoSleep
  /\ asleep[pid].time <= time
  /\ process' = [process EXCEPT ![pid] =
                   add_sample(@, time, asleep[pid].addr, FALSE, Place(NoInstance, 0), asleep[pid].seen,
                              asleep[pid].known, FALSE, Len(dump[pid].records))]
  /\ asleep' = [asleep EXCEPT ![pid] = NoSleep]
  /\ UNCHANGED <<space, dump, profile>>

\* A slip: the child starts without its parent's mappings.
handle_fork_without_mappings(parent, child) ==
  /\ Event
  /\ Exists(parent) /\ ~Exists(child)
  /\ space' = [space EXCEPT ![child] = [a \in Addresses |-> Inherited(space[parent][a])]]
  /\ process' = [process EXCEPT ![child] = NewProcess]
  /\ UNCHANGED <<asleep, dump, profile>>

\* The child adopts the parent's mappings, those of the JIT excepted.
handle_fork(parent, child) ==
  /\ Event
  /\ Exists(parent) /\ ~Exists(child)
  /\ space' = [space EXCEPT ![child] = [a \in Addresses |-> Inherited(space[parent][a])]]
  /\ process' = [process EXCEPT ![child] = [NewProcess EXCEPT
                   !.lib_mapping_ops = process[parent].lib_mapping_ops]]
  /\ UNCHANGED <<asleep, dump, profile>>

\* The dump file when its process is gone: the JIT has written its buffer.
Written(pid) == [dump[pid] EXCEPT !.written = Len(dump[pid].records)]

\* handle_exit of the main thread, and the first half of handle_exec.
RemoveProcess(pid, opens) ==
  /\ Event
  /\ Exists(pid)
  /\ profile' = profile \cup flush_samples_to_profile(process[pid], Written(pid), opens)
  /\ space' = [space EXCEPT ![pid] = Empty]
  /\ asleep' = [asleep EXCEPT ![pid] = NoSleep]
  /\ dump' = [dump EXCEPT ![pid] = NoDump]

handle_exit(pid, opens) ==
  /\ RemoveProcess(pid, opens)
  /\ process' = [process EXCEPT ![pid] = NoProcess]

handle_exec(pid, opens) ==
  /\ RemoveProcess(pid, opens)
  /\ process' = [process EXCEPT ![pid] = NewProcess]

\* The recording ends while processes go on.
finish(opens) ==
  /\ \E p \in Pids : Exists(p)
  /\ profile' = profile \cup
       UNION {flush_samples_to_profile(process[p], dump[p], opens) : p \in Pids}
  /\ process' = [p \in Pids |-> NoProcess]
  /\ UNCHANGED <<now, space, asleep, dump>>

Over == (\A p \in Pids : ~Exists(p)) /\ UNCHANGED vars

OfProcess(pid) ==
  \/ \E r \in Ranges : \/ Munmap(pid, r) \/ JitLoad(pid, r)
                       \/ \E known \in BOOLEAN : handle_mmap2(pid, r, known)
  \/ MmapJitdump(pid) \/ JitClose(pid) \/ JitWrite(pid)
  \/ \E from, to \in Addresses : JitMove(pid, from, to)
  \/ \E time \in 1 .. now : handle_switch_in(pid, time)
  \/ \E child \in Pids : handle_fork(pid, child)
  \/ \E opens \in BOOLEAN :
       \/ handle_exit(pid, opens) \/ handle_exec(pid, opens)
       \/ \E addr \in Addresses : \/ handle_main_event_sample(pid, addr, opens)
                                  \/ handle_sched_switch_sample(pid, addr, opens)

Next == (\E pid \in Pids : OfProcess(pid)) \/ (\E opens \in BOOLEAN : finish(opens)) \/ Over

Spec == Init /\ [][Next]_vars

-----------------------------------------------------------------------------
(* A sample of running code is never attributed to something else than     *)
(* what was mapped at its address at its time, provided that the converter *)
(* was told of it: although it is resolved when the process is long gone,  *)
(* libraries and JIT functions come to addresses where there were others   *)
(* before, JIT code moves, and the jitdump file grows while it is read.    *)
(*                                                                         *)
(* Two reuses of an address are left out of this (Known), for the code     *)
(* gets them wrong.  JIT code where a library was: there is no record for  *)
(* a munmap, and convert_address prefers libraries                         *)
(* (shared/lib_mappings.rs:116-119), so that the sample is attributed to   *)
(* the library that is gone.  And a library where JIT code was, if another *)
(* library overwrites a part of it: add_mapping then forgets the rest, and *)
(* the sample is attributed to the JIT function that is gone.              *)
NeverMisattributed == \A s \in profile : s.main /\ s.noted => s.got \subseteq {s.place}

(* Nor is it left unattributed, unless a later mapping overwrote a part of *)
(* the instance or the function comes from before a fork.                  *)
Attributed == \A s \in profile : s.main /\ s.noted /\ s.whole => s.got = {s.place}

(* A simulated sample of a sleeping thread is added, out of order, when    *)
(* the thread is back.  It is attributed to something that was at its      *)
(* address at some time in that sleep, if to anything.                     *)
BackdatedWithinSleep == \A s \in profile : ~s.main /\ s.noted => s.got \subseteq s.seen
=============================================================================
