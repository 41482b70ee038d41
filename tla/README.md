# A TLA+ verification project for samply

samply is a command line CPU profiler. It records a process (Linux: perf
events; macOS: a sampling thread; Windows: ETW), or imports a `perf.data` file,
converts what it got into a profile in the Firefox Profiler's format, and serves
that profile together with a symbolication API. Symbol files are downloaded into
a cache directory that is kept below a quota.

This project models the parts of samply where the outcome depends on order:
which records arrive before which others, which process gets hold of a file
first, which thread ends first, where a download is cut into chunks. Parts that
are pure decoding (DWARF, PDB, object files, ETW schemas) are left to the tests,
see *Not modelled*.

## Inventory

| part | state it keeps | operations | what is hard | what makes it correct |
|---|---|---|---|---|
| off-CPU accounting, `samply/src/shared/context_switch.rs` | per thread: state (unknown, off since, on since), on-CPU duration, off-CPU rest | switch in, switch out, on-CPU sample, consume | missing and duplicate records, arithmetic on timestamps | no time counted twice or lost; simulated samples inside the sleep |
| Linux converter, `samply/src/linux_shared/converter.rs` | processes, threads, CPU tracks, saved off-CPU stacks, options | one handler per perf record | backdated samples, stale stacks, ids reused by the kernel | samples in order, stack belongs to its sleep, records land in the right thread |
| process and thread tables, `linux_shared/processes.rs`, `process_threads.rs`, `shared/recycling.rs` | pid to process, tid to thread, recycling pools | fork, exec, exit, rename, lookup | long sequences of fork, exec, rename and exit; merging of threads | no two live threads share a profile thread; shown names are right |
| perf rings, sorter, perf group, `samply/src/linux/perf_group.rs`, `sorter.rs`, `perf_event.rs` | ring positions, pending commits, heap with rounds, members | open, wait, consume | kernel writes and closes concurrently; slots given back out of order | output sorted, nothing lost on close, slots given back once |
| Linux recording, `samply/src/linux/profiler.rs`, `process.rs`, `shared/ctrl_c.rs` | two threads, a channel each way, suspended child, Ctrl+C receiver | launch, attach, unsuspend, wait, stop, save | two threads and signals; errors half-way | child runs only when observed; recording ends; profile is saved |
| macOS recording, `samply/src/mac`, `samply-mac-preload` | three threads, their channels, the mach port, the queue of accepted tasks, the live tasks with their path channels | connect, accept, proceed, sample, exec, exit, stop | a process may exec or die between any two messages; three threads stop one another | nothing that was released runs unsampled; nobody is left waiting; a file's path reaches the task that opened it |
| Windows recording, `samply/src/windows`, `etw-reader` | ETW session in an elevated helper process; tables of processes and threads by id and by id and start time, handles by time, pools, pending samples and markers | one handler per ETW event | two traces read one after the other; ids used again; stacks that arrive after their samples | a marker, function or sample lands where its id pointed at its time; live threads are not merged |
| library mappings, `fxprof-processed-profile/src/lib_mappings.rs`, `shared/lib_mappings.rs` | sorted ranges, queue of mapping operations | add, remove, lookup, replay | overlaps; addresses resolved at the end of the recording | an address resolves to the mapping that was there when sampled |
| JIT support, `shared/jitdump_manager.rs`, `perf_map.rs`, `jit_function_recycler.rs`, `marker_file.rs`, `counter_file.rs` | open files, code addresses | process pending records | files still growing or already deleted | functions appear at the time they were loaded |
| profile tables, `fxprof-processed-profile` | interned strings, frames, stacks, samples, markers | intern, add, serialize | index translation, unsorted samples | what is serialized is what was added |
| destination files, `wholesym/src/file_creation.rs` | lock file, part file, destination | create_file_cleanly | several processes, failures, kills, deletions by the quota manager | destination never partial, no double write |
| quota manager, `samply-quota-manager` | sqlite rows, directory, eviction task | created, accessed, deleted, evict, finish | files change under the task | quota enforced, nothing deleted needlessly |
| symbols, `samply-symbols`, `wholesym` | candidate paths, cached files and their indexes, download state | load, look up, download, parse | cancellation, concurrent requests for one file, broken connections, chunks that cut lines | the symbols found are those of the whole file; a request fails only without a file; every download is reported to end once |
| server and API, `samply/src/server.rs`, `samply-api` | the profile, the symbol manager | HTTP requests | none beyond the above | answers match the symbol manager |

The parts interact as follows. On Linux the main thread launches the command (as
often as `--iteration-count` says) or picks the process to attach to, waits for
it and for Ctrl+C, and sends the observer thread requests over a bounded channel.
The observer thread owns the perf group and the converter: it opens the perf
events of the processes it is asked to observe, answers over a second channel, and
calls the converter once per record, in time order.
The converter keeps one `ThreadContextSwitchData` per thread and per CPU, and
collects samples whose addresses are resolved against replayed library mappings
when the profile is finished. The symbol manager downloads files through
`create_file_cleanly` and reports them, through its observer, to the quota
manager, which deletes files in the background.

On macOS a launched process carries a library that sends its task port to samply
and waits for the answer. The accepter thread receives it and starts the task on
the sampler thread, which samples all live tasks in turn; the main thread waits
for the command or for Ctrl+C and stops the other two. On Windows one thread reads
the kernel trace and then the user trace, and calls the methods of one
`ProfileContext`.

## Modules

| module | models | state and actions |
|---|---|---|
| `ContextSwitch` | `shared/context_switch.rs` | no state; one operator per method of `ContextSwitchHandler`, each mapping a thread's data to its new data |
| `ThreadSampling` | `handle_main_event_sample`, `handle_sched_switch_sample`, `handle_context_switch` of the converter, `per_cpu.rs` | `data`, `stack`, `lastMain`, `current` are the code's fields; `first`, `cpuTime`, `groups`, `emitted`, `lastTime`, `lastWake`, `marker` record what the profile received; one action per handler and kind of record |
| `PerfGroup` | `linux/perf_group.rs`, `sorter.rs`, `perf_event.rs` | the kernel's `Publish`, `Close` and `Tick` interleave with the steps of `wait` and `consume_events` |
| `CleanFile` | what `create_file_cleanly` promises | abstract: whether the file is there, and how far each call is |
| `FileCreation` | `wholesym/src/file_creation.rs` | one action per system call of `create_file_cleanly`; inodes and paths are distinct; `Vanish` is a killed process or a dropped future; `Evict` is the quota manager, which the constant `Evictions` lets delete the destination never, only while no call is at a lock file ("quiet"), or at any time. `ImplementsCleanFile` maps it to `CleanFile`: the file is what the destination path names, and a call is `writing` while it holds the lock and has seen no destination. Its specification is `FCSpec`, its initial predicate `FCInit` and so on, so that one proof module can extend both it and `SymbolFetch` |
| `QuotaManager` | `samply-quota-manager`, the callbacks of `symbol_manager_observer.rs` | one action per access to the locked inventory or to the file system |
| `Processes` | `linux_shared/processes.rs`, `process_threads.rs`, `process.rs`, `shared/recycling.rs`, the FORK, EXIT, COMM handlers of the converter | `s` is the value of `Processes` together with the profile's process and thread tables; operators map it to its next value the way the methods do, one action per handler; `comm` records the last name a record gave |
| `LinuxRecording` | `linux/profiler.rs`, `linux/process.rs`, `shared/ctrl_c.rs` | program counters of both threads, the two channels, the children with their resume pipes, the Ctrl+C channel; one action per blocking call or externally visible step |
| `LibMappings` | `fxprof-processed-profile/src/lib_mappings.rs`, `samply/src/shared/lib_mappings.rs` | no state; the table of mappings as a set, its operations (add, move, remove, clear) and the replay of queued operations |
| `AddressResolution` | `shared/process_sample_data.rs`, `unresolved_samples.rs`, `jitdump_manager.rs`, the mmap, sample, fork, exec and exit handlers of the converter | `process` is the converter's state, `space` what is really mapped (libraries and JIT code in the same addresses), `dump` the jitdump file as far as the JIT has written it, `profile` the resolved samples |
| `EtwTables` | `windows/profile_context.rs` (tables, recycling, lookups by time), the dispatch of `windows/etw_gecko.rs` | `ctx` is the `ProfileContext`; one action per process or thread event and per stateful event of the user trace; `os` and `past` are what ran on the machine and when, which the code never sees; markers and JIT functions are looked up by operators that the properties apply in every state |
| `EtwSamples` | samples, stacks and context switches of `windows/profile_context.rs` | `threads` and `cpu` are the code's state; the machine (`mode`, `number`, `walk`, `running`) decides which stack events follow a sample, and may lose them; one action per event, with the handler applied to it; uses `ContextSwitch` |
| `MacRecording` | `samply/src/mac` and `samply-mac-preload` | the program counters of the main, accepter and sampler threads, the port, the channels and the processes with their images; `gaveUp` are the live tasks that could not be read and are no longer sampled; one action per blocking call or message |
| `BreakpadIndex` | `samply-symbols/src/breakpad` | no state; the line buffer, the parser as a function of chunks, the `.symindex` file and its parser with its errors, the lookup with inlined calls of several ranges and malformed records, and `SymbolFor`, the reference definition on the whole file |
| `SymbolFetch` | `load_symbol_map` of `samply-symbols/src/lib.rs` with `wholesym/src/breakpad.rs`, `helper.rs`, `downloader.rs` for Breakpad files | each lookup's program counter with its candidate, server and parser; the cached files, the writers of them, what the observer was told of each download. A file whose MODULE line is malformed, or has another debug id, is refused; an index that cannot be parsed counts as none. Files are created as `CleanFile` promises; composes `BreakpadIndex` |
| `MC...` | | constants of the TLC models and symmetry sets |
| `...Proofs` | | inductive invariants and theorems |

Slips of the kind a maintainer could make are kept next to the operators they
concern (named after them, with a comment "A slip"); each property is known to
fail when the slip is put in.

## Runs

| run | configuration | expected | properties | what it shows |
|---|---|---|---|---|
| thread_sampling | `ThreadSampling.cfg` on `MCThreadSampling` | pass | `WallClockConserved`, `StackIsOfThisSleep`, `SamplesInTimeOrder` | A thread on a CPU with a track, for each kind of off-CPU indicator: every order of samples, switch-ins, switch-outs and duplicates keeps the accounting of thread and CPU exact, the samples in order, and off-CPU stacks with their own sleep. |
| perf_group | `PerfGroup.cfg` on `MCPerfGroup` | pass | `RingAccounting`, `RemovedRingsAreDrained`, `OutputSorted`, `EverythingDelivered` | Two ring buffers of two records, filled and closed by the kernel while the recording thread reads them: the merged output is sorted, slots are returned exactly once, closed rings are drained, and everything is delivered. |
| file_creation | `FileCreation.cfg` on `MCFileCreation` | pass | `OneWriter`, `DestinationIsWhole`, `ImplementsCleanFile`, `EveryCallEnds` | Three calls of create_file_cleanly, each of which may fail or vanish at any point, while the quota manager may delete the finished file whenever no call is at a lock file: the lock and temporary files implement CleanFile, one call writes at a time although lock files are removed and created again, never a partial file, and every call ends. |
| file_creation_evicted_three | `FileCreationEvicted.cfg` on `MCFileCreation` | violation | `DestinationIsWhole` | Three calls with deletions of the finished file at any time: a late removal of the lock path lets two calls hold locks on different lock files, and one renames what the other is still writing. |
| quota | `QuotaManager.cfg` on `MCQuotaManager` | pass | `NoOverEviction`, `QuotaEnforced`, `FinishReturns` | Three files of different sizes, clients that create, find and use files while the eviction task runs, removals that fail: no notification is lost, so that the reported files in the directory shrink to the limit (those whose row a deletion took with it excepted), nothing is deleted below the limit, and finish returns. |
| processes | `Processes.cfg` on `MCProcesses` | pass | `HandlesUnshared`, `ShownNames`, `ShownUnderItsProcess` | Two pids, two other tids and two names, with and without --reuse-threads, every order of FORK, EXIT, COMM records and samples, lost records included: profile threads are recycled but never shared, and under the name they show. |
| record | `LinuxRecording.cfg` on `MCLinuxRecording` | pass | `ExecOnlyWhenObserved`, `RecordedToTheEnd`, `SuspendedChildGoesOn`, `RecordingEnds` | A command launched up to twice, or a process attached to, with descendants, failing opens, failing execs, processes killed at any time and two presses of Ctrl+C: no child executes unobserved, the recording lasts as long as the processes, no child is left suspended, and samply ends. |
| addresses_resolved | `AddressResolution.cfg` on `MCAddressResolution` | pass | `NeverMisattributed`, `Attributed`, `BackdatedWithinSleep` | Five events of two processes whose libraries and JIT code share the addresses: mmap (noted or not), munmap, samples, sleeps, fork, exec, exit, and a JIT that loads, replaces, moves and drops functions and whose jitdump file is read while it is written, opened late or not at all. Samples are attributed to what was mapped at their time, although they are resolved at the end; two reuses of an address that the code gets wrong are named in the property and excluded. |
| etw_tables | `EtwTables.cfg` on `MCEtwTables` | pass | `MarkerOnItsThread`, `IntervalOfOneThread`, `MethodInItsProcess`, `ShownUnderItsProcess` | Two pids and two tids that are used again, processes that are tracked or not, --reuse-threads and --main-thread-only on and off, six events of the kernel trace: whatever was read since, a marker or a JIT function is given to the thread or process that had the id at its time. |
| mac_recording | `MacRecording.cfg` on `MCMacRecording` | pass | `ReleasedTasksAreSampled`, `PathsReachTheirTask`, `HeldTasksGoOn`, `RecordingEnds` | Launch with two iterations or attach, two processes of which one may exec and either may exit or be killed at any moment, one Ctrl+C: no process held back for the recording is lost or left waiting, and samply ends. |
| etw_samples | `EtwSamples.cfg` on `MCEtwSamples` | pass | `StackOfItsTime`, `NothingLeftWaiting`, `TimeConserved`, `SamplesInTimeOrder` | Two threads on one CPU, in user mode, in the kernel or in the System process, on x86 and ARM64, with and without lost events and with tids used again: on x86 samples get the stacks of their own moment and thread, and on both no time is counted twice. |
| symbol_fetch | `SymbolFetch.cfg` on `MCSymbolFetch` | pass | `SymbolsOfTheirFile`, `DownloadsEndOnce`, `FailsOnlyWithoutFile`, `EveryLookupEnds` | Two lookups of a .sym file (the wanted one, that of another library, one with a malformed MODULE line, or no Breakpad file) with two servers that deliver in chunks of any size, refuse, break off or stall, a full disk, damaged index files, dropped futures and an eviction: every address gets the symbol of its file, downloads end once, and a lookup fails only without the wanted file. |

### Disagreements between the code and its documentation

A run with the expected result *violation* states what a comment or a doc says and shows a behaviour of the code against it.

- `file_creation_evicted_three` (`DestinationIsWhole`, src/wholesym/src/file_creation.rs:179): The lock path is removed after the lock was dropped (lines 178-179 and 124-125), whichever lock file it names by then. With the destination deleted by the quota manager in between, two later calls hold locks on two different lock files and share the .part file; one renames it while the other has truncated it and is still writing. The doc at src/wholesym/src/file_creation.rs:44-45 says "This function tries to minimize the chance of leaving a partially-written file at the dest_path; the final file is only created once the write function has returned successfully", and the comment at lines 174-177 says others "will just notice that the destination file is already there".

## Bounds

`ThreadSampling`: `MaxTime` ends the recording. Six units with an interval of two
let a thread sleep for up to three simulated samples, or for one with a rest that
the next sleep adds to. One thread is enough for TLC because threads do not meet
except on a CPU track, whose accounting and markers the proofs cover for any
number of threads.
`PerfGroup`: two rings of two records each, three records per ring: each ring
becomes full, wraps once, and is closed while not empty. `FileCreation`: three
calls are needed to have one waiting for the lock, one holding it, and one late in
removing the lock path, and for a lock file to be removed and created again while
others wait; the passing run has them with quiet evictions, the violation with
evictions at any time. The proofs cover any number of calls. `QuotaManager`: three files of
sizes 1, 2 and 3 with limit 3 give lists of zero, one and two victims; three
creations allow one file to be created again after its eviction. `Processes`: two
pids, two further tids and two names suffice for a process or a thread to be
recycled under a name that another one has just given up; three profile processes
and four profile threads are what the longest chains (fork, rename, exit, fork)
create. `LinuxRecording`: the second iteration is the only one that differs from
the first, two presses of Ctrl+C are the one that is handled and the one that
terminates, and the channels have their real capacity. `AddressResolution`: every
event has its own time, so the number of events bounds the time; two addresses
allow a mapping to be overlapped partly, and a library to come where JIT code was or
the other way round; five events are, for instance, the
jitdump file, two loads, a move and a sample. `EtwTables`: six events of the kernel
trace are what it takes to give a profile thread up, start another thread with the
tid and rename it so that it takes the profile thread over, or to end a process and
recycle it; a lookup of every time is made after every event, and one event of the
user trace leaves a start or a script behind. Ids and thread names are symmetric.
`EtwSamples`: two threads take turns on one CPU, five time units and three user
stacks per thread; that is a sample in the kernel, a switch, a sample of the other
thread and the return of the first to user mode, with one reuse of a thread id.
Both architectures, with and without lost events, are initial states.
`MacRecording`: two processes, of which the first may exec once (the handshake with
an old and a new task of one pid), one opened file per recording, one press of
Ctrl+C, and the second iteration as on Linux. `SymbolFetch`: two lookups of one file
with two servers, the first of which breaks off or refuses and the second of which
delivers or stalls; chunks of up to three bytes cut
records anywhere, the file is read in chunks of seven and four bytes, which are not
multiples of its lines; five contents have records out of order, line endings of
both kinds, a missing last line break, a call inlined in two ranges with another one
within it, a malformed INLINE record, another library's debug id, a malformed MODULE
line, and no MODULE line. An index file that is there at the start may be one whose
end is missing (`Cuts`) or full of zeros. `CleanFile` stands for
`create_file_cleanly`: the refinement is proved for any number of calls if the file is
deleted while no call is at a lock file, and the deletions of `SymbolFetch` are of
that kind.

## Fairness

`PerfGroup`: weak fairness of the recording thread's steps: it is one thread that
runs until it blocks in `poll`, and `poll` returns when a ring has records or is
closed. The kernel needs no fairness. Note that `consume_events` returns only
when it finds all rings empty; that it does return depends on the bound on
records. `FileCreation`: weak fairness of each call's own steps (a task that can
continue is polled again), and none of `Vanish` or `Evict`; the lock itself needs
no strong fairness since every call is made once. `QuotaManager`: weak fairness of
the eviction task, and strong fairness of its stop branch, since `select!` picks a
ready branch at random. `LinuxRecording`: weak fairness of both threads, of each
child reading its resume pipe; nothing makes a command exit,
perf events fail, or the user press a key. `MacRecording`: weak fairness of the three
threads of samply and, for each process, of its start and of the answer it waits for;
again nothing exits or presses a key. `SymbolFetch`: weak fairness of each lookup that
waits for nothing but itself (its enabling condition is written out as `Moves`),
and no fairness of a server that stalls: the code has no timeouts
(`downloader.rs`, "TODO: Add timeouts"), and `EveryLookupEnds` excludes these
networks. `EtwSamples` and `EtwTables` state no liveness.

## Proofs

TLAPS checks the theorems below for every value of the constants.

- `ThreadSamplingProofs`, from `Interval > 0` and disjoint threads and CPUs. The
  invariant `IInv` says of each track that its account is balanced, that its rest
  is smaller than the interval and that its latest sample is not after its last
  state change; of each thread that a saved stack is not older than its last wake;
  of each CPU that the open interval starts after the last marker. None of the
  properties is inductive alone: that samples stay in order needs the bound on the
  rest, and the account of a track that was never seen has to be empty.
- `PerfGroupProofs`, for any number of rings, sizes and records. That the output
  is sorted needs `NothingEarlier`: a ring that was read to its end after an item
  entered the heap holds nothing earlier than that item; the age of an item and the
  place in the current round say which rings those are. `RingAccounting` and the
  draining of removed rings rest on the same invariant (`HeapSound`,
  `NonMembersEmpty`).
- `LinuxRecordingProofs`, for any number of iterations and of attached processes.
  `Handshake` says, by the label of the main thread, what is in both channels and
  what the observer is doing: each request is answered before the next one is sent,
  so that a `true` in the answers belongs to the command that waits for it. That a
  command executes only when observed follows from this; that a recording goes on to
  its end needs `ClosedAreGone` (a perf event is closed only for a process that is
  gone) and `LeftLoop` (what was true when the observer left its loop still is).
- `MacRecordingProofs`, for any set of processes. The sampler is told of a task
  before its process is answered, so that a task which is not tracked is dead or was
  given up (`AllSeen`, `AllTracked`), and a task that was dropped never comes back
  (`ImagesSound`). That a path reaches its task rests on the order of the port:
  between the message that announces a task and that of the next image of the same
  pid there is no path of another task (`OneWayIn`, `PathsInOrder`). A live task whose
  mach calls fail is among those that were given up.
- `SymbolFetchProofs`, for any number of lookups and servers and any contents. The
  invariant says what a lookup knows at each step (`Good`): a file it refused is not the
  wanted one, a cached file that it found is there or was deleted under it, none of the servers before the present one
  delivered, a file that is there came from a server that delivers. The parser is
  left opaque: only that it succeeds on a file with a MODULE line is used.
  The same module has the theorems about `FileCreation`, by which the files of
  `SymbolFetch` are made, for any number of calls, as long as the destination is
  deleted only while no call is at a lock file; that is their hypothesis
  `Evictions # "any"`. Without it they are false (run `file_creation_evicted_three`). In
  `SymbolFetch` every deletion is of that kind, since there a call is at its lock file
  only while it writes or waits for a writer; the theorems about lookups therefore say
  nothing of a deletion at another moment. The key is `OneLockFile`: as long as there is no
  destination file no call removes the lock file, so all calls compete for the same
  inode. `Refinement` shows, from that invariant, that every step is a step of
  `CleanFile` or a stutter (`CleanStep`, one case per action, with lemmas for the
  steps that move one call and for those that move none).
- `ProcessesProofs`, for any pids, tids and names and any number of processes and
  threads. `Sound` says that the threads, the recycler and the main thread of a
  process have different handles, all in the profile; that no two live processes, and
  no live process and data that wait to be recycled, have a handle in common; and that
  the profile shows each handle under the name its holder has. `HandlesUnshared` is
  not inductive alone: a process that ends hands its main thread and its recycler on,
  so that what waits has to be apart from all that lives. `Update` states what a
  change of one process must respect to keep the tables sound, and there is one lemma
  per operation. For `NamesUpToDate` the invariant adds that a thread which is not in
  the tables was not named (`NamesGiven`). `LeastOfName` is the set of the least
  entries of a pool, so that no induction over pools is needed. The same module has
  the theorems about `LibMappings`, for any table of mappings: the operations keep it
  free of overlaps, and in such a table the single candidate that the lookup considers
  is the right one.
- `EtwTablesProofs`, for any ids, names and numbers of events. The properties look up
  past times in the present tables, so `IInv` says of every past time what the tables
  still know of it (`Remembered`): the entry a tid or pid had then is the one whose
  span covers that time, and the handle it had got last by then is still noted. That
  needs each table to be in order (`TableSound`: entries start one after the other, an
  entry is marked as reused before the next one of its id starts) and every profile
  thread to be listed under the process that holds it, in a pool that waits for
  recycling too (`OwnersSound`). `Grows` states what no event may touch, namely what
  was there before it, and `KernelStep` that a handler which respects it keeps the
  invariant; there is one lemma per handler. The lookups choose a greatest element of
  a set of numbers, whose existence is proved from the well-foundedness of `<`
  (`HasGreatest`).
- `EtwSamplesProofs`, for any finite number of threads, queues and traces of any
  length, and any interval. `IInv` says of each thread that its queue is in the order
  of time and every sample in it well made (`QueueSound`), which walks are still to
  come (`WalkSound`), that nothing which will be shown is earlier than what was
  (`LastSound`) and, where no event is lost, that each waiting sample is one that the
  next stack completes and has the user stack of now (`NothingLost`); and of each track
  that its account is balanced (`Accounts`). A second invariant on top of it
  (`AllFresh`) says that what waits, and what was shown since, belongs to the thread
  that has the tid now: `ThreadStart` empties the queue. None of the four properties is inductive
  alone: that a sample gets its own stack needs to know what the queue holds when the
  stack comes, and the order of the samples needs that the backdated samples of a sleep
  come after the moment the thread was last seen. There is one lemma per event, and per
  outcome of a context switch. What a fold computes over a queue (`FoldSeq`,
  `FlattenSeq`, the sum over all threads) is proved without an induction theorem, by a
  least counterexample: a set of numbers has a least element, and a family of finite
  sets one of least size.

| module | theorem | property | what it establishes |
|---|---|---|---|
| `ThreadSamplingProofs` | `Inductive` |  | The strengthened invariant of the off-CPU accounting is inductive, for any threads, CPUs, interval and indicator. |
| `ThreadSamplingProofs` | `TypeCorrect` |  | The type invariant, in particular that no accumulator ever becomes negative. |
| `ThreadSamplingProofs` | `Conservation` | `WallClockConserved` | No moment of wall-clock time is counted twice or dropped, for any number of threads and CPUs and any interval. |
| `ThreadSamplingProofs` | `Soundness` |  | Less than one interval of sleep stays unconsumed, and no timestamp subtraction wraps. |
| `ThreadSamplingProofs` | `FreshStack` | `StackIsOfThisSleep` | A saved off-CPU stack is never older than the moment the thread last ran. |
| `ThreadSamplingProofs` | `InOrder` | `SamplesInTimeOrder` | Samples of a track are added in the order of their timestamps although off-CPU samples are backdated. |
| `ThreadSamplingProofs` | `InsideSleep` |  | Simulated off-CPU samples lie inside the sleep they stand for. |
| `ThreadSamplingProofs` | `MarkersDisjoint` |  | The running intervals on a CPU track never overlap. |
| `PerfGroupProofs` | `Inductive` |  | The strengthened invariant relating rings, heap, pending commits and rounds is inductive, for any set of rings and any ring size. |
| `PerfGroupProofs` | `TypeCorrect` |  | The type invariant; only rings the kernel closed are marked closed, and only those are removed. |
| `PerfGroupProofs` | `Sorted` | `OutputSorted` | The records handed to the callback are in time order, for any number of rings. |
| `PerfGroupProofs` | `Drained` | `RemovedRingsAreDrained` | A closed ring is read to its end before it is dropped. |
| `PerfGroupProofs` | `Accounting` | `RingAccounting` | Slots between tail and reading position are exactly those in the heap or awaiting commit. |
| `SymbolFetchProofs` | `FileInductive` |  | The lock file is only removed while the destination exists: the strengthened invariant is inductive for any number of calls and of deletions of the file while no call is at a lock file. |
| `SymbolFetchProofs` | `Exclusion` | `OneWriter` | At most one of any number of calls works on the .part file, as long as the finished file is deleted only while no call is at a lock file. |
| `SymbolFetchProofs` | `Whole` | `DestinationIsWhole` | The destination file is never partial, whatever calls fail or vanish, as long as it is deleted only while no call is at a lock file. |
| `SymbolFetchProofs` | `Refinement` | `ImplementsCleanFile` | create_file_cleanly implements CleanFile, deletions included, for any number of calls, as long as the file is deleted only while no call is at a lock file: the file appears whole, by one call at a time, and every other call finds it or fails. |
| `ProcessesProofs` | `Inductive` |  | The tables are sound (every handle is in range and has one holder, the profile shows the name its holder has), and every operation on one process keeps them so. |
| `ProcessesProofs` | `TypeCorrect` |  | The type invariant, in particular that nothing waits to be recycled without a name. |
| `ProcessesProofs` | `Unshared` | `HandlesUnshared` | A profile process or thread is held by one live process, thread or recycler at a time, for any pids, tids and names and every order of records, lost ones included. |
| `ProcessesProofs` | `Shown` | `ShownNames` | The profile shows every live process and thread, and everything that waits to be recycled, under the name the tables have for it; without --reuse-threads a thread has the name of its last record. |
| `ProcessesProofs` | `UnderItsProcess` | `ShownUnderItsProcess` | The main thread of a process is shown under that process, and without --reuse-threads all its threads are. |
| `LinuxRecordingProofs` | `Inductive` |  | What the main thread and the observer know of each other (what is in both channels at each label, which rings are open, which commands may execute) is inductive, for any number of iterations and attached processes. |
| `LinuxRecordingProofs` | `TypeCorrect` |  | The type invariant, in particular that the bounded channels never hold more than they can: no send of either thread blocks. |
| `LinuxRecordingProofs` | `Observed` | `ExecOnlyWhenObserved` | No launched command executes before its perf events are open, whatever fails and whenever Ctrl+C is pressed. |
| `LinuxRecordingProofs` | `ToTheEnd` | `RecordedToTheEnd` | The observer leaves its loop only when no observed process is left, or with the Ctrl+C that ends an attached recording. |
| `ProcessesProofs` | `AddKeepsNonOverlapping` |  | Adding a mapping to a table without overlaps leaves a table without overlaps, whatever the new range covers, touches or splits. |
| `ProcessesProofs` | `AddRemovesOverlappingOnly` |  | add_mapping removes exactly the mappings that overlap the new one: the binary searches for the first and the last of them are right. |
| `ProcessesProofs` | `LookupIsExact` |  | In a table without overlaps the lookup, which looks at one candidate only, finds a mapping if and only if one covers the address, and that one. |
| `ProcessesProofs` | `LookupAfterAdd` |  | After add_mapping every address of the new range resolves to the new mapping. |
| `ProcessesProofs` | `ApplyKeepsNonOverlapping` |  | Every queued operation (add, move, remove, clear) keeps the table free of overlaps. |
| `EtwTablesProofs` | `Inductive` |  | What the tables of threads and processes, the recycling pools and the remembered marks say of the past of the machine is inductive, for any pids, tids and names and any number of events. |
| `EtwTablesProofs` | `TypeCorrect` |  | The type invariant of the tables, in particular that every index and every handle is one that the tables and the profile have. |
| `EtwTablesProofs` | `MarkersOnTheirThreads` | `MarkerOnItsThread` | A marker of an earlier time is given to the profile thread that had the tid at that time, however often the tid was used again and whatever was recycled since. |
| `EtwTablesProofs` | `IntervalsOfOneThread` | `IntervalOfOneThread` | The start and the end of a freeform marker belong to the same thread: an open start is not taken over by the next thread with the tid. |
| `EtwTablesProofs` | `MethodsInTheirProcesses` | `MethodInItsProcess` | A JIT function is added to the process that had the pid at the time of its event, with the script that this process loaded. |
| `EtwTablesProofs` | `ListedUnderTheirProcesses` | `ShownUnderItsProcess` | Every thread of the tables is listed in the profile under the process that it belongs to, recycled handles included. |
| `MacRecordingProofs` | `Inductive` |  | What the accepter and the sampler have been told about each task, and the order of messages in the port, is inductive, for any processes and tasks. |
| `MacRecordingProofs` | `TypeCorrect` |  | The type invariant; in particular the tasks left in a sampling round are live. |
| `MacRecordingProofs` | `Sampled` | `ReleasedTasksAreSampled` | While the sampler works, every process that was told to proceed is sampled, waits in its channel or has been given up. |
| `MacRecordingProofs` | `Paths` | `PathsReachTheirTask` | The path of a jitdump or marker file reaches the profile of the task that opened it, also when the pid has gone on to another image. |
| `EtwSamplesProofs` | `Inductive` |  | What waits in the queues, what the stack walks will complete, where the time of every track is and what was shown last: the strengthened invariant is inductive for any number of threads and samples, on x86 and ARM64, with and without lost events. |
| `EtwSamplesProofs` | `TypeCorrect` |  | The type invariant. |
| `EtwSamplesProofs` | `StacksOfTheirTime` | `StackOfItsTime` | On x86, where stacks come apart from their samples, a sample is shown with the kernel frames and the user stack of its own moment, or a later user stack where events are lost; and no sample of a thread that is gone is shown as one of the thread that has its tid now. |
| `EtwSamplesProofs` | `NothingLeft` | `NothingLeftWaiting` | On x86, if no event is lost, no sample waits once the stack has come that completes it, however many samples a thread has taken in the kernel. |
| `EtwSamplesProofs` | `Conserved` | `TimeConserved` | Every moment of a thread and of the CPU is in exactly one place: shown, waiting with a sample, accumulated, in an off-CPU group, or consumed for no sample. |
| `EtwSamplesProofs` | `InOrderOfTime` | `SamplesInTimeOrder` | The samples of a thread reach the profile in the order of their times, backdated off-CPU samples and lost events included. |
| `SymbolFetchProofs` | `Inductive` |  | What a lookup knows at each step of the cached file, the servers it tried and its open download is inductive, for any number of lookups and servers; files are created as CleanFile says, which Refinement proves for any number of calls with deletions while no call is at the lock file. |
| `SymbolFetchProofs` | `EndOnce` | `DownloadsEndOnce` | Every download is reported as ended at most once and none is left open, also when its future is dropped. |
| `SymbolFetchProofs` | `OnlyWithoutFile` | `FailsOnlyWithoutFile` | A lookup that refused no file for its MODULE line and under which no file was deleted fails only if no directory has the file and no server delivers it, or the disk is full; deletions are those for which create_file_cleanly is CleanFile (no call at the lock file). |

Only model-checked, and why:

- liveness (`EverythingDelivered`, `EveryCallEnds`, `QuotaEnforced`, `FinishReturns`,
  `SuspendedChildGoesOn`, `HeldTasksGoOn`, `RecordingEnds`, `EveryLookupEnds`): the
  prover does not reason about fairness and `ENABLED`;
- what is computed by induction over data with an operator that the whole history
  determines: the replay of mappings (`AddressResolution`, `MappingsAfter` is a fold
  of `Apply`) and the index of a file (`SymbolsOfTheirFile`, folds over its chunks).
  The argument by a least counterexample that `EtwSamplesProofs` uses for sums would
  have to be made again for each of these folds;
- for now, `QuotaManager`.

A `TypeOK` (`FCTypeOK` in `FileCreation`) says what the variables of a module hold; those of `ThreadSampling`,
`PerfGroup`, `FileCreation`, `LinuxRecording`, `MacRecording`, `Processes`,
`EtwTables` and `EtwSamples` are proved.

## Hazards

What is hard to test here, and the property that looks after it.

| kind | where | what | properties |
|---|---|---|---|
| ordering | `samply/src/shared/context_switch.rs:100` | A switch-in may arrive without a switch-out, twice, or after a sample that already showed the thread running; counting the off-CPU time from both would charge the same sleep twice. | `WallClockConserved` |
| numeric_edge | `samply/src/shared/context_switch.rs:200` | The consumed off-CPU samples must leave a rest smaller than the interval, and begin and end are computed backwards from now with unsigned subtraction; one interval too many would put a sample before the sleep or wrap. | `WallClockConserved`, `SamplesInTimeOrder` |
| stale_state | `samply/src/linux_shared/converter.rs:360` | The stack saved at sched-switch is used for the off-CPU samples of a later wake-up. A wake-up without a stack must not find the stack of an earlier sleep. | `StackIsOfThisSleep` |
| ordering | `samply/src/linux_shared/converter.rs:365` | Off-CPU samples are added late and backdated; they must still come after every sample the thread already has, since library mappings are replayed in the order of the sample list. | `SamplesInTimeOrder` |
| interleaving | `samply/src/linux/perf_group.rs:257` | The kernel keeps writing to rings while the sorter drains another ring; a record may be released before an older one of a ring that was already visited. | `OutputSorted` |
| atomicity | `samply/src/linux/perf_group.rs:283` | A perf event is closed by the kernel while it still has unread records; removing the ring when it is found closed loses them unless it was read after the close. | `RemovedRingsAreDrained`, `EverythingDelivered` |
| resource_bound | `samply/src/linux/perf_event.rs:485` | Ring slots are given back only in order, while the sorter lets go of them out of order; a slot given back early is overwritten under the reader, one never given back fills the ring for good. | `RingAccounting` |
| liveness | `samply/src/linux/perf_group.rs:248` | consume_events returns only after rounds without events; records in the heap must not be left there until the next wakeup that never comes. | `EverythingDelivered` |
| interleaving | `wholesym/src/file_creation.rs:179` | The lock path is removed after the lock was released: by then it may name a lock file another process holds, and lock files are removed and created again while others wait for the old one. | `OneWriter`, `DestinationIsWhole` |
| crash_recovery | `wholesym/src/file_creation.rs:161` | The process or the future may end between truncating, writing, renaming and unlinking; the next call finds a stale .part file, a stale lock file, or both. | `OneWriter`, `DestinationIsWhole`, `ImplementsCleanFile` |
| stale_state | `wholesym/src/file_creation.rs:118` | The destination is checked before the work; the check must be repeated under the lock or two callers download the same file. | `ImplementsCleanFile` |
| deadlock | `wholesym/src/file_creation.rs:184` | Callers wait on the lock of a call that failed or vanished. | `EveryCallEnds` |
| stale_state | `samply-quota-manager/src/file_inventory.rs:161` | A row outlives its file when a client reports a file found just before its eviction; the next listing panics on it, with the inventory locked. Whoever waits for the task must still get an answer. | `FinishReturns` |
| numeric_edge | `samply-quota-manager/src/file_inventory.rs:290` | The excess is consumed file by file with a stop at zero; one file too many would be deleted, or the loop would stop above the limit. | `NoOverEviction` |
| liveness | `samply-quota-manager/src/quota_manager.rs:190` | A notification that arrives while the eviction task is working must not be lost, and the stop must be observed even under a stream of notifications. | `QuotaEnforced`, `FinishReturns` |
| protocol_sequence | `samply/src/shared/recycling.rs:53` | With --reuse-threads a profile thread passes from one kernel thread to the next through pools that are swapped on renames; a handle taken without being removed, or pooled twice, would show two live threads as one. | `HandlesUnshared` |
| protocol_sequence | `samply/src/linux_shared/process_threads.rs:131` | Long sequences of rename, fork and exit reach a thread whose name in the table, in the pool and in the profile differ. | `ShownNames` |
| stale_state | `samply/src/linux_shared/process.rs:124` | A process may take over the profile process of an earlier one, and its main thread with it, while its other threads have profile threads already: the main thread must be shown under the process it now belongs to. | `ShownUnderItsProcess` |
| interleaving | `samply/src/linux/profiler.rs:131` | The child must not execute before its perf events are open, in the second iteration too, where the request goes through the loop of the observer. | `ExecOnlyWhenObserved` |
| crash_recovery | `samply/src/linux/process.rs:145` | samply may exit, panic or give up while its child is suspended; the child must not wait for ever for a byte. | `SuspendedChildGoesOn` |
| deadlock | `samply/src/linux/profiler.rs:621` | The observer blocks for a request when all events are closed while the main thread waits for a reply, for the child, or for the observer. | `RecordingEnds` |
| interleaving | `samply/src/linux/profiler.rs:642` | The request to stop may arrive before, between or after the ends of the observed processes; the recording must neither stop early nor go on without processes. | `RecordedToTheEnd`, `RecordingEnds` |
| ordering | `samply/src/shared/lib_mappings.rs:155` | Samples are resolved long after they were taken, against mappings replayed in the order of the samples; an address that was reused in between must not resolve to its later owner. | `NeverMisattributed`, `Attributed` |
| ordering | `samply/src/linux_shared/converter.rs:1810` | Off-CPU samples are put into the past of the sample list while the replay of mappings only goes forward. | `BackdatedWithinSleep` |
| interleaving | `samply/src/shared/jitdump_manager.rs:154` | The jitdump file is read while the process writes it: the part read so far must be neither read again nor skipped, or every later relative address is wrong. | `NeverMisattributed` |
| protocol_sequence | `samply/src/linux_shared/process.rs:105` | The child of a fork needs all mappings its parent has had, and a process after exec none of them. | `Attributed`, `NeverMisattributed` |
| numeric_edge | `fxprof-processed-profile/src/lib_mappings.rs:62` | Which old mappings a new one removes depends on touching and enclosing ranges; one kept too many hides another from the lookup. | `NeverMisattributed`, `Attributed` |
| stale_state | `samply/src/windows/profile_context.rs:1030` | The user trace is read after the kernel trace, when a thread may have another handle, or its tid another thread, than at the time of the marker. | `MarkerOnItsThread` |
| protocol_sequence | `samply/src/windows/profile_context.rs:89` | A tid or pid is used again by a thread or process that is not tracked; without a note of the time, later events would go to the old one. | `MarkerOnItsThread`, `MethodInItsProcess` |
| ordering | `samply/src/windows/profile_context.rs:1840` | The start of a marker is kept until its end; the tid may have passed to another thread in between. | `IntervalOfOneThread` |
| protocol_sequence | `samply/src/windows/profile_context.rs:813` | A new process takes over the profile process, the main thread and the pooled threads of an earlier one of the same name. | `ShownUnderItsProcess` |
| ordering | `samply/src/windows/profile_context.rs:1255` | Samples wait for stacks that come later, in two parts, or never, and may be given the stack of another moment, or wait on until the next thread with this tid has a stack. | `StackOfItsTime`, `NothingLeftWaiting` |
| partial_failure | `samply/src/windows/profile_context.rs:1656` | handle_cswitch consumes the CPU time of the new thread even if it has no sample to give it to; elsewhere no time may be lost or counted twice. | `TimeConserved` |
| interleaving | `samply/src/mac/profiler.rs:110` | The sampler must hear of a task before the task is told to proceed, or the task runs unrecorded while others are sampled. | `ReleasedTasksAreSampled` |
| stale_state | `samply/src/mac/profiler.rs:116` | An exec makes a new task with the same pid: paths that the new image opens must not go to the profiler of the old one. | `PathsReachTheirTask` |
| deadlock | `samply-mac-preload/src/lib.rs:65` | A new process waits for Proceed from a samply that may stop accepting, exit or panic; only the no-senders notification of the port wakes it. | `HeldTasksGoOn` |
| deadlock | `samply/src/mac/profiler.rs:189` | The main thread joins the accepter and then the sampler, which wait for tasks, for messages and for each other's channels to close. | `RecordingEnds` |
| ordering | `samply-symbols/src/breakpad/index.rs:857` | Lines span the chunks of a download; the offset of such a line lies in an earlier chunk, and the index is only read by a later lookup. | `SymbolsOfTheirFile` |
| interleaving | `wholesym/src/helper.rs:438` | A file that was found may be deleted before it is opened, by the quota manager or because the disk filled up; the lookup must go on with the next candidate and must not use what is left of the file. | `EveryLookupEnds`, `SymbolsOfTheirFile` |
| atomicity | `wholesym/src/downloader.rs:154` | A lookup may be dropped at any await, with a download begun, a lock held, or a file half written; the observer and the waiting lookups must still hear of it. | `DownloadsEndOnce`, `EveryLookupEnds` |

## Known differences that no run shows

- `run_profiler` on Linux takes the time limit as `_time_limit` and does not read it;
  the doc of `--duration` (`main.rs:198`) says "Limit the recorded time". On Windows
  a TODO says so.
- `delete_files` of the quota manager removes a file and then its row, in two steps: a
  client that creates and reports the file in between loses the row it has made, and
  the file is never evicted. `QuotaEnforced` takes such files (`Lost`) out.
- `handle_coreclr_event` (`coreclr.rs:553`) passes the tid where `handle_coreclr_stack`
  expects the pid, so that no process is found and the stack is dropped.
- `add_thread_interval_marker` finds the thread of a CoreCLR marker by its tid alone,
  and `add_thread_instant_marker` uses the handle of now, although the comment on
  `thread_handle_at_time` explains why markers need the handle of their time; both
  unwrap, which panics for threads that `--main-thread-only` leaves out.
- `handle_cswitch` on Windows consumes the CPU time of a thread that is switched in
  even if it makes no sample, so that this time is in no "CPU delta"; on Linux the
  same handler waits for the next sample.
- `get_files_to_delete_to_enforce_max_size` stops when the excess is zero, so the
  directory may end exactly at the limit; its doc says "below". `QuotaEnforced` states
  what the code does, at most the limit.
- `handle_fork` names a new process after the forking process; its doc says "the
  forking thread".
- With `--reuse-threads`, `rename_non_main_thread` ignores a rename if no thread of
  the new name waits in the pool; `rename_process` in the same case renames.
- `Process::finish` puts a process into the pool under its `executable_name`;
  `Process::new` looks for it under the name `make_process_name` gives.
- `to_absolute_path` (`file_inventory.rs:161`), used for every row, unwraps `canonicalize` and panics on a
  row whose file is gone; the comment at line 17 says "The inventory never touches files
  directly".
- Linux: Ctrl+C while attaching makes the `send` at `linux/profiler.rs:332` fail, and
  its `unwrap` panic; the comments at 274 and 334 expect an orderly end. The model
  reaches this, and `RecordingEnds` names it as the one panic that may happen
  (`PanicsAfterEarlyCtrlC`).
- Windows: with `--reuse-threads`, `handle_thread_set_name` (`profile_context.rs:1058`)
  pools the handle of a running thread, so that two running threads can share a profile
  thread; the option (`main.rs:355`) says "Merge non-overlapping threads of the same
  name."
- Windows: samples that wait for their user stack when their thread ends are not shown;
  on ARM64 samples can have a CPU delta of zero.
- macOS: the comment at `mac/profiler.rs:193-194` says that the sampler "will run until
  all accepted tasks have terminated, or until the time limit has elapsed"; but when the
  accepter ends it sends `Shutdown`, which stops the sampler at once, so that
  descendants which outlive the command are no longer recorded. `RecordingEnds` of
  `MacRecording` says no more than that samply ends.
- macOS: a command that ends right after it was told to proceed makes
  `.expect("couldn't create root TaskProfiler")` (`sampler.rs:107`) panic, although
  the comment at line 150 expects such tasks (`RecordingEnds` names these panics); a process that is killed while it waits
  for the answer makes the `unwrap` at `process_launcher.rs:260` panic.
- macOS: `process_launcher.rs:344` says "always root pid first", but the queue is
  popped from its other end. Ctrl+C while attaching leaves the tasks in that queue
  suspended. A later iteration that takes longer than half a second to connect is not
  recorded.
- Symbols: `on_file_created` is also called for a file that already existed, and
  `on_file_accessed` also for a file just downloaded; the doc of the observer says the
  latter is "only called for pre-existing files and not for newly-created files".
- Symbols: `config.rs` says the extra debuginfod servers "are consulted independently of
  `use_debuginfod`"; `helper.rs` makes the debuginfod downloader only if that is set.
- Symbols: a `.symindex` file is named after the relative path alone
  (`wholesym/src/breakpad.rs:187`), so an index made from one server's file would be
  used for another directory's file of the same id; the model assumes that both have
  the same contents. A server that stalls blocks all lookups of its file.
- Symbols: `symbol_address + info.size` (`breakpad/symbol_map.rs:274`) is a `u32`
  addition without a check; line records are searched by bisection and not sorted.
- There is no record for munmap (`shared/lib_mappings.rs:117`), so JIT code at the
  former addresses of a library resolves to the library. `add_mapping` drops a library
  of which another one overwrites a part, so that the rest of it resolves to JIT code
  that was there before, if any. The model reaches both; `NeverMisattributed` leaves
  exactly these two out (`Known`). A jitdump record that is out
  of time order (`shared/lib_mappings.rs:156`) blocks those after it.

## Plan

In this order; each module is written so that it can be proved about.

1. *Profile tables* (`fxprof-processed-profile`): interning, sample table with
   deltas and sorting, unique pids; reference definition: what was added is what is
   serialized.
2. *Algorithms*: chunk cache; stack conversion; kernel image range; svma ranges.
3. *Remaining handlers of the converter*: kernel modules, perf maps, function
   recycling, simpleperf, `perf.data` import order; CoreCLR events on Windows.
4. *Other symbol candidates*: local binaries, symsrv, debuginfod.

Theorems to come: `NoOverEviction` of `QuotaManager`, `NeverMisattributed` of
`AddressResolution`.

## Not modelled, and why

- Decoding of binary formats and of symbol information (most of `samply-symbols`,
  `etw-reader`, `gecko_profile`): pure functions of large
  binary inputs; the repository tests them with fixtures.
- HTTP, browser launch, command line parsing: thin wrappers around libraries.
- Generated bindings: the two copies of `mach_sys.rs` and `dyld_bindings.rs` declare
  structs and functions and are more than 86,000 of the repository's 137,000 lines of
  Rust, so the models stand for a small share of all lines; of the code that is
  written by hand they stand for the parts named above.
- In the converter: the combined "All CPUs" track, the option that turns off
  context switch markers, tracepoints and `rss_stat` counters.
- In `AddressResolution`: kernel modules, perf maps, simpleperf, `--reuse-threads`,
  and stacks of more than one address. A
  JIT writes its records in time order.
- In `EtwTables` and `EtwSamples`: CoreCLR events, images, the time range option, the
  combined CPU track and context switch markers, the elevated helper process, and
  events of one id with equal timestamps; events are lost only in `EtwSamples`.
- In `MacRecording`: the unwinding of stacks and the library lists of a task, the
  fatal error for memory that samply cannot free (`task_profiler.rs:783`), fork without exec, the helper child that
  carries the library's environment, and how long anything takes.
- In `SymbolFetch`: copies of one `.sym` file with different contents, names, line numbers beyond the records that carry them, and the
  candidates that are not Breakpad files.
- In `LinuxRecording`: the time limit, which the code does not read; errors of fork, of pipes and of writing the profile.
