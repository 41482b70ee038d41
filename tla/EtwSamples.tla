------------------------------ MODULE EtwSamples ------------------------------
(***************************************************************************)
(* Samples and their stacks in an ETW trace (handle_sample, handle_cswitch *)
(* and the handle_*_stack methods of samply/src/windows/profile_context.rs *)
(* called by windows/etw_gecko.rs).                                        *)
(*                                                                         *)
(* Windows reports the stack of a sample in events of its own.  The kernel *)
(* part follows at once; the user part follows when the thread returns to  *)
(* user mode, once for all samples taken since it left it.  Samples wait   *)
(* in the queue of their thread until then.                                *)
(*                                                                         *)
(* A user stack is known by a number that grows whenever the thread does   *)
(* something in user mode.  Events reach the code in the order of time, no *)
(* two events of the CPU have the same time, and some may be lost.         *)
(***************************************************************************)
EXTENDS ContextSwitch, Sequences, SequencesExt

CONSTANTS Tids,       \* thread ids
          Cpu,        \* the track of the only CPU
          MaxTime,    \* bound: no event is later than this
          MaxStacks,  \* bound: user stacks per thread id
          MaxStarts   \* bound: how often a thread id is used again

Idle == "idle"  \* in place of a thread id

ASSUME EtwSamplesAssumption ==
  /\ IsFiniteSet(Tids) /\ Cpu \notin Tids /\ Idle \notin Tids
  /\ MaxTime \in Nat /\ MaxStacks \in Nat \ {0} /\ MaxStarts \in Nat

VARIABLES
  arch,     \* "x86" (and x86_64) or "arm64"; never changes
  lossy,    \* events may be lost; never changes
  system,   \* the threads of the System process; never changes
  \* The machine.
  now,      \* the time of the last event
  running,  \* the thread on the CPU, or Idle
  mode,     \* thread -> "user" or "kernel"
  number,   \* thread -> the number of its user stack
  walk,     \* thread -> the stacks Windows has yet to report
  starts,   \* how often thread ids were used again
  \* ProfileContext.
  threads,  \* tid -> the Thread it stands for
  cpu,      \* context_switch_data of the CPU
  \* What the profile received; the code does not read these back.
  first,    \* track -> time of the first event that concerned it
  shown,    \* track -> sum of the cpu deltas of its samples
  groups,   \* track -> sum of sample_count over all groups
  dropped,  \* track -> cpu time that was consumed for no sample
  left,     \* track -> cpu time in the queues of threads that are gone
  emitted,  \* track -> the samples that the last event added
  lastTime  \* track -> the time of its latest sample

machine == <<mode, number, walk, running>>
config  == <<arch, lossy, system>>
history == <<first, shown, groups, dropped, left, emitted, lastTime>>
vars    == <<config, now, machine, starts, threads, cpu, history>>

Tracks == Tids \cup {Cpu}
None   == -1

\* SampleWithPendingStack.  "user" is the stack that belongs to the sample, and
\* "inKernel" tells whether there is a kernel stack.
Pending == [ts : Nat, kernel : BOOLEAN, group : OffCpuSampleGroup, delta : Nat,
            on : BOOLEAN, cpuDelta : Nat, user : Nat, inKernel : BOOLEAN]

\* Thread; it is unknown if another thread has taken the tid that is not recorded.
NewThread == [known |-> TRUE, queue |-> <<>>, data |-> NewThreadData]

NoWalk == [kernel |-> None, user |-> None]

TypeOK ==
  /\ arch \in {"x86", "arm64"} /\ lossy \in BOOLEAN /\ system \subseteq Tids
  /\ now \in 0 .. MaxTime /\ starts \in 0 .. MaxStarts
  /\ running \in Tids \cup {Idle}
  /\ mode \in [Tids -> {"user", "kernel"}]
  /\ number \in [Tids -> 1 .. MaxStacks]
  /\ walk \in [Tids -> [kernel : Nat \cup {None}, user : Nat \cup {None}]]
  /\ \A t \in Tids : /\ threads[t].known \in BOOLEAN
                     /\ threads[t].data \in ThreadContextSwitchData
                     /\ \A i \in DOMAIN threads[t].queue : threads[t].queue[i] \in Pending
  /\ cpu \in ThreadContextSwitchData
  /\ first \in [Tracks -> Nat] /\ shown \in [Tracks -> Nat]
  /\ groups \in [Tracks -> Nat] /\ dropped \in [Tracks -> Nat] /\ left \in [Tracks -> Nat]

Init ==
  /\ arch \in {"x86", "arm64"} /\ lossy \in BOOLEAN /\ system \in SUBSET Tids
  /\ now = 0 /\ running = Idle /\ starts = 0
  /\ mode = [t \in Tids |-> "kernel"]
  /\ number = [t \in Tids |-> 1]
  /\ walk = [t \in Tids |-> NoWalk]
  /\ threads = [t \in Tids |-> NewThread]
  /\ cpu = NewThreadData
  /\ first = [k \in Tracks |-> 0] /\ shown = [k \in Tracks |-> 0]
  /\ groups = [k \in Tracks |-> 0] /\ dropped = [k \in Tracks |-> 0]
  /\ left = [k \in Tracks |-> 0]
  /\ emitted = [k \in Tracks |-> <<>>] /\ lastTime = [k \in Tracks |-> 0]

-----------------------------------------------------------------------------
(* Samples added to the profile                                            *)

Sample(time, user, kernel, delta, of) ==
  [time |-> time, user |-> user, kernel |-> kernel, delta |-> delta, of |-> of]

\* The first sample of the group carries the cpu delta.
OffCpuSamples(s, user) ==
  IF s.group = NoGroup THEN <<>>
  ELSE <<Sample(s.group.begin, user, FALSE, s.delta, s)>>
       \o IF s.group.count > 1 THEN <<Sample(s.group.end, user, FALSE, 0, s)>> ELSE <<>>

\* A slip: the sample comes before those of the sleep that it ended.
consume_sample_first(s, user) ==
  (IF s.on THEN <<Sample(s.ts, user, s.kernel, IF s.group = NoGroup THEN s.delta ELSE 0, s)>>
           ELSE <<>>)
  \o OffCpuSamples(s, user)

\* A slip: the cpu delta is not reset after the group.
consume_sample_twice(s, user) ==
  OffCpuSamples(s, user)
  \o IF s.on THEN <<Sample(s.ts, user, s.kernel, s.delta, s)>> ELSE <<>>

\* consume_sample, on the track of the thread and on that of the CPU.
consume_sample(s, user) ==
  OffCpuSamples(s, user)
  \o IF s.on THEN <<Sample(s.ts, user, s.kernel, IF s.group = NoGroup THEN s.delta ELSE 0, s)>>
             ELSE <<>>

consume_sample_cpu(s, user) ==
  IF s.on THEN <<Sample(s.ts, user, s.kernel, s.cpuDelta, s)>> ELSE <<>>

TotalDelta(samples) == FoldSeq(LAMBDA s, sum : s.delta + sum, 0, samples)

\* The samples "added" are given to their tracks.
Emit(added) ==
  /\ emitted' = [k \in Tracks |-> IF k \in DOMAIN added THEN added[k] ELSE <<>>]
  /\ shown' = [k \in Tracks |-> shown[k] + TotalDelta(emitted'[k])]
  /\ lastTime' = [k \in Tracks |-> IF emitted'[k] = <<>> THEN lastTime[k]
                                  ELSE Last(emitted'[k]).time]

\* The samples of a queue are consumed in its order.
ConsumeAll(samples, user) ==
  [thread |-> FlattenSeq([i \in DOMAIN samples |-> consume_sample(samples[i], user)]),
   cpu    |-> FlattenSeq([i \in DOMAIN samples |-> consume_sample_cpu(samples[i], user)])]

EmitConsumed(t, samples, user) ==
  LET out == ConsumeAll(samples, user)
  IN  Emit([k \in {t, Cpu} |-> IF k = t THEN out.thread ELSE out.cpu])

-----------------------------------------------------------------------------
(* Stacks                                                                  *)

SetQueue(t, queue) == threads' = [threads EXCEPT ![t].queue = queue]

\* The last sample of the queue with this time, or 0.
LastAt(queue, ts) == SelectLastInSeq(queue, LAMBDA s : s.ts = ts)

\* With a kernel stack a sample of the System process is complete.
handle_kernel_stack(t, ts) ==
  LET queue == threads[t].queue
      i     == LastAt(queue, ts)
      s     == [queue[i] EXCEPT !.kernel = TRUE]
  IN  IF ~threads[t].known \/ i = 0
      THEN UNCHANGED threads /\ Emit(<<>>)
      ELSE IF t \in system
      THEN SetQueue(t, RemoveAt(queue, i)) /\ EmitConsumed(t, <<s>>, 0)
      ELSE SetQueue(t, ReplaceAt(queue, i, s)) /\ Emit(<<>>)

\* A slip: the sample at the time of the stack is not covered.
SamplesUntil_before(queue, ts) ==
  LET after == SelectInSeq(queue, LAMBDA s : s.ts >= ts)
  IN  IF after = 0 THEN Len(queue) ELSE after - 1

\* take_while(|s| s.timestamp <= timestamp_raw).count()
SamplesUntil(queue, ts) ==
  LET after == SelectInSeq(queue, LAMBDA s : s.ts > ts)
  IN  IF after = 0 THEN Len(queue) ELSE after - 1

handle_user_stack(t, ts, user) ==
  LET queue == threads[t].queue
      n     == SamplesUntil(queue, ts)
  IN  IF ~threads[t].known
      THEN UNCHANGED threads /\ Emit(<<>>)
      ELSE /\ SetQueue(t, SubSeq(queue, n + 1, Len(queue)))
           /\ EmitConsumed(t, SubSeq(queue, 1, n), user)

\* On ARM64 a stack is whole, and is a sample by itself.
handle_stack_arm64(t, ts, user, kernel) ==
  IF ~threads[t].known
  THEN UNCHANGED threads /\ Emit(<<>>)
  ELSE /\ threads' = [threads EXCEPT ![t].data = consume_cpu_delta(@)]
       /\ Emit([k \in {t} |-> <<Sample(ts, user, kernel, threads[t].data.on,
                                       [user |-> user, inKernel |-> kernel])>>])

-----------------------------------------------------------------------------
(* Samples and context switches                                            *)

\* The System process has no user stacks.
UserStackOf(t, n) == IF t \in system THEN 0 ELSE n[t]

\* The first event that concerns a track starts its clock.
StartClock(ks, ts, state) ==
  first' = [k \in Tracks |-> IF k \in ks /\ state[k] = "Unknown" THEN ts ELSE first[k]]

StateOf == [k \in Tracks |-> IF k = Cpu THEN cpu.state ELSE threads[k].data.state]

\* The group of the CPU is not turned into samples here.
handle_sample(t, ts) ==
  LET r == handle_on_cpu_sample(ts, threads[t].data)
      c == handle_on_cpu_sample(ts, cpu)
  IN  IF ~threads[t].known
      THEN UNCHANGED <<threads, cpu, first, groups>>
      ELSE /\ threads' = [threads EXCEPT
                ![t].data  = consume_cpu_delta(r.data),
                ![t].queue = Append(@, [ts |-> ts, kernel |-> FALSE, group |-> r.group,
                                        delta |-> r.data.on, on |-> TRUE, cpuDelta |-> c.data.on,
                                        user |-> UserStackOf(t, number'), inKernel |-> mode[t] = "kernel"])]
           /\ cpu' = consume_cpu_delta(c.data)
           /\ groups' = [groups EXCEPT ![t] = @ + r.group.count, ![Cpu] = @ + c.group.count]
           /\ StartClock({t, Cpu}, ts, StateOf)

Known(t) == t # Idle /\ threads[t].known

\* The part for the old thread: it and the CPU stop running.
SwitchOut(old, ts) ==
  IF Known(old)
  THEN [threads |-> [threads EXCEPT ![old].data = handle_switch_out(ts, @)],
        cpu     |-> handle_switch_out(ts, cpu)]
  ELSE [threads |-> threads, cpu |-> cpu]

\* The cpu delta is consumed in any case.
PushIfGroup(queue, s) == IF s.group = NoGroup THEN queue ELSE Append(queue, s)

\* Two <Idle> samples break up the track of the CPU.
IdleSamples(c) ==
  IF c.group = NoGroup THEN <<>>
  ELSE LET idle == [user |-> 0, inKernel |-> FALSE]
       IN  <<Sample(c.group.begin, 0, FALSE, c.data.on, idle), Sample(c.group.end, 0, FALSE, 0, idle)>>

handle_cswitch(old, new, ts) ==
  LET out == SwitchOut(old, ts)
      r   == handle_switch_in(ts, out.threads[new].data)
      c   == handle_switch_in(ts, out.cpu)
  IN  /\ StartClock({k \in {old, new, Cpu} \cap Tracks :
                       IF k = Cpu THEN Known(old) \/ Known(new) ELSE Known(k)}, ts, StateOf)
      /\ IF ~Known(new)
         THEN /\ threads' = out.threads /\ cpu' = out.cpu
              /\ UNCHANGED <<groups, dropped>> /\ Emit(<<>>)
         ELSE /\ threads' = [out.threads EXCEPT
                   ![new].data  = consume_cpu_delta(r.data),
                   ![new].queue = PushIfGroup(@,
                     [ts |-> ts, kernel |-> FALSE, group |-> r.group, delta |-> r.data.on,
                      on |-> FALSE, cpuDelta |-> 0, user |-> UserStackOf(new, number), inKernel |-> FALSE])]
              /\ cpu' = IF c.group = NoGroup THEN c.data ELSE consume_cpu_delta(c.data)
              /\ groups' = [groups EXCEPT ![new] = @ + r.group.count, ![Cpu] = @ + c.group.count]
              /\ dropped' = [dropped EXCEPT ![new] = @ + IF r.group = NoGroup THEN r.data.on ELSE 0]
              /\ Emit([k \in {Cpu} |-> IdleSamples(c)])

-----------------------------------------------------------------------------
(* The machine and the events it writes                                    *)

\* The stacks that are due come before anything else the thread does.
StacksReported(t) == walk[t].kernel = None /\ (mode[t] = "user" => walk[t].user = None)

\* Something happens in user mode: the stack is another one.
NewStack(t) == number[t] < MaxStacks /\ number' = [number EXCEPT ![t] = @ + 1]

\* The walks that an event at ts asks for, in mode m.
Walk(t, ts, m) == [kernel |-> IF m = "kernel" THEN ts ELSE None,
                   user   |-> IF t \in system THEN None ELSE ts]

\* PerfInfo/SampleProf, in the thread that runs.
SampleProf(ts) ==
  LET t == running
  IN  /\ t # Idle /\ StacksReported(t)
      /\ now' = ts
      /\ IF mode[t] = "user" THEN NewStack(t) ELSE UNCHANGED number
      /\ handle_sample(t, ts)
      /\ walk' = [walk EXCEPT ![t] = Walk(t, ts, mode[t])]
      /\ Emit(<<>>)
      /\ UNCHANGED <<running, mode, starts, dropped, left>>

\* A thread leaves the CPU in the kernel; Thread/CSwitch, which may be lost.
CSwitch(new, ts) ==
  LET old == running
  IN  /\ new # old
      /\ \A t \in {old, new} \ {Idle} : StacksReported(t)
      /\ now' = ts /\ running' = new
      /\ IF old # Idle /\ mode[old] = "user"
         THEN NewStack(old) /\ mode' = [mode EXCEPT ![old] = "kernel"]
         ELSE UNCHANGED <<number, mode>>
      /\ \/ /\ handle_cswitch(old, new, ts)
            /\ walk' = IF new = Idle THEN walk ELSE [walk EXCEPT ![new] = Walk(new, ts, "kernel")]
         \/ /\ lossy
            /\ UNCHANGED <<walk, threads, cpu, first, groups, dropped>> /\ Emit(<<>>)
      /\ UNCHANGED <<starts, left>>

EnterKernel(t) ==
  /\ running = t /\ mode[t] = "user" /\ StacksReported(t)
  /\ NewStack(t) /\ mode' = [mode EXCEPT ![t] = "kernel"]
  /\ UNCHANGED <<now, walk, running, starts, threads, cpu, first, groups, dropped, left>> /\ Emit(<<>>)

ReturnToUser(t) ==
  /\ running = t /\ mode[t] = "kernel" /\ t \notin system /\ StacksReported(t)
  /\ mode' = [mode EXCEPT ![t] = "user"]
  /\ UNCHANGED <<now, number, walk, running, starts, threads, cpu, first, groups, dropped, left>>
  /\ Emit(<<>>)

\* StackWalk/Stack with the kernel part; on ARM64 with both parts.
KernelStack(t) ==
  /\ walk[t].kernel # None
  /\ walk' = [walk EXCEPT ![t] = IF arch = "arm64" THEN NoWalk ELSE [@ EXCEPT !.kernel = None]]
  /\ \/ /\ arch = "x86" /\ handle_kernel_stack(t, walk[t].kernel)
     \/ arch = "arm64" /\ handle_stack_arm64(t, walk[t].kernel, UserStackOf(t, number), TRUE)
     \/ lossy /\ UNCHANGED threads /\ Emit(<<>>)
  /\ UNCHANGED <<now, mode, number, running, starts, cpu, first, groups, dropped, left>>

\* StackWalk/Stack with the user part, which refers to the last sample.
UserStack(t) ==
  /\ walk[t].user # None /\ walk[t].kernel = None /\ mode[t] = "user"
  /\ walk' = [walk EXCEPT ![t] = NoWalk]
  /\ \/ arch = "x86" /\ handle_user_stack(t, walk[t].user, number[t])
     \/ arch = "arm64" /\ handle_stack_arm64(t, walk[t].user, number[t], FALSE)
     \/ lossy /\ UNCHANGED threads /\ Emit(<<>>)
  /\ UNCHANGED <<now, mode, number, running, starts, cpu, first, groups, dropped, left>>

\* A slip: the samples that wait are kept for the next thread with the tid.
ThreadStart_keeps_queue(t) ==
  /\ running # t /\ StacksReported(t) /\ starts < MaxStarts
  /\ starts' = starts + 1
  /\ NewStack(t)
  /\ walk' = [walk EXCEPT ![t] = NoWalk]
  /\ threads' = [threads EXCEPT ![t].data = NewThreadData]
  /\ first' = [first EXCEPT ![t] = 0] /\ shown' = [shown EXCEPT ![t] = 0]
  /\ groups' = [groups EXCEPT ![t] = 0] /\ dropped' = [dropped EXCEPT ![t] = 0]
  /\ emitted' = [k \in Tracks |-> <<>>] /\ lastTime' = [lastTime EXCEPT ![t] = 0]
  /\ UNCHANGED <<now, running, mode, cpu, left>>

\* Thread/End of a thread that was switched out for the last time, and Thread/Start
\* with its tid; the new thread is recorded or not.
ThreadStart(t) ==
  /\ running # t /\ StacksReported(t) /\ starts < MaxStarts
  /\ starts' = starts + 1
  /\ NewStack(t)
  /\ walk' = [walk EXCEPT ![t] = NoWalk]
  /\ \E known \in BOOLEAN : threads' = [threads EXCEPT ![t] = [NewThread EXCEPT !.known = known]]
  /\ first' = [first EXCEPT ![t] = 0] /\ shown' = [shown EXCEPT ![t] = 0]
  /\ groups' = [groups EXCEPT ![t] = 0] /\ dropped' = [dropped EXCEPT ![t] = 0]
  /\ left' = [left EXCEPT ![Cpu] =
                @ + FoldSeq(LAMBDA s, sum : s.cpuDelta + sum, 0, threads[t].queue)]
  /\ emitted' = [k \in Tracks |-> <<>>] /\ lastTime' = [lastTime EXCEPT ![t] = 0]
  /\ UNCHANGED <<now, running, mode, cpu>>

Next ==
  /\ UNCHANGED config
  /\ \/ \E ts \in now + 1 .. MaxTime :
          SampleProf(ts) \/ \E new \in Tids \cup {Idle} : CSwitch(new, ts)
     \/ \E t \in Tids :
          \/ EnterKernel(t) \/ ReturnToUser(t) \/ KernelStack(t) \/ UserStack(t)
          \/ ThreadStart(t)

Spec == Init /\ [][Next]_vars

-----------------------------------------------------------------------------
(* On x86, where stacks come apart from their samples, a sample shows the  *)
(* stack of its own moment: kernel frames if it was taken in the kernel,   *)
(* on top of the user stack from which the thread had entered it           *)
(* (handle_user_stack uses a stack for all waiting samples).  Where events *)
(* are lost, the user stack may be a later one, never an earlier one.  In  *)
(* any case the sample was taken since the first event of the thread that  *)
(* has the tid now, whose stack it is: nothing that waited for a stack of  *)
(* the thread before is given one of this thread.                          *)
StackOfItsTime ==
  arch = "x86" =>
    \A k \in Tracks : \A i \in DOMAIN emitted[k] :
      LET s == emitted[k][i]
      IN  /\ s.user >= s.of.user
          /\ s.kernel => s.of.inKernel
          /\ k \in Tids => s.of.ts >= first[k]
          /\ ~lossy => s.user = s.of.user /\ s.kernel = s.of.inKernel

(* "Consume any samples with pending stacks": on x86, if no event is lost, *)
(* once a thread is back in user mode and its stack has come, none of its  *)
(* samples still waits, and none of the System process waits after its     *)
(* kernel stack.                                                           *)
NothingLeftWaiting ==
  ~lossy /\ arch = "x86" =>
    \A t \in Tids :
      walk[t].kernel = None /\ (t \in system \/ (mode[t] = "user" /\ walk[t].user = None))
        => threads[t].queue = <<>>

QueuedDelta(k) ==
  LET delta(q) == FoldSeq(LAMBDA s, sum : (IF k = Cpu THEN s.cpuDelta ELSE s.delta) + sum, 0, q)
  IN  IF k = Cpu THEN FoldFunctionOnSet(LAMBDA a, b : a + b, 0, [t \in Tids |-> delta(threads[t].queue)], Tids)
      ELSE delta(threads[k].queue)

(* Every moment of a known thread, and of the CPU, is in exactly one       *)
(* place: shown, waiting with a sample, accumulated, in an off-CPU group,  *)
(* or in what handle_cswitch consumes for no sample.                       *)
TimeConserved ==
  \A k \in Tracks :
    LET d == IF k = Cpu THEN cpu ELSE threads[k].data
    IN  d.state # "Unknown" =>
          d.ts - first[k] = shown[k] + QueuedDelta(k) + left[k] + dropped[k] + d.on
                            + groups[k] * Interval + d.off

(* The samples of a thread are added in the order of their times, although *)
(* they wait for their stacks and off-CPU samples are backdated.           *)
SamplesInTimeOrder ==
  [][\A k \in Tids : \A i \in DOMAIN emitted'[k] :
       emitted'[k][i].time >=
         IF i = 1 THEN lastTime[k] ELSE emitted'[k][i - 1].time]_vars
=============================================================================
