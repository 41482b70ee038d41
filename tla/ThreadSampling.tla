--------------------------- MODULE ThreadSampling ---------------------------
(***************************************************************************)
(* What the Linux converter (samply/src/linux_shared/converter.rs) does    *)
(* with the four kinds of records that say whether a thread runs: main     *)
(* event samples, sched_switch samples, and CONTEXT_SWITCH records in and  *)
(* out.  Every record updates a thread's ThreadContextSwitchData, and when *)
(* per-CPU tracks are wanted, that of the CPU the record was taken on.     *)
(*                                                                         *)
(* Records reach the converter in timestamp order (the sorters of          *)
(* linux/sorter.rs and of linux-perf-data see to that), but they may be    *)
(* lost or duplicated, so any kind may follow any other.                   *)
(*                                                                         *)
(* A track is a profile thread: one per thread, one per CPU.  A stack is   *)
(* identified by the time at which it was captured.                        *)
(***************************************************************************)
EXTENDS ContextSwitch, Sequences

CONSTANTS Threads,    \* threads of the profiled processes
          Cpus,       \* CPUs with a track; {} without --per-cpu-threads
          Reference,  \* reference_raw of the timestamp converter
          MaxTime     \* bound: no record is later than this

ASSUME ThreadSamplingAssumption ==
  /\ Reference \in Nat
  /\ MaxTime \in Nat
  /\ Threads \cap Cpus = {}

VARIABLES
  off_cpu_indicator, \* what the recording has to tell who sleeps; never changes
  now,      \* timestamp of the last record
  data,     \* track -> its context_switch_data
  stack,    \* thread -> off_cpu_stack: the captured stack, or None
  lastMain, \* thread -> last_sample_timestamp, or None
  current,  \* cpu -> current_tid: who was switched in and when, or {}
  \* What the profile received; the code does not read these back.
  first,    \* track -> timestamp of the first record that concerned it
  cpuTime,  \* track -> sum of the consumed cpu deltas
  groups,   \* track -> sum of sample_count over all groups, added or dropped
  emitted,  \* track -> the samples that the last record added
  lastTime, \* track -> profile timestamp of its latest sample
  lastWake, \* thread -> the last time it was seen running
  marker    \* cpu -> the latest interval marker on its track

vars == <<off_cpu_indicator, now, data, stack, lastMain, current, first,
          cpuTime, groups, emitted, lastTime, lastWake, marker>>

Tracks == Threads \cup Cpus
Times  == Reference .. MaxTime
None   == -1
Period == 1     \* the period field of a sample; no property depends on it

\* The CPU a record names.  It has no effect without per-CPU tracks.
RecordCpus == IF Cpus = {} THEN {None} ELSE Cpus

convert_time(t) == IF t < Reference THEN 0 ELSE t - Reference

\* add_sample.  A stack is a capture time, None is the empty stack; "kind"
\* tells apart what the weight and the label frame tell apart.
Sample(kind, t, s, delta) ==
  [kind |-> kind, time |-> convert_time(t), stack |-> s, delta |-> delta]

Samples == [kind : {"on", "off", "idle"}, time : Nat,
            stack : Nat \cup {None}, delta : Nat]

process_off_cpu_sample_group(g, delta, s) ==
  IF g.count > 1 THEN <<Sample("off", g.begin, s, delta),
                          Sample("off", g.end, s, 0)>>
                 ELSE <<Sample("off", g.begin, s, delta)>>

-----------------------------------------------------------------------------
OffCpuIndicator == {"None", "ContextSwitches", "SchedSwitchAndSamples"}

TypeOK ==
  /\ off_cpu_indicator \in OffCpuIndicator
  /\ now \in Nat
  /\ data \in [Tracks -> ThreadContextSwitchData]
  /\ stack \in [Threads -> Nat \cup {None}]
  /\ lastMain \in [Threads -> Nat \cup {None}]
  /\ current \in [Cpus -> SUBSET [tid : Threads, ts : Nat]]
  /\ first \in [Tracks -> Nat]
  /\ cpuTime \in [Tracks -> Nat]
  /\ groups \in [Tracks -> Nat]
  /\ emitted \in [Tracks -> Seq(Samples)]
  /\ lastTime \in [Tracks -> Nat]
  /\ lastWake \in [Threads -> Nat]
  /\ marker \in [Cpus -> [start : Nat, end : Nat]]

Init ==
  /\ off_cpu_indicator \in OffCpuIndicator
  /\ now = Reference
  /\ data = [k \in Tracks |-> NewThreadData]
  /\ stack = [k \in Threads |-> None]
  /\ lastMain = [k \in Threads |-> None]
  /\ current = [c \in Cpus |-> {}]
  /\ first = [k \in Tracks |-> 0]
  /\ cpuTime = [k \in Tracks |-> 0]
  /\ groups = [k \in Tracks |-> 0]
  /\ emitted = [k \in Tracks |-> <<>>]
  /\ lastTime = [k \in Tracks |-> 0]
  /\ lastWake = [k \in Threads |-> 0]
  /\ marker = [c \in Cpus |-> [start |-> 0, end |-> 0]]

-----------------------------------------------------------------------------
(* What a record does to a track: its new data, the cpu time it consumed,  *)
(* the size of the off-CPU group it closed (0 for none), and the samples   *)
(* it added.                                                               *)

Outcome(r, d, samples) == [data     |-> d,
                           consumed |-> r.data.on - d.on,
                           count    |-> r.group.count,
                           samples  |-> samples]

\* A group is added to the profile only together with a saved stack.  The
\* stack is taken either way.
AddsGroup(r, th) == r.group.count > 0 /\ stack[th] # None

AfterGroup(r, th) == IF AddsGroup(r, th) THEN consume_cpu_delta(r.data)
                                         ELSE r.data

GroupSamples(r, th) ==
  IF AddsGroup(r, th)
  THEN process_off_cpu_sample_group(r.group, r.data.on, stack[th])
  ELSE <<>>

\* A sample whose delta is the accumulated running time, when there is an
\* off-CPU indicator, and otherwise delta0.
OnCpu(r, d, before, t, delta0) ==
  IF off_cpu_indicator # "None"
  THEN Outcome(r, consume_cpu_delta(d), Append(before, Sample("on", t, t, d.on)))
  ELSE Outcome(r, d, Append(before, Sample("on", t, t, delta0)))

MainSampleOnThread(th, t) ==
  LET r == handle_on_cpu_sample(t, data[th])
  IN  OnCpu(r, AfterGroup(r, th), GroupSamples(r, th), t, Period)

\* The CPU's idle group is not turned into samples here.
MainSampleOnCpu(c, t) ==
  LET r == handle_on_cpu_sample(t, data[c]) IN OnCpu(r, r.data, <<>>, t, 0)

SwitchInOnThread(th, t) ==
  LET r == handle_switch_in(t, data[th])
  IN  Outcome(r, AfterGroup(r, th), GroupSamples(r, th))

\* Two <Idle> samples with zero weight break up the CPU's stack chart.
SwitchInOnCpu(c, t) ==
  LET r == handle_switch_in(t, data[c])
  IN  IF r.group.count = 0
      THEN Outcome(r, r.data, <<>>)
      ELSE Outcome(r, consume_cpu_delta(r.data),
                   <<Sample("idle", r.group.begin, None, r.data.on),
                     Sample("idle", r.group.end, None, 0)>>)

SwitchOutOn(k, t) ==
  LET d == handle_switch_out(t, data[k])
  IN  Outcome([data |-> d, group |-> NoGroup], d, <<>>)

\* The record at t has outcome out[k] for every track k in DOMAIN out.
Apply(t, out) ==
  /\ UNCHANGED off_cpu_indicator
  /\ now' = t
  /\ data' = [k \in Tracks |->
                IF k \in DOMAIN out THEN out[k].data ELSE data[k]]
  /\ first' = [k \in Tracks |->
                IF k \in DOMAIN out /\ data[k].state = "Unknown"
                THEN t ELSE first[k]]
  /\ cpuTime' = [k \in Tracks |->
                IF k \in DOMAIN out THEN cpuTime[k] + out[k].consumed
                                    ELSE cpuTime[k]]
  /\ groups' = [k \in Tracks |->
                IF k \in DOMAIN out THEN groups[k] + out[k].count
                                    ELSE groups[k]]
  /\ emitted' = [k \in Tracks |->
                IF k \in DOMAIN out THEN out[k].samples ELSE <<>>]
  /\ lastTime' = [k \in Tracks |->
                IF emitted'[k] = <<>> THEN lastTime[k]
                ELSE emitted'[k][Len(emitted'[k])].time]

\* The tracks that a record on thread th and CPU c concerns.
Concerned(th, c) == {th} \cup ({c} \cap Cpus)

-----------------------------------------------------------------------------
\* A slip: the stack is cloned and stays.
CloneStack(th) == UNCHANGED stack

\* thread.off_cpu_stack.take()
TakeStack(th) == stack' = [stack EXCEPT ![th] = None]

handle_main_event_sample(th, c, t) ==
  /\ lastMain[th] # t
  /\ Apply(t, [k \in Concerned(th, c) |->
                IF k = th THEN MainSampleOnThread(th, t)
                          ELSE MainSampleOnCpu(c, t)])
  /\ lastMain' = [lastMain EXCEPT ![th] = t]
  /\ TakeStack(th)
  /\ lastWake' = [lastWake EXCEPT ![th] = t]
  /\ UNCHANGED <<current, marker>>

\* "Duplicate sample. Ignore."
ignore_duplicate_sample(th, t) ==
  /\ lastMain[th] = t
  /\ Apply(t, <<>>)
  /\ UNCHANGED <<lastMain, stack, lastWake, current, marker>>

\* The instant markers it also adds carry the stack and nothing else.
handle_sched_switch_sample(th, t) ==
  /\ off_cpu_indicator # "None"
  /\ stack' = [stack EXCEPT ![th] = t]
  /\ Apply(t, IF off_cpu_indicator = "SchedSwitchAndSamples"
              THEN [k \in {th} |-> SwitchOutOn(th, t)]
              ELSE <<>>)
  /\ UNCHANGED <<lastMain, lastWake, current, marker>>

\* Both marker notifications close the interval that is open on the CPU.
CloseMarker(c, t) ==
  marker' = [k \in Cpus |->
              IF k = c /\ current[k] # {}
              THEN [start |-> convert_time((CHOOSE x \in current[k] : TRUE).ts),
                    end   |-> convert_time(t)]
              ELSE marker[k]]

notify_switch_in_for_marker(th, c, t) ==
  /\ CloseMarker(c, t)
  /\ current' = [k \in Cpus |-> IF k = c THEN {[tid |-> th, ts |-> t]}
                                        ELSE current[k]]

notify_switch_out_for_marker(c, t) ==
  /\ CloseMarker(c, t)
  /\ current' = [k \in Cpus |-> IF k = c THEN {} ELSE current[k]]

handle_context_switch_in(th, c, t) ==
  /\ off_cpu_indicator = "ContextSwitches"
  /\ Apply(t, [k \in Concerned(th, c) |->
                IF k = th THEN SwitchInOnThread(th, t)
                          ELSE SwitchInOnCpu(c, t)])
  /\ TakeStack(th)
  /\ lastWake' = [lastWake EXCEPT ![th] = t]
  /\ notify_switch_in_for_marker(th, c, t)
  /\ UNCHANGED lastMain

handle_context_switch_out(th, c, t) ==
  /\ off_cpu_indicator = "ContextSwitches"
  /\ Apply(t, [k \in Concerned(th, c) |-> SwitchOutOn(k, t)])
  /\ notify_switch_out_for_marker(c, t)
  /\ UNCHANGED <<stack, lastMain, lastWake>>

Next ==
  \E th \in Threads, t \in now .. MaxTime :
    \/ ignore_duplicate_sample(th, t)
    \/ handle_sched_switch_sample(th, t)
    \/ \E c \in RecordCpus :
         \/ handle_main_event_sample(th, c, t)
         \/ handle_context_switch_in(th, c, t)
         \/ handle_context_switch_out(th, c, t)

Spec == Init /\ [][Next]_vars

-----------------------------------------------------------------------------
(* Every moment between the first record about a thread (or CPU) and its   *)
(* last state change is in exactly one place: a cpu delta of some sample,  *)
(* the running-time accumulator, a closed off-CPU group, or the sleep      *)
(* accumulator.  Lost and duplicated records must not count a moment twice *)
(* or drop it (context_switch.rs: on_duration, off_duration and            *)
(* remaining_duration).                                                    *)
WallClockConserved ==
  \A k \in Tracks :
    data[k].state # "Unknown" =>
      data[k].ts - first[k] = cpuTime[k] + data[k].on
                              + groups[k] * Interval + data[k].off

(* A sleep never leaves a whole interval unconsumed, whatever came before  *)
(* (maybe_consume_off_cpu), and a record never lies before the timestamp   *)
(* it is subtracted from (the u64 subtractions do not wrap).               *)
AccumulatorsSound ==
  \A k \in Tracks : data[k].off < Interval /\ data[k].ts <= now

(* "Some() between sched_switch and the next context switch IN"            *)
(* (linux_shared/thread.rs): a saved stack was captured after the thread   *)
(* last ran, so an off-CPU sample never shows the stack of an earlier      *)
(* sleep.                                                                  *)
StackIsOfThisSleep ==
  \A th \in Threads : stack[th] # None => stack[th] >= lastWake[th]

(* Simulated off-CPU samples lie inside the sleep they stand for: after    *)
(* the switch-out that began it and not after the record that ended it,    *)
(* even when their number was made up from several short sleeps.           *)
OffCpuSamplesInsideSleep ==
  [][\A k \in Tracks : \A i \in DOMAIN emitted'[k] :
       LET s == emitted'[k][i]
       IN  s.kind \in {"off", "idle"} =>
             /\ data[k].state = "Off"
             /\ s.time > convert_time(data[k].ts)
             /\ s.time <= convert_time(now')]_vars

(* Samples are recorded for a track in the order of their timestamps,      *)
(* although off-CPU samples are backdated.  The library mappings are       *)
(* replayed in this order, and a table out of order would be sorted with   *)
(* an unstable sort that may swap samples of equal time.                   *)
SamplesInTimeOrder ==
  [][\A k \in Tracks : \A i \in DOMAIN emitted'[k] :
       emitted'[k][i].time >=
         IF i = 1 THEN lastTime[k] ELSE emitted'[k][i - 1].time]_vars

(* The running intervals shown on a CPU track do not overlap, with         *)
(* switch-ins and switch-outs missing on either side (per_cpu.rs).         *)
CpuMarkersDisjoint ==
  [][\A c \in Cpus : marker'[c] # marker[c] =>
       marker[c].end <= marker'[c].start /\ marker'[c].start <= marker'[c].end]_vars
=============================================================================
