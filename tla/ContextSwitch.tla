---------------------------- MODULE ContextSwitch ----------------------------
(***************************************************************************)
(* The accounting of samply/src/shared/context_switch.rs: per thread (and  *)
(* per CPU) accumulators of running and sleeping time, and the conversion  *)
(* of accumulated sleep into groups of simulated off-CPU samples.          *)
(*                                                                         *)
(* The handler is a pure function of a timestamp and the thread's data, so *)
(* its methods are operators.  A method that returns an optional group and *)
(* mutates the data returns the record [data, group].                      *)
(***************************************************************************)
EXTENDS Integers

CONSTANT Interval  \* off_cpu_sampling_interval_ns

ASSUME IntervalAssumption == Interval \in Nat \ {0}

\* "ts" is off_switch_timestamp in state Off, last_observed_on_timestamp in
\* state On, and not meaningful in state Unknown.
ThreadContextSwitchData ==
  [state : {"Unknown", "Off", "On"}, ts : Nat, on : Nat, off : Nat]

NewThreadData == [state |-> "Unknown", ts |-> 0, on |-> 0, off |-> 0]

OffCpuSampleGroup == [begin : Int, end : Int, count : Nat]

\* None.  A group the code builds has at least one sample.
NoGroup == [begin |-> 0, end |-> 0, count |-> 0]

\* This one puts the first sample at the start of the accumulated sleep.
maybe_consume_off_cpu_early(t, d) ==
  IF d.off < Interval
  THEN [data |-> d, group |-> NoGroup]
  ELSE [data  |-> [d EXCEPT !.off = @ % Interval],
        group |-> [begin |-> t - d.off,
                   end   |-> t - (d.off % Interval),
                   count |-> d.off \div Interval]]

maybe_consume_off_cpu(t, d) ==
  LET count == d.off \div Interval
      rest  == d.off - count * Interval
  IN  IF d.off < Interval
      THEN [data |-> d, group |-> NoGroup]
      ELSE [data  |-> [d EXCEPT !.off = rest],
            group |-> [begin |-> t - (d.off - Interval),
                       end   |-> t - rest,
                       count |-> count]]

\* A slip: a second switch-out restarts the sleep.
handle_switch_out_restarts(t, d) ==
  CASE d.state = "On"             -> [d EXCEPT !.state = "Off", !.ts = t,
                                               !.on = @ + (t - d.ts)]
    [] d.state \in {"Unknown", "Off"} -> [d EXCEPT !.state = "Off", !.ts = t]

handle_switch_out(t, d) ==
  CASE d.state = "Unknown" -> [d EXCEPT !.state = "Off", !.ts = t]
    [] d.state = "On"      -> [d EXCEPT !.state = "Off", !.ts = t,
                                        !.on = @ + (t - d.ts)]
    [] d.state = "Off"     -> d

\* The thread is known to run at t: the two match statements below agree.
ObservedRunning(t, d) ==
  LET r == CASE d.state = "Unknown" -> [data |-> d, group |-> NoGroup]
             [] d.state = "On"  ->
                  [data |-> [d EXCEPT !.on = @ + (t - d.ts)],
                   group |-> NoGroup]
             [] d.state = "Off" ->
                  maybe_consume_off_cpu(t, [d EXCEPT !.off = @ + (t - d.ts)])
  IN  [r EXCEPT !.data.state = "On", !.data.ts = t]

handle_switch_in(t, d) == ObservedRunning(t, d)

handle_on_cpu_sample(t, d) == ObservedRunning(t, d)

\* consume_cpu_delta returns d.on and leaves this.
consume_cpu_delta(d) == [d EXCEPT !.on = 0]
=============================================================================
