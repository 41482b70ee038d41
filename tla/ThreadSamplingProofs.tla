------------------------ MODULE ThreadSamplingProofs ------------------------
(***************************************************************************)
(* Proofs about ThreadSampling, for every number of threads and CPUs and   *)
(* every sampling interval.                                                *)
(***************************************************************************)
EXTENDS ThreadSampling, TLAPS

\* Division leaves a remainder below the interval (sample_count and
\* remaining_duration of maybe_consume_off_cpu).
LEMMA DivInterval ==
  ASSUME NEW n \in Nat
  PROVE  /\ n \div Interval \in Nat
         /\ n - (n \div Interval) * Interval \in Nat
         /\ n - (n \div Interval) * Interval < Interval
         /\ n >= Interval => n \div Interval >= 1
BY IntervalAssumption

\* What maybe_consume_off_cpu returns.
LEMMA ConsumeOffCpu ==
  ASSUME NEW d \in ThreadContextSwitchData, NEW t \in Nat
  PROVE  LET r == maybe_consume_off_cpu(t, d)
         IN  /\ r.data \in ThreadContextSwitchData
             /\ r.data.state = d.state /\ r.data.ts = d.ts /\ r.data.on = d.on
             /\ r.data.off < Interval
             /\ r.group \in OffCpuSampleGroup
             /\ r.data.off + r.group.count * Interval = d.off
             /\ r.group.count > 0 =>
                  /\ r.group.begin = t - (d.off - Interval)
                  /\ r.group.end = t - r.data.off
                  /\ r.group.begin <= r.group.end
<1> DEFINE q == d.off \div Interval
           p == q * Interval
           rest == d.off - p
<1>1. /\ q \in Nat /\ p \in Int /\ rest \in Nat /\ rest < Interval
      /\ d.off \in Nat
      /\ d.off >= Interval => q >= 1
  BY DivInterval, IntervalAssumption DEF ThreadContextSwitchData
<1>2. q >= 1 => p >= Interval
  BY <1>1, IntervalAssumption
<1>3. CASE d.off < Interval
  BY <1>3, IntervalAssumption
  DEF maybe_consume_off_cpu, NoGroup, OffCpuSampleGroup, ThreadContextSwitchData
<1>4. CASE d.off >= Interval
  <2> DEFINE dd == [d EXCEPT !.off = rest]
             g  == [begin |-> t - (d.off - Interval), end |-> t - rest,
                    count |-> q]
  <2>1. maybe_consume_off_cpu(t, d) = [data |-> dd, group |-> g]
    BY <1>4, <1>1, IntervalAssumption DEF maybe_consume_off_cpu
  <2>2. /\ dd \in ThreadContextSwitchData
        /\ dd.off = rest /\ dd.state = d.state /\ dd.ts = d.ts /\ dd.on = d.on
    BY <1>1 DEF ThreadContextSwitchData
  <2>3. rest + q * Interval = d.off
    BY <1>1
  <2>4. rest <= d.off - Interval
    BY <1>1, <1>2, <1>4, IntervalAssumption
  <2>5. g \in OffCpuSampleGroup
    BY <1>1, IntervalAssumption DEF OffCpuSampleGroup
  <2>6. g.begin = t - (d.off - Interval) /\ g.end = t - rest /\ g.count = q
    OBVIOUS
  <2>7. g.begin <= g.end
    BY <2>4, <2>6, <1>1, IntervalAssumption
  <2> HIDE DEF dd, g, q, rest
  <2> QED
    BY <2>1, <2>2, <2>3, <2>5, <2>6, <2>7, <1>1
<1> QED
  BY <1>1, <1>3, <1>4, IntervalAssumption

\* The data of a track at a moment not later than t: what the accumulators
\* promise each other.
Sound(d, t) ==
  /\ d \in ThreadContextSwitchData
  /\ d.off < Interval
  /\ d.ts <= t

\* A record that shows the thread running at t accounts for all the time
\* since the previous one, and a group it closes lies inside the sleep.
LEMMA Running ==
  ASSUME NEW t \in Nat, NEW d, Sound(d, t)
  PROVE  LET r == ObservedRunning(t, d)
         IN  /\ Sound(r.data, t) /\ r.data.state = "On" /\ r.data.ts = t
             /\ r.group \in OffCpuSampleGroup
             /\ d.state # "Unknown" =>
                  r.data.on + r.data.off + r.group.count * Interval
                    = d.on + d.off + (t - d.ts)
             /\ d.state = "Unknown" =>
                  r.data.on = d.on /\ r.data.off = d.off /\ r.group.count = 0
             /\ r.group.count > 0 =>
                  /\ d.state = "Off"
                  /\ d.ts < r.group.begin
                  /\ r.group.begin <= r.group.end
                  /\ r.group.end <= t
<1>0. /\ d \in ThreadContextSwitchData /\ d.off < Interval /\ d.ts <= t
      /\ d.state \in {"Unknown", "Off", "On"} /\ d.ts \in Nat /\ d.on \in Nat
      /\ d.off \in Nat
  BY DEF Sound, ThreadContextSwitchData
<1>1. CASE d.state = "Unknown"
  <2> DEFINE m == [data |-> d, group |-> NoGroup]
             r == ObservedRunning(t, d)
  <2>1. r = [m EXCEPT !.data.state = "On", !.data.ts = t]
    BY <1>1 DEF ObservedRunning
  <2>2. r.group = NoGroup /\ r.data = [d EXCEPT !.state = "On", !.ts = t]
    BY <2>1
  <2> HIDE DEF r
  <2>3. /\ r.data \in ThreadContextSwitchData /\ r.data.state = "On"
        /\ r.data.ts = t /\ r.data.on = d.on /\ r.data.off = d.off
    BY <2>2, <1>0 DEF ThreadContextSwitchData
  <2>4. r.group \in OffCpuSampleGroup /\ r.group.count = 0
    BY <2>2 DEF NoGroup, OffCpuSampleGroup
  <2> QED
    BY <2>3, <2>4, <1>0, <1>1 DEF Sound, r
<1>2. CASE d.state = "On"
  <2> DEFINE e == [d EXCEPT !.on = d.on + (t - d.ts)]
             m == [data |-> e, group |-> NoGroup]
             r == ObservedRunning(t, d)
  <2>1. /\ e \in ThreadContextSwitchData /\ e.on = d.on + (t - d.ts)
        /\ e.off = d.off
    BY <1>0 DEF ThreadContextSwitchData
  <2>2. r = [m EXCEPT !.data.state = "On", !.data.ts = t]
    BY <1>2 DEF ObservedRunning
  <2> HIDE DEF e
  <2>3. r.group = NoGroup /\ r.data = [e EXCEPT !.state = "On", !.ts = t]
    BY <2>2
  <2> HIDE DEF r
  <2>4. /\ r.data \in ThreadContextSwitchData /\ r.data.state = "On"
        /\ r.data.ts = t /\ r.data.on = e.on /\ r.data.off = e.off
    BY <2>3, <2>1 DEF ThreadContextSwitchData
  <2>5. r.group \in OffCpuSampleGroup /\ r.group.count = 0
    BY <2>3 DEF NoGroup, OffCpuSampleGroup
  <2>6. r.data.on + r.data.off + r.group.count * Interval
          = d.on + d.off + (t - d.ts)
    BY <2>1, <2>4, <2>5, <1>0, IntervalAssumption
  <2> QED
    BY <2>1, <2>4, <2>5, <2>6, <1>0, <1>2 DEF Sound, r
<1>3. CASE d.state = "Off"
  <2> DEFINE e == [d EXCEPT !.off = d.off + (t - d.ts)]
             m == maybe_consume_off_cpu(t, e)
  <2>1. /\ e \in ThreadContextSwitchData /\ e.off = d.off + (t - d.ts)
        /\ e.state = d.state /\ e.ts = d.ts /\ e.on = d.on
    BY <1>0 DEF ThreadContextSwitchData
  <2>2. ObservedRunning(t, d) = [m EXCEPT !.data.state = "On", !.data.ts = t]
    BY <1>3, <1>0 DEF ObservedRunning
  <2> HIDE DEF e
  <2>3. /\ m.data \in ThreadContextSwitchData
        /\ m.data.on = e.on
        /\ m.data.off < Interval
        /\ m.group \in OffCpuSampleGroup
        /\ m.data.off + m.group.count * Interval = e.off
        /\ m.group.count > 0 =>
             /\ m.group.begin = t - (e.off - Interval)
             /\ m.group.end = t - m.data.off
             /\ m.group.begin <= m.group.end
    BY <2>1, ConsumeOffCpu
  <2>4. m = [data |-> m.data, group |-> m.group]
    BY DEF maybe_consume_off_cpu
  <2> HIDE DEF m
  <2> DEFINE r == ObservedRunning(t, d)
  <2>5. /\ r.group = m.group
        /\ r.data = [m.data EXCEPT !.state = "On", !.ts = t]
    BY <2>2, <2>4
  <2> HIDE DEF r
  <2>6. /\ r.data \in ThreadContextSwitchData /\ r.data.state = "On"
        /\ r.data.ts = t /\ r.data.on = d.on /\ r.data.off = m.data.off
    BY <2>5, <2>3, <2>1 DEF ThreadContextSwitchData
  <2>7. /\ m.group.count \in Nat /\ m.group.begin \in Int
        /\ m.group.end \in Int /\ m.data.off \in Nat
        /\ m.group.count * Interval \in Int
    BY <2>3, IntervalAssumption DEF OffCpuSampleGroup, ThreadContextSwitchData
  <2>8. r.data.on + r.data.off + r.group.count * Interval
          = d.on + d.off + (t - d.ts)
    BY <2>5, <2>6, <2>7, <2>3, <2>1, <1>0
  <2>9. m.group.count > 0 =>
          /\ d.ts < m.group.begin
          /\ m.group.begin <= m.group.end
          /\ m.group.end <= t
    BY <2>3, <2>1, <2>7, <1>0, IntervalAssumption
  <2> QED
    BY <2>5, <2>6, <2>8, <2>9, <2>3, <1>3 DEF Sound, r
<1> QED
  BY <1>0, <1>1, <1>2, <1>3

\* A switch-out accounts for the time since the thread was last seen running,
\* and one that is repeated changes nothing.
LEMMA SwitchedOut ==
  ASSUME NEW t \in Nat, NEW d, Sound(d, t)
  PROVE  LET e == handle_switch_out(t, d)
         IN  /\ Sound(e, t) /\ e.state = "Off"
             /\ d.state # "Unknown" =>
                  e.on + e.off = d.on + d.off + (e.ts - d.ts)
             /\ d.state = "Unknown" =>
                  e.on = d.on /\ e.off = d.off /\ e.ts = t
<1>0. /\ d \in ThreadContextSwitchData /\ d.off < Interval /\ d.ts <= t
      /\ d.state \in {"Unknown", "Off", "On"} /\ d.ts \in Nat /\ d.on \in Nat
      /\ d.off \in Nat
  BY DEF Sound, ThreadContextSwitchData
<1> DEFINE e == handle_switch_out(t, d)
<1>1. CASE d.state = "Unknown"
  <2>1. e = [d EXCEPT !.state = "Off", !.ts = t]
    BY <1>1 DEF handle_switch_out
  <2> HIDE DEF e
  <2>2. /\ e \in ThreadContextSwitchData /\ e.state = "Off" /\ e.ts = t
        /\ e.on = d.on /\ e.off = d.off
    BY <2>1, <1>0 DEF ThreadContextSwitchData
  <2> QED
    BY <2>2, <1>0, <1>1 DEF Sound, e
<1>2. CASE d.state = "On"
  <2> DEFINE x == d.on + (t - d.ts)
  <2>1. e = [d EXCEPT !.state = "Off", !.ts = t, !.on = x]
    BY <1>2 DEF handle_switch_out
  <2>0. x \in Nat
    BY <1>0
  <2> HIDE DEF e, x
  <2>2. /\ e \in ThreadContextSwitchData /\ e.state = "Off" /\ e.ts = t
        /\ e.on = x /\ e.off = d.off
    BY <2>0, <2>1, <1>0 DEF ThreadContextSwitchData
  <2>3. e.on + e.off = d.on + d.off + (e.ts - d.ts)
    BY <2>2, <1>0 DEF x
  <2> QED
    BY <2>2, <2>3, <1>0, <1>2 DEF Sound, e
<1>3. CASE d.state = "Off"
  BY <1>0, <1>3, IntervalAssumption
  DEF handle_switch_out, Sound, ThreadContextSwitchData
<1> QED
  BY <1>0, <1>1, <1>2, <1>3

-----------------------------------------------------------------------------
\* The inductive invariant.  Conservation alone is not inductive: the first
\* record needs the accumulators of an unknown thread to be empty, and that
\* a group lies inside its sleep needs the remainder to be below Interval.
TrackOK(k) ==
  /\ Sound(data[k], now)
  /\ data[k].state = "Unknown" =>
       /\ data[k].on = 0 /\ data[k].off = 0
       /\ cpuTime[k] = 0 /\ groups[k] = 0 /\ lastTime[k] = 0
  /\ data[k].state # "Unknown" =>
       /\ data[k].ts >= Reference
       /\ lastTime[k] <= convert_time(data[k].ts)
       /\ data[k].ts - first[k] = cpuTime[k] + data[k].on
                                  + groups[k] * Interval + data[k].off

ThreadOK(th) == lastWake[th] <= now /\ (stack[th] # None => stack[th] >= lastWake[th])

CpuOK(c) ==
  /\ marker[c].start <= marker[c].end
  /\ marker[c].end <= convert_time(now)
  /\ \A x \in current[c] : marker[c].end <= convert_time(x.ts) /\ x.ts <= now

IInv ==
  /\ TypeOK
  /\ now >= Reference
  /\ \A k \in Tracks : TrackOK(k)
  /\ \A th \in Threads : ThreadOK(th)
  /\ \A c \in Cpus : CpuOK(c)

\* Samples added to a track whose latest sample is at lo, up to time hi.
Ordered(lo, hi, s) ==
  /\ s \in Seq(Samples)
  /\ \A i \in 1 .. Len(s) :
       /\ s[i].time >= IF i = 1 THEN lo ELSE s[i - 1].time
       /\ s[i].time <= hi

\* Simulated samples lie after the switch-out in d and not after t.
Inside(d, t, s) ==
  \A i \in 1 .. Len(s) :
    s[i].kind \in {"off", "idle"} =>
      /\ d.state = "Off"
      /\ s[i].time > convert_time(d.ts)
      /\ s[i].time <= convert_time(t)

\* What every outcome of a record at t promises about track k.
GoodOutcome(k, t, o) ==
  /\ Sound(o.data, t) /\ o.data.state # "Unknown"
  /\ o.data.ts >= Reference
  /\ o.consumed \in Nat /\ o.count \in Nat
  /\ data[k].state = "Unknown" =>
       /\ o.data.ts = t
       /\ o.data.on = 0 /\ o.data.off = 0 /\ o.consumed = 0 /\ o.count = 0
  /\ data[k].state # "Unknown" =>
       o.consumed + o.data.on + o.count * Interval + o.data.off
         = data[k].on + data[k].off + (o.data.ts - data[k].ts)
  /\ o.data.ts >= data[k].ts
  /\ Ordered(lastTime[k], convert_time(o.data.ts), o.samples)
  /\ Inside(data[k], t, o.samples)

\* convert_time keeps the order of timestamps, and is strict from the
\* reference on.
LEMMA ConvertTime ==
  ASSUME NEW a \in Int, NEW b \in Int, a <= b
  PROVE  /\ convert_time(a) \in Nat /\ convert_time(b) \in Nat
         /\ convert_time(a) <= convert_time(b)
         /\ a >= Reference /\ a < b => convert_time(a) < convert_time(b)
BY ThreadSamplingAssumption DEF convert_time

\* The sample of the record itself may follow whatever precedes it.
LEMMA AppendOrdered ==
  ASSUME NEW lo \in Nat, NEW t \in Nat, NEW s, NEW x \in Samples,
         lo <= convert_time(t), Ordered(lo, convert_time(t), s),
         x.time = convert_time(t)
  PROVE  Ordered(lo, convert_time(t), Append(s, x))
<1> DEFINE u == Append(s, x)  hi == convert_time(t)
<1>1. s \in Seq(Samples) /\ u \in Seq(Samples) /\ Len(u) = Len(s) + 1
      /\ Len(s) \in Nat
  BY DEF Ordered
<1>2. \A i \in 1 .. Len(s) : u[i] = s[i] /\ s[i].time <= hi /\ s[i].time \in Nat
  <2> TAKE i \in 1 .. Len(s)
  <2>1. u[i] = s[i] /\ s[i] \in Samples
    BY <1>1
  <2>2. s[i].time \in Nat
    BY <2>1 DEF Samples
  <2> QED
    BY <2>1, <2>2 DEF Ordered
<1>3. u[Len(s) + 1] = x
  BY <1>1
<1>4. hi \in Nat
  BY ThreadSamplingAssumption DEF convert_time
<1> HIDE DEF u, hi
<1>5. ASSUME NEW i \in 1 .. Len(u)
      PROVE  u[i].time >= (IF i = 1 THEN lo ELSE u[i - 1].time) /\ u[i].time <= hi
  <2>1. CASE i = Len(s) + 1
    BY <2>1, <1>1, <1>2, <1>3, <1>4 DEF hi
  <2>2. CASE i # Len(s) + 1
    <3>1. i \in 1 .. Len(s) /\ (i # 1 => i - 1 \in 1 .. Len(s))
      BY <2>2, <1>1
    <3> QED
      BY <3>1, <1>2 DEF Ordered, hi
  <2> QED
    BY <2>1, <2>2
<1> QED
  BY <1>1, <1>5 DEF Ordered, u, hi

\* One or two simulated samples, for a group that lies inside the sleep of d.
LEMMA GroupGood ==
  ASSUME NEW d, NEW t \in Nat, NEW lo \in Nat, NEW g \in OffCpuSampleGroup,
         NEW delta \in Nat, NEW s \in Nat \cup {None},
         NEW kind \in {"off", "idle"},
         d.state = "Off", d.ts \in Nat, d.ts >= Reference,
         lo <= convert_time(d.ts),
         d.ts < g.begin, g.begin <= g.end, g.end <= t
  PROVE  LET a == Sample(kind, g.begin, s, delta)
             b == Sample(kind, g.end, s, 0)
         IN  /\ Ordered(lo, convert_time(t), <<a>>) /\ Inside(d, t, <<a>>)
             /\ Ordered(lo, convert_time(t), <<a, b>>) /\ Inside(d, t, <<a, b>>)
<1> DEFINE a == Sample(kind, g.begin, s, delta)
           b == Sample(kind, g.end, s, 0)
<1>1. g.begin \in Int /\ g.end \in Int
  BY DEF OffCpuSampleGroup
<1>2. /\ convert_time(d.ts) < convert_time(g.begin)
      /\ convert_time(g.begin) <= convert_time(g.end)
      /\ convert_time(g.end) <= convert_time(t)
      /\ convert_time(d.ts) \in Nat /\ convert_time(g.begin) \in Nat
      /\ convert_time(g.end) \in Nat /\ convert_time(t) \in Nat
  <2>1. /\ convert_time(d.ts) < convert_time(g.begin)
        /\ convert_time(d.ts) \in Nat /\ convert_time(g.begin) \in Nat
    BY <1>1, ConvertTime
  <2>2. /\ convert_time(g.begin) <= convert_time(g.end)
        /\ convert_time(g.end) \in Nat
    BY <1>1, ConvertTime
  <2>3. /\ convert_time(g.end) <= convert_time(t)
        /\ convert_time(t) \in Nat
    BY <1>1, ConvertTime
  <2> QED
    BY <2>1, <2>2, <2>3
<1>3. /\ a \in Samples /\ a.time = convert_time(g.begin) /\ a.kind = kind
      /\ b \in Samples /\ b.time = convert_time(g.end) /\ b.kind = kind
  BY <1>2 DEF Sample, Samples
<1> HIDE DEF a, b
<1>4. <<a>> \in Seq(Samples) /\ <<a, b>> \in Seq(Samples)
  BY <1>3
<1>5. Ordered(lo, convert_time(t), <<a>>) /\ Inside(d, t, <<a>>)
  BY <1>2, <1>3, <1>4 DEF Ordered, Inside
<1>6. Ordered(lo, convert_time(t), <<a, b>>)
  BY <1>2, <1>3, <1>4 DEF Ordered
<1>7. Inside(d, t, <<a, b>>)
  BY <1>2, <1>3 DEF Inside
<1> QED
  BY <1>5, <1>6, <1>7 DEF a, b

\* What the invariant says of the track that a record at t concerns.
LEMMA TrackFacts ==
  ASSUME IInv, NEW k \in Tracks, NEW t \in Nat, now <= t
  PROVE  /\ Sound(data[k], t)
         /\ data[k].on \in Nat /\ data[k].off \in Nat /\ data[k].ts \in Nat
         /\ lastTime[k] \in Nat
         /\ lastTime[k] <= convert_time(t)
         /\ t >= Reference
<1>1. /\ TrackOK(k) /\ now >= Reference /\ now \in Nat
      /\ lastTime[k] \in Nat /\ data[k] \in ThreadContextSwitchData
  BY DEF IInv, TypeOK
<1>2. /\ data[k].on \in Nat /\ data[k].off \in Nat /\ data[k].ts \in Nat
      /\ data[k].ts <= now /\ data[k].off < Interval
  BY <1>1 DEF TrackOK, Sound, ThreadContextSwitchData
<1>3. Sound(data[k], t)
  BY <1>1, <1>2 DEF Sound
<1>4. convert_time(data[k].ts) <= convert_time(t) /\ convert_time(t) \in Nat
      /\ convert_time(data[k].ts) \in Nat
  BY <1>1, <1>2, ConvertTime
<1>5. lastTime[k] <= convert_time(t)
  BY <1>1, <1>4 DEF TrackOK
<1>6. t >= Reference
  BY <1>1, ThreadSamplingAssumption
<1> QED
  BY <1>1, <1>2, <1>3, <1>5, <1>6

\* The empty sequence of samples is fine at any time.
LEMMA NoSamples ==
  ASSUME NEW lo, NEW hi, NEW d, NEW t
  PROVE  Ordered(lo, hi, <<>>) /\ Inside(d, t, <<>>)
BY DEF Ordered, Inside

\* consume_cpu_delta only clears the running time.
LEMMA Consume ==
  ASSUME NEW d \in ThreadContextSwitchData
  PROVE  LET e == consume_cpu_delta(d)
         IN  /\ e \in ThreadContextSwitchData /\ e.on = 0
             /\ e.off = d.off /\ e.ts = d.ts /\ e.state = d.state
BY DEF consume_cpu_delta, ThreadContextSwitchData

\* A track that is seen running at t: r is what the handler returned, d the
\* data after some or none of its running time was consumed.
LEMMA RunningOutcome ==
  ASSUME IInv, NEW k \in Tracks, NEW t \in Nat, now <= t,
         NEW r, r = ObservedRunning(t, data[k]),
         NEW d, d = r.data \/ d = consume_cpu_delta(r.data),
         NEW s, Ordered(lastTime[k], convert_time(t), s), Inside(data[k], t, s)
  PROVE  GoodOutcome(k, t, Outcome(r, d, s))
<1> DEFINE o == Outcome(r, d, s)
<1>1. /\ Sound(data[k], t)
      /\ data[k].on \in Nat /\ data[k].off \in Nat /\ data[k].ts \in Nat
      /\ lastTime[k] \in Nat /\ t >= Reference
  BY TrackFacts
<1>2. /\ Sound(r.data, t) /\ r.data.state = "On" /\ r.data.ts = t
      /\ r.group \in OffCpuSampleGroup
      /\ data[k].state # "Unknown" =>
           r.data.on + r.data.off + r.group.count * Interval
             = data[k].on + data[k].off + (t - data[k].ts)
      /\ data[k].state = "Unknown" =>
           r.data.on = data[k].on /\ r.data.off = data[k].off /\ r.group.count = 0
  BY <1>1, Running
<1>3. /\ r.data \in ThreadContextSwitchData /\ r.data.off < Interval
      /\ r.data.on \in Nat /\ r.data.off \in Nat /\ r.group.count \in Nat
  BY <1>2 DEF Sound, ThreadContextSwitchData, OffCpuSampleGroup
<1>4. /\ d \in ThreadContextSwitchData /\ d.off = r.data.off /\ d.ts = t
      /\ d.state = "On" /\ (d.on = 0 \/ d.on = r.data.on) /\ d.on \in Nat
  BY <1>2, <1>3, Consume
<1>5. o.data = d /\ o.consumed = r.data.on - d.on /\ o.count = r.group.count
      /\ o.samples = s
  BY DEF Outcome
<1> HIDE DEF o
<1>6. data[k].state = "Unknown" =>
        data[k].on = 0 /\ data[k].off = 0
  BY DEF IInv, TrackOK
<1>7. Sound(o.data, t) /\ o.data.state # "Unknown" /\ o.data.ts = t
  BY <1>3, <1>4, <1>5 DEF Sound
<1>8. o.consumed \in Nat /\ o.count \in Nat
  BY <1>3, <1>4, <1>5
<1>9. data[k].state # "Unknown" =>
        o.consumed + o.data.on + o.count * Interval + o.data.off
          = data[k].on + data[k].off + (o.data.ts - data[k].ts)
  <2>1. r.group.count * Interval \in Int
    BY <1>3, IntervalAssumption
  <2> QED
    BY <2>1, <1>1, <1>2, <1>3, <1>4, <1>5
<1>10. data[k].state = "Unknown" =>
         o.data.on = 0 /\ o.data.off = 0 /\ o.consumed = 0 /\ o.count = 0
  BY <1>2, <1>3, <1>4, <1>5, <1>6
<1>11. o.data.ts >= data[k].ts
  BY <1>1, <1>7 DEF Sound
<1> QED
  BY <1>1, <1>5, <1>7, <1>8, <1>9, <1>10, <1>11 DEF GoodOutcome, o

\* The off-CPU samples of a thread that is seen running at t.
LEMMA ThreadGroup ==
  ASSUME IInv, NEW th \in Threads, NEW t \in Nat, now <= t,
         NEW r, r = ObservedRunning(t, data[th])
  PROVE  LET s == GroupSamples(r, th)
         IN  Ordered(lastTime[th], convert_time(t), s) /\ Inside(data[th], t, s)
<1>0. th \in Tracks
  BY DEF Tracks
<1>1. /\ Sound(data[th], t) /\ data[th].ts \in Nat /\ lastTime[th] \in Nat
  BY <1>0, TrackFacts
<1>2. CASE AddsGroup(r, th)
  <2> DEFINE g == r.group
  <2>0. g.count > 0
    BY <1>2 DEF AddsGroup
  <2>1. /\ g \in OffCpuSampleGroup /\ Sound(r.data, t)
        /\ data[th].state = "Off"
        /\ data[th].ts < g.begin /\ g.begin <= g.end /\ g.end <= t
    BY <1>1, <2>0, Running
  <2>2. r.data.on \in Nat
    BY <2>1 DEF Sound, ThreadContextSwitchData
  <2>3. data[th].ts >= Reference /\ lastTime[th] <= convert_time(data[th].ts)
    BY <1>0, <2>1 DEF IInv, TrackOK
  <2>4. stack[th] \in Nat \cup {None}
    BY DEF IInv, TypeOK
  <2> DEFINE a == Sample("off", g.begin, stack[th], r.data.on)
             b == Sample("off", g.end, stack[th], 0)
  <2>5. GroupSamples(r, th) = <<a>> \/ GroupSamples(r, th) = <<a, b>>
    BY <1>2 DEF GroupSamples, process_off_cpu_sample_group
  <2>6. /\ Ordered(lastTime[th], convert_time(t), <<a>>) /\ Inside(data[th], t, <<a>>)
        /\ Ordered(lastTime[th], convert_time(t), <<a, b>>)
        /\ Inside(data[th], t, <<a, b>>)
    <3> HIDE DEF g
    <3>1. "off" \in {"off", "idle"}
      OBVIOUS
    <3> QED
      BY <1>1, <2>1, <2>2, <2>3, <2>4, <3>1, GroupGood
  <2> HIDE DEF a, b
  <2> QED
    BY <2>5, <2>6
<1>3. CASE ~AddsGroup(r, th)
  <2>1. GroupSamples(r, th) = <<>>
    BY <1>3 DEF GroupSamples
  <2> QED
    BY <2>1, NoSamples
<1> QED
  BY <1>2, <1>3

\* A sample at the time of the record follows the others and is not one of
\* the simulated ones.
LEMMA OnSample ==
  ASSUME IInv, NEW k \in Tracks, NEW t \in Nat, now <= t, NEW delta \in Nat,
         NEW s, Ordered(lastTime[k], convert_time(t), s), Inside(data[k], t, s)
  PROVE  LET u == Append(s, Sample("on", t, t, delta))
         IN  Ordered(lastTime[k], convert_time(t), u) /\ Inside(data[k], t, u)
<1> DEFINE x == Sample("on", t, t, delta)
           u == Append(s, x)
<1>1. convert_time(t) \in Nat
  BY ConvertTime
<1>2. x \in Samples /\ x.time = convert_time(t) /\ x.kind = "on"
  BY <1>1 DEF Sample, Samples
<1>3. lastTime[k] \in Nat /\ lastTime[k] <= convert_time(t)
  BY TrackFacts
<1> HIDE DEF x
<1>4. Ordered(lastTime[k], convert_time(t), u)
  BY <1>2, <1>3, AppendOrdered
<1>5. s \in Seq(Samples)
  BY DEF Ordered
<1>6. /\ Len(u) = Len(s) + 1 /\ Len(s) \in Nat /\ u[Len(s) + 1] = x
      /\ \A i \in 1 .. Len(s) : u[i] = s[i]
  BY <1>2, <1>5
<1> HIDE DEF u
<1>7. Inside(data[k], t, u)
  <2> SUFFICES ASSUME NEW i \in 1 .. Len(u), u[i].kind \in {"off", "idle"}
               PROVE  /\ data[k].state = "Off"
                      /\ u[i].time > convert_time(data[k].ts)
                      /\ u[i].time <= convert_time(t)
    BY DEF Inside
  <2>1. i \in 1 .. Len(s)
    BY <1>2, <1>6
  <2> QED
    BY <2>1, <1>6 DEF Inside
<1> QED
  BY <1>4, <1>7 DEF u, x

\* A sample on a track that is seen running at t.
LEMMA OnCpuOutcome ==
  ASSUME IInv, NEW k \in Tracks, NEW t \in Nat, now <= t,
         NEW r, r = ObservedRunning(t, data[k]),
         NEW d, d = r.data \/ d = consume_cpu_delta(r.data),
         NEW s, Ordered(lastTime[k], convert_time(t), s), Inside(data[k], t, s),
         NEW delta0 \in Nat
  PROVE  GoodOutcome(k, t, OnCpu(r, d, s, t, delta0))
<1>1. Sound(data[k], t)
  BY TrackFacts
<1>2. r.data \in ThreadContextSwitchData
  BY <1>1, Running DEF Sound
<1>3. d \in ThreadContextSwitchData /\ consume_cpu_delta(d) = consume_cpu_delta(r.data)
  BY <1>2, Consume DEF consume_cpu_delta, ThreadContextSwitchData
<1>4. d.on \in Nat
  BY <1>3 DEF ThreadContextSwitchData
<1>5. CASE off_cpu_indicator # "None"
  <2>1. OnCpu(r, d, s, t, delta0) =
          Outcome(r, consume_cpu_delta(d), Append(s, Sample("on", t, t, d.on)))
    BY <1>5 DEF OnCpu
  <2> QED
    BY <2>1, <1>3, <1>4, OnSample, RunningOutcome
<1>6. CASE off_cpu_indicator = "None"
  <2>1. OnCpu(r, d, s, t, delta0) =
          Outcome(r, d, Append(s, Sample("on", t, t, delta0)))
    BY <1>6 DEF OnCpu
  <2> QED
    BY <2>1, OnSample, RunningOutcome
<1> QED
  BY <1>5, <1>6

\* The five outcomes keep their promises.
LEMMA ThreadOutcomes ==
  ASSUME IInv, NEW th \in Threads, NEW t \in Nat, now <= t
  PROVE  /\ GoodOutcome(th, t, MainSampleOnThread(th, t))
         /\ GoodOutcome(th, t, SwitchInOnThread(th, t))
<1> DEFINE r == ObservedRunning(t, data[th])
<1>0. th \in Tracks /\ Period \in Nat
  BY DEF Tracks, Period
<1>1. /\ Ordered(lastTime[th], convert_time(t), GroupSamples(r, th))
      /\ Inside(data[th], t, GroupSamples(r, th))
  BY ThreadGroup
<1>2. AfterGroup(r, th) = r.data \/ AfterGroup(r, th) = consume_cpu_delta(r.data)
  BY DEF AfterGroup
<1>3. /\ MainSampleOnThread(th, t) =
           OnCpu(r, AfterGroup(r, th), GroupSamples(r, th), t, Period)
      /\ SwitchInOnThread(th, t) =
           Outcome(r, AfterGroup(r, th), GroupSamples(r, th))
  BY DEF MainSampleOnThread, SwitchInOnThread, handle_on_cpu_sample, handle_switch_in
<1> HIDE DEF r
<1>4. r = ObservedRunning(t, data[th])
  BY DEF r
<1> QED
  BY <1>0, <1>1, <1>2, <1>3, <1>4, OnCpuOutcome, RunningOutcome

LEMMA CpuOutcomes ==
  ASSUME IInv, NEW c \in Cpus, NEW t \in Nat, now <= t
  PROVE  /\ GoodOutcome(c, t, MainSampleOnCpu(c, t))
         /\ GoodOutcome(c, t, SwitchInOnCpu(c, t))
<1> DEFINE r == ObservedRunning(t, data[c])
           idle == <<Sample("idle", r.group.begin, None, r.data.on),
                     Sample("idle", r.group.end, None, 0)>>
<1>0. c \in Tracks
  BY DEF Tracks
<1>1. Ordered(lastTime[c], convert_time(t), <<>>) /\ Inside(data[c], t, <<>>)
  BY NoSamples
<1>2. GoodOutcome(c, t, MainSampleOnCpu(c, t))
  <2>1. MainSampleOnCpu(c, t) = OnCpu(r, r.data, <<>>, t, 0)
    BY DEF MainSampleOnCpu, handle_on_cpu_sample
  <2> QED
    BY <2>1, <1>0, <1>1, OnCpuOutcome
<1>3. CASE r.group.count = 0
  <2>1. SwitchInOnCpu(c, t) = Outcome(r, r.data, <<>>)
    BY <1>3 DEF SwitchInOnCpu, handle_switch_in
  <2> QED
    BY <2>1, <1>0, <1>1, <1>2, RunningOutcome
<1>4. CASE r.group.count # 0
  <2>1. SwitchInOnCpu(c, t) = Outcome(r, consume_cpu_delta(r.data), idle)
    BY <1>4 DEF SwitchInOnCpu, handle_switch_in
  <2>2. /\ Sound(data[c], t) /\ data[c].ts \in Nat /\ lastTime[c] \in Nat
    BY <1>0, TrackFacts
  <2>3. r.group \in OffCpuSampleGroup /\ r.data \in ThreadContextSwitchData
    BY <2>2, Running DEF Sound
  <2>4. r.group.count > 0 /\ r.data.on \in Nat
    BY <1>4, <2>3 DEF OffCpuSampleGroup, ThreadContextSwitchData
  <2>5. /\ data[c].state = "Off"
        /\ data[c].ts < r.group.begin /\ r.group.begin <= r.group.end
        /\ r.group.end <= t
    BY <2>2, <2>4, Running
  <2>6. data[c].ts >= Reference /\ lastTime[c] <= convert_time(data[c].ts)
    BY <1>0, <2>5 DEF IInv, TrackOK
  <2>7. None \in Nat \cup {None}
    OBVIOUS
  <2>8. Ordered(lastTime[c], convert_time(t), idle) /\ Inside(data[c], t, idle)
    BY <2>2, <2>3, <2>4, <2>5, <2>6, <2>7, GroupGood
  <2> QED
    BY <2>1, <2>8, <1>0, <1>2, RunningOutcome
<1> QED
  BY <1>2, <1>3, <1>4

LEMMA SwitchOutOutcome ==
  ASSUME IInv, NEW k \in Tracks, NEW t \in Nat, now <= t
  PROVE  GoodOutcome(k, t, SwitchOutOn(k, t))
<1> DEFINE e == handle_switch_out(t, data[k])
           o == SwitchOutOn(k, t)
<1>1. /\ Sound(data[k], t)
      /\ data[k].on \in Nat /\ data[k].off \in Nat /\ data[k].ts \in Nat
      /\ lastTime[k] \in Nat /\ t >= Reference
  BY TrackFacts
<1>2. /\ Sound(e, t) /\ e.state = "Off"
      /\ data[k].state # "Unknown" =>
           e.on + e.off = data[k].on + data[k].off + (e.ts - data[k].ts)
      /\ data[k].state = "Unknown" =>
           e.on = data[k].on /\ e.off = data[k].off /\ e.ts = t
  BY <1>1, SwitchedOut
<1>3. e.on \in Nat /\ e.off \in Nat /\ e.ts \in Nat
  BY <1>2 DEF Sound, ThreadContextSwitchData
<1>4. o.data = e /\ o.consumed = e.on - e.on /\ o.count = 0 /\ o.samples = <<>>
  BY DEF SwitchOutOn, Outcome, NoGroup
<1>5. e.ts >= data[k].ts
  BY <1>1 DEF handle_switch_out, Sound, ThreadContextSwitchData
<1>6. data[k].state = "Unknown" => data[k].on = 0 /\ data[k].off = 0
  BY DEF IInv, TrackOK
<1>7. data[k].state # "Unknown" => data[k].ts >= Reference
  BY DEF IInv, TrackOK
<1>8. e.ts >= Reference
  BY <1>1, <1>2, <1>3, <1>5, <1>7, ThreadSamplingAssumption
<1> HIDE DEF e, o
<1>9. o.consumed = 0 /\ o.count * Interval = 0
  BY <1>3, <1>4, IntervalAssumption
<1>10. data[k].state # "Unknown" =>
         o.consumed + o.data.on + o.count * Interval + o.data.off
           = data[k].on + data[k].off + (o.data.ts - data[k].ts)
  BY <1>1, <1>2, <1>3, <1>4, <1>9
<1> QED
  <2>1. /\ Ordered(lastTime[k], convert_time(o.data.ts), o.samples)
        /\ Inside(data[k], t, o.samples)
    BY <1>4, NoSamples
  <2>2. Sound(o.data, t) /\ o.data.state # "Unknown"
    BY <1>2, <1>4
  <2>3. data[k].state = "Unknown" =>
          o.data.ts = t /\ o.data.on = 0 /\ o.data.off = 0
    BY <1>2, <1>4, <1>6
  <2> QED
    BY <2>1, <2>2, <2>3, <1>4, <1>5, <1>8, <1>9, <1>10 DEF GoodOutcome, o

\* The effect of a record on the tracks, whatever its kind.
TracksStep ==
  /\ off_cpu_indicator' \in OffCpuIndicator
  /\ now' \in Nat /\ now <= now' /\ now' >= Reference
  /\ data' \in [Tracks -> ThreadContextSwitchData]
  /\ first' \in [Tracks -> Nat]
  /\ cpuTime' \in [Tracks -> Nat]
  /\ groups' \in [Tracks -> Nat]
  /\ emitted' \in [Tracks -> Seq(Samples)]
  /\ lastTime' \in [Tracks -> Nat]
  /\ \A k \in Tracks : TrackOK(k)'
  /\ \A k \in Tracks : \A i \in 1 .. Len(emitted'[k]) :
       emitted'[k][i].time >=
         IF i = 1 THEN lastTime[k] ELSE emitted'[k][i - 1].time
  /\ \A k \in Tracks : Inside(data[k], now', emitted'[k])

\* The sum of two accounts, as a fact about numbers.
LEMMA AddAccounts ==
  ASSUME NEW f \in Int, NEW a \in Int, NEW b \in Int,  \* first, old ts, new ts
         NEW cpu \in Int, NEW on \in Int, NEW off \in Int, NEW gi \in Int,
         NEW cons \in Int, NEW on2 \in Int, NEW off2 \in Int, NEW ci \in Int,
         a - f = cpu + on + gi + off,
         cons + on2 + ci + off2 = on + off + (b - a)
  PROVE  b - f = (cpu + cons) + on2 + (gi + ci) + off2
OBVIOUS

LEMMA ApplyStep ==
  ASSUME IInv, NEW t \in Nat, now <= t, NEW out, Apply(t, out),
         DOMAIN out \subseteq Tracks,
         \A k \in DOMAIN out : GoodOutcome(k, t, out[k])
  PROVE  TracksStep
<1>0. /\ now' = t /\ now \in Nat /\ now >= Reference /\ t >= Reference
      /\ off_cpu_indicator' \in OffCpuIndicator
      /\ data \in [Tracks -> ThreadContextSwitchData]
      /\ first \in [Tracks -> Nat] /\ cpuTime \in [Tracks -> Nat]
      /\ groups \in [Tracks -> Nat] /\ lastTime \in [Tracks -> Nat]
  BY ThreadSamplingAssumption DEF Apply, IInv, TypeOK
<1>1. ASSUME NEW k \in Tracks, k \in DOMAIN out
      PROVE  /\ data'[k] \in ThreadContextSwitchData
             /\ first'[k] \in Nat /\ cpuTime'[k] \in Nat /\ groups'[k] \in Nat
             /\ emitted'[k] \in Seq(Samples) /\ lastTime'[k] \in Nat
             /\ TrackOK(k)'
             /\ Ordered(lastTime[k], convert_time(data'[k].ts), emitted'[k])
             /\ Inside(data[k], now', emitted'[k])
  <2> DEFINE o == out[k]
  <2>1. GoodOutcome(k, t, o)
    BY <1>1
  <2>2. /\ data'[k] = o.data
        /\ first'[k] = IF data[k].state = "Unknown" THEN t ELSE first[k]
        /\ cpuTime'[k] = cpuTime[k] + o.consumed
        /\ groups'[k] = groups[k] + o.count
        /\ emitted'[k] = o.samples
        /\ lastTime'[k] = IF emitted'[k] = <<>> THEN lastTime[k]
                          ELSE emitted'[k][Len(emitted'[k])].time
    BY <1>1 DEF Apply
  <2> HIDE DEF o
  <2>3. /\ Sound(o.data, t) /\ o.data.state # "Unknown" /\ o.data.ts >= Reference
        /\ o.consumed \in Nat /\ o.count \in Nat
        /\ o.data.ts >= data[k].ts
        /\ Ordered(lastTime[k], convert_time(o.data.ts), o.samples)
        /\ Inside(data[k], t, o.samples)
    BY <2>1 DEF GoodOutcome
  <2>4. /\ o.data \in ThreadContextSwitchData
        /\ o.data.on \in Nat /\ o.data.off \in Nat /\ o.data.ts \in Nat
    BY <2>3 DEF Sound, ThreadContextSwitchData
  <2>5. /\ data[k] \in ThreadContextSwitchData
        /\ data[k].on \in Nat /\ data[k].off \in Nat /\ data[k].ts \in Nat
        /\ first[k] \in Nat /\ cpuTime[k] \in Nat /\ groups[k] \in Nat
        /\ lastTime[k] \in Nat
    BY <1>0 DEF ThreadContextSwitchData
  <2>6. first'[k] \in Nat /\ cpuTime'[k] \in Nat /\ groups'[k] \in Nat
    BY <2>2, <2>3, <2>5
  <2>7. o.samples \in Seq(Samples)
    BY <2>3 DEF Ordered
  <2>8. lastTime'[k] \in Nat /\ lastTime'[k] <= convert_time(o.data.ts)
    <3>1. CASE o.samples = <<>>
      <4>1. lastTime'[k] = lastTime[k]
        BY <3>1, <2>2
      <4>2. /\ data[k].state = "Unknown" => lastTime[k] = 0
            /\ data[k].state # "Unknown" => lastTime[k] <= convert_time(data[k].ts)
        BY DEF IInv, TrackOK
      <4>3. /\ convert_time(data[k].ts) <= convert_time(o.data.ts)
            /\ convert_time(data[k].ts) \in Nat /\ convert_time(o.data.ts) \in Nat
        BY <2>3, <2>4, <2>5, ConvertTime
      <4> QED
        BY <4>1, <4>2, <4>3, <2>5
    <3>2. CASE o.samples # <<>>
      <4>1. Len(o.samples) \in 1 .. Len(o.samples)
        BY <3>2, <2>7
      <4>2. o.samples[Len(o.samples)] \in Samples
        BY <4>1, <2>7
      <4>3. o.samples[Len(o.samples)].time \in Nat
        BY <4>2 DEF Samples
      <4>4. o.samples[Len(o.samples)].time <= convert_time(o.data.ts)
        BY <4>1, <2>3 DEF Ordered
      <4> QED
        BY <3>2, <4>3, <4>4, <2>2
    <3> QED
      BY <3>1, <3>2
  <2>9. o.data.ts - first'[k] = cpuTime'[k] + o.data.on
                               + groups'[k] * Interval + o.data.off
    <3>1. groups'[k] * Interval = groups[k] * Interval + o.count * Interval
          /\ groups[k] * Interval \in Int /\ o.count * Interval \in Int
      BY <2>2, <2>3, <2>5, IntervalAssumption
    <3>2. CASE data[k].state = "Unknown"
      <4>1. /\ o.data.ts = t /\ o.data.on = 0 /\ o.data.off = 0
            /\ o.consumed = 0 /\ o.count = 0
        BY <3>2, <2>1 DEF GoodOutcome
      <4>2. cpuTime[k] = 0 /\ groups[k] = 0
        BY <3>2 DEF IInv, TrackOK
      <4>3. groups'[k] * Interval = 0
        BY <4>1, <4>2, <2>2, IntervalAssumption
      <4>4. first'[k] = t /\ cpuTime'[k] = 0
        BY <4>1, <4>2, <3>2, <2>2
      <4>5. o.data.ts - first'[k] = 0
        BY <4>1, <4>4
      <4>6. cpuTime'[k] + o.data.on + groups'[k] * Interval + o.data.off = 0
        <5> DEFINE gi == groups'[k] * Interval
        <5>1. gi = 0
          BY <4>3
        <5> HIDE DEF gi
        <5>2. cpuTime'[k] + o.data.on + gi + o.data.off = 0
          BY <4>1, <4>4, <5>1
        <5> QED
          BY <5>2 DEF gi
      <4> QED
        BY <4>5, <4>6
    <3>3. CASE data[k].state # "Unknown"
      <4>1. o.consumed + o.data.on + o.count * Interval + o.data.off
              = data[k].on + data[k].off + (o.data.ts - data[k].ts)
        BY <3>3, <2>1 DEF GoodOutcome
      <4>2. data[k].ts - first[k] = cpuTime[k] + data[k].on
                                    + groups[k] * Interval + data[k].off
        BY <3>3 DEF IInv, TrackOK
      <4>3. first'[k] = first[k] /\ cpuTime'[k] = cpuTime[k] + o.consumed
        BY <3>3, <2>2
      <4> DEFINE gp == groups'[k] * Interval
                 gi == groups[k] * Interval
                 ci == o.count * Interval
      <4>4. /\ gp = gi + ci /\ gi \in Int /\ ci \in Int
            /\ o.consumed + o.data.on + ci + o.data.off
                 = data[k].on + data[k].off + (o.data.ts - data[k].ts)
            /\ data[k].ts - first[k] = cpuTime[k] + data[k].on + gi + data[k].off
        BY <3>1, <4>1, <4>2
      <4> HIDE DEF gp, gi, ci
      <4>5. /\ first[k] \in Int /\ data[k].ts \in Int /\ o.data.ts \in Int
            /\ cpuTime[k] \in Int /\ data[k].on \in Int /\ data[k].off \in Int
            /\ o.consumed \in Int /\ o.data.on \in Int /\ o.data.off \in Int
        BY <2>3, <2>4, <2>5
      <4>6. o.data.ts - first[k]
              = (cpuTime[k] + o.consumed) + o.data.on + (gi + ci) + o.data.off
        BY ONLY <4>4, <4>5, AddAccounts
      <4>7. o.data.ts - first'[k] = cpuTime'[k] + o.data.on + gp + o.data.off
        BY <4>3, <4>4, <4>6, Zenon
      <4> QED
        BY <4>7 DEF gp
    <3> QED
      BY <3>2, <3>3
  <2>10. TrackOK(k)'
    BY <2>2, <2>3, <2>8, <2>9, <1>0 DEF TrackOK, Sound, convert_time
  <2> QED
    BY <2>2, <2>3, <2>4, <2>6, <2>7, <2>8, <2>10, <1>0
<1>2. ASSUME NEW k \in Tracks, k \notin DOMAIN out
      PROVE  /\ data'[k] = data[k] /\ first'[k] = first[k]
             /\ cpuTime'[k] = cpuTime[k] /\ groups'[k] = groups[k]
             /\ emitted'[k] = <<>> /\ lastTime'[k] = lastTime[k]
             /\ TrackOK(k)'
  <2>1. /\ data'[k] = data[k] /\ first'[k] = first[k]
        /\ cpuTime'[k] = cpuTime[k] /\ groups'[k] = groups[k]
        /\ emitted'[k] = <<>> /\ lastTime'[k] = lastTime[k]
    BY <1>2 DEF Apply
  <2>2. TrackOK(k) /\ data[k].ts \in Nat
    BY <1>0 DEF IInv, ThreadContextSwitchData
  <2>3. data[k].ts <= now'
    BY <2>2, <1>0 DEF TrackOK, Sound
  <2>4. TrackOK(k)'
    BY <2>1, <2>2, <2>3 DEF TrackOK, Sound, convert_time
  <2> QED
    BY <2>1, <2>4
<1>3. \A k \in Tracks :
        /\ data'[k] \in ThreadContextSwitchData
        /\ first'[k] \in Nat /\ cpuTime'[k] \in Nat /\ groups'[k] \in Nat
        /\ emitted'[k] \in Seq(Samples) /\ lastTime'[k] \in Nat
        /\ TrackOK(k)'
        /\ \A i \in 1 .. Len(emitted'[k]) :
             emitted'[k][i].time >=
               IF i = 1 THEN lastTime[k] ELSE emitted'[k][i - 1].time
        /\ Inside(data[k], now', emitted'[k])
  <2> TAKE k \in Tracks
  <2>1. CASE k \in DOMAIN out
    <3>1. Ordered(lastTime[k], convert_time(data'[k].ts), emitted'[k])
      BY <2>1, <1>1
    <3>2. \A i \in 1 .. Len(emitted'[k]) :
            emitted'[k][i].time >=
              IF i = 1 THEN lastTime[k] ELSE emitted'[k][i - 1].time
      BY <3>1 DEF Ordered
    <3> QED
      BY <2>1, <3>2, <1>1
  <2>2. CASE k \notin DOMAIN out
    <3>1. emitted'[k] = <<>> /\ Inside(data[k], now', <<>>)
      BY <2>2, <1>2, NoSamples
    <3>2. <<>> \in Seq(Samples) /\ Len(<<>>) = 0
      OBVIOUS
    <3>3. \A i \in 1 .. Len(emitted'[k]) : FALSE
      BY <3>1, <3>2
    <3> QED
      BY <2>2, <3>1, <3>2, <3>3, <1>0, <1>2
  <2> QED
    BY <2>1, <2>2
<1>4. /\ data' = [k \in Tracks |-> data'[k]] /\ first' = [k \in Tracks |-> first'[k]]
      /\ cpuTime' = [k \in Tracks |-> cpuTime'[k]]
      /\ groups' = [k \in Tracks |-> groups'[k]]
      /\ emitted' = [k \in Tracks |-> emitted'[k]]
      /\ lastTime' = [k \in Tracks |-> lastTime'[k]]
  BY DEF Apply
<1> QED
  BY <1>0, <1>3, <1>4 DEF TracksStep

\* Thread and CPU facts about times stay true as time passes.
LEMMA CloseMarkerOK ==
  ASSUME IInv, NEW c, NEW t \in Nat, now <= t, now' = t, CloseMarker(c, t),
         \/ current' = [k \in Cpus |-> IF k = c THEN {} ELSE current[k]]
         \/ \E th \in Threads :
              current' = [k \in Cpus |-> IF k = c THEN {[tid |-> th, ts |-> t]}
                                                  ELSE current[k]]
  PROVE  /\ marker' \in [Cpus -> [start : Nat, end : Nat]]
         /\ current' \in [Cpus -> SUBSET [tid : Threads, ts : Nat]]
         /\ \A k \in Cpus : CpuOK(k)'
         /\ \A k \in Cpus : marker'[k] # marker[k] =>
              marker[k].end <= marker'[k].start /\ marker'[k].start <= marker'[k].end
<1>0. /\ marker \in [Cpus -> [start : Nat, end : Nat]] /\ now \in Nat
      /\ current \in [Cpus -> SUBSET [tid : Threads, ts : Nat]]
  BY DEF IInv, TypeOK
<1>1. /\ convert_time(now) <= convert_time(t) /\ convert_time(t) \in Nat
      /\ convert_time(now) \in Nat
  BY <1>0, ConvertTime
<1>2. ASSUME NEW k \in Cpus
      PROVE  /\ marker'[k] \in [start : Nat, end : Nat]
             /\ marker'[k].start <= marker'[k].end
             /\ marker'[k].end <= convert_time(t)
             /\ (k # c \/ current[k] = {}) => marker'[k] = marker[k]
             /\ marker'[k] # marker[k] => marker[k].end <= marker'[k].start
  <2>1. /\ marker[k] \in [start : Nat, end : Nat] /\ CpuOK(k)
        /\ current[k] \subseteq [tid : Threads, ts : Nat]
    BY <1>0 DEF IInv
  <2>2. /\ marker[k].start \in Nat /\ marker[k].end \in Nat
        /\ marker[k].start <= marker[k].end /\ marker[k].end <= convert_time(now)
    BY <2>1 DEF CpuOK
  <2>3. CASE k = c /\ current[k] # {}
    <3> DEFINE x == CHOOSE x \in current[k] : TRUE
    <3>1. x \in current[k]
      BY <2>3
    <3>2. marker'[k] = [start |-> convert_time(x.ts), end |-> convert_time(t)]
      BY <2>3 DEF CloseMarker
    <3> HIDE DEF x
    <3>3. x.ts \in Nat /\ x.ts <= now /\ marker[k].end <= convert_time(x.ts)
      BY <3>1, <2>1 DEF CpuOK
    <3>4. convert_time(x.ts) <= convert_time(t) /\ convert_time(x.ts) \in Nat
      <4>1. x.ts <= t
        BY <3>3, <1>0
      <4> QED
        BY <4>1, <3>3, ConvertTime
    <3>5. marker'[k].start = convert_time(x.ts) /\ marker'[k].end = convert_time(t)
      BY <3>2
    <3> QED
      BY <3>2, <3>3, <3>4, <3>5, <2>3, <1>1
  <2>4. CASE k # c \/ current[k] = {}
    <3>1. marker'[k] = marker[k]
      BY <2>4 DEF CloseMarker
    <3>2. marker[k].end <= convert_time(t)
      BY <2>2, <1>1
    <3> QED
      BY <3>1, <3>2, <2>1, <2>2
  <2> QED
    BY <2>3, <2>4
<1>3. ASSUME NEW k \in Cpus
      PROVE  /\ current'[k] \in SUBSET [tid : Threads, ts : Nat]
             /\ \A x \in current'[k] :
                  marker'[k].end <= convert_time(x.ts) /\ x.ts <= t
  <2>1. CASE k = c
    <3>1. \A x \in current'[k] : x \in [tid : Threads, ts : Nat] /\ x.ts = t
      BY <2>1
    <3> QED
      BY <3>1, <1>2
  <2>2. CASE k # c
    <3>1. current'[k] = current[k] /\ marker'[k] = marker[k]
      BY <2>2, <1>2
    <3>2. \A x \in current[k] : x.ts \in Nat /\ x.ts <= now
                               /\ marker[k].end <= convert_time(x.ts)
      BY <1>0 DEF IInv, CpuOK
    <3>3. \A x \in current[k] : x.ts <= t
      BY <3>2, <1>0
    <3> QED
      BY <3>1, <3>2, <3>3, <1>0
  <2> QED
    BY <2>1, <2>2
<1>4. \A k \in Cpus : CpuOK(k)'
  BY <1>2, <1>3 DEF CpuOK, convert_time
<1>5. marker' = [k \in Cpus |-> marker'[k]] /\ current' = [k \in Cpus |-> current'[k]]
  BY DEF CloseMarker
<1> QED
  BY <1>2, <1>3, <1>4, <1>5

LEMMA CpuKept ==
  ASSUME IInv, now' \in Nat, now <= now', UNCHANGED <<current, marker>>
  PROVE  \A k \in Cpus : CpuOK(k)'
<1> SUFFICES ASSUME NEW k \in Cpus PROVE CpuOK(k)'
  OBVIOUS
<1>0. /\ now \in Nat /\ CpuOK(k) /\ marker[k] \in [start : Nat, end : Nat]
      /\ current[k] \subseteq [tid : Threads, ts : Nat]
  BY DEF IInv, TypeOK
<1>1. /\ convert_time(now) <= convert_time(now') /\ convert_time(now') \in Nat
      /\ convert_time(now) \in Nat
  BY <1>0, ConvertTime
<1>2. marker[k].end \in Nat /\ marker[k].end <= convert_time(now)
      /\ marker[k].start <= marker[k].end
  BY <1>0 DEF CpuOK
<1>3. marker[k].end <= convert_time(now')
  BY <1>1, <1>2
<1>4. \A x \in current[k] : x.ts \in Nat /\ x.ts <= now
                           /\ marker[k].end <= convert_time(x.ts)
  BY <1>0 DEF CpuOK
<1>5. \A x \in current[k] : x.ts <= now'
  BY <1>0, <1>4
<1> QED
  BY <1>2, <1>3, <1>4, <1>5 DEF CpuOK, convert_time

\* A record that leaves lastWake alone, and the stack alone or fresh.
LEMMA ThreadKept ==
  ASSUME IInv, NEW t \in Nat, now <= t, now' = t,
         NEW th \in Threads,
         \/ lastWake' = lastWake /\ stack' = stack
         \/ lastWake' = lastWake /\ stack' = [stack EXCEPT ![th] = t]
         \/ /\ lastWake' = [lastWake EXCEPT ![th] = t]
            /\ stack' = [stack EXCEPT ![th] = None]
  PROVE  /\ \A k \in Threads : ThreadOK(k)'
         /\ lastWake' \in [Threads -> Nat]
         /\ stack' \in [Threads -> Nat \cup {None}]
<1>0. /\ now \in Nat /\ lastWake \in [Threads -> Nat]
      /\ stack \in [Threads -> Nat \cup {None}]
      /\ \A k \in Threads : ThreadOK(k)
  BY DEF IInv, TypeOK
<1>1. /\ lastWake' \in [Threads -> Nat]
      /\ stack' \in [Threads -> Nat \cup {None}]
  BY <1>0
<1>2. ASSUME NEW k \in Threads PROVE ThreadOK(k)'
  <2>1. lastWake[k] \in Nat /\ lastWake[k] <= t
    BY <1>0 DEF ThreadOK
  <2>2. CASE k # th \/ (lastWake' = lastWake /\ stack' = stack)
    <3>1. lastWake'[k] = lastWake[k] /\ stack'[k] = stack[k]
      BY <2>2, <1>0
    <3> QED
      BY <3>1, <2>1, <1>0 DEF ThreadOK, None
  <2>3. CASE lastWake' = lastWake /\ stack' = [stack EXCEPT ![th] = t] /\ k = th
    <3>1. lastWake'[k] = lastWake[k] /\ stack'[k] = t
      BY <2>3, <1>0
    <3> QED
      BY <3>1, <2>1 DEF ThreadOK, None
  <2>4. CASE /\ lastWake' = [lastWake EXCEPT ![th] = t]
             /\ stack' = [stack EXCEPT ![th] = None] /\ k = th
    <3>1. lastWake'[k] = t /\ stack'[k] = None
      BY <2>4, <1>0
    <3> QED
      BY <3>1 DEF ThreadOK, None
  <2> QED
    BY <2>2, <2>3, <2>4
<1> QED
  BY <1>1, <1>2

MarkersStep ==
  \A k \in Cpus : marker'[k] # marker[k] =>
    marker[k].end <= marker'[k].start /\ marker'[k].start <= marker'[k].end

\* The tracks a record concerns are tracks.
LEMMA ConcernedTracks ==
  ASSUME NEW th \in Threads, NEW c
  PROVE  /\ Concerned(th, c) \subseteq Tracks
         /\ \A k \in Concerned(th, c) : k # th => k = c /\ c \in Cpus
BY DEF Concerned, Tracks

\* Every record preserves the invariant, keeps the samples of each track in
\* order and inside the sleep they stand for, and keeps markers apart.
LEMMA Step ==
  ASSUME IInv, Next
  PROVE  IInv' /\ TracksStep /\ MarkersStep
<1>0. now \in Nat
  BY DEF IInv, TypeOK
<1>1. PICK th \in Threads, t \in now .. MaxTime :
        \/ ignore_duplicate_sample(th, t)
        \/ handle_sched_switch_sample(th, t)
        \/ \E c \in RecordCpus :
             \/ handle_main_event_sample(th, c, t)
             \/ handle_context_switch_in(th, c, t)
             \/ handle_context_switch_out(th, c, t)
  BY DEF Next
<1>2. t \in Nat /\ now <= t /\ th \in Tracks
  BY <1>0, ThreadSamplingAssumption DEF Tracks
<1>3. ASSUME TracksStep, now' = t,
             \A k \in Threads : ThreadOK(k)', \A k \in Cpus : CpuOK(k)',
             lastWake' \in [Threads -> Nat],
             stack' \in [Threads -> Nat \cup {None}],
             lastMain' \in [Threads -> Nat \cup {None}],
             marker' \in [Cpus -> [start : Nat, end : Nat]],
             current' \in [Cpus -> SUBSET [tid : Threads, ts : Nat]]
      PROVE  IInv'
  BY <1>3 DEF IInv, TracksStep, TypeOK
<1>4. /\ lastMain \in [Threads -> Nat \cup {None}]
      /\ marker \in [Cpus -> [start : Nat, end : Nat]]
      /\ current \in [Cpus -> SUBSET [tid : Threads, ts : Nat]]
  BY DEF IInv, TypeOK
<1>5. CASE ignore_duplicate_sample(th, t)
  <2>1. Apply(t, <<>>) /\ UNCHANGED <<lastMain, stack, lastWake, current, marker>>
    BY <1>5 DEF ignore_duplicate_sample
  <2>2. DOMAIN <<>> = {}
    OBVIOUS
  <2>3. TracksStep
    BY <2>1, <2>2, <1>2, ApplyStep
  <2>4. now' = t
    BY <2>1 DEF Apply
  <2>5. MarkersStep
    BY <2>1 DEF MarkersStep
  <2> QED
    BY <2>1, <2>3, <2>4, <2>5, <1>2, <1>3, <1>4, ThreadKept, CpuKept
<1>6. CASE handle_sched_switch_sample(th, t)
  <2> DEFINE out == IF off_cpu_indicator = "SchedSwitchAndSamples"
                    THEN [k \in {th} |-> SwitchOutOn(th, t)] ELSE <<>>
  <2>1. /\ Apply(t, out) /\ stack' = [stack EXCEPT ![th] = t]
        /\ UNCHANGED <<lastMain, lastWake, current, marker>>
    BY <1>6 DEF handle_sched_switch_sample
  <2>2. /\ DOMAIN out \subseteq Tracks
        /\ \A k \in DOMAIN out : GoodOutcome(k, t, out[k])
    <3>1. CASE off_cpu_indicator = "SchedSwitchAndSamples"
      <4>1. DOMAIN out = {th} /\ out[th] = SwitchOutOn(th, t)
        BY <3>1
      <4> HIDE DEF out
      <4> QED
        BY <4>1, <1>2, SwitchOutOutcome
    <3>2. CASE off_cpu_indicator # "SchedSwitchAndSamples"
      <4>1. DOMAIN out = {}
        BY <3>2
      <4> QED
        BY <4>1
    <3> QED
      BY <3>1, <3>2
  <2> HIDE DEF out
  <2>3. TracksStep
    BY <2>1, <2>2, <1>2, ApplyStep
  <2>4. now' = t
    BY <2>1 DEF Apply
  <2>5. MarkersStep
    BY <2>1 DEF MarkersStep
  <2> QED
    BY <2>1, <2>3, <2>4, <2>5, <1>2, <1>3, <1>4, ThreadKept, CpuKept
<1>7. ASSUME NEW c \in RecordCpus, handle_main_event_sample(th, c, t)
      PROVE  IInv' /\ TracksStep /\ MarkersStep
  <2> DEFINE out == [k \in Concerned(th, c) |->
                      IF k = th THEN MainSampleOnThread(th, t)
                                ELSE MainSampleOnCpu(c, t)]
  <2>1. /\ Apply(t, out) /\ stack' = [stack EXCEPT ![th] = None]
        /\ lastWake' = [lastWake EXCEPT ![th] = t]
        /\ lastMain' = [lastMain EXCEPT ![th] = t]
        /\ UNCHANGED <<current, marker>>
    BY <1>7 DEF handle_main_event_sample, TakeStack
  <2>2. /\ DOMAIN out \subseteq Tracks
        /\ \A k \in DOMAIN out : GoodOutcome(k, t, out[k])
    BY <1>2, ConcernedTracks, ThreadOutcomes, CpuOutcomes
  <2> HIDE DEF out
  <2>3. TracksStep
    BY <2>1, <2>2, <1>2, ApplyStep
  <2>4. now' = t /\ lastMain' \in [Threads -> Nat \cup {None}]
    BY <2>1, <1>2, <1>4 DEF Apply
  <2>5. MarkersStep
    BY <2>1 DEF MarkersStep
  <2> QED
    BY <2>1, <2>3, <2>4, <2>5, <1>2, <1>3, <1>4, ThreadKept, CpuKept
<1>8. ASSUME NEW c \in RecordCpus, handle_context_switch_in(th, c, t)
      PROVE  IInv' /\ TracksStep /\ MarkersStep
  <2> DEFINE out == [k \in Concerned(th, c) |->
                      IF k = th THEN SwitchInOnThread(th, t)
                                ELSE SwitchInOnCpu(c, t)]
  <2>1. /\ Apply(t, out) /\ stack' = [stack EXCEPT ![th] = None]
        /\ lastWake' = [lastWake EXCEPT ![th] = t]
        /\ lastMain' = lastMain /\ CloseMarker(c, t)
        /\ current' = [k \in Cpus |-> IF k = c THEN {[tid |-> th, ts |-> t]}
                                              ELSE current[k]]
    BY <1>8 DEF handle_context_switch_in, TakeStack,
                   notify_switch_in_for_marker
  <2>2. /\ DOMAIN out \subseteq Tracks
        /\ \A k \in DOMAIN out : GoodOutcome(k, t, out[k])
    BY <1>2, ConcernedTracks, ThreadOutcomes, CpuOutcomes
  <2> HIDE DEF out
  <2>3. TracksStep
    BY <2>1, <2>2, <1>2, ApplyStep
  <2>4. now' = t
    BY <2>1 DEF Apply
  <2>5. /\ marker' \in [Cpus -> [start : Nat, end : Nat]]
        /\ current' \in [Cpus -> SUBSET [tid : Threads, ts : Nat]]
        /\ \A k \in Cpus : CpuOK(k)'
        /\ MarkersStep
    BY <2>1, <2>4, <1>2, CloseMarkerOK DEF MarkersStep
  <2> QED
    BY <2>1, <2>3, <2>4, <2>5, <1>2, <1>3, <1>4, ThreadKept
<1>9. ASSUME NEW c \in RecordCpus, handle_context_switch_out(th, c, t)
      PROVE  IInv' /\ TracksStep /\ MarkersStep
  <2> DEFINE out == [k \in Concerned(th, c) |-> SwitchOutOn(k, t)]
  <2>1. /\ Apply(t, out) /\ UNCHANGED <<stack, lastMain, lastWake>>
        /\ CloseMarker(c, t)
        /\ current' = [k \in Cpus |-> IF k = c THEN {} ELSE current[k]]
    BY <1>9 DEF handle_context_switch_out,
                   notify_switch_out_for_marker
  <2>2. /\ DOMAIN out \subseteq Tracks
        /\ \A k \in DOMAIN out : GoodOutcome(k, t, out[k])
    BY <1>2, ConcernedTracks, SwitchOutOutcome
  <2> HIDE DEF out
  <2>3. TracksStep
    BY <2>1, <2>2, <1>2, ApplyStep
  <2>4. now' = t
    BY <2>1 DEF Apply
  <2>5. /\ marker' \in [Cpus -> [start : Nat, end : Nat]]
        /\ current' \in [Cpus -> SUBSET [tid : Threads, ts : Nat]]
        /\ \A k \in Cpus : CpuOK(k)'
        /\ MarkersStep
    BY <2>1, <2>4, <1>2, CloseMarkerOK DEF MarkersStep
  <2> QED
    BY <2>1, <2>3, <2>4, <2>5, <1>2, <1>3, <1>4, ThreadKept
<1> QED
  BY <1>1, <1>5, <1>6, <1>7, <1>8, <1>9

LEMMA InitIInv == Init => IInv
<1> SUFFICES ASSUME Init PROVE IInv
  OBVIOUS
<1>1. NewThreadData \in ThreadContextSwitchData /\ NewThreadData.state = "Unknown"
      /\ NewThreadData.on = 0 /\ NewThreadData.off = 0 /\ NewThreadData.ts = 0
  BY DEF NewThreadData, ThreadContextSwitchData
<1>2. TypeOK
  BY <1>1, ThreadSamplingAssumption DEF Init, TypeOK
<1>3. now = Reference /\ Reference \in Nat
  BY ThreadSamplingAssumption DEF Init
<1>4. ASSUME NEW k \in Tracks PROVE TrackOK(k)
  <2>1. data[k] = NewThreadData /\ cpuTime[k] = 0 /\ groups[k] = 0 /\ lastTime[k] = 0
    BY DEF Init
  <2> QED
    BY <2>1, <1>1, <1>3, IntervalAssumption DEF TrackOK, Sound
<1>5. ASSUME NEW th \in Threads PROVE ThreadOK(th)
  BY <1>3 DEF Init, ThreadOK
<1>6. ASSUME NEW c \in Cpus PROVE CpuOK(c)
  BY <1>3 DEF Init, CpuOK, convert_time
<1> QED
  BY <1>2, <1>3, <1>4, <1>5, <1>6 DEF IInv

\* A step that changes nothing.
LEMMA Stutter ==
  ASSUME IInv, UNCHANGED vars
  PROVE  IInv'
BY DEF IInv, vars, TypeOK, TrackOK, ThreadOK, CpuOK, Sound, convert_time

\* The inductive invariant holds in every reachable state; the theorems below
\* read the properties off it.
THEOREM Inductive == Spec => []IInv
<1>1. IInv /\ [Next]_vars => IInv'
  BY Step, Stutter
<1> QED
  BY <1>1, InitIInv, PTL DEF Spec

-----------------------------------------------------------------------------
\* Types of all state, for any threads, CPUs and interval.
THEOREM TypeCorrect == Spec => []TypeOK
<1>1. IInv => TypeOK
  BY DEF IInv
<1> QED
  BY <1>1, Inductive, PTL

\* No moment of a thread's or CPU's time is lost or counted twice by
\* handle_switch_in, handle_switch_out, handle_on_cpu_sample and
\* maybe_consume_off_cpu, in whatever order records arrive.
THEOREM Conservation == Spec => []WallClockConserved
<1>1. IInv => WallClockConserved
  BY DEF IInv, TrackOK, WallClockConserved
<1> QED
  BY <1>1, Inductive, PTL

\* The remainder stays below the interval and no u64 subtraction wraps.
THEOREM Soundness == Spec => []AccumulatorsSound
<1>1. IInv => AccumulatorsSound
  BY DEF IInv, TrackOK, Sound, AccumulatorsSound
<1> QED
  BY <1>1, Inductive, PTL

\* A saved off-CPU stack is of the current sleep.
THEOREM FreshStack == Spec => []StackIsOfThisSleep
<1>1. IInv => StackIsOfThisSleep
  BY DEF IInv, ThreadOK, StackIsOfThisSleep
<1> QED
  BY <1>1, Inductive, PTL

\* Samples reach every track in the order of their profile timestamps.
THEOREM InOrder == Spec => SamplesInTimeOrder
<1> DEFINE A == \A k \in Tracks : \A i \in DOMAIN emitted'[k] :
                  emitted'[k][i].time >=
                    IF i = 1 THEN lastTime[k] ELSE emitted'[k][i - 1].time
<1>1. IInv /\ [Next]_vars => [A]_vars
  <2> SUFFICES ASSUME IInv, Next PROVE A
    OBVIOUS
  <2>1. TracksStep
    BY Step
  <2>2. \A k \in Tracks : emitted'[k] \in Seq(Samples)
    BY <2>1 DEF TracksStep
  <2>3. \A k \in Tracks : DOMAIN emitted'[k] = 1 .. Len(emitted'[k])
    BY <2>2
  <2> QED
    BY <2>1, <2>3 DEF TracksStep
<1> QED
  BY <1>1, Inductive, PTL DEF Spec, SamplesInTimeOrder

\* Simulated samples lie inside the sleep they stand for.
THEOREM InsideSleep == Spec => OffCpuSamplesInsideSleep
<1> DEFINE A == \A k \in Tracks : \A i \in DOMAIN emitted'[k] :
                  LET s == emitted'[k][i]
                  IN  s.kind \in {"off", "idle"} =>
                        /\ data[k].state = "Off"
                        /\ s.time > convert_time(data[k].ts)
                        /\ s.time <= convert_time(now')
<1>1. IInv /\ [Next]_vars => [A]_vars
  <2> SUFFICES ASSUME IInv, Next PROVE A
    OBVIOUS
  <2>1. TracksStep
    BY Step
  <2>2. \A k \in Tracks : emitted'[k] \in Seq(Samples)
    BY <2>1 DEF TracksStep
  <2>3. \A k \in Tracks : DOMAIN emitted'[k] = 1 .. Len(emitted'[k])
    BY <2>2
  <2> QED
    BY <2>1, <2>3 DEF TracksStep, Inside
<1> QED
  BY <1>1, Inductive, PTL DEF Spec, OffCpuSamplesInsideSleep

\* Thread-name markers on a CPU track do not overlap.
THEOREM MarkersDisjoint == Spec => CpuMarkersDisjoint
<1> DEFINE A == \A c \in Cpus : marker'[c] # marker[c] =>
                  marker[c].end <= marker'[c].start
                  /\ marker'[c].start <= marker'[c].end
<1>1. IInv /\ [Next]_vars => [A]_vars
  BY Step DEF MarkersStep
<1> QED
  BY <1>1, Inductive, PTL DEF Spec, CpuMarkersDisjoint
=============================================================================
