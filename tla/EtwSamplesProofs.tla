-------------------------- MODULE EtwSamplesProofs --------------------------
(***************************************************************************)
(* Proofs about EtwSamples, for any number of threads, any sampling        *)
(* interval, and queues and traces of any length.                          *)
(*                                                                         *)
(* What is computed over a whole queue is proved by the least              *)
(* counterexample: a set of numbers has a least element, and a family of   *)
(* finite sets one of least size.                                          *)
(***************************************************************************)
EXTENDS EtwSamples, WellFoundedInduction, FiniteSetTheorems, TLAPS

-----------------------------------------------------------------------------
(* Sums                                                                    *)

\* A set of natural numbers has a least element.
LEMMA HasLeast ==
  ASSUME NEW T, T \subseteq Nat, T # {}
  PROVE  \E x \in T : \A y \in T : x <= y
<1>1. PICK R : R = OpToRel(<, Nat)
  OBVIOUS
<1>2. IsWellFoundedOn(R, Nat)
  BY <1>1, NatLessThanWellFounded, Zenon
<1>3. PICK x \in T : \A y \in T : ~(<<y, x>> \in R)
  BY <1>2, WFMin
<1>4. \A y \in Nat, z \in Nat : y < z => <<y, z>> \in R
  BY <1>1, Zenon DEF OpToRel
<1>5. \A y \in T : ~(y < x)
  BY <1>3, <1>4
<1> QED
  BY <1>5

\* A least finite set, by its size.
LEMMA HasSmallest ==
  ASSUME NEW C, C # {}, \A S \in C : IsFiniteSet(S)
  PROVE  \E S \in C : \A T \in C : Cardinality(S) <= Cardinality(T)
<1>1. \A S \in C : Cardinality(S) \in Nat
  BY FS_CardinalityType
<1>2. PICK N : N = {Cardinality(S) : S \in C}
  OBVIOUS
<1>3. PICK n \in N : \A m \in N : n <= m
  BY <1>1, <1>2, HasLeast
<1> QED
  BY <1>2, <1>3

Some(s) == CHOOSE x \in s : TRUE

\* h is the function that a sum of f over S is computed with.
Sums(h, f, S) ==
  h = [s \in SUBSET S |-> IF s = {} THEN 0 ELSE f[Some(s)] + h[s \ {Some(s)}]]

SumOver(f, S) == (CHOOSE h : Sums(h, f, S))[S]

LEMMA SomeIn == ASSUME NEW s, s # {} PROVE Some(s) \in s
BY DEF Some

LEMMA Smaller ==
  ASSUME NEW T, IsFiniteSet(T), NEW x \in T
  PROVE  /\ IsFiniteSet(T \ {x})
         /\ Cardinality(T \ {x}) \in Nat /\ Cardinality(T) \in Nat
         /\ Cardinality(T \ {x}) < Cardinality(T)
<1>1. IsFiniteSet(T \ {x}) /\ Cardinality(T \ {x}) = Cardinality(T) - 1
  BY FS_RemoveElement
<1>2. Cardinality(T) \in Nat /\ Cardinality(T \ {x}) \in Nat
  BY <1>1, FS_CardinalityType
<1> QED
  BY <1>1, <1>2

\* The function that computes a sum is unique, and sums agree if the terms do.
LEMMA SumsEqual ==
  ASSUME NEW S, IsFiniteSet(S), NEW f, NEW g, \A x \in S : f[x] = g[x],
         NEW U, S \subseteq U, NEW V, S \subseteq V, NEW h, Sums(h, f, U), NEW k, Sums(k, g, V)
  PROVE  h[S] = k[S]
<1> DEFINE C == {s \in SUBSET S : h[s] # k[s]}
<1>1. SUFFICES ASSUME C # {} PROVE FALSE
  BY <1>1
<1>2. \A s \in C : IsFiniteSet(s)
  BY FS_Subset
<1>3. PICK s \in C : \A t \in C : Cardinality(s) <= Cardinality(t)
  BY <1>1, <1>2, HasSmallest
<1>4. s # {}
  BY DEF Sums
<1>5. PICK x : x = Some(s)
  OBVIOUS
<1>6. x \in s
  BY <1>4, <1>5, SomeIn
<1>7. PICK r : r = s \ {x}
  OBVIOUS
<1>8. r \notin C
  <2>1. /\ Cardinality(r) \in Nat /\ Cardinality(s) \in Nat
        /\ Cardinality(r) < Cardinality(s)
    BY <1>2, <1>6, <1>7, Smaller
  <2> QED
    BY <1>3, <2>1
<1>9. h[r] = k[r]
  BY <1>7, <1>8
<1>10. h[s] = f[x] + h[r] /\ k[s] = g[x] + k[r]
  BY <1>4, <1>5, <1>7 DEF Sums
<1> QED
  BY <1>6, <1>9, <1>10

\* There is such a function for every finite set.
LEMMA SumsExist ==
  ASSUME NEW S, IsFiniteSet(S), NEW f
  PROVE  \E h : Sums(h, f, S)
<1> DEFINE C == {T \in SUBSET S : ~\E h : Sums(h, f, T)}
<1>1. SUFFICES ASSUME C # {} PROVE FALSE
  OBVIOUS
<1>2. \A T \in SUBSET S : IsFiniteSet(T)
  BY FS_Subset
<1>3. PICK T \in C : \A U \in C : Cardinality(T) <= Cardinality(U)
  BY <1>1, <1>2, HasSmallest
<1> DEFINE e(U) == CHOOSE h : Sums(h, f, U)
<1>4. ASSUME NEW U, U \subseteq T, U # T PROVE Sums(e(U), f, U)
  <2>1. PICK x \in T : x \notin U
    BY <1>4
  <2>2. U \subseteq T \ {x}
    BY <1>4, <2>1
  <2>3. /\ IsFiniteSet(T \ {x}) /\ Cardinality(T \ {x}) \in Nat /\ Cardinality(T) \in Nat
        /\ Cardinality(T \ {x}) < Cardinality(T)
    BY <1>2, <2>1, Smaller
  <2>4. Cardinality(U) <= Cardinality(T \ {x}) /\ Cardinality(U) \in Nat
    BY <1>2, <1>4, <2>2, <2>3, FS_Subset, FS_CardinalityType
  <2>5. U \notin C
    BY <1>3, <2>3, <2>4
  <2> QED
    BY <1>4, <2>5
<1> HIDE DEF e
<1>5. PICK h : h = [s \in SUBSET T |->
                      IF s = {} THEN 0 ELSE f[Some(s)] + e(s \ {Some(s)})[s \ {Some(s)}]]
  OBVIOUS
<1>6. ASSUME NEW U, U \subseteq T, U # T PROVE h[U] = e(U)[U]
  <2>1. Sums(e(U), f, U)
    BY <1>4, <1>6
  <2>2. CASE U = {}
    BY <1>5, <2>1, <2>2 DEF Sums
  <2>3. CASE U # {}
    <3>1. PICK x : x = Some(U)
      OBVIOUS
    <3>2. x \in U
      BY <2>3, <3>1, SomeIn
    <3>3. PICK r : r = U \ {x}
      OBVIOUS
    <3>4. h[U] = f[x] + e(r)[r]
      BY <1>5, <1>6, <2>3, <3>1, <3>3
    <3>5. e(U)[U] = f[x] + e(U)[r]
      BY <2>1, <2>3, <3>1, <3>3 DEF Sums
    <3>6. r \subseteq T /\ r # T /\ r \subseteq U /\ IsFiniteSet(r)
      BY <1>2, <1>6, <3>2, <3>3
    <3>7. Sums(e(r), f, r)
      BY <1>4, <3>6
    <3>8. e(U)[r] = e(r)[r]
      BY <2>1, <3>6, <3>7, SumsEqual
    <3> QED
      BY <3>4, <3>5, <3>8
  <2> QED
    BY <2>2, <2>3
<1>7. ASSUME NEW s \in SUBSET T
      PROVE  h[s] = IF s = {} THEN 0 ELSE f[Some(s)] + h[s \ {Some(s)}]
  <2>1. CASE s = {}
    BY <1>5, <2>1
  <2>2. CASE s # {}
    <3>1. PICK r : r = s \ {Some(s)}
      OBVIOUS
    <3>2. r \subseteq T /\ r # T
      BY <2>2, <3>1, SomeIn
    <3>3. h[r] = e(r)[r]
      BY <1>6, <3>2
    <3> QED
      BY <1>5, <2>2, <3>1, <3>3
  <2> QED
    BY <2>1, <2>2
<1>8. Sums(h, f, T)
  <2>1. h = [s \in SUBSET T |-> h[s]]
    BY <1>5
  <2> QED
    BY <1>7, <2>1 DEF Sums
<1> QED
  BY <1>8

LEMMA SumFacts ==
  ASSUME NEW S, IsFiniteSet(S), NEW f
  PROVE  \E h : Sums(h, f, S) /\ SumOver(f, S) = h[S]
BY SumsExist DEF SumOver

LEMMA SumSame ==
  ASSUME NEW S, IsFiniteSet(S), NEW f, NEW g, \A x \in S : f[x] = g[x]
  PROVE  SumOver(f, S) = SumOver(g, S)
<1>1. PICK h : Sums(h, f, S) /\ SumOver(f, S) = h[S]
  BY SumFacts
<1>2. PICK k : Sums(k, g, S) /\ SumOver(g, S) = k[S]
  BY SumFacts
<1> QED
  BY <1>1, <1>2, SumsEqual

LEMMA SumEmpty ==
  ASSUME NEW f
  PROVE  SumOver(f, {}) = 0
<1>1. PICK h : Sums(h, f, {}) /\ SumOver(f, {}) = h[{}]
  BY SumFacts, FS_EmptySet
<1> QED
  BY <1>1 DEF Sums

\* The step by which FoldFunctionOnSet computes a sum.
LEMMA SumStep ==
  ASSUME NEW S, IsFiniteSet(S), S # {}, NEW f
  PROVE  SumOver(f, S) = f[Some(S)] + SumOver(f, S \ {Some(S)})
<1>1. PICK r : r = S \ {Some(S)}
  OBVIOUS
<1>2. IsFiniteSet(r) /\ r \subseteq S
  BY <1>1, FS_Subset
<1>3. PICK h : Sums(h, f, S) /\ SumOver(f, S) = h[S]
  BY SumFacts
<1>4. PICK k : Sums(k, f, r) /\ SumOver(f, r) = k[r]
  BY <1>2, SumFacts
<1>5. h[S] = f[Some(S)] + h[r]
  BY <1>1, <1>3 DEF Sums
<1>6. h[r] = k[r]
  BY <1>2, <1>3, <1>4, SumsEqual
<1> QED
  BY <1>1, <1>3, <1>4, <1>5, <1>6

\* The numbers may be added in any order.
LEMMA SumRemove ==
  ASSUME NEW S, IsFiniteSet(S), NEW f, \A x \in S : f[x] \in Nat
  PROVE  /\ SumOver(f, S) \in Nat
         /\ \A x \in S : SumOver(f, S) = f[x] + SumOver(f, S \ {x})
<1> DEFINE Good(T) == /\ SumOver(f, T) \in Nat
                      /\ \A x \in T : SumOver(f, T) = f[x] + SumOver(f, T \ {x})
           C == {T \in SUBSET S : ~Good(T)}
<1>1. SUFFICES ASSUME C # {} PROVE FALSE
  OBVIOUS
<1>2. \A T \in SUBSET S : IsFiniteSet(T)
  BY FS_Subset
<1>3. PICK T \in C : \A U \in C : Cardinality(T) <= Cardinality(U)
  BY <1>1, <1>2, HasSmallest
<1>4. ASSUME NEW x \in T PROVE Good(T \ {x})
  <2>1. /\ Cardinality(T \ {x}) \in Nat /\ Cardinality(T) \in Nat
        /\ Cardinality(T \ {x}) < Cardinality(T)
    BY <1>2, Smaller
  <2>2. T \ {x} \in SUBSET S
    OBVIOUS
  <2> QED
    BY <1>3, <2>1, <2>2
<1>5. T # {}
  <2>1. Good({})
    BY SumEmpty
  <2> QED
    BY <1>3, <2>1
<1>6. PICK y : y = Some(T)
  OBVIOUS
<1>7. y \in T
  BY <1>5, <1>6, SomeIn
<1>8. SumOver(f, T) = f[y] + SumOver(f, T \ {y})
  BY <1>2, <1>5, <1>6, SumStep
<1>9. SumOver(f, T \ {y}) \in Nat /\ f[y] \in Nat
  BY <1>4, <1>7
<1>10. ASSUME NEW x \in T PROVE SumOver(f, T) = f[x] + SumOver(f, T \ {x})
  <2>1. CASE x = y
    BY <1>8, <2>1
  <2>2. CASE x # y
    <3>1. PICK r : r = (T \ {y}) \ {x}
      OBVIOUS
    <3>2. r = (T \ {x}) \ {y}
      BY <3>1
    <3>3. SumOver(f, T \ {y}) = f[x] + SumOver(f, r)
      BY <1>4, <1>7, <2>2, <3>1
    <3>4. SumOver(f, T \ {x}) = f[y] + SumOver(f, r)
      BY <1>4, <1>7, <2>2, <3>2
    <3>5. SumOver(f, r) \in Nat /\ f[x] \in Nat
      <4>1. SumOver(f, T \ {x}) \in Nat
        BY <1>4
      <4>2. Good((T \ {y}) \ {x})
        <5>1. x \in T \ {y} /\ IsFiniteSet(T \ {y}) /\ y \in T /\ IsFiniteSet(T)
          BY <1>2, <1>7, <2>2
        <5>2. /\ Cardinality((T \ {y}) \ {x}) \in Nat /\ Cardinality(T \ {y}) \in Nat
              /\ Cardinality((T \ {y}) \ {x}) < Cardinality(T \ {y})
          BY <5>1, Smaller
        <5>3. Cardinality(T) \in Nat /\ Cardinality(T \ {y}) < Cardinality(T)
          BY <5>1, Smaller
        <5>4. (T \ {y}) \ {x} \in SUBSET S
          OBVIOUS
        <5>5. Cardinality((T \ {y}) \ {x}) < Cardinality(T)
          BY <5>2, <5>3
        <5>6. (T \ {y}) \ {x} \notin C
          BY <1>3, <5>2, <5>3, <5>5
        <5> QED
          BY <5>4, <5>6
      <4> QED
        BY <3>1, <4>2
    <3> QED
      BY <1>8, <1>9, <3>3, <3>4, <3>5
  <2> QED
    BY <2>1, <2>2
<1>11. SumOver(f, T) \in Nat
  BY <1>8, <1>9
<1> QED
  BY <1>10, <1>11

\* The sum of a sequence of numbers.
Total(g) == SumOver(g, 1 .. Len(g))

Deltas(q)    == [i \in 1 .. Len(q) |-> q[i].delta]
CpuDeltas(q) == [i \in 1 .. Len(q) |-> q[i].cpuDelta]

\* One more number at the end.
LEMMA TotalAppend ==
  ASSUME NEW g \in Seq(Nat), NEW x \in Nat
  PROVE  Total(g) \in Nat /\ Total(Append(g, x)) = Total(g) + x
<1>1. PICK n : n = Len(g)
  OBVIOUS
<1>2. n \in Nat /\ \A i \in 1 .. n : g[i] \in Nat
  BY <1>1
<1>3. PICK h : h = Append(g, x)
  OBVIOUS
<1>4. Len(h) = n + 1 /\ h[n + 1] = x /\ \A i \in 1 .. n : h[i] = g[i]
  BY <1>1, <1>3
<1>5. IsFiniteSet(1 .. n) /\ IsFiniteSet(1 .. n + 1)
  BY <1>2, FS_Interval
<1>6. (1 .. n + 1) \ {n + 1} = 1 .. n /\ n + 1 \in 1 .. n + 1
  BY <1>2
<1>7. \A i \in 1 .. n + 1 : h[i] \in Nat
  <2>1. \A i \in 1 .. n + 1 : i \in 1 .. n \/ i = n + 1
    BY <1>2
  <2> QED
    BY <1>2, <1>4, <2>1
<1>8. SumOver(h, 1 .. n + 1) = h[n + 1] + SumOver(h, (1 .. n + 1) \ {n + 1})
  BY <1>5, <1>6, <1>7, SumRemove
<1>9. SumOver(h, 1 .. n) = SumOver(g, 1 .. n)
  BY <1>4, <1>5, SumSame
<1>10. SumOver(g, 1 .. n) \in Nat
  BY <1>2, <1>5, SumRemove
<1>11. Total(h) = SumOver(h, 1 .. n + 1) /\ Total(g) = SumOver(g, 1 .. n)
  BY Zenon, <1>1, <1>4 DEF Total
<1>12. SumOver(h, 1 .. n + 1) = x + SumOver(g, 1 .. n)
  BY <1>4, <1>6, <1>8, <1>9
<1> QED
  BY <1>3, <1>10, <1>11, <1>12

LEMMA TotalType ==
  ASSUME NEW g \in Seq(Nat)
  PROVE  Total(g) \in Nat
<1>1. 0 \in Nat
  OBVIOUS
<1> QED
  BY <1>1, TotalAppend

LEMMA TotalEmpty == Total(<<>>) = 0
<1>1. 1 .. Len(<<>>) = {}
  OBVIOUS
<1> QED
  BY <1>1, SumEmpty DEF Total

\* A sequence that is not empty ends with an element.
LEMMA FrontAndLast ==
  ASSUME NEW E, NEW h \in Seq(E), h # <<>>
  PROVE  \E f \in Seq(E), x \in E : h = Append(f, x) /\ Len(h) = Len(f) + 1
<1>1. PICK n : n = Len(h)
  OBVIOUS
<1>2. n \in Nat /\ n # 0 /\ h[n] \in E
  BY <1>1
<1>3. PICK f : f = SubSeq(h, 1, n - 1)
  OBVIOUS
<1>4. f \in Seq(E) /\ Len(f) = n - 1 /\ \A i \in 1 .. n - 1 : f[i] = h[i]
  BY <1>1, <1>2, <1>3
<1>5. h = Append(f, h[n])
  BY <1>1, <1>2, <1>4
<1> QED
  BY <1>1, <1>2, <1>4, <1>5

\* The sum of two sequences in a row.
LEMMA TotalConcat ==
  ASSUME NEW g \in Seq(Nat), NEW k \in Seq(Nat)
  PROVE  Total(g \o k) = Total(g) + Total(k)
<1> DEFINE Bad(h) == Total(g \o h) # Total(g) + Total(h)
<1>1. SUFFICES ASSUME Bad(k) PROVE FALSE
  OBVIOUS
<1>2. PICK N : N = {n \in Nat : \E h \in Seq(Nat) : Len(h) = n /\ Bad(h)}
  OBVIOUS
<1>3. Len(k) \in N /\ N \subseteq Nat
  BY <1>1, <1>2
<1>4. PICK n \in N : \A m \in N : n <= m
  BY <1>3, HasLeast
<1>5. PICK h \in Seq(Nat) : Len(h) = n /\ Bad(h)
  BY <1>2, <1>4
<1>6. h # <<>>
  <2>1. ASSUME h = <<>> PROVE FALSE
    <3>1. g \o h = g
      BY <2>1
    <3> QED
      BY <1>5, <2>1, <3>1, TotalEmpty, TotalType
  <2> QED
    BY <2>1
<1>7. PICK f \in Seq(Nat), x \in Nat : h = Append(f, x) /\ Len(h) = Len(f) + 1
  BY <1>6, FrontAndLast
<1>8. ~Bad(f)
  <2>1. Len(f) \in Nat /\ Len(f) < n
    BY <1>5, <1>7
  <2>2. Len(f) \notin N
    BY <1>3, <1>4, <2>1
  <2> QED
    BY <1>2, <2>1, <2>2
<1>9. g \o h = Append(g \o f, x) /\ g \o f \in Seq(Nat)
  BY <1>7
<1>10. Total(g \o h) = Total(g \o f) + x
  BY <1>9, TotalAppend
<1>11. Total(h) = Total(f) + x
  BY <1>7, TotalAppend
<1> QED
  BY <1>5, <1>8, <1>10, <1>11, TotalType

\* The numbers as the model adds them up.
LEMMA TotalDeltaSum ==
  ASSUME NEW E, NEW q \in Seq(E)
  PROVE  TotalDelta(q) = Total(Deltas(q))
<1> DEFINE D == 1 .. Len(q)
           F(h) == h = [s \in SUBSET D |->
                          IF s = {} THEN 0 ELSE q[Some(s)].delta + h[s \ {Some(s)}]]
<1>0. DOMAIN q = D
  OBVIOUS
<1>1. TotalDelta(q) = (CHOOSE h : F(h))[D]
  BY <1>0 DEF TotalDelta, FoldSeq, FoldFunction, FoldFunctionOnSet, MapThenFoldSet, Some
<1>2. Total(Deltas(q)) = (CHOOSE h : Sums(h, Deltas(q), D))[D]
  <2>1. Len(Deltas(q)) = Len(q)
    BY DEF Deltas
  <2> QED
    BY <2>1 DEF Total, SumOver
<1>3. ASSUME NEW h PROVE F(h) <=> Sums(h, Deltas(q), D)
  <2>1. \A s \in SUBSET D : s # {} => Deltas(q)[Some(s)] = q[Some(s)].delta
    BY SomeIn DEF Deltas
  <2> QED
    BY <2>1 DEF Sums
<1> HIDE DEF F, D
<1> QED
  BY <1>1, <1>2, <1>3

\* The same for the deltas of the CPU.
LEMMA TotalCpuDeltaSum ==
  ASSUME NEW E, NEW q \in Seq(E)
  PROVE  FoldSeq(LAMBDA s, sum : s.cpuDelta + sum, 0, q) = Total(CpuDeltas(q))
<1> DEFINE D == 1 .. Len(q)
           F(h) == h = [s \in SUBSET D |->
                          IF s = {} THEN 0 ELSE q[Some(s)].cpuDelta + h[s \ {Some(s)}]]
<1>0. DOMAIN q = D
  OBVIOUS
<1>1. FoldSeq(LAMBDA s, sum : s.cpuDelta + sum, 0, q) = (CHOOSE h : F(h))[D]
  BY <1>0 DEF FoldSeq, FoldFunction, FoldFunctionOnSet, MapThenFoldSet, Some
<1>2. Total(CpuDeltas(q)) = (CHOOSE h : Sums(h, CpuDeltas(q), D))[D]
  <2>1. Len(CpuDeltas(q)) = Len(q)
    BY DEF CpuDeltas
  <2> QED
    BY <2>1 DEF Total, SumOver
<1>3. ASSUME NEW h PROVE F(h) <=> Sums(h, CpuDeltas(q), D)
  <2>1. \A s \in SUBSET D : s # {} => CpuDeltas(q)[Some(s)] = q[Some(s)].cpuDelta
    BY SomeIn DEF CpuDeltas
  <2> QED
    BY <2>1 DEF Sums
<1> HIDE DEF F, D
<1> QED
  BY <1>1, <1>2, <1>3

\* What TimeConserved adds up over the queue of a thread.
LEMMA QueuedOfThread ==
  ASSUME NEW t \in Tids, NEW E, threads[t].queue \in Seq(E)
  PROVE  QueuedDelta(t) = Total(Deltas(threads[t].queue))
<1> DEFINE q == threads[t].queue
           F(h) == h = [s \in SUBSET DOMAIN q |->
                          IF s = {} THEN 0 ELSE q[Some(s)].delta + h[s \ {Some(s)}]]
           G(h) == h = [s \in SUBSET DOMAIN q |->
                          IF s = {} THEN 0
                          ELSE (IF t = Cpu THEN q[Some(s)].cpuDelta ELSE q[Some(s)].delta)
                               + h[s \ {Some(s)}]]
<1>1. t # Cpu
  BY EtwSamplesAssumption
<1>2. QueuedDelta(t) = (CHOOSE h : G(h))[DOMAIN q]
  BY <1>1 DEF QueuedDelta, FoldSeq, FoldFunction, FoldFunctionOnSet, MapThenFoldSet, Some
<1>3. TotalDelta(q) = (CHOOSE h : F(h))[DOMAIN q]
  BY DEF TotalDelta, FoldSeq, FoldFunction, FoldFunctionOnSet, MapThenFoldSet, Some
<1>4. \A h : F(h) <=> G(h)
  BY <1>1
<1> HIDE DEF F, G, q
<1>5. QueuedDelta(t) = TotalDelta(q)
  BY <1>2, <1>3, <1>4
<1> QED
  BY <1>5, TotalDeltaSum DEF q

\* The delta that waits with the samples of each thread for the track of the CPU.
CpuQueued(th) == [t \in Tids |-> Total(CpuDeltas(th[t].queue))]

\* And what it adds up over all queues, for the CPU.
LEMMA QueuedOfCpu ==
  ASSUME NEW E, \A t \in Tids : threads[t].queue \in Seq(E)
  PROVE  QueuedDelta(Cpu) = SumOver(CpuQueued(threads), Tids)
<1> DEFINE delta(q) == FoldSeq(LAMBDA s, sum : (IF Cpu = Cpu THEN s.cpuDelta ELSE s.delta) + sum,
                               0, q)
           f == [t \in Tids |-> delta(threads[t].queue)]
<1>1. QueuedDelta(Cpu) = FoldFunctionOnSet(LAMBDA a, b : a + b, 0, f, Tids)
  BY DEF QueuedDelta
<1>2. ASSUME NEW q \in Seq(E) PROVE delta(q) = Total(CpuDeltas(q))
  <2> DEFINE F(h) == h = [s \in SUBSET DOMAIN q |->
                            IF s = {} THEN 0 ELSE q[Some(s)].cpuDelta + h[s \ {Some(s)}]]
             G(h) == h = [s \in SUBSET DOMAIN q |->
                            IF s = {} THEN 0
                            ELSE (IF Cpu = Cpu THEN q[Some(s)].cpuDelta ELSE q[Some(s)].delta)
                                 + h[s \ {Some(s)}]]
  <2>1. delta(q) = (CHOOSE h : G(h))[DOMAIN q]
    BY DEF FoldSeq, FoldFunction, FoldFunctionOnSet, MapThenFoldSet, Some
  <2>2. FoldSeq(LAMBDA s, sum : s.cpuDelta + sum, 0, q) = (CHOOSE h : F(h))[DOMAIN q]
    BY DEF FoldSeq, FoldFunction, FoldFunctionOnSet, MapThenFoldSet, Some
  <2>3. \A h : F(h) <=> G(h)
    OBVIOUS
  <2>4. (CHOOSE h : F(h)) = (CHOOSE h : G(h))
    BY <2>3
  <2> HIDE DEF F, G, delta
  <2>5. delta(q) = FoldSeq(LAMBDA s, sum : s.cpuDelta + sum, 0, q)
    BY <2>1, <2>2, <2>4
  <2> QED
    BY <2>5, TotalCpuDeltaSum
<1> HIDE DEF delta
<1>3. f = CpuQueued(threads)
  BY <1>2 DEF CpuQueued
<1> HIDE DEF f
<1>4. FoldFunctionOnSet(LAMBDA a, b : a + b, 0, f, Tids) = SumOver(f, Tids)
  BY DEF FoldFunctionOnSet, MapThenFoldSet, SumOver, Sums, Some
<1> QED
  BY <1>1, <1>3, <1>4

-----------------------------------------------------------------------------
(* FlattenSeq                                                              *)

\* f is the function that the first n sequences of ss are joined with.
Joins(f, ss, n) ==
  f = [i \in 1 .. n |-> IF i = 1 THEN ss[i] ELSE f[i - 1] \o ss[i]]

\* The recursion of FlattenSeq has a solution.
LEMMA JoinsExist ==
  ASSUME NEW ss, NEW n \in Nat
  PROVE  \E f : Joins(f, ss, n)
<1> DEFINE N == {m \in Nat : ~\E f : Joins(f, ss, m)}
<1>1. SUFFICES ASSUME N # {} PROVE FALSE
  OBVIOUS
<1>2. PICK m \in N : \A k \in N : m <= k
  BY <1>1, HasLeast
<1>3. m # 0
  <2>1. Joins(<<>>, ss, 0)
    BY DEF Joins
  <2> QED
    BY <1>2, <2>1
<1>4. m - 1 \in Nat /\ m - 1 \notin N
  BY <1>2, <1>3
<1>5. PICK f : Joins(f, ss, m - 1)
  BY <1>4
<1>6. PICK g : g = [i \in 1 .. m |-> IF i < m THEN f[i]
                                     ELSE IF m = 1 THEN ss[1] ELSE f[m - 1] \o ss[m]]
  OBVIOUS
<1>7. ASSUME NEW i \in 1 .. m
      PROVE  g[i] = IF i = 1 THEN ss[i] ELSE g[i - 1] \o ss[i]
  <2>1. CASE i < m
    <3>1. i \in 1 .. m - 1
      BY <2>1
    <3>2. g[i] = f[i]
      BY <1>6, <2>1
    <3>3. f[i] = IF i = 1 THEN ss[i] ELSE f[i - 1] \o ss[i]
      BY <1>5, <3>1 DEF Joins
    <3>4. i # 1 => g[i - 1] = f[i - 1]
      BY <1>6, <2>1
    <3> QED
      BY <3>2, <3>3, <3>4
  <2>2. CASE i = m
    BY <1>6, <2>2
  <2> QED
    BY <2>1, <2>2
<1>8. g = [i \in 1 .. m |-> g[i]]
  BY <1>6
<1>9. Joins(g, ss, m)
  BY <1>7, <1>8 DEF Joins
<1> QED
  BY <1>2, <1>9

LEMMA JoinsAt ==
  ASSUME NEW f, NEW ss, NEW n \in Nat, Joins(f, ss, n), NEW i \in 1 .. n
  PROVE  f[i] = IF i = 1 THEN ss[i] ELSE f[i - 1] \o ss[i]
BY DEF Joins

\* And only one.
LEMMA JoinsEqual ==
  ASSUME NEW n \in Nat, NEW ss, NEW tt, \A i \in 1 .. n : ss[i] = tt[i],
         NEW m \in Nat, n <= m, NEW f, Joins(f, ss, n), NEW g, Joins(g, tt, m)
  PROVE  \A i \in 1 .. n : f[i] = g[i]
<1> DEFINE N == {i \in 1 .. n : f[i] # g[i]}
<1>1. SUFFICES ASSUME N # {} PROVE FALSE
  OBVIOUS
<1>2. PICK i \in N : \A k \in N : i <= k
  <2>1. N \subseteq Nat
    OBVIOUS
  <2> HIDE DEF N
  <2> QED
    BY <1>1, <2>1, HasLeast
<1>3. /\ f[i] = IF i = 1 THEN ss[i] ELSE f[i - 1] \o ss[i]
      /\ g[i] = IF i = 1 THEN tt[i] ELSE g[i - 1] \o tt[i]
  <2>1. i \in 1 .. n /\ i \in 1 .. m
    BY <1>2
  <2> QED
    BY <2>1, JoinsAt
<1>4. i # 1 => i - 1 \in 1 .. n /\ i - 1 \notin N
  BY <1>2
<1> QED
  BY <1>3, <1>4

LEMMA FlattenEmpty == FlattenSeq(<<>>) = <<>>
BY DEF FlattenSeq

\* FlattenSeq adds the last sequence at the end.
LEMMA FlattenAppend ==
  ASSUME NEW E, NEW ss \in Seq(Seq(E)), NEW s \in Seq(E)
  PROVE  FlattenSeq(Append(ss, s)) = FlattenSeq(ss) \o s
<1>1. PICK n : n = Len(ss)
  OBVIOUS
<1>2. PICK tt : tt = Append(ss, s)
  OBVIOUS
<1>3. /\ n \in Nat /\ Len(tt) = n + 1 /\ tt[n + 1] = s
      /\ \A i \in 1 .. n : ss[i] = tt[i]
  BY <1>1, <1>2
<1>4. PICK g : Joins(g, tt, n + 1) /\ FlattenSeq(tt) = g[n + 1]
  <2>1. FlattenSeq(tt) = (CHOOSE g : Joins(g, tt, n + 1))[n + 1]
    BY <1>3 DEF FlattenSeq, Joins
  <2>2. \E g : Joins(g, tt, n + 1)
    <3>1. n + 1 \in Nat
      BY <1>3
    <3> QED
      BY <3>1, JoinsExist
  <2> QED
    BY <2>1, <2>2
<1>5. CASE n = 0
  <2>1. ss = <<>>
    <3>1. Len(ss) = 0
      BY <1>1, <1>5
    <3> QED
      BY <3>1
  <2>2. g[n + 1] = s
    <3>1. g[1] = tt[1]
      BY <1>4, <1>5, JoinsAt
    <3> QED
      BY <1>3, <1>5, <3>1
  <2> QED
    BY <1>2, <1>4, <2>1, <2>2, FlattenEmpty
<1>6. CASE n # 0
  <2>1. PICK f : Joins(f, ss, n) /\ FlattenSeq(ss) = f[n]
    <3>1. FlattenSeq(ss) = (CHOOSE f : Joins(f, ss, n))[n]
      BY <1>1, <1>6 DEF FlattenSeq, Joins
    <3>2. \E f : Joins(f, ss, n)
      BY <1>3, JoinsExist
    <3> QED
      BY <3>1, <3>2
  <2>2. g[n + 1] = g[n] \o s
    <3>1. n + 1 \in Nat /\ n + 1 \in 1 .. n + 1 /\ n + 1 # 1 /\ (n + 1) - 1 = n
      BY <1>3, <1>6
    <3>2. g[n + 1] = g[(n + 1) - 1] \o tt[n + 1]
      BY <1>4, <3>1, JoinsAt
    <3> QED
      BY <1>3, <3>1, <3>2
  <2>3. f[n] = g[n]
    <3>1. n + 1 \in Nat /\ n <= n + 1 /\ n \in 1 .. n
      BY <1>3, <1>6
    <3> QED
      BY SMTT(30), <1>3, <1>4, <2>1, <3>1, JoinsEqual
  <2> QED
    BY <1>2, <1>4, <2>1, <2>2, <2>3
<1> QED
  BY <1>5, <1>6

-----------------------------------------------------------------------------
(* Context switches                                                        *)

\* Division leaves a remainder below the interval (sample_count and
\* remaining_duration of maybe_consume_off_cpu).
LEMMA DivInterval ==
  ASSUME NEW n \in Nat
  PROVE  /\ n \div Interval \in Nat
         /\ n - (n \div Interval) * Interval \in Nat
         /\ n - (n \div Interval) * Interval < Interval
         /\ n >= Interval => n \div Interval >= 1
BY IntervalAssumption

\* What maybe_consume_off_cpu returns.
LEMMA ConsumeOffCpu ==
  ASSUME NEW d \in ThreadContextSwitchData, NEW t \in Nat
  PROVE  LET r == maybe_consume_off_cpu(t, d)
         IN  /\ r.data \in ThreadContextSwitchData
             /\ r.data.state = d.state /\ r.data.ts = d.ts /\ r.data.on = d.on
             /\ r.data.off < Interval
             /\ r.group \in OffCpuSampleGroup
             /\ r.data.off + r.group.count * Interval = d.off
             /\ r.group.count > 0 =>
                  /\ r.group.begin = t - (d.off - Interval)
                  /\ r.group.end = t - r.data.off
                  /\ r.group.begin <= r.group.end
<1> DEFINE q == d.off \div Interval
           p == q * Interval
           rest == d.off - p
<1>1. /\ q \in Nat /\ p \in Int /\ rest \in Nat /\ rest < Interval
      /\ d.off \in Nat
      /\ d.off >= Interval => q >= 1
  BY DivInterval, IntervalAssumption DEF ThreadContextSwitchData
<1>2. q >= 1 => p >= Interval
  BY <1>1, IntervalAssumption
<1>3. CASE d.off < Interval
  BY <1>3, IntervalAssumption
  DEF maybe_consume_off_cpu, NoGroup, OffCpuSampleGroup, ThreadContextSwitchData
<1>4. CASE d.off >= Interval
  <2> DEFINE dd == [d EXCEPT !.off = rest]
             g  == [begin |-> t - (d.off - Interval), end |-> t - rest,
                    count |-> q]
  <2>1. maybe_consume_off_cpu(t, d) = [data |-> dd, group |-> g]
    BY <1>4, <1>1, IntervalAssumption DEF maybe_consume_off_cpu
  <2>2. /\ dd \in ThreadContextSwitchData
        /\ dd.off = rest /\ dd.state = d.state /\ dd.ts = d.ts /\ dd.on = d.on
    BY <1>1 DEF ThreadContextSwitchData
  <2>3. rest + q * Interval = d.off
    BY <1>1
  <2>4. rest <= d.off - Interval
    BY <1>1, <1>2, <1>4, IntervalAssumption
  <2>5. g \in OffCpuSampleGroup
    BY <1>1, IntervalAssumption DEF OffCpuSampleGroup
  <2>6. g.begin = t - (d.off - Interval) /\ g.end = t - rest /\ g.count = q
    OBVIOUS
  <2>7. g.begin <= g.end
    BY <2>4, <2>6, <1>1, IntervalAssumption
  <2> HIDE DEF dd, g, q, rest
  <2> QED
    BY <2>1, <2>2, <2>3, <2>5, <2>6, <2>7, <1>1
<1> QED
  BY <1>1, <1>3, <1>4, IntervalAssumption

\* The data of a track at a moment not later than t: what the accumulators
\* promise each other.
Sound(d, t) ==
  /\ d \in ThreadContextSwitchData
  /\ d.off < Interval
  /\ d.ts <= t

\* A record that shows the thread running at t accounts for all the time
\* since the previous one, and a group it closes lies inside the sleep.
LEMMA Running ==
  ASSUME NEW t \in Nat, NEW d, Sound(d, t)
  PROVE  LET r == ObservedRunning(t, d)
         IN  /\ Sound(r.data, t) /\ r.data.state = "On" /\ r.data.ts = t
             /\ r.group \in OffCpuSampleGroup
             /\ d.state # "Unknown" =>
                  r.data.on + r.data.off + r.group.count * Interval
                    = d.on + d.off + (t - d.ts)
             /\ d.state = "Unknown" =>
                  r.data.on = d.on /\ r.data.off = d.off /\ r.group.count = 0
             /\ r.group.count > 0 =>
                  /\ d.state = "Off"
                  /\ d.ts < r.group.begin
                  /\ r.group.begin <= r.group.end
                  /\ r.group.end <= t
<1>0. /\ d \in ThreadContextSwitchData /\ d.off < Interval /\ d.ts <= t
      /\ d.state \in {"Unknown", "Off", "On"} /\ d.ts \in Nat /\ d.on \in Nat
      /\ d.off \in Nat
  BY DEF Sound, ThreadContextSwitchData
<1>1. CASE d.state = "Unknown"
  <2> DEFINE m == [data |-> d, group |-> NoGroup]
             r == ObservedRunning(t, d)
  <2>1. r = [m EXCEPT !.data.state = "On", !.data.ts = t]
    BY <1>1 DEF ObservedRunning
  <2>2. r.group = NoGroup /\ r.data = [d EXCEPT !.state = "On", !.ts = t]
    BY <2>1
  <2> HIDE DEF r
  <2>3. /\ r.data \in ThreadContextSwitchData /\ r.data.state = "On"
        /\ r.data.ts = t /\ r.data.on = d.on /\ r.data.off = d.off
    BY <2>2, <1>0 DEF ThreadContextSwitchData
  <2>4. r.group \in OffCpuSampleGroup /\ r.group.count = 0
    BY <2>2 DEF NoGroup, OffCpuSampleGroup
  <2> QED
    BY <2>3, <2>4, <1>0, <1>1 DEF Sound, r
<1>2. CASE d.state = "On"
  <2> DEFINE e == [d EXCEPT !.on = d.on + (t - d.ts)]
             m == [data |-> e, group |-> NoGroup]
             r == ObservedRunning(t, d)
  <2>1. /\ e \in ThreadContextSwitchData /\ e.on = d.on + (t - d.ts)
        /\ e.off = d.off
    BY <1>0 DEF ThreadContextSwitchData
  <2>2. r = [m EXCEPT !.data.state = "On", !.data.ts = t]
    BY <1>2 DEF ObservedRunning
  <2> HIDE DEF e
  <2>3. r.group = NoGroup /\ r.data = [e EXCEPT !.state = "On", !.ts = t]
    BY <2>2
  <2> HIDE DEF r
  <2>4. /\ r.data \in ThreadContextSwitchData /\ r.data.state = "On"
        /\ r.data.ts = t /\ r.data.on = e.on /\ r.data.off = e.off
    BY <2>3, <2>1 DEF ThreadContextSwitchData
  <2>5. r.group \in OffCpuSampleGroup /\ r.group.count = 0
    BY <2>3 DEF NoGroup, OffCpuSampleGroup
  <2>6. r.data.on + r.data.off + r.group.count * Interval
          = d.on + d.off + (t - d.ts)
    BY <2>1, <2>4, <2>5, <1>0, IntervalAssumption
  <2> QED
    BY <2>1, <2>4, <2>5, <2>6, <1>0, <1>2 DEF Sound, r
<1>3. CASE d.state = "Off"
  <2> DEFINE e == [d EXCEPT !.off = d.off + (t - d.ts)]
             m == maybe_consume_off_cpu(t, e)
  <2>1. /\ e \in ThreadContextSwitchData /\ e.off = d.off + (t - d.ts)
        /\ e.state = d.state /\ e.ts = d.ts /\ e.on = d.on
    BY <1>0 DEF ThreadContextSwitchData
  <2>2. ObservedRunning(t, d) = [m EXCEPT !.data.state = "On", !.data.ts = t]
    BY <1>3, <1>0 DEF ObservedRunning
  <2> HIDE DEF e
  <2>3. /\ m.data \in ThreadContextSwitchData
        /\ m.data.on = e.on
        /\ m.data.off < Interval
        /\ m.group \in OffCpuSampleGroup
        /\ m.data.off + m.group.count * Interval = e.off
        /\ m.group.count > 0 =>
             /\ m.group.begin = t - (e.off - Interval)
             /\ m.group.end = t - m.data.off
             /\ m.group.begin <= m.group.end
    BY <2>1, ConsumeOffCpu
  <2>4. m = [data |-> m.data, group |-> m.group]
    BY DEF maybe_consume_off_cpu
  <2> HIDE DEF m
  <2> DEFINE r == ObservedRunning(t, d)
  <2>5. /\ r.group = m.group
        /\ r.data = [m.data EXCEPT !.state = "On", !.ts = t]
    BY <2>2, <2>4
  <2> HIDE DEF r
  <2>6. /\ r.data \in ThreadContextSwitchData /\ r.data.state = "On"
        /\ r.data.ts = t /\ r.data.on = d.on /\ r.data.off = m.data.off
    BY <2>5, <2>3, <2>1 DEF ThreadContextSwitchData
  <2>7. /\ m.group.count \in Nat /\ m.group.begin \in Int
        /\ m.group.end \in Int /\ m.data.off \in Nat
        /\ m.group.count * Interval \in Int
    BY <2>3, IntervalAssumption DEF OffCpuSampleGroup, ThreadContextSwitchData
  <2>8. r.data.on + r.data.off + r.group.count * Interval
          = d.on + d.off + (t - d.ts)
    BY <2>5, <2>6, <2>7, <2>3, <2>1, <1>0
  <2>9. m.group.count > 0 =>
          /\ d.ts < m.group.begin
          /\ m.group.begin <= m.group.end
          /\ m.group.end <= t
    BY <2>3, <2>1, <2>7, <1>0, IntervalAssumption
  <2> QED
    BY <2>5, <2>6, <2>8, <2>9, <2>3, <1>3 DEF Sound, r
<1> QED
  BY <1>0, <1>1, <1>2, <1>3

\* A switch-out accounts for the time since the thread was last seen running,
\* and one that is repeated changes nothing.
LEMMA SwitchedOut ==
  ASSUME NEW t \in Nat, NEW d, Sound(d, t)
  PROVE  LET e == handle_switch_out(t, d)
         IN  /\ Sound(e, t) /\ e.state = "Off"
             /\ d.state # "Unknown" =>
                  e.on + e.off = d.on + d.off + (e.ts - d.ts)
             /\ d.state = "Unknown" =>
                  e.on = d.on /\ e.off = d.off /\ e.ts = t
<1>0. /\ d \in ThreadContextSwitchData /\ d.off < Interval /\ d.ts <= t
      /\ d.state \in {"Unknown", "Off", "On"} /\ d.ts \in Nat /\ d.on \in Nat
      /\ d.off \in Nat
  BY DEF Sound, ThreadContextSwitchData
<1> DEFINE e == handle_switch_out(t, d)
<1>1. CASE d.state = "Unknown"
  <2>1. e = [d EXCEPT !.state = "Off", !.ts = t]
    BY <1>1 DEF handle_switch_out
  <2> HIDE DEF e
  <2>2. /\ e \in ThreadContextSwitchData /\ e.state = "Off" /\ e.ts = t
        /\ e.on = d.on /\ e.off = d.off
    BY <2>1, <1>0 DEF ThreadContextSwitchData
  <2> QED
    BY <2>2, <1>0, <1>1 DEF Sound, e
<1>2. CASE d.state = "On"
  <2> DEFINE x == d.on + (t - d.ts)
  <2>1. e = [d EXCEPT !.state = "Off", !.ts = t, !.on = x]
    BY <1>2 DEF handle_switch_out
  <2>0. x \in Nat
    BY <1>0
  <2> HIDE DEF e, x
  <2>2. /\ e \in ThreadContextSwitchData /\ e.state = "Off" /\ e.ts = t
        /\ e.on = x /\ e.off = d.off
    BY <2>0, <2>1, <1>0 DEF ThreadContextSwitchData
  <2>3. e.on + e.off = d.on + d.off + (e.ts - d.ts)
    BY <2>2, <1>0 DEF x
  <2> QED
    BY <2>2, <2>3, <1>0, <1>2 DEF Sound, e
<1>3. CASE d.state = "Off"
  BY <1>0, <1>3, IntervalAssumption
  DEF handle_switch_out, Sound, ThreadContextSwitchData
<1> QED
  BY <1>0, <1>1, <1>2, <1>3

\* consume_cpu_delta only clears the running time.
LEMMA Consume ==
  ASSUME NEW d \in ThreadContextSwitchData
  PROVE  LET e == consume_cpu_delta(d)
         IN  /\ e \in ThreadContextSwitchData /\ e.on = 0
             /\ e.off = d.off /\ e.ts = d.ts /\ e.state = d.state
BY DEF consume_cpu_delta, ThreadContextSwitchData

\* There is no group, or one with samples.
LEMMA GroupOrNone ==
  ASSUME NEW t \in Nat, NEW d, Sound(d, t)
  PROVE  LET g == ObservedRunning(t, d).group IN g = NoGroup \/ g.count >= 1
<1>0. d.state \in {"Unknown", "Off", "On"} /\ d.ts \in Nat /\ d.off \in Nat /\ d.ts <= t
  BY DEF Sound, ThreadContextSwitchData
<1>1. CASE d.state = "Off"
  <2> DEFINE e == [d EXCEPT !.off = d.off + (t - d.ts)]
             m == maybe_consume_off_cpu(t, e)
  <2>1. e.off = d.off + (t - d.ts) /\ e.off \in Nat
    BY <1>0 DEF Sound, ThreadContextSwitchData
  <2>2. ObservedRunning(t, d) = [m EXCEPT !.data.state = "On", !.data.ts = t]
    BY <1>0, <1>1 DEF ObservedRunning
  <2> HIDE DEF e
  <2>3. m = [data |-> m.data, group |-> m.group]
    BY DEF maybe_consume_off_cpu
  <2>4. m.group = NoGroup \/ m.group.count >= 1
    BY <2>1, DivInterval, IntervalAssumption DEF maybe_consume_off_cpu
  <2> HIDE DEF m
  <2>5. ObservedRunning(t, d).group = m.group
    BY <2>2, <2>3
  <2> QED
    BY <2>4, <2>5
<1>2. CASE d.state # "Off"
  <2>1. \E x : ObservedRunning(t, d) =
                 [[data |-> x, group |-> NoGroup] EXCEPT !.data.state = "On", !.data.ts = t]
    BY <1>0, <1>2 DEF ObservedRunning
  <2>2. PICK x : ObservedRunning(t, d) =
                 [[data |-> x, group |-> NoGroup] EXCEPT !.data.state = "On", !.data.ts = t]
    BY <2>1
  <2> QED
    BY <2>2
<1> QED
  BY <1>1, <1>2

-----------------------------------------------------------------------------
(* The samples of a queue                                                  *)

\* What the profile receives for a sample of a queue.
Item == [time : Int, user : Nat, kernel : BOOLEAN, delta : Nat, of : Pending]

\* The time of the first sample that comes of s.
FirstTime(s) == IF s.group = NoGroup THEN s.ts ELSE s.group.begin

\* A sample of a queue has something to show, and its group is a sleep before it.
WellMade(s) ==
  /\ s.on \/ s.group # NoGroup
  /\ s.group # NoGroup => s.group.begin <= s.group.end /\ s.group.end <= s.ts
  /\ ~s.on => s.cpuDelta = 0

Chained(q) == \A i, j \in 1 .. Len(q) : i < j => q[i].ts <= FirstTime(q[j])

\* x shows s with the user stack u.
Shows(x, s, u) ==
  /\ x.of = s /\ x.user = u
  /\ FirstTime(s) <= x.time /\ x.time <= s.ts
  /\ IF x.kernel THEN s.on /\ s.kernel
     ELSE s.group # NoGroup \/ ~s.kernel

InOrder(out) == \A i, j \in 1 .. Len(out) : i < j => out[i].time <= out[j].time

LEMMA DeltasType ==
  ASSUME NEW E, \A e \in E : e.delta \in Nat, NEW q \in Seq(E)
  PROVE  Deltas(q) \in Seq(Nat) /\ Len(Deltas(q)) = Len(q)
<1>1. \A i \in 1 .. Len(q) : q[i].delta \in Nat
  OBVIOUS
<1> QED
  BY <1>1 DEF Deltas

LEMMA CpuDeltasType ==
  ASSUME NEW q \in Seq(Pending)
  PROVE  CpuDeltas(q) \in Seq(Nat) /\ Len(CpuDeltas(q)) = Len(q)
<1>0. \A e \in Pending : e.cpuDelta \in Nat
  BY DEF Pending
<1>1. \A i \in 1 .. Len(q) : q[i].cpuDelta \in Nat
  BY <1>0
<1> QED
  BY <1>1 DEF CpuDeltas

LEMMA DeltasConcat ==
  ASSUME NEW E, \A e \in E : e.delta \in Nat, NEW q \in Seq(E), NEW r \in Seq(E)
  PROVE  Total(Deltas(q \o r)) = Total(Deltas(q)) + Total(Deltas(r))
<1>1. Deltas(q \o r) = Deltas(q) \o Deltas(r)
  BY DEF Deltas
<1> QED
  BY <1>1, DeltasType, TotalConcat

LEMMA CpuDeltasConcat ==
  ASSUME NEW q \in Seq(Pending), NEW r \in Seq(Pending)
  PROVE  Total(CpuDeltas(q \o r)) = Total(CpuDeltas(q)) + Total(CpuDeltas(r))
<1>1. CpuDeltas(q \o r) = CpuDeltas(q) \o CpuDeltas(r)
  BY DEF CpuDeltas
<1> QED
  BY <1>1, CpuDeltasType, TotalConcat

LEMMA OfOne ==
  ASSUME NEW n \in Nat
  PROVE  Total(<<n>>) = n
<1>0. <<>> \in Seq(Nat)
  OBVIOUS
<1>1. PICK e \in Seq(Nat) : e = <<>>
  BY <1>0
<1>2. <<n>> = Append(e, n)
  BY <1>1
<1>3. Total(Append(e, n)) = Total(e) + n
  BY <1>1, TotalAppend
<1>4. Total(e) = 0
  BY <1>1, TotalEmpty
<1>5. Total(<<n>>) = 0 + n
  BY <1>2, <1>3, <1>4
<1> QED
  BY <1>5

LEMMA DeltasOfOne ==
  ASSUME NEW s
  PROVE  /\ s.delta \in Nat => Total(Deltas(<<s>>)) = s.delta
         /\ s.cpuDelta \in Nat => Total(CpuDeltas(<<s>>)) = s.cpuDelta
<1>1. Deltas(<<s>>) = <<s.delta>> /\ CpuDeltas(<<s>>) = <<s.cpuDelta>>
  BY DEF Deltas, CpuDeltas
<1> QED
  BY <1>1, OfOne

LEMMA DeltasOfNone == Total(Deltas(<<>>)) = 0 /\ Total(CpuDeltas(<<>>)) = 0
<1>1. Deltas(<<>>) = <<>> /\ CpuDeltas(<<>>) = <<>>
  BY DEF Deltas, CpuDeltas
<1> QED
  BY <1>1, TotalEmpty

LEMMA DeltasOfTwo ==
  ASSUME NEW s, NEW r, s.delta \in Nat, r.delta \in Nat
  PROVE  Total(Deltas(<<s, r>>)) = s.delta + r.delta
<1>1. Deltas(<<s, r>>) = Append(<<s.delta>>, r.delta) /\ <<s.delta>> \in Seq(Nat)
  BY DEF Deltas
<1> QED
  BY <1>1, TotalAppend, OfOne

LEMMA Joined ==
  ASSUME NEW a, NEW b, NEW c
  PROVE  /\ <<a>> \o <<b>> = <<a, b>>
         /\ (<<a>> \o <<b>>) \o <<c>> = <<a, b, c>>
         /\ (<<a>> \o <<>>) \o <<b>> = <<a, b>>
         /\ (<<a>> \o <<b>>) \o <<>> = <<a, b>>
<1>1. <<a>> \o <<b>> = Append(<<a>>, b)
  OBVIOUS
<1>2. <<a, b>> = Append(<<a>>, b)
  OBVIOUS
<1>3. <<a, b>> \o <<c>> = Append(<<a, b>>, c)
  OBVIOUS
<1>4. <<a, b, c>> = Append(<<a, b>>, c)
  OBVIOUS
<1>5. <<a>> \o <<>> = <<a>>
  OBVIOUS
<1>6. <<a, b>> \o <<>> = <<a, b>>
  OBVIOUS
<1>7. <<a>> \o <<b>> = <<a, b>>
  BY <1>1, <1>2, Zenon
<1>8. <<a, b>> \o <<c>> = <<a, b, c>>
  BY <1>3, <1>4, Zenon
<1> QED
  BY <1>5, <1>6, <1>7, <1>8, Zenon

\* consume_sample shows the whole cpu delta of s, once, and in the order of time.
LEMMA ConsumeOne ==
  ASSUME NEW s \in Pending, WellMade(s), NEW u \in Nat
  PROVE  LET out == consume_sample(s, u)
         IN  /\ out \in Seq(Item)
             /\ \A i \in 1 .. Len(out) : Shows(out[i], s, u)
             /\ InOrder(out)
             /\ Total(Deltas(out)) = s.delta
<1> DEFINE g  == s.group
           a  == Sample(g.begin, u, FALSE, s.delta, s)
           b  == Sample(g.end, u, FALSE, 0, s)
           c  == Sample(s.ts, u, s.kernel, s.delta, s)
           c0 == Sample(s.ts, u, s.kernel, 0, s)
           out == consume_sample(s, u)
<1>0. /\ s.ts \in Nat /\ s.delta \in Nat /\ s.kernel \in BOOLEAN /\ s.on \in BOOLEAN
      /\ g.begin \in Int /\ g.end \in Int /\ g.count \in Nat
  BY DEF Pending, OffCpuSampleGroup
<1>1. /\ a \in Item /\ b \in Item /\ c \in Item /\ c0 \in Item
      /\ a.delta = s.delta /\ b.delta = 0 /\ c.delta = s.delta /\ c0.delta = 0
      /\ a.time = g.begin /\ b.time = g.end /\ c.time = s.ts /\ c0.time = s.ts
  BY <1>0 DEF Item, Sample
<1>2. s.group # NoGroup => Shows(a, s, u) /\ Shows(b, s, u) /\ (s.on => Shows(c0, s, u))
  BY <1>0 DEF Shows, Sample, FirstTime, WellMade
<1>3. s.group = NoGroup => s.on /\ Shows(c, s, u)
  BY <1>0 DEF Shows, Sample, FirstTime, WellMade
<1>4. CASE g = NoGroup
  <2>1. out = <<c>>
    BY <1>3, <1>4 DEF consume_sample, OffCpuSamples
  <2> HIDE DEF a, b, c, c0, g, out
  <2>2. Total(Deltas(<<c>>)) = s.delta
    BY <1>0, <1>1, DeltasOfOne
  <2> QED
    BY <1>1, <1>3, <1>4, <2>1, <2>2 DEF InOrder, g, out
<1>5. CASE g # NoGroup /\ g.count > 1 /\ s.on
  <2>1. out = <<a, b, c0>>
    <3>1. OffCpuSamples(s, u) = <<a>> \o <<b>>
      BY <1>5 DEF OffCpuSamples
    <3>2. out = OffCpuSamples(s, u) \o <<c0>>
      BY <1>5 DEF consume_sample
    <3>3. (<<a>> \o <<b>>) \o <<c0>> = <<a, b, c0>>
      BY Joined
    <3> HIDE DEF a, b, c0, out
    <3> QED
      BY <3>1, <3>2, <3>3
  <2>2. g.begin <= g.end /\ g.end <= s.ts
    BY <1>5 DEF WellMade
  <2> HIDE DEF a, b, c, c0, g, out
  <2>3. Total(Deltas(<<a, b, c0>>)) = s.delta
    <3>1. <<a, b, c0>> = <<a, b>> \o <<c0>> /\ <<a, b>> \in Seq(Item) /\ <<c0>> \in Seq(Item)
      BY <1>1
    <3>2. \A e \in Item : e.delta \in Nat
      BY DEF Item
    <3>3. Total(Deltas(<<a, b, c0>>)) = Total(Deltas(<<a, b>>)) + Total(Deltas(<<c0>>))
      BY <3>1, <3>2, DeltasConcat
    <3>4. Total(Deltas(<<a, b>>)) = a.delta + b.delta /\ Total(Deltas(<<c0>>)) = c0.delta
      BY <1>0, <1>1, DeltasOfOne, DeltasOfTwo
    <3> QED
      BY <1>0, <1>1, <3>3, <3>4
  <2>4. Shows(a, s, u) /\ Shows(b, s, u) /\ Shows(c0, s, u)
    BY <1>2, <1>5 DEF g
  <2>5. \A i \in 1 .. 3 : Shows(<<a, b, c0>>[i], s, u)
    BY <2>4
  <2>6. InOrder(<<a, b, c0>>)
    BY <1>0, <1>1, <2>2 DEF InOrder
  <2>7. <<a, b, c0>> \in Seq(Item) /\ Len(<<a, b, c0>>) = 3
    BY <1>1
  <2> QED
    BY <2>1, <2>3, <2>5, <2>6, <2>7 DEF out
<1>6. CASE g # NoGroup /\ g.count > 1 /\ ~s.on
  <2>1. out = <<a, b>>
    <3>1. OffCpuSamples(s, u) = <<a>> \o <<b>>
      BY <1>6 DEF OffCpuSamples
    <3>2. out = OffCpuSamples(s, u) \o <<>>
      BY <1>6 DEF consume_sample
    <3> HIDE DEF a, b, c0, out
    <3> QED
      BY <3>1, <3>2, Joined, Zenon
  <2>2. g.begin <= g.end
    BY <1>6 DEF WellMade
  <2> HIDE DEF a, b, c, c0, g, out
  <2>3. Total(Deltas(<<a, b>>)) = s.delta
    BY <1>0, <1>1, DeltasOfTwo
  <2>4. \A i \in 1 .. 2 : Shows(<<a, b>>[i], s, u)
    BY <1>2, <1>6 DEF g
  <2>5. InOrder(<<a, b>>)
    BY <1>0, <1>1, <2>2 DEF InOrder
  <2>6. <<a, b>> \in Seq(Item) /\ Len(<<a, b>>) = 2
    BY <1>1
  <2> QED
    BY <2>1, <2>3, <2>4, <2>5, <2>6 DEF out
<1>7. CASE g # NoGroup /\ ~(g.count > 1) /\ s.on
  <2>1. out = <<a, c0>>
    <3>1. OffCpuSamples(s, u) = <<a>> \o <<>>
      BY <1>7 DEF OffCpuSamples
    <3>2. out = OffCpuSamples(s, u) \o <<c0>>
      BY <1>7 DEF consume_sample
    <3> HIDE DEF a, b, c0, out
    <3> QED
      BY <3>1, <3>2, Joined, Zenon
  <2>2. g.begin <= s.ts
    BY <1>0, <1>7 DEF WellMade
  <2> HIDE DEF a, b, c, c0, g, out
  <2>3. Total(Deltas(<<a, c0>>)) = s.delta
    BY <1>0, <1>1, DeltasOfTwo
  <2>4. \A i \in 1 .. 2 : Shows(<<a, c0>>[i], s, u)
    BY <1>2, <1>7 DEF g
  <2>5. InOrder(<<a, c0>>)
    BY <1>0, <1>1, <2>2 DEF InOrder
  <2>6. <<a, c0>> \in Seq(Item) /\ Len(<<a, c0>>) = 2
    BY <1>1
  <2> QED
    BY <2>1, <2>3, <2>4, <2>5, <2>6 DEF out
<1>8. CASE g # NoGroup /\ ~(g.count > 1) /\ ~s.on
  <2>1. out = <<a>>
    <3>1. OffCpuSamples(s, u) = <<a>> \o <<>>
      BY <1>8 DEF OffCpuSamples
    <3>2. out = OffCpuSamples(s, u) \o <<>>
      BY <1>8 DEF consume_sample
    <3> HIDE DEF a, b, c0, out
    <3> QED
      BY <3>1, <3>2
  <2> HIDE DEF a, b, c, c0, g, out
  <2>2. Total(Deltas(<<a>>)) = s.delta
    BY <1>0, <1>1, DeltasOfOne
  <2> QED
    BY <1>1, <1>2, <1>8, <2>1, <2>2 DEF InOrder, g, out
<1> QED
  BY <1>4, <1>5, <1>6, <1>7, <1>8

\* consume_sample on the track of the CPU.
LEMMA ConsumeOneCpu ==
  ASSUME NEW s \in Pending, WellMade(s), NEW u \in Nat
  PROVE  LET out == consume_sample_cpu(s, u)
         IN  /\ out \in Seq(Item)
             /\ \A i \in 1 .. Len(out) : Shows(out[i], s, u)
             /\ Total(Deltas(out)) = s.cpuDelta
<1> DEFINE c == Sample(s.ts, u, s.kernel, s.cpuDelta, s)
           out == consume_sample_cpu(s, u)
<1>0. /\ s.ts \in Nat /\ s.cpuDelta \in Nat /\ s.kernel \in BOOLEAN /\ s.on \in BOOLEAN
      /\ s.group.begin \in Int /\ s.group.end \in Int
  BY DEF Pending, OffCpuSampleGroup
<1>1. c \in Item /\ c.delta = s.cpuDelta
  BY <1>0 DEF Item, Sample
<1>2. s.on => Shows(c, s, u)
  BY <1>0 DEF Shows, Sample, FirstTime, WellMade
<1>3. CASE s.on
  <2>1. out = <<c>>
    BY <1>3 DEF consume_sample_cpu
  <2> HIDE DEF c, out
  <2>2. Total(Deltas(<<c>>)) = s.cpuDelta
    BY <1>0, <1>1, DeltasOfOne
  <2> QED
    BY <1>1, <1>2, <1>3, <2>1, <2>2 DEF out
<1>4. CASE ~s.on
  <2>1. out = <<>>
    BY <1>4 DEF consume_sample_cpu
  <2>2. s.cpuDelta = 0
    BY <1>4 DEF WellMade
  <2> HIDE DEF out
  <2> QED
    BY <2>1, <2>2, DeltasOfNone DEF out
<1> QED
  BY <1>3, <1>4

\* A queue that is not empty ends with a sample x.
LEMMA QueueEnds ==
  ASSUME NEW q \in Seq(Pending), q # <<>>, \A i \in 1 .. Len(q) : WellMade(q[i])
  PROVE  \E f \in Seq(Pending), x \in Pending :
           /\ q = Append(f, x) /\ Len(q) = Len(f) + 1 /\ q[Len(q)] = x /\ WellMade(x)
           /\ \A i \in 1 .. Len(f) : q[i] = f[i] /\ WellMade(f[i])
           /\ Chained(q) => Chained(f) /\ \A i \in 1 .. Len(f) : f[i].ts <= FirstTime(x)
<1>0. PICK f \in Seq(Pending), x \in Pending : q = Append(f, x) /\ Len(q) = Len(f) + 1
  BY FrontAndLast
<1>1. q[Len(q)] = x /\ \A i \in 1 .. Len(f) : q[i] = f[i]
  BY <1>0
<1>2. Len(q) \in 1 .. Len(q) /\ \A i \in 1 .. Len(f) : i \in 1 .. Len(q) /\ i < Len(q)
  BY <1>0
<1>3. WellMade(x) /\ \A i \in 1 .. Len(f) : WellMade(f[i])
  BY <1>1, <1>2
<1>4. ASSUME Chained(q) PROVE Chained(f) /\ \A i \in 1 .. Len(f) : f[i].ts <= FirstTime(x)
  <2>1. \A i, j \in 1 .. Len(q) : i < j => q[i].ts <= FirstTime(q[j])
    BY <1>4 DEF Chained
  <2>2. \A i \in 1 .. Len(f) : f[i].ts <= FirstTime(x)
    BY <1>1, <1>2, <2>1
  <2>3. Chained(f)
    BY <1>1, <1>2, <2>1 DEF Chained
  <2> QED
    BY <2>2, <2>3
<1> QED
  BY <1>0, <1>1, <1>3, <1>4

\* What a queue shows on the track of its thread: nothing is lost, nothing is added,
\* and the order of the queue is that of the samples.
ShownOnThread(q, u) ==
  LET out == ConsumeAll(q, u).thread
  IN  /\ out \in Seq(Item)
      /\ [i \in DOMAIN q |-> consume_sample(q[i], u)] \in Seq(Seq(Item))
      /\ \A i \in 1 .. Len(out) : \E j \in 1 .. Len(q) : Shows(out[i], q[j], u)
      /\ Chained(q) => InOrder(out)
      /\ Total(Deltas(out)) = Total(Deltas(q))

\* What consuming a whole queue adds to the track of the thread.
LEMMA ThreadShows ==
  ASSUME NEW q \in Seq(Pending), \A i \in 1 .. Len(q) : WellMade(q[i]), NEW u \in Nat
  PROVE  ShownOnThread(q, u)
<1> DEFINE Bad(h) == (\A i \in 1 .. Len(h) : WellMade(h[i])) /\ ~ShownOnThread(h, u)
<1>1. SUFFICES ASSUME Bad(q) PROVE FALSE
  OBVIOUS
<1>2. PICK N : N = {n \in Nat : \E h \in Seq(Pending) : Len(h) = n /\ Bad(h)}
  OBVIOUS
<1>3. Len(q) \in N /\ N \subseteq Nat
  BY <1>1, <1>2
<1>4. PICK n \in N : \A m \in N : n <= m
  BY <1>3, HasLeast
<1>5. PICK h \in Seq(Pending) : Len(h) = n /\ Bad(h)
  BY <1>2, <1>4
<1>6. ASSUME h = <<>> PROVE FALSE
  <2>1. [i \in DOMAIN h |-> consume_sample(h[i], u)] = <<>>
    BY <1>6
  <2>2. ConsumeAll(h, u).thread = <<>>
    BY <2>1, FlattenEmpty DEF ConsumeAll
  <2>3. /\ <<>> \in Seq(Item) /\ <<>> \in Seq(Seq(Item))
        /\ \A i \in 1 .. Len(<<>>) : FALSE
    OBVIOUS
  <2>4. InOrder(<<>>)
    BY <2>3 DEF InOrder
  <2>5. ShownOnThread(h, u)
    BY <1>6, <2>1, <2>2, <2>3, <2>4, Zenon DEF ShownOnThread
  <2> QED
    BY <1>5, <2>5
<1>7. \A i \in 1 .. Len(h) : WellMade(h[i])
  BY <1>5
<1>8. PICK f \in Seq(Pending), x \in Pending :
        /\ h = Append(f, x) /\ Len(h) = Len(f) + 1 /\ h[Len(h)] = x /\ WellMade(x)
        /\ \A i \in 1 .. Len(f) : h[i] = f[i] /\ WellMade(f[i])
        /\ Chained(h) => Chained(f) /\ \A i \in 1 .. Len(f) : f[i].ts <= FirstTime(x)
  BY <1>6, <1>7, QueueEnds
<1>9. ShownOnThread(f, u)
  <2>1. Len(f) \in Nat /\ Len(f) < n
    BY <1>5, <1>8
  <2>2. Len(f) \notin N
    BY <1>3, <1>4, <2>1
  <2> QED
    BY <1>2, <1>8, <2>1, <2>2
<1> DEFINE each(s) == [i \in DOMAIN s |-> consume_sample(s[i], u)]
           c == consume_sample(x, u)
           a == ConsumeAll(f, u).thread
           b == ConsumeAll(h, u).thread
<1>10. /\ c \in Seq(Item) /\ InOrder(c) /\ Total(Deltas(c)) = x.delta
       /\ \A i \in 1 .. Len(c) : Shows(c[i], x, u)
  BY <1>8, ConsumeOne
<1> HIDE DEF c
<1>11. each(h) = Append(each(f), c) /\ each(f) \in Seq(Seq(Item))
  <2>1. each(f) \in Seq(Seq(Item))
    BY <1>9 DEF ShownOnThread
  <2>2. DOMAIN h = 1 .. Len(f) + 1 /\ DOMAIN f = 1 .. Len(f) /\ Len(each(f)) = Len(f)
    BY <1>8
  <2>3. \A i \in 1 .. Len(f) + 1 : each(h)[i] = Append(each(f), c)[i]
    <3>1. ASSUME NEW i \in 1 .. Len(f) PROVE each(h)[i] = Append(each(f), c)[i]
      BY <1>8, <2>1, <2>2
    <3>2. each(h)[Len(f) + 1] = c
      BY <1>8, <2>2 DEF c
    <3>3. Append(each(f), c)[Len(f) + 1] = c
      BY <2>1, <2>2
    <3>4. \A i \in 1 .. Len(f) + 1 : i \in 1 .. Len(f) \/ i = Len(f) + 1
      OBVIOUS
    <3> QED
      BY <3>1, <3>2, <3>3, <3>4, Zenon
  <2>4. PICK e \in Seq(Seq(Item)) : e = Append(each(f), c) /\ Len(e) = Len(f) + 1
    <3> HIDE DEF each
    <3>1. Append(each(f), c) \in Seq(Seq(Item)) /\ Len(Append(each(f), c)) = Len(each(f)) + 1
      BY <1>10, <2>1
    <3> QED
      BY <2>2, <3>1
  <2>5. e = [i \in 1 .. Len(f) + 1 |-> e[i]]
    BY <2>4
  <2>6. each(h) = [i \in 1 .. Len(f) + 1 |-> each(h)[i]]
    BY <2>2
  <2>7. each(h) = e
    BY <2>3, <2>4, <2>5, <2>6, Zenon
  <2> QED
    BY <2>1, <2>4, <2>7
<1>12. b = a \o c /\ a \in Seq(Item)
  <2>1. b = FlattenSeq(each(h)) /\ a = FlattenSeq(each(f))
    BY DEF ConsumeAll
  <2>2. a \in Seq(Item)
    BY <1>9 DEF ShownOnThread
  <2> HIDE DEF each, a, b
  <2> QED
    BY <1>10, <1>11, <2>1, <2>2, FlattenAppend
<1>13. each(h) \in Seq(Seq(Item))
  <2> HIDE DEF each
  <2> QED
    BY <1>10, <1>11
<1>14. /\ \A i \in 1 .. Len(a) : \E j \in 1 .. Len(f) : Shows(a[i], f[j], u)
       /\ Chained(f) => InOrder(a)
       /\ Total(Deltas(a)) = Total(Deltas(f))
  BY <1>9 DEF ShownOnThread
<1> HIDE DEF a, b
<1>15. ASSUME NEW i \in 1 .. Len(b) PROVE \E j \in 1 .. Len(h) : Shows(b[i], h[j], u)
  <2>1. CASE i <= Len(a)
    <3>1. i \in 1 .. Len(a) /\ b[i] = a[i]
      BY <1>10, <1>12, <2>1
    <3>2. PICK j \in 1 .. Len(f) : Shows(a[i], f[j], u)
      BY <1>14, <3>1
    <3>3. j \in 1 .. Len(h) /\ h[j] = f[j]
      BY <1>8
    <3> QED
      BY <3>1, <3>2, <3>3
  <2>2. CASE i > Len(a)
    <3>1. i - Len(a) \in 1 .. Len(c) /\ b[i] = c[i - Len(a)]
      BY <1>10, <1>12, <2>2
    <3>2. Shows(b[i], x, u)
      BY <1>10, <3>1
    <3>3. Len(h) \in 1 .. Len(h) /\ h[Len(h)] = x
      BY <1>8
    <3> QED
      BY <3>2, <3>3
  <2> QED
    BY <1>12, <2>1, <2>2
<1>16. ASSUME Chained(h) PROVE InOrder(b)
  <2>1. InOrder(a) /\ \A i \in 1 .. Len(f) : f[i].ts <= FirstTime(x)
    BY <1>8, <1>14, <1>16
  <2>0. /\ \A i \in 1 .. Len(a) : a[i].time \in Int
        /\ \A i \in 1 .. Len(c) : c[i].time \in Int
        /\ FirstTime(x) \in Int /\ \A i \in 1 .. Len(f) : f[i].ts \in Int
    <3>1. \A e \in Item : e.time \in Int
      BY DEF Item
    <3>2. \A e \in Pending : e.ts \in Int /\ FirstTime(e) \in Int
      BY DEF Pending, OffCpuSampleGroup, FirstTime
    <3> QED
      BY <1>10, <1>12, <3>1, <3>2
  <2>2. ASSUME NEW i \in 1 .. Len(a), NEW j \in 1 .. Len(c) PROVE a[i].time <= c[j].time
    <3>1. PICK k \in 1 .. Len(f) : Shows(a[i], f[k], u)
      BY <1>14
    <3>2. a[i].time <= f[k].ts /\ FirstTime(x) <= c[j].time
      BY <1>10, <3>1 DEF Shows
    <3>3. f[k].ts <= FirstTime(x)
      BY <2>1
    <3> QED
      BY <2>0, <3>2, <3>3
  <2>3. ASSUME NEW i \in 1 .. Len(b), NEW j \in 1 .. Len(b), i < j
        PROVE  b[i].time <= b[j].time
    <3>1. /\ i <= Len(a) => i \in 1 .. Len(a) /\ b[i] = a[i]
          /\ j <= Len(a) => j \in 1 .. Len(a) /\ b[j] = a[j]
          /\ i > Len(a) => i - Len(a) \in 1 .. Len(c) /\ b[i] = c[i - Len(a)]
          /\ j > Len(a) => j - Len(a) \in 1 .. Len(c) /\ b[j] = c[j - Len(a)]
      BY <1>10, <1>12
    <3>2. CASE j <= Len(a)
      BY <1>12, <2>1, <2>3, <3>1, <3>2 DEF InOrder
    <3>3. CASE i <= Len(a) /\ j > Len(a)
      BY <2>2, <3>1, <3>3
    <3>4. CASE i > Len(a)
      <4>1. i - Len(a) \in 1 .. Len(c) /\ b[i] = c[i - Len(a)]
        BY <3>1, <3>4
      <4>2. j - Len(a) \in 1 .. Len(c) /\ b[j] = c[j - Len(a)] /\ i - Len(a) < j - Len(a)
        BY <1>12, <2>3, <3>1, <3>4
      <4> QED
        BY <1>10, <4>1, <4>2 DEF InOrder
    <3> QED
      BY <1>12, <3>2, <3>3, <3>4
  <2> QED
    BY <2>3 DEF InOrder
<1>17. Total(Deltas(b)) = Total(Deltas(h))
  <2>1. \A e \in Item : e.delta \in Nat
    BY DEF Item
  <2>2. Total(Deltas(b)) = Total(Deltas(a)) + Total(Deltas(c))
    BY <1>10, <1>12, <2>1, DeltasConcat
  <2>3. \A e \in Pending : e.delta \in Nat
    BY DEF Pending
  <2>4. h = f \o <<x>> /\ <<x>> \in Seq(Pending)
    BY <1>8
  <2>5. Total(Deltas(h)) = Total(Deltas(f)) + Total(Deltas(<<x>>))
    BY <2>3, <2>4, DeltasConcat
  <2>6. Total(Deltas(<<x>>)) = x.delta
    BY <2>3, DeltasOfOne
  <2> QED
    BY <1>10, <1>14, <2>2, <2>5, <2>6
<1>18. ShownOnThread(h, u)
  <2>1. b \in Seq(Item)
    BY <1>10, <1>12
  <2> QED
    BY <1>13, <1>15, <1>16, <1>17, <2>1 DEF ShownOnThread, b
<1> QED
  BY <1>5, <1>18

\* What it shows on the track of the CPU; there the order is not that of the queue.
ShownOnCpu(q, u) ==
  LET out == ConsumeAll(q, u).cpu
  IN  /\ out \in Seq(Item)
      /\ [i \in DOMAIN q |-> consume_sample_cpu(q[i], u)] \in Seq(Seq(Item))
      /\ \A i \in 1 .. Len(out) : \E j \in 1 .. Len(q) : Shows(out[i], q[j], u)
      /\ Total(Deltas(out)) = Total(CpuDeltas(q))

\* And to the track of the CPU.
LEMMA CpuShows ==
  ASSUME NEW q \in Seq(Pending), \A i \in 1 .. Len(q) : WellMade(q[i]), NEW u \in Nat
  PROVE  ShownOnCpu(q, u)
<1> DEFINE Bad(h) == (\A i \in 1 .. Len(h) : WellMade(h[i])) /\ ~ShownOnCpu(h, u)
<1>1. SUFFICES ASSUME Bad(q) PROVE FALSE
  OBVIOUS
<1>2. PICK N : N = {n \in Nat : \E h \in Seq(Pending) : Len(h) = n /\ Bad(h)}
  OBVIOUS
<1>3. Len(q) \in N /\ N \subseteq Nat
  BY <1>1, <1>2
<1>4. PICK n \in N : \A m \in N : n <= m
  BY <1>3, HasLeast
<1>5. PICK h \in Seq(Pending) : Len(h) = n /\ Bad(h)
  BY <1>2, <1>4
<1>6. ASSUME h = <<>> PROVE FALSE
  <2>1. [i \in DOMAIN h |-> consume_sample_cpu(h[i], u)] = <<>>
    BY <1>6
  <2>2. ConsumeAll(h, u).cpu = <<>>
    BY <2>1, FlattenEmpty DEF ConsumeAll
  <2>3. /\ <<>> \in Seq(Item) /\ <<>> \in Seq(Seq(Item))
        /\ \A i \in 1 .. Len(<<>>) : FALSE
    OBVIOUS
  <2>4. ShownOnCpu(h, u)
    BY <1>6, <2>1, <2>2, <2>3, DeltasOfNone, Zenon DEF ShownOnCpu
  <2> QED
    BY <1>5, <2>4
<1>7. \A i \in 1 .. Len(h) : WellMade(h[i])
  BY <1>5
<1>8. PICK f \in Seq(Pending), x \in Pending :
        /\ h = Append(f, x) /\ Len(h) = Len(f) + 1 /\ h[Len(h)] = x /\ WellMade(x)
        /\ \A i \in 1 .. Len(f) : h[i] = f[i] /\ WellMade(f[i])
  BY <1>6, <1>7, QueueEnds
<1>9. ShownOnCpu(f, u)
  <2>1. Len(f) \in Nat /\ Len(f) < n
    BY <1>5, <1>8
  <2>2. Len(f) \notin N
    BY <1>3, <1>4, <2>1
  <2> QED
    BY <1>2, <1>8, <2>1, <2>2
<1> DEFINE each(s) == [i \in DOMAIN s |-> consume_sample_cpu(s[i], u)]
           c == consume_sample_cpu(x, u)
           a == ConsumeAll(f, u).cpu
           b == ConsumeAll(h, u).cpu
<1>10. /\ c \in Seq(Item) /\ Total(Deltas(c)) = x.cpuDelta
       /\ \A i \in 1 .. Len(c) : Shows(c[i], x, u)
  BY <1>8, ConsumeOneCpu
<1> HIDE DEF c
<1>11. each(h) = Append(each(f), c) /\ each(f) \in Seq(Seq(Item))
  <2>1. each(f) \in Seq(Seq(Item))
    BY <1>9 DEF ShownOnCpu
  <2>2. DOMAIN h = 1 .. Len(f) + 1 /\ DOMAIN f = 1 .. Len(f) /\ Len(each(f)) = Len(f)
    BY <1>8
  <2>3. \A i \in 1 .. Len(f) + 1 : each(h)[i] = Append(each(f), c)[i]
    <3>1. ASSUME NEW i \in 1 .. Len(f) PROVE each(h)[i] = Append(each(f), c)[i]
      BY <1>8, <2>1, <2>2
    <3>2. each(h)[Len(f) + 1] = c
      BY <1>8, <2>2 DEF c
    <3>3. Append(each(f), c)[Len(f) + 1] = c
      BY <2>1, <2>2
    <3>4. \A i \in 1 .. Len(f) + 1 : i \in 1 .. Len(f) \/ i = Len(f) + 1
      OBVIOUS
    <3> QED
      BY <3>1, <3>2, <3>3, <3>4, Zenon
  <2>4. PICK e \in Seq(Seq(Item)) : e = Append(each(f), c) /\ Len(e) = Len(f) + 1
    <3> HIDE DEF each
    <3>1. Append(each(f), c) \in Seq(Seq(Item)) /\ Len(Append(each(f), c)) = Len(each(f)) + 1
      BY <1>10, <2>1
    <3> QED
      BY <2>2, <3>1
  <2>5. e = [i \in 1 .. Len(f) + 1 |-> e[i]]
    BY <2>4
  <2>6. each(h) = [i \in 1 .. Len(f) + 1 |-> each(h)[i]]
    BY <2>2
  <2>7. each(h) = e
    BY <2>3, <2>4, <2>5, <2>6, Zenon
  <2> QED
    BY <2>1, <2>4, <2>7
<1>12. b = a \o c /\ a \in Seq(Item)
  <2>1. b = FlattenSeq(each(h)) /\ a = FlattenSeq(each(f))
    BY DEF ConsumeAll
  <2>2. a \in Seq(Item)
    BY <1>9 DEF ShownOnCpu
  <2> HIDE DEF each, a, b
  <2> QED
    BY <1>10, <1>11, <2>1, <2>2, FlattenAppend
<1>13. each(h) \in Seq(Seq(Item))
  <2> HIDE DEF each
  <2> QED
    BY <1>10, <1>11
<1>14. /\ \A i \in 1 .. Len(a) : \E j \in 1 .. Len(f) : Shows(a[i], f[j], u)
       /\ Total(Deltas(a)) = Total(CpuDeltas(f))
  BY <1>9 DEF ShownOnCpu
<1> HIDE DEF a, b
<1>15. ASSUME NEW i \in 1 .. Len(b) PROVE \E j \in 1 .. Len(h) : Shows(b[i], h[j], u)
  <2>1. CASE i <= Len(a)
    <3>1. i \in 1 .. Len(a) /\ b[i] = a[i]
      BY <1>10, <1>12, <2>1
    <3>2. PICK j \in 1 .. Len(f) : Shows(a[i], f[j], u)
      BY <1>14, <3>1
    <3>3. j \in 1 .. Len(h) /\ h[j] = f[j]
      BY <1>8
    <3> QED
      BY <3>1, <3>2, <3>3
  <2>2. CASE i > Len(a)
    <3>1. i - Len(a) \in 1 .. Len(c) /\ b[i] = c[i - Len(a)]
      BY <1>10, <1>12, <2>2
    <3>2. Shows(b[i], x, u)
      BY <1>10, <3>1
    <3>3. Len(h) \in 1 .. Len(h) /\ h[Len(h)] = x
      BY <1>8
    <3> QED
      BY <3>2, <3>3
  <2> QED
    BY <1>12, <2>1, <2>2
<1>16. Total(Deltas(b)) = Total(CpuDeltas(h))
  <2>1. \A e \in Item : e.delta \in Nat
    BY DEF Item
  <2>2. Total(Deltas(b)) = Total(Deltas(a)) + Total(Deltas(c))
    BY <1>10, <1>12, <2>1, DeltasConcat
  <2>3. \A e \in Pending : e.cpuDelta \in Nat
    BY DEF Pending
  <2>4. h = f \o <<x>> /\ <<x>> \in Seq(Pending)
    BY <1>8
  <2>5. Total(CpuDeltas(h)) = Total(CpuDeltas(f)) + Total(CpuDeltas(<<x>>))
    BY <2>4, CpuDeltasConcat
  <2>6. Total(CpuDeltas(<<x>>)) = x.cpuDelta
    BY <2>3, DeltasOfOne
  <2> QED
    BY <1>10, <1>14, <2>2, <2>5, <2>6
<1>17. ShownOnCpu(h, u)
  <2>1. b \in Seq(Item)
    BY <1>10, <1>12
  <2> QED
    BY <1>13, <1>15, <1>16, <2>1 DEF ShownOnCpu, b
<1> QED
  BY <1>5, <1>17

-----------------------------------------------------------------------------
(* Places in a queue                                                       *)

\* A bounded set of natural numbers has a greatest element.
LEMMA HasGreatest ==
  ASSUME NEW n \in Nat, NEW T, T \subseteq 1 .. n, T # {}
  PROVE  \E x \in T : \A y \in T : x >= y
<1>1. PICK D : D = {n - x : x \in T}
  OBVIOUS
<1>2. D \subseteq Nat /\ D # {}
  <2>1. \A x \in T : n - x \in Nat
    OBVIOUS
  <2> QED
    BY <1>1, <2>1
<1>3. PICK d \in D : \A e \in D : d <= e
  BY <1>2, HasLeast
<1>4. PICK x \in T : d = n - x
  BY <1>1, <1>3
<1>5. ASSUME NEW y \in T PROVE x >= y
  <2>1. n - y \in D /\ x \in Nat /\ y \in Nat
    BY <1>1
  <2> QED
    BY <1>3, <1>4, <2>1
<1> QED
  BY <1>5

\* LastAt finds a sample of this time, if there is one.
LEMMA LastAtFacts ==
  ASSUME NEW q \in Seq(Pending), NEW ts
  PROVE  LET i == LastAt(q, ts)
         IN  /\ i \in 0 .. Len(q)
             /\ i # 0 => q[i].ts = ts
             /\ i = 0 => \A j \in 1 .. Len(q) : q[j].ts # ts
<1> DEFINE I == {i \in 1 .. Len(q) : q[i].ts = ts}
<1>1. LastAt(q, ts) = IF I # {} THEN Max(I) ELSE 0
  BY DEF LastAt, SelectLastInSeq
<1>2. Len(q) \in Nat /\ I \subseteq 1 .. Len(q)
  OBVIOUS
<1>3. ASSUME I # {} PROVE Max(I) \in I
  <2>1. \E x \in I : \A y \in I : x >= y
    <3> HIDE DEF I
    <3> QED
      BY <1>2, <1>3, HasGreatest
  <2> QED
    BY <2>1 DEF Max
<1>4. CASE I # {}
  BY <1>1, <1>2, <1>3, <1>4
<1>5. CASE I = {}
  BY <1>1, <1>2, <1>5
<1> QED
  BY <1>4, <1>5

\* SamplesUntil counts the samples of the queue before the first that is later than ts.
LEMMA SamplesUntilFacts ==
  ASSUME NEW q \in Seq(Pending), NEW ts \in Int
  PROVE  LET n == SamplesUntil(q, ts)
         IN  /\ n \in 0 .. Len(q)
             /\ \A j \in 1 .. n : q[j].ts <= ts
             /\ n # Len(q) => n + 1 \in 1 .. Len(q) /\ q[n + 1].ts > ts
<1> DEFINE I == {i \in 1 .. Len(q) : q[i].ts > ts}
           n == SamplesUntil(q, ts)
<1>0. \A i \in 1 .. Len(q) : q[i].ts \in Int
  <2>1. \A e \in Pending : e.ts \in Int
    BY DEF Pending
  <2> QED
    BY <2>1
<1>1. CASE I # {}
  <2>1. I \subseteq Nat
    OBVIOUS
  <2>2. \E x \in I : \A y \in I : x <= y
    <3> HIDE DEF I
    <3> QED
      BY <1>1, <2>1, HasLeast
  <2>3. PICK m : m = Min(I)
    OBVIOUS
  <2>4. m \in I /\ \A y \in I : m <= y
    BY <2>2, <2>3 DEF Min
  <2>5. m \in 1 .. Len(q) /\ q[m].ts > ts
    BY <2>4
  <2>6. SelectInSeq(q, LAMBDA s : s.ts > ts) = m
    BY <1>1, <2>3 DEF SelectInSeq
  <2>7. n = m - 1
    BY <2>5, <2>6 DEF SamplesUntil
  <2>8. \A j \in 1 .. m - 1 : q[j].ts <= ts
    <3>1. ASSUME NEW j \in 1 .. m - 1, q[j].ts > ts PROVE FALSE
      <4>1. j \in I
        BY <2>5, <3>1
      <4> QED
        BY <2>4, <2>5, <4>1
    <3>2. \A j \in 1 .. m - 1 : q[j].ts \in Int
      BY <1>0, <2>5
    <3> QED
      BY <3>1, <3>2
  <2> HIDE DEF n, I
  <2> QED
    BY <2>5, <2>7, <2>8 DEF n
<1>2. CASE I = {}
  <2>1. SelectInSeq(q, LAMBDA s : s.ts > ts) = 0
    BY <1>2 DEF SelectInSeq
  <2>2. n = Len(q)
    BY <2>1 DEF SamplesUntil
  <2>3. \A j \in 1 .. Len(q) : q[j].ts <= ts
    BY <1>0, <1>2
  <2> HIDE DEF n, I
  <2> QED
    BY <2>2, <2>3 DEF n
<1> QED
  BY <1>1, <1>2

\* Sequences are equal if their elements are.
LEMMA SameSeq ==
  ASSUME NEW E, NEW r \in Seq(E), NEW q \in Seq(E), Len(r) = Len(q),
         \A i \in 1 .. Len(q) : r[i] = q[i]
  PROVE  r = q
<1>1. r = [i \in 1 .. Len(q) |-> r[i]] /\ q = [i \in 1 .. Len(q) |-> q[i]]
  OBVIOUS
<1> QED
  BY <1>1

LEMMA PendingDeltas == \A e \in Pending : e.delta \in Nat /\ e.cpuDelta \in Nat
BY DEF Pending

\* A queue that is cut after n samples.
LEMMA CutFacts ==
  ASSUME NEW q \in Seq(Pending), NEW n \in 0 .. Len(q)
  PROVE  LET a == SubSeq(q, 1, n)
             b == SubSeq(q, n + 1, Len(q))
         IN  /\ a \in Seq(Pending) /\ Len(a) = n /\ \A i \in 1 .. n : a[i] = q[i]
             /\ b \in Seq(Pending) /\ Len(b) = Len(q) - n
             /\ \A i \in 1 .. Len(b) : i + n \in 1 .. Len(q) /\ b[i] = q[i + n]
             /\ Total(Deltas(q)) = Total(Deltas(a)) + Total(Deltas(b))
             /\ Total(CpuDeltas(q)) = Total(CpuDeltas(a)) + Total(CpuDeltas(b))
<1> DEFINE a == SubSeq(q, 1, n)
           b == SubSeq(q, n + 1, Len(q))
<1>1. a \in Seq(Pending) /\ Len(a) = n /\ \A i \in 1 .. n : a[i] = q[i]
  OBVIOUS
<1>2. b \in Seq(Pending) /\ Len(b) = Len(q) - n
  OBVIOUS
<1>3. \A i \in 1 .. Len(b) : i + n \in 1 .. Len(q) /\ b[i] = q[i + n]
  BY <1>2
<1> HIDE DEF a, b
<1>4. q = a \o b
  <2>0. a \in Seq(Pending) /\ b \in Seq(Pending) /\ Len(a) + Len(b) = Len(q)
    BY <1>1, <1>2
  <2>a. a \o b \in Seq(Pending) /\ Len(a \o b) = Len(a) + Len(b)
    BY <2>0
  <2>1. PICK r : r = a \o b /\ r \in Seq(Pending) /\ Len(r) = Len(a) + Len(b)
    BY <2>a
  <2>2. Len(r) = Len(q)
    BY <2>0, <2>1
  <2>3. ASSUME NEW i \in 1 .. Len(q) PROVE r[i] = q[i]
    <3>1. CASE i <= n
      BY <1>1, <1>2, <2>1, <3>1
    <3>2. CASE i > n
      <4>1. i - n \in 1 .. Len(b) /\ r[i] = b[i - n] /\ (i - n) + n = i
        BY <1>1, <1>2, <2>1, <3>2
      <4> QED
        BY <1>3, <4>1
    <3> QED
      BY <3>1, <3>2
  <2>4. r = q
    BY <2>1, <2>2, <2>3, SameSeq
  <2> QED
    BY <2>1, <2>4
<1>5. Total(Deltas(a \o b)) = Total(Deltas(a)) + Total(Deltas(b))
  BY <1>1, <1>2, PendingDeltas, DeltasConcat
<1>6. Total(CpuDeltas(a \o b)) = Total(CpuDeltas(a)) + Total(CpuDeltas(b))
  BY <1>1, <1>2, CpuDeltasConcat
<1> QED
  BY <1>1, <1>2, <1>3, <1>4, <1>5, <1>6 DEF a, b

\* A queue from which the sample at i was taken.
LEMMA RemoveFacts ==
  ASSUME NEW q \in Seq(Pending), NEW i \in 1 .. Len(q)
  PROVE  LET r == RemoveAt(q, i)
         IN  /\ r \in Seq(Pending) /\ Len(r) = Len(q) - 1
             /\ \A k \in 1 .. Len(r) : r[k] = q[IF k < i THEN k ELSE k + 1]
             /\ Total(Deltas(q)) = Total(Deltas(r)) + q[i].delta
             /\ Total(CpuDeltas(q)) = Total(CpuDeltas(r)) + q[i].cpuDelta
<1> DEFINE a == SubSeq(q, 1, i - 1)
           b == SubSeq(q, i + 1, Len(q))
           m == SubSeq(q, i, Len(q))
           x == q[i]
           r == RemoveAt(q, i)
<1>0. Len(q) \in Nat /\ i - 1 \in 0 .. Len(q) /\ i \in 0 .. Len(q) /\ (i - 1) + 1 = i /\ x \in Pending
  OBVIOUS
<1>1. /\ a \in Seq(Pending) /\ Len(a) = i - 1 /\ \A k \in 1 .. i - 1 : a[k] = q[k]
      /\ m \in Seq(Pending)
      /\ Total(Deltas(q)) = Total(Deltas(a)) + Total(Deltas(m))
      /\ Total(CpuDeltas(q)) = Total(CpuDeltas(a)) + Total(CpuDeltas(m))
  <2>1. \A n \in 0 .. Len(q) :
          /\ SubSeq(q, 1, n) \in Seq(Pending) /\ Len(SubSeq(q, 1, n)) = n
          /\ \A k \in 1 .. n : SubSeq(q, 1, n)[k] = q[k]
          /\ SubSeq(q, n + 1, Len(q)) \in Seq(Pending)
          /\ Total(Deltas(q)) = Total(Deltas(SubSeq(q, 1, n))) + Total(Deltas(SubSeq(q, n + 1, Len(q))))
          /\ Total(CpuDeltas(q)) = Total(CpuDeltas(SubSeq(q, 1, n)))
                                   + Total(CpuDeltas(SubSeq(q, n + 1, Len(q))))
    BY CutFacts
  <2>2. m = SubSeq(q, (i - 1) + 1, Len(q))
    BY <1>0
  <2> QED
    BY <1>0, <2>1, <2>2
<1>2. /\ b \in Seq(Pending) /\ Len(b) = Len(q) - i
      /\ \A k \in 1 .. Len(b) : k + i \in 1 .. Len(q) /\ b[k] = q[k + i]
  BY <1>0, CutFacts
<1>3. r = a \o b
  BY DEF RemoveAt
<1>4. m = <<x>> \o b
  <2>0. <<x>> \in Seq(Pending) /\ Len(<<x>>) = 1 /\ <<x>>[1] = x
    BY <1>0
  <2>1. <<x>> \o b \in Seq(Pending) /\ Len(<<x>> \o b) = 1 + Len(b)
    BY <1>2, <2>0
  <2>2. Len(m) = 1 + Len(b) /\ Len(b) \in Nat
    BY <1>0, <1>2
  <2>3. ASSUME NEW k \in 1 .. Len(m) PROVE (<<x>> \o b)[k] = m[k]
    <3>1. m[k] = q[k + i - 1]
      BY <1>0, <2>2
    <3>2. CASE k = 1
      BY <1>0, <1>2, <2>0, <3>1, <3>2
    <3>3. CASE k # 1
      <4>1. k - 1 \in 1 .. Len(b) /\ (<<x>> \o b)[k] = b[k - 1] /\ (k - 1) + i = k + i - 1
        BY <1>0, <1>2, <2>0, <2>2, <3>3
      <4> QED
        BY <1>2, <3>1, <4>1
    <3> QED
      BY <3>2, <3>3
  <2> HIDE DEF a, b, m, x, r
  <2>4. Len(<<x>> \o b) = Len(m)
    BY <2>1, <2>2
  <2> QED
    BY <1>1, <2>1, <2>3, <2>4, SameSeq
<1> HIDE DEF a, b, m, x, r
<1>5. r \in Seq(Pending) /\ Len(r) = Len(q) - 1
  <2>0. a \in Seq(Pending) /\ b \in Seq(Pending)
    BY <1>1, <1>2
  <2>1. a \o b \in Seq(Pending) /\ Len(a \o b) = Len(a) + Len(b)
    BY <2>0
  <2> QED
    BY <1>0, <1>1, <1>2, <1>3, <2>1
<1>6. ASSUME NEW k \in 1 .. Len(r) PROVE r[k] = q[IF k < i THEN k ELSE k + 1]
  <2>1. CASE k < i
    BY <1>0, <1>1, <1>2, <1>3, <2>1
  <2>2. CASE ~(k < i)
    <3>1. k - (i - 1) \in 1 .. Len(b) /\ (k - (i - 1)) + i = k + 1
      BY <1>0, <1>2, <1>5, <2>2
    <3>2. (a \o b)[k] = b[k - (i - 1)]
      BY <1>0, <1>1, <1>2, <1>5, <2>2
    <3> QED
      BY <1>2, <1>3, <2>2, <3>1, <3>2
  <2> QED
    BY <2>1, <2>2
<1>7. <<x>> \in Seq(Pending)
  BY <1>0 DEF x
<1>8. /\ Total(Deltas(m)) = x.delta + Total(Deltas(b))
      /\ Total(CpuDeltas(m)) = x.cpuDelta + Total(CpuDeltas(b))
  <2>1. Total(Deltas(<<x>>)) = x.delta /\ Total(CpuDeltas(<<x>>)) = x.cpuDelta
    BY <1>0, PendingDeltas, DeltasOfOne DEF x
  <2>2. Total(Deltas(<<x>> \o b)) = Total(Deltas(<<x>>)) + Total(Deltas(b))
    BY <1>2, <1>7, PendingDeltas, DeltasConcat
  <2>3. Total(CpuDeltas(<<x>> \o b)) = Total(CpuDeltas(<<x>>)) + Total(CpuDeltas(b))
    BY <1>2, <1>7, CpuDeltasConcat
  <2> QED
    BY <1>4, <2>1, <2>2, <2>3
<1>9. /\ Total(Deltas(r)) = Total(Deltas(a)) + Total(Deltas(b))
      /\ Total(CpuDeltas(r)) = Total(CpuDeltas(a)) + Total(CpuDeltas(b))
  BY <1>1, <1>2, <1>3, PendingDeltas, DeltasConcat, CpuDeltasConcat
<1>10. /\ Total(Deltas(a)) \in Nat /\ Total(Deltas(b)) \in Nat
       /\ Total(CpuDeltas(a)) \in Nat /\ Total(CpuDeltas(b)) \in Nat
       /\ x.delta \in Nat /\ x.cpuDelta \in Nat
  <2>1. /\ Deltas(a) \in Seq(Nat) /\ Deltas(b) \in Seq(Nat)
        /\ CpuDeltas(a) \in Seq(Nat) /\ CpuDeltas(b) \in Seq(Nat)
    BY <1>1, <1>2, PendingDeltas, DeltasType, CpuDeltasType
  <2> QED
    BY <1>0, <2>1, TotalType, PendingDeltas DEF x
<1>11. /\ Total(Deltas(q)) = Total(Deltas(r)) + x.delta
       /\ Total(CpuDeltas(q)) = Total(CpuDeltas(r)) + x.cpuDelta
  BY <1>1, <1>8, <1>9, <1>10
<1> QED
  BY <1>5, <1>6, <1>11 DEF r, x

\* The queue after handle_kernel_stack has given a sample its kernel stack.
LEMMA ReplaceFacts ==
  ASSUME NEW q \in Seq(Pending), NEW i \in 1 .. Len(q), NEW s \in Pending,
         s.delta = q[i].delta, s.cpuDelta = q[i].cpuDelta
  PROVE  LET r == ReplaceAt(q, i, s)
         IN  /\ r \in Seq(Pending) /\ Len(r) = Len(q)
             /\ \A k \in 1 .. Len(q) : r[k] = IF k = i THEN s ELSE q[k]
             /\ Deltas(r) = Deltas(q) /\ CpuDeltas(r) = CpuDeltas(q)
<1> DEFINE r == ReplaceAt(q, i, s)
<1>1. /\ r \in Seq(Pending) /\ Len(r) = Len(q)
      /\ \A k \in 1 .. Len(q) : r[k] = IF k = i THEN s ELSE q[k]
  BY DEF ReplaceAt
<1> HIDE DEF r
<1>2. Deltas(r) = Deltas(q) /\ CpuDeltas(r) = CpuDeltas(q)
  BY <1>1 DEF Deltas, CpuDeltas
<1> QED
  BY <1>1, <1>2 DEF r

\* The queue after a sample has been added to it.
LEMMA PushFacts ==
  ASSUME NEW q \in Seq(Pending), NEW s \in Pending
  PROVE  LET r == Append(q, s)
         IN  /\ r \in Seq(Pending) /\ Len(r) = Len(q) + 1
             /\ \A k \in 1 .. Len(r) : r[k] = IF k = Len(q) + 1 THEN s ELSE q[k]
             /\ Total(Deltas(r)) = Total(Deltas(q)) + s.delta
             /\ Total(CpuDeltas(r)) = Total(CpuDeltas(q)) + s.cpuDelta
<1>1. /\ Append(q, s) \in Seq(Pending) /\ Len(Append(q, s)) = Len(q) + 1
      /\ \A k \in 1 .. Len(q) + 1 : Append(q, s)[k] = IF k = Len(q) + 1 THEN s ELSE q[k]
  OBVIOUS
<1>2. Append(q, s) = q \o <<s>> /\ <<s>> \in Seq(Pending)
  OBVIOUS
<1>3. Total(Deltas(<<s>>)) = s.delta /\ Total(CpuDeltas(<<s>>)) = s.cpuDelta
  BY PendingDeltas, DeltasOfOne
<1>4. Total(Deltas(q \o <<s>>)) = Total(Deltas(q)) + Total(Deltas(<<s>>))
  BY <1>2, PendingDeltas, DeltasConcat
<1>5. Total(CpuDeltas(q \o <<s>>)) = Total(CpuDeltas(q)) + Total(CpuDeltas(<<s>>))
  BY <1>2, CpuDeltasConcat
<1> QED
  BY <1>1, <1>2, <1>3, <1>4, <1>5

LEMMA QueueTotals ==
  ASSUME NEW q \in Seq(Pending)
  PROVE  Total(Deltas(q)) \in Nat /\ Total(CpuDeltas(q)) \in Nat
<1>1. Deltas(q) \in Seq(Nat) /\ CpuDeltas(q) \in Seq(Nat)
  BY PendingDeltas, DeltasType, CpuDeltasType
<1> QED
  BY <1>1, TotalType

-----------------------------------------------------------------------------
(* What the profile receives in a step                                     *)

\* Nothing is added.
EmitsNothing ==
  /\ emitted' = [k \in Tracks |-> <<>>]
  /\ shown' = shown /\ lastTime' = lastTime

\* The samples that are added to a track, if any, and what they carry.
Adds(k, out, sum) ==
  /\ emitted'[k] = out
  /\ shown'[k] = shown[k] + sum
  /\ lastTime'[k] = IF out = <<>> THEN lastTime[k] ELSE out[Len(out)].time

\* An event that adds no sample.
LEMMA EmitNothing ==
  ASSUME Emit(<<>>), shown \in [Tracks -> Nat], lastTime \in [Tracks -> Int]
  PROVE  EmitsNothing
<1>1. DOMAIN <<>> = {}
  OBVIOUS
<1>2. emitted' = [k \in Tracks |-> <<>>]
  BY <1>1 DEF Emit
<1>3. TotalDelta(<<>>) = 0
  <2>1. <<>> \in Seq(Nat)
    OBVIOUS
  <2> QED
    BY <2>1, TotalDeltaSum, DeltasOfNone
<1>4. shown' = [k \in Tracks |-> shown[k] + 0]
  <2>1. shown' = [k \in Tracks |-> shown[k] + TotalDelta(emitted'[k])]
    BY DEF Emit
  <2>2. \A k \in Tracks : TotalDelta(emitted'[k]) = 0
    BY <1>2, <1>3
  <2> QED
    BY <2>1, <2>2
<1>5. shown' = shown
  BY <1>4
<1>6. lastTime' = [k \in Tracks |-> lastTime[k]]
  <2>1. lastTime' = [k \in Tracks |-> IF emitted'[k] = <<>> THEN lastTime[k]
                                      ELSE Last(emitted'[k]).time]
    BY DEF Emit
  <2>2. \A k \in Tracks : emitted'[k] = <<>>
    BY <1>2
  <2> QED
    BY <2>1, <2>2
<1>7. lastTime' = lastTime
  BY <1>6
<1> QED
  BY <1>2, <1>5, <1>7 DEF EmitsNothing

\* An event that adds samples to some tracks.
LEMMA EmitTo ==
  ASSUME NEW ks \in SUBSET Tracks, NEW E, \A e \in E : e.delta \in Nat /\ e.time \in Int,
         NEW a \in [ks -> Seq(E)], Emit(a),
         shown \in [Tracks -> Nat], lastTime \in [Tracks -> Int]
  PROVE  /\ shown' \in [Tracks -> Nat] /\ lastTime' \in [Tracks -> Int]
         /\ \A k \in ks : Adds(k, a[k], Total(Deltas(a[k])))
         /\ \A k \in Tracks \ ks : Adds(k, <<>>, 0)
<1>1. \A k \in Tracks : emitted'[k] = IF k \in ks THEN a[k] ELSE <<>>
  BY DEF Emit
<1>2. \A k \in Tracks : shown'[k] = shown[k] + TotalDelta(emitted'[k])
  BY DEF Emit
<1>3. \A k \in Tracks : lastTime'[k] = IF emitted'[k] = <<>> THEN lastTime[k]
                                       ELSE emitted'[k][Len(emitted'[k])].time
  BY DEF Emit, Last
<1>4. \A k \in Tracks : emitted'[k] \in Seq(E)
  <2>1. <<>> \in Seq(E)
    OBVIOUS
  <2> QED
    BY <1>1, <2>1, Zenon
<1>5. \A k \in Tracks : /\ TotalDelta(emitted'[k]) = Total(Deltas(emitted'[k]))
                        /\ Total(Deltas(emitted'[k])) \in Nat
  <2> TAKE k \in Tracks
  <2>1. PICK q \in Seq(E) : q = emitted'[k]
    BY <1>4
  <2>2. TotalDelta(q) = Total(Deltas(q))
    BY TotalDeltaSum
  <2>3. Deltas(q) \in Seq(Nat)
    BY DeltasType
  <2> QED
    BY <2>1, <2>2, <2>3, TotalType
<1>6. shown' \in [Tracks -> Nat]
  <2>1. shown' = [k \in Tracks |-> shown[k] + TotalDelta(emitted'[k])]
    BY DEF Emit
  <2> QED
    BY <1>5, <2>1
<1>7. lastTime' \in [Tracks -> Int]
  <2>1. lastTime' = [k \in Tracks |-> IF emitted'[k] = <<>> THEN lastTime[k]
                                      ELSE Last(emitted'[k]).time]
    BY DEF Emit
  <2>2. ASSUME NEW k \in Tracks, emitted'[k] # <<>> PROVE Last(emitted'[k]).time \in Int
    <3>1. PICK q \in Seq(E) : q = emitted'[k]
      BY <1>4
    <3>2. q[Len(q)] \in E
      BY <2>2, <3>1
    <3> QED
      BY <3>1, <3>2 DEF Last
  <2> QED
    BY <2>1, <2>2
<1>8. ASSUME NEW k \in ks PROVE Adds(k, a[k], Total(Deltas(a[k])))
  BY <1>1, <1>2, <1>3, <1>5 DEF Adds
<1>9. ASSUME NEW k \in Tracks \ ks PROVE Adds(k, <<>>, 0)
  BY <1>1, <1>2, <1>3, <1>5, DeltasOfNone DEF Adds
<1> QED
  BY <1>6, <1>7, <1>8, <1>9

LEMMA ItemFacts == \A e \in Item : e.delta \in Nat /\ e.time \in Int
BY DEF Item

\* Samples of the queue of t are consumed.
LEMMA EmitQueue ==
  ASSUME NEW t \in Tids, NEW q \in Seq(Pending), \A i \in 1 .. Len(q) : WellMade(q[i]),
         NEW u \in Nat, EmitConsumed(t, q, u),
         shown \in [Tracks -> Nat], lastTime \in [Tracks -> Int]
  PROVE  /\ shown' \in [Tracks -> Nat] /\ lastTime' \in [Tracks -> Int]
         /\ Adds(t, ConsumeAll(q, u).thread, Total(Deltas(q)))
         /\ Adds(Cpu, ConsumeAll(q, u).cpu, Total(CpuDeltas(q)))
         /\ \A k \in Tids \ {t} : Adds(k, <<>>, 0)
<1> DEFINE out  == ConsumeAll(q, u)
           ks   == {t, Cpu}
           a    == [k \in ks |-> IF k = t THEN out.thread ELSE out.cpu]
<1>1. /\ out.thread \in Seq(Item) /\ Total(Deltas(out.thread)) = Total(Deltas(q))
      /\ out.cpu \in Seq(Item) /\ Total(Deltas(out.cpu)) = Total(CpuDeltas(q))
  BY ThreadShows, CpuShows DEF ShownOnThread, ShownOnCpu
<1>2. Emit(a)
  BY DEF EmitConsumed
<1>3. t # Cpu /\ ks \in SUBSET Tracks
  BY EtwSamplesAssumption DEF Tracks
<1>4. a \in [ks -> Seq(Item)]
  BY <1>1
<1>5. a[t] = out.thread /\ a[Cpu] = out.cpu
  BY <1>3
<1>6. t \in ks /\ Cpu \in ks /\ \A k \in Tids \ {t} : k \in Tracks \ ks
  BY EtwSamplesAssumption DEF Tracks
<1> HIDE DEF out, a, ks
<1>7. /\ shown' \in [Tracks -> Nat] /\ lastTime' \in [Tracks -> Int]
      /\ \A k \in ks : Adds(k, a[k], Total(Deltas(a[k])))
      /\ \A k \in Tracks \ ks : Adds(k, <<>>, 0)
  BY <1>2, <1>3, <1>4, ItemFacts, EmitTo
<1> QED
  BY <1>1, <1>5, <1>6, <1>7 DEF out

-----------------------------------------------------------------------------
(* The accounts                                                            *)

\* x is the time that the accumulators d no longer hold, of a track whose first
\* event was at f.
Balanced(d, f, x) ==
  IF d.state = "Unknown" THEN x = 0 /\ d.on = 0 /\ d.off = 0
  ELSE d.ts - f = x + d.on + d.off

\* The clock of the track starts with its first event.
Starts(d, f, t) == IF d.state = "Unknown" THEN t ELSE f

LEMMA GroupTime ==
  ASSUME NEW g \in Nat, NEW c \in Nat
  PROVE  /\ c * Interval \in Nat /\ g * Interval \in Nat
         /\ (g + c) * Interval = g * Interval + c * Interval
BY IntervalAssumption

\* The account stays balanced when a thread is seen running.
LEMMA BalancedRuns ==
  ASSUME NEW t \in Nat, NEW d, Sound(d, t), NEW f \in Nat, NEW x \in Nat, Balanced(d, f, x)
  PROVE  LET r == ObservedRunning(t, d)
             s == x + r.group.count * Interval
         IN  /\ Balanced(r.data, Starts(d, f, t), s)
             /\ Balanced(consume_cpu_delta(r.data), Starts(d, f, t), s + r.data.on)
             /\ r.data.on \in Nat /\ r.group.count \in Nat /\ r.data \in ThreadContextSwitchData
<1> DEFINE r == ObservedRunning(t, d)
           c == r.group.count * Interval
           e == consume_cpu_delta(r.data)
<1>1. /\ Sound(r.data, t) /\ r.data.state = "On" /\ r.data.ts = t
      /\ r.group \in OffCpuSampleGroup
      /\ d.state # "Unknown" => r.data.on + r.data.off + c = d.on + d.off + (t - d.ts)
      /\ d.state = "Unknown" => r.data.on = d.on /\ r.data.off = d.off /\ r.group.count = 0
  <2>1. Sound(r.data, t)
    BY Running
  <2>2. r.data.state = "On" /\ r.data.ts = t
    BY Running
  <2>3. r.group \in OffCpuSampleGroup
    BY Running
  <2>4. d.state # "Unknown" => r.data.on + r.data.off + c = d.on + d.off + (t - d.ts)
    BY Running
  <2>5. d.state = "Unknown" => r.data.on = d.on /\ r.data.off = d.off /\ r.group.count = 0
    BY Running
  <2> HIDE DEF r, c
  <2> QED
    BY <2>1, <2>2, <2>3, <2>4, <2>5
<1> HIDE DEF r
<1>2. /\ r.data \in ThreadContextSwitchData /\ r.data.on \in Nat /\ r.data.off \in Nat
      /\ r.group.count \in Nat
  BY <1>1 DEF Sound, ThreadContextSwitchData, OffCpuSampleGroup
<1>3. c \in Nat /\ (r.group.count = 0 => c = 0)
  BY <1>2, IntervalAssumption
<1>4. e.on = 0 /\ e.off = r.data.off /\ e.ts = r.data.ts /\ e.state = r.data.state
  BY <1>2, Consume
<1>5. d.on \in Nat /\ d.off \in Nat /\ d.ts \in Nat
  BY DEF Sound, ThreadContextSwitchData
<1> HIDE DEF c, e
<1>6. /\ Balanced(r.data, Starts(d, f, t), x + c)
      /\ Balanced(e, Starts(d, f, t), x + c + r.data.on)
  <2>1. CASE d.state = "Unknown"
    BY <1>1, <1>2, <1>3, <1>4, <1>5, <2>1 DEF Balanced, Starts
  <2>2. CASE d.state # "Unknown"
    <3>1. d.ts - f = x + d.on + d.off
      BY <2>2 DEF Balanced
    <3>2. r.data.on + r.data.off + c = d.on + d.off + (t - d.ts)
      BY <1>1, <2>2
    <3>3. t - f = x + c + r.data.on + r.data.off
      <4>2. c \in Nat /\ r.data.on \in Nat /\ r.data.off \in Nat
        BY <1>2, <1>3
      <4>3. PICK a, b, y, p, q, n \in Nat :
              a = r.data.on /\ b = r.data.off /\ y = c /\ p = d.on /\ q = d.off /\ n = d.ts
        BY <1>5, <4>2, Zenon
      <4>4. n - f = x + p + q /\ a + b + y = p + q + (t - n)
        BY <3>1, <3>2, <4>3
      <4>5. t - f = x + y + a + b
        BY <4>4
      <4> QED
        BY <4>3, <4>5
    <3>4. t - f = x + c + r.data.on + 0 + r.data.off
      BY <1>2, <1>3, <3>3
    <3>5. Starts(d, f, t) = f /\ r.data.state # "Unknown" /\ e.state # "Unknown" /\ e.ts = t
      BY <1>1, <1>4, <2>2 DEF Starts
    <3> QED
      BY <1>1, <1>4, <3>3, <3>4, <3>5 DEF Balanced
  <2> QED
    BY <2>1, <2>2
<1> QED
  BY <1>2, <1>6 DEF r, c, e

\* And when it is switched out.
LEMMA BalancedOut ==
  ASSUME NEW t \in Nat, NEW d, Sound(d, t), NEW f \in Nat, NEW x \in Nat, Balanced(d, f, x)
  PROVE  Balanced(handle_switch_out(t, d), Starts(d, f, t), x)
<1> DEFINE e == handle_switch_out(t, d)
<1>1. /\ Sound(e, t) /\ e.state = "Off"
      /\ d.state # "Unknown" => e.on + e.off = d.on + d.off + (e.ts - d.ts)
      /\ d.state = "Unknown" => e.on = d.on /\ e.off = d.off /\ e.ts = t
  BY SwitchedOut
<1> HIDE DEF e
<1>2. /\ e.on \in Nat /\ e.off \in Nat /\ e.ts \in Nat
      /\ d.on \in Nat /\ d.off \in Nat /\ d.ts \in Nat
  BY <1>1 DEF Sound, ThreadContextSwitchData
<1>3. CASE d.state = "Unknown"
  BY <1>1, <1>2, <1>3 DEF Balanced, Starts, e
<1>4. CASE d.state # "Unknown"
  BY <1>1, <1>2, <1>4 DEF Balanced, Starts, e
<1> QED
  BY <1>3, <1>4

\* And when its cpu delta is consumed.
LEMMA BalancedConsume ==
  ASSUME NEW d \in ThreadContextSwitchData, NEW f \in Nat, NEW x \in Nat, Balanced(d, f, x)
  PROVE  Balanced(consume_cpu_delta(d), f, x + d.on)
<1>1. LET e == consume_cpu_delta(d)
      IN  e.on = 0 /\ e.off = d.off /\ e.ts = d.ts /\ e.state = d.state
  BY Consume
<1>2. d.on \in Nat /\ d.off \in Nat /\ d.ts \in Nat
  BY DEF ThreadContextSwitchData
<1> QED
  BY <1>1, <1>2 DEF Balanced

\* What waits for the track of the CPU, when the queue of one thread changes.
LEMMA CpuQueuedStep ==
  ASSUME NEW a, NEW b, NEW t \in Tids,
         \A u \in Tids : a[u].queue \in Seq(Pending) /\ b[u].queue \in Seq(Pending),
         \A u \in Tids \ {t} : b[u].queue = a[u].queue
  PROVE  /\ SumOver(CpuQueued(a), Tids) \in Nat /\ SumOver(CpuQueued(b), Tids) \in Nat
         /\ SumOver(CpuQueued(b), Tids) + Total(CpuDeltas(a[t].queue))
              = SumOver(CpuQueued(a), Tids) + Total(CpuDeltas(b[t].queue))
<1> DEFINE x == CpuQueued(a)
           y == CpuQueued(b)
           T == Tids \ {t}
<1>1. /\ \A u \in Tids : x[u] = Total(CpuDeltas(a[u].queue)) /\ x[u] \in Nat
      /\ \A u \in Tids : y[u] = Total(CpuDeltas(b[u].queue)) /\ y[u] \in Nat
  BY QueueTotals DEF CpuQueued
<1>2. \A u \in T : x[u] = y[u]
  BY <1>1
<1> HIDE DEF x, y
<1>3. IsFiniteSet(Tids) /\ IsFiniteSet(T)
  BY EtwSamplesAssumption, FS_Subset
<1>4. /\ SumOver(x, Tids) \in Nat /\ SumOver(x, Tids) = x[t] + SumOver(x, T)
      /\ SumOver(y, Tids) \in Nat /\ SumOver(y, Tids) = y[t] + SumOver(y, T)
  BY <1>1, <1>3, SumRemove
<1>5. SumOver(x, T) = SumOver(y, T)
  BY <1>2, <1>3, SumSame
<1>6. SumOver(x, T) \in Nat
  BY <1>1, <1>3, SumRemove
<1>7. SumOver(y, Tids) + x[t] = SumOver(x, Tids) + y[t]
  BY <1>1, <1>4, <1>5, <1>6
<1> QED
  BY <1>1, <1>4, <1>7 DEF x, y

-----------------------------------------------------------------------------
(* The invariant                                                           *)

ThreadState == [known : BOOLEAN, queue : Seq(Pending), data : ThreadContextSwitchData]

Types ==
  /\ TypeOK
  /\ threads \in [Tids -> ThreadState]
  /\ lastTime \in [Tracks -> Int]

\* A sample that waits was taken before the thread was last seen, and has kernel frames
\* only if it was taken in the kernel.  The user stack that will be its own has not
\* come yet.
EntrySound(t, s) ==
  /\ WellMade(s)
  /\ s.ts <= threads[t].data.ts
  /\ s.on /\ s.kernel => s.inKernel
  /\ s.on /\ s.ts = walk[t].kernel => s.inKernel
  /\ ~s.on => ~s.inKernel
  /\ IF t \in system THEN s.user = 0 ELSE s.user <= number[t]

InTimeOrder(q) ==
  /\ Chained(q)
  /\ \A i, j \in 1 .. Len(q) : i < j => q[i].ts < q[j].ts

QueueSound(t) ==
  /\ ~threads[t].known => threads[t].data.state = "Unknown"
  /\ threads[t].data.state = "Unknown" => threads[t].queue = <<>>
  /\ Sound(threads[t].data, now)
  /\ \A i \in 1 .. Len(threads[t].queue) : EntrySound(t, threads[t].queue[i])
  /\ InTimeOrder(threads[t].queue)

WalkSound(t) ==
  /\ walk[t].kernel <= now /\ walk[t].user <= now
  /\ t \in system => walk[t].user = None /\ mode[t] = "kernel"

\* No sample that will be shown is earlier than one that is.  On x86 a sample of the
\* System process may stay in the queue forever if the event with its stack is lost.
LastSound(t) ==
  /\ lastTime[t] <= now
  /\ arch = "arm64" =>
       /\ walk[t].kernel # None => lastTime[t] <= walk[t].kernel
       /\ walk[t].user # None => lastTime[t] <= walk[t].user
  /\ arch = "x86" =>
       /\ lastTime[t] <= threads[t].data.ts
       /\ \A i \in 1 .. Len(threads[t].queue) :
            t \notin system \/ threads[t].queue[i].ts = walk[t].kernel
              => lastTime[t] <= FirstTime(threads[t].queue[i])

\* As long as no event is lost, what waits is what the next stack completes.
CompletedNext(t, i) ==
  LET s == threads[t].queue[i]
  IN  /\ s.on /\ s.inKernel /\ ~s.kernel => s.ts = walk[t].kernel
      /\ IF t \in system THEN i = 1 /\ s.ts = walk[t].kernel
         ELSE s.ts <= walk[t].user /\ s.user = number[t]

NothingLost(t) ==
  ~lossy =>
    /\ running = t => threads[t].data.state # "Off"
    /\ \A i \in 1 .. Len(threads[t].queue) :
         threads[t].queue[i].on => threads[t].queue[i].group = NoGroup
    /\ arch = "x86" => \A i \in 1 .. Len(threads[t].queue) : CompletedNext(t, i)

ThreadSound(t) == QueueSound(t) /\ WalkSound(t) /\ LastSound(t) /\ NothingLost(t)

\* Where the time of a track is, apart from the accumulators.
Placed(t) ==
  shown[t] + Total(Deltas(threads[t].queue)) + left[t] + dropped[t] + groups[t] * Interval

PlacedCpu ==
  shown[Cpu] + SumOver(CpuQueued(threads), Tids) + left[Cpu] + dropped[Cpu]
  + groups[Cpu] * Interval

Accounts ==
  /\ Sound(cpu, now)
  /\ Balanced(cpu, first[Cpu], PlacedCpu)
  /\ \A t \in Tids : left[t] = 0 /\ Balanced(threads[t].data, first[t], Placed(t))

\* StackOfItsTime, but for whose sample it is.
StackMatches ==
  \A k \in Tracks : \A i \in DOMAIN emitted[k] :
    LET s == emitted[k][i]
    IN  /\ s.user >= s.of.user
        /\ s.kernel => s.of.inKernel
        /\ ~lossy => s.user = s.of.user /\ s.kernel = s.of.inKernel

IInv ==
  /\ Types
  /\ \A t \in Tids : ThreadSound(t)
  /\ Accounts
  /\ StackMatches

\* The types of what belongs to one thread.
LEMMA ThreadTypes ==
  ASSUME Types, NEW t \in Tids
  PROVE  /\ threads[t].known \in BOOLEAN
         /\ threads[t].queue \in Seq(Pending)
         /\ threads[t].data \in ThreadContextSwitchData
         /\ number[t] \in Nat /\ number[t] >= 1
         /\ walk[t] \in [kernel : Nat \cup {None}, user : Nat \cup {None}]
         /\ walk[t].kernel \in Nat \cup {-1} /\ walk[t].user \in Nat \cup {-1}
         /\ mode[t] \in {"user", "kernel"}
         /\ lastTime[t] \in Int /\ now \in Nat
         /\ t \in Tracks /\ t # Cpu
<1>1. threads[t] \in ThreadState
  BY DEF Types
<1>2. /\ threads[t].known \in BOOLEAN
      /\ threads[t].queue \in Seq(Pending)
      /\ threads[t].data \in ThreadContextSwitchData
  BY <1>1 DEF ThreadState
<1>3. number[t] \in 1 .. MaxStacks /\ mode[t] \in {"user", "kernel"} /\ now \in 0 .. MaxTime
  BY DEF Types, TypeOK
<1>4. walk[t] \in [kernel : Nat \cup {None}, user : Nat \cup {None}]
  BY DEF Types, TypeOK
<1>5. walk[t].kernel \in Nat \cup {-1} /\ walk[t].user \in Nat \cup {-1}
  BY <1>4 DEF None
<1>6. t \in Tracks /\ t # Cpu
  BY EtwSamplesAssumption DEF Tracks
<1>7. lastTime[t] \in Int
  BY <1>6 DEF Types
<1>8. number[t] \in Nat /\ number[t] >= 1 /\ now \in Nat
  BY <1>3, EtwSamplesAssumption
<1> QED
  BY <1>2, <1>3, <1>4, <1>5, <1>6, <1>7, <1>8

\* The same after the step.
LEMMA ThreadTypesNext ==
  ASSUME Types', NEW t \in Tids
  PROVE  /\ threads'[t].queue \in Seq(Pending)
         /\ threads'[t].data \in ThreadContextSwitchData
         /\ number'[t] \in Nat /\ now' \in Nat /\ lastTime'[t] \in Int
         /\ walk'[t].kernel \in Nat \cup {-1} /\ walk'[t].user \in Nat \cup {-1}
<1>1. threads'[t] \in ThreadState
  BY DEF Types
<1>2. threads'[t].queue \in Seq(Pending) /\ threads'[t].data \in ThreadContextSwitchData
  BY <1>1 DEF ThreadState
<1>3. number'[t] \in 1 .. MaxStacks /\ now' \in 0 .. MaxTime
  BY DEF Types, TypeOK
<1>4. walk'[t] \in [kernel : Nat \cup {None}, user : Nat \cup {None}]
  BY DEF Types, TypeOK
<1>5. walk'[t].kernel \in Nat \cup {-1} /\ walk'[t].user \in Nat \cup {-1}
  BY <1>4 DEF None
<1>6. lastTime'[t] \in Int
  BY DEF Types, Tracks
<1>7. number'[t] \in Nat /\ now' \in Nat
  BY <1>3, EtwSamplesAssumption
<1> QED
  BY <1>2, <1>5, <1>6, <1>7

LEMMA EntryTypes ==
  ASSUME NEW q \in Seq(Pending), NEW i \in 1 .. Len(q)
  PROVE  /\ q[i] \in Pending /\ q[i].ts \in Nat /\ q[i].user \in Nat /\ FirstTime(q[i]) \in Int
         /\ q[i].on \in BOOLEAN /\ q[i].kernel \in BOOLEAN /\ q[i].inKernel \in BOOLEAN
<1>1. \A s \in Pending : /\ s.ts \in Nat /\ s.user \in Nat /\ FirstTime(s) \in Int
                         /\ s.on \in BOOLEAN /\ s.kernel \in BOOLEAN /\ s.inKernel \in BOOLEAN
  BY DEF Pending, FirstTime, OffCpuSampleGroup
<1>2. q[i] \in Pending
  OBVIOUS
<1> QED
  BY <1>1, <1>2

\* In user mode, with all stacks reported, nothing waits.
LEMMA EmptyInUserMode ==
  ASSUME Types, NEW t \in Tids, ThreadSound(t), mode[t] = "user", StacksReported(t),
         ~lossy, arch = "x86"
  PROVE  threads[t].queue = <<>>
<1>1. t \notin system /\ walk[t].user = -1
  BY DEF ThreadSound, WalkSound, StacksReported, None
<1>2. ASSUME NEW i \in 1 .. Len(threads[t].queue) PROVE FALSE
  <2>1. threads[t].queue[i].ts <= -1
    BY <1>1, <1>2 DEF ThreadSound, NothingLost, CompletedNext
  <2>2. threads[t].queue[i].ts \in Nat
    BY ThreadTypes, EntryTypes
  <2> QED
    BY <2>1, <2>2
<1>3. Len(threads[t].queue) \in Nat /\ threads[t].queue \in Seq(Pending)
  BY ThreadTypes
<1>4. Len(threads[t].queue) = 0
  <2>1. Len(threads[t].queue) # 0 => 1 \in 1 .. Len(threads[t].queue)
    BY <1>3
  <2> QED
    BY <1>2, <2>1
<1> QED
  BY <1>3, <1>4

-----------------------------------------------------------------------------
(* What a step keeps of the invariant                                      *)

\* What a thread that no event concerns keeps.
LEMMA MovesOn ==
  ASSUME Types, Types', NEW t \in Tids, ThreadSound(t), UNCHANGED config, now <= now',
         threads'[t] = threads[t], walk'[t] = walk[t], lastTime'[t] = lastTime[t],
         number[t] <= number'[t],
         number'[t] = number[t] \/ lossy \/ arch # "x86" \/ threads[t].queue = <<>>,
         t \in system => mode'[t] = "kernel",
         ~lossy /\ running' = t => threads[t].data.state # "Off"
  PROVE  ThreadSound(t)'
<1>0. /\ arch' = arch /\ lossy' = lossy /\ system' = system
      /\ number[t] \in Nat /\ number'[t] \in Nat /\ now \in Nat /\ now' \in Nat
      /\ walk[t].kernel \in Int /\ walk[t].user \in Int /\ lastTime[t] \in Int
      /\ threads[t].data.ts \in Nat
  <2>1. arch' = arch /\ lossy' = lossy /\ system' = system
    BY DEF config
  <2>2. \A d \in ThreadContextSwitchData : d.ts \in Nat
    BY DEF ThreadContextSwitchData
  <2>3. threads[t].data \in ThreadContextSwitchData
    BY ThreadTypes
  <2> QED
    BY <2>1, <2>2, <2>3, ThreadTypes, ThreadTypesNext
<1>q. threads[t].queue \in Seq(Pending)
  BY ThreadTypes
<1>1. QueueSound(t)'
  <2>1. Sound(threads[t].data, now')
    BY <1>0 DEF ThreadSound, QueueSound, Sound
  <2>2. ASSUME NEW i \in 1 .. Len(threads[t].queue) PROVE EntrySound(t, threads[t].queue[i])'
    <3>1. EntrySound(t, threads[t].queue[i])
      BY DEF ThreadSound, QueueSound
    <3>2. threads[t].queue[i].user \in Nat
      BY <1>q, EntryTypes
    <3> QED
      BY <1>0, <3>1, <3>2 DEF EntrySound
  <2> QED
    BY <2>1, <2>2 DEF ThreadSound, QueueSound
<1>2. WalkSound(t)'
  BY <1>0 DEF ThreadSound, WalkSound
<1>3. LastSound(t)'
  <2>1. lastTime'[t] <= now'
    BY <1>0 DEF ThreadSound, LastSound
  <2>2. ASSUME arch = "x86", NEW i \in 1 .. Len(threads[t].queue),
               t \notin system \/ threads[t].queue[i].ts = walk[t].kernel
        PROVE  lastTime[t] <= FirstTime(threads[t].queue[i])
    BY <2>2 DEF ThreadSound, LastSound
  <2> QED
    BY <1>0, <2>1, <2>2 DEF ThreadSound, LastSound
<1>4. NothingLost(t)'
  <2>1. ASSUME ~lossy, arch = "x86", NEW i \in 1 .. Len(threads[t].queue)
        PROVE  CompletedNext(t, i)'
    <3>1. CompletedNext(t, i)
      BY <2>1 DEF ThreadSound, NothingLost
    <3>2. threads[t].queue # <<>>
      BY <1>q
    <3>3. number'[t] = number[t]
      BY <2>1, <3>2
    <3> QED
      BY <1>0, <3>1, <3>3 DEF CompletedNext
  <2> QED
    BY <1>0, <2>1 DEF ThreadSound, NothingLost
<1> QED
  BY <1>1, <1>2, <1>3, <1>4 DEF ThreadSound

\* A switch-out never sets the time of the thread back.
LEMMA OutLater ==
  ASSUME NEW t \in Nat, NEW d, Sound(d, t)
  PROVE  handle_switch_out(t, d).ts >= d.ts
<1>1. d.state \in {"Unknown", "Off", "On"} /\ d.ts \in Nat /\ d.ts <= t
      /\ d \in ThreadContextSwitchData
  BY DEF Sound, ThreadContextSwitchData
<1>2. CASE d.state = "Unknown"
  BY <1>1, <1>2 DEF handle_switch_out, ThreadContextSwitchData
<1>3. CASE d.state = "On"
  BY <1>1, <1>3 DEF handle_switch_out, ThreadContextSwitchData
<1>4. CASE d.state = "Off"
  BY <1>1, <1>4 DEF handle_switch_out
<1> QED
  BY <1>1, <1>2, <1>3, <1>4

LEMMA DataTypes ==
  ASSUME NEW d \in ThreadContextSwitchData
  PROVE  /\ d.ts \in Nat /\ d.on \in Nat /\ d.off \in Nat
         /\ d.state \in {"Unknown", "Off", "On"}
BY DEF ThreadContextSwitchData

\* A thread that is switched out.
LEMMA OutSound ==
  ASSUME Types, Types', NEW t \in Tids, ThreadSound(t), UNCHANGED config,
         NEW ts \in Nat, now < ts, now' = ts,
         threads[t].known, threads'[t].known = threads[t].known,
         threads'[t].queue = threads[t].queue,
         threads'[t].data = handle_switch_out(ts, threads[t].data),
         walk'[t] = walk[t], lastTime'[t] = lastTime[t],
         number[t] <= number'[t],
         number'[t] = number[t] \/ lossy \/ arch # "x86" \/ threads[t].queue = <<>>,
         t \in system => mode'[t] = "kernel",
         running' # t
  PROVE  ThreadSound(t)'
<1> DEFINE d == threads[t].data
           e == threads'[t].data
<1>0. /\ arch' = arch /\ lossy' = lossy /\ system' = system
      /\ number[t] \in Nat /\ number'[t] \in Nat /\ now \in Nat
      /\ walk[t].kernel \in Int /\ walk[t].user \in Int /\ lastTime[t] \in Int
      /\ d.ts \in Nat /\ e.ts \in Nat
  <2>1. arch' = arch /\ lossy' = lossy /\ system' = system
    BY DEF config
  <2> QED
    BY <2>1, ThreadTypes, ThreadTypesNext, DataTypes
<1>q. threads[t].queue \in Seq(Pending)
  BY ThreadTypes
<1>1. Sound(e, ts) /\ e.state = "Off" /\ e.ts >= d.ts
  <2>1. Sound(d, ts)
    BY <1>0 DEF ThreadSound, QueueSound, Sound
  <2> QED
    BY <2>1, SwitchedOut, OutLater
<1>2. QueueSound(t)'
  <2>2. ASSUME NEW i \in 1 .. Len(threads[t].queue) PROVE EntrySound(t, threads[t].queue[i])'
    <3>1. EntrySound(t, threads[t].queue[i])
      BY DEF ThreadSound, QueueSound
    <3>2. threads[t].queue[i].user \in Nat /\ threads[t].queue[i].ts \in Nat
      BY <1>q, EntryTypes
    <3>3. threads[t].queue[i].ts <= e.ts
      BY <1>0, <1>1, <3>1, <3>2 DEF EntrySound
    <3> QED
      BY <1>0, <3>1, <3>2, <3>3 DEF EntrySound
  <2>3. InTimeOrder(threads'[t].queue)
    BY DEF ThreadSound, QueueSound
  <2> QED
    BY <1>1, <2>2, <2>3 DEF QueueSound
<1>3. WalkSound(t)'
  BY <1>0 DEF ThreadSound, WalkSound
<1>4. LastSound(t)'
  <2>1. lastTime'[t] <= now' /\ (arch = "x86" => lastTime'[t] <= e.ts)
    BY <1>0, <1>1 DEF ThreadSound, LastSound
  <2>2. ASSUME arch = "x86", NEW i \in 1 .. Len(threads[t].queue),
               t \notin system \/ threads[t].queue[i].ts = walk[t].kernel
        PROVE  lastTime[t] <= FirstTime(threads[t].queue[i])
    BY <2>2 DEF ThreadSound, LastSound
  <2> QED
    BY <1>0, <2>1, <2>2 DEF ThreadSound, LastSound
<1>5. NothingLost(t)'
  <2>1. ASSUME ~lossy, arch = "x86", NEW i \in 1 .. Len(threads[t].queue)
        PROVE  CompletedNext(t, i)'
    <3>1. CompletedNext(t, i)
      BY <2>1 DEF ThreadSound, NothingLost
    <3>2. threads[t].queue # <<>>
      BY <1>q
    <3>3. number'[t] = number[t]
      BY <2>1, <3>2
    <3> QED
      BY <1>0, <3>1, <3>3 DEF CompletedNext
  <2> QED
    BY <1>0, <2>1 DEF ThreadSound, NothingLost
<1> QED
  BY <1>2, <1>3, <1>4, <1>5 DEF ThreadSound

\* A thread for which Windows asks for other stacks.
LEMMA WalkMoves ==
  ASSUME Types, Types', NEW t \in Tids, ThreadSound(t), UNCHANGED config, now <= now',
         threads'[t] = threads[t], lastTime'[t] = lastTime[t],
         number[t] <= number'[t],
         walk'[t].kernel <= now', walk'[t].user <= now',
         walk'[t].kernel = None \/ (threads[t].queue = <<>> /\ lastTime[t] <= walk'[t].kernel),
         walk'[t].user = None \/ walk'[t].user = walk[t].user \/ lastTime[t] <= walk'[t].user,
         t \in system => walk'[t].user = None /\ mode'[t] = "kernel",
         ~lossy /\ running' = t => threads[t].data.state # "Off",
         ~lossy /\ arch = "x86" => \A i \in 1 .. Len(threads[t].queue) : CompletedNext(t, i)'
  PROVE  ThreadSound(t)'
<1>0. /\ arch' = arch /\ lossy' = lossy /\ system' = system
      /\ number[t] \in Nat /\ number'[t] \in Nat /\ now \in Nat /\ now' \in Nat
      /\ walk[t].user \in Int /\ walk'[t].user \in Int /\ lastTime[t] \in Int
  <2>1. arch' = arch /\ lossy' = lossy /\ system' = system
    BY DEF config
  <2> QED
    BY <2>1, ThreadTypes, ThreadTypesNext
<1>q. threads[t].queue \in Seq(Pending) /\ threads[t].data.ts \in Nat
  BY ThreadTypes, DataTypes
<1>n. ASSUME NEW i \in 1 .. Len(threads[t].queue)
      PROVE  walk'[t].kernel = -1 /\ threads[t].queue[i].ts \in Nat /\ threads[t].queue[i].user \in Nat
  <2>1. threads[t].queue # <<>>
    BY <1>q
  <2> QED
    BY <1>q, <2>1, EntryTypes DEF None
<1>1. QueueSound(t)'
  <2>1. Sound(threads[t].data, now')
    BY <1>0, <1>q DEF ThreadSound, QueueSound, Sound
  <2>2. ASSUME NEW i \in 1 .. Len(threads[t].queue) PROVE EntrySound(t, threads[t].queue[i])'
    <3>1. EntrySound(t, threads[t].queue[i])
      BY DEF ThreadSound, QueueSound
    <3>2. threads[t].queue[i].ts # walk'[t].kernel
      BY <1>n
    <3> QED
      BY <1>0, <1>n, <3>1, <3>2 DEF EntrySound
  <2> QED
    BY <2>1, <2>2 DEF ThreadSound, QueueSound
<1>2. WalkSound(t)'
  BY <1>0 DEF WalkSound
<1>3. LastSound(t)'
  <2>1. lastTime'[t] <= now'
    BY <1>0 DEF ThreadSound, LastSound
  <2>2. ASSUME arch = "arm64"
        PROVE  /\ walk'[t].kernel # None => lastTime'[t] <= walk'[t].kernel
               /\ walk'[t].user # None => lastTime'[t] <= walk'[t].user
    BY <1>0, <2>2 DEF ThreadSound, LastSound
  <2>3. ASSUME arch = "x86", NEW i \in 1 .. Len(threads[t].queue),
               t \notin system \/ threads[t].queue[i].ts = walk'[t].kernel
        PROVE  lastTime[t] <= FirstTime(threads[t].queue[i])
    <3>1. t \notin system
      BY <1>n, <2>3
    <3> QED
      BY <2>3, <3>1 DEF ThreadSound, LastSound
  <2>4. arch = "x86" => lastTime[t] <= threads[t].data.ts
    BY DEF ThreadSound, LastSound
  <2> QED
    BY <1>0, <2>1, <2>2, <2>3, <2>4 DEF LastSound
<1>4. NothingLost(t)'
  BY <1>0 DEF ThreadSound, NothingLost
<1> QED
  BY <1>1, <1>2, <1>3, <1>4 DEF ThreadSound

\* What the accumulators of a thread are when it was seen to run and the cpu delta is taken.
LEMMA RunsAt ==
  ASSUME NEW t \in Nat, NEW d, Sound(d, t)
  PROVE  LET g == ObservedRunning(t, d).group
             e == consume_cpu_delta(ObservedRunning(t, d).data)
         IN  /\ Sound(e, t) /\ e.state = "On" /\ e.ts = t
             /\ g \in OffCpuSampleGroup /\ g.begin \in Int /\ g.end \in Int
             /\ g # NoGroup => /\ d.state = "Off" /\ d.ts < g.begin
                               /\ g.begin <= g.end /\ g.end <= t
<1> DEFINE r == ObservedRunning(t, d)
           e == consume_cpu_delta(r.data)
<1>1. /\ Sound(r.data, t) /\ r.data.state = "On" /\ r.data.ts = t
      /\ r.group \in OffCpuSampleGroup
      /\ r.group.count > 0 =>
           /\ d.state = "Off" /\ d.ts < r.group.begin
           /\ r.group.begin <= r.group.end /\ r.group.end <= t
  <2>1. Sound(r.data, t)
    BY Running
  <2>2. r.data.state = "On" /\ r.data.ts = t
    BY Running
  <2>3. r.group \in OffCpuSampleGroup
    BY Running
  <2>4. r.group.count > 0 => d.state = "Off"
    BY Running
  <2>5. r.group.count > 0 => d.ts < r.group.begin
    BY Running
  <2>6. r.group.count > 0 => r.group.begin <= r.group.end
    BY Running
  <2>7. r.group.count > 0 => r.group.end <= t
    BY Running
  <2> QED
    BY <2>1, <2>2, <2>3, <2>4, <2>5, <2>6, <2>7
<1>2. r.group = NoGroup \/ r.group.count >= 1
  BY GroupOrNone
<1> HIDE DEF r
<1>3. r.group.count \in Nat /\ r.group.begin \in Int /\ r.group.end \in Int
  BY <1>1 DEF OffCpuSampleGroup
<1>4. r.data \in ThreadContextSwitchData
  BY <1>1 DEF Sound
<1>5. e \in ThreadContextSwitchData /\ e.off = r.data.off /\ e.ts = r.data.ts
      /\ e.state = r.data.state
  BY <1>4, Consume
<1>6. r.group # NoGroup => r.group.count > 0
  BY <1>2, <1>3
<1> HIDE DEF e
<1>7. Sound(e, t)
  BY <1>1, <1>5 DEF Sound
<1> QED
  BY <1>1, <1>3, <1>5, <1>6, <1>7 DEF r, e

\* A thread that runs at ts, in a sample or a context switch.
LEMMA PushSound ==
  ASSUME Types, Types', NEW t \in Tids, ThreadSound(t), UNCHANGED config,
         NEW ts \in Nat, now < ts, now' = ts, StacksReported(t),
         NEW m, m = "kernel" \/ (m = "user" /\ mode[t] = "user"),
         NEW s \in Pending,
         s.ts = ts, ~s.kernel, s.user = UserStackOf(t, number'),
         s.group = ObservedRunning(ts, threads[t].data).group,
         s.on => (s.inKernel <=> m = "kernel"),
         ~s.on => ~s.inKernel /\ s.cpuDelta = 0 /\ m = "kernel",
         ~lossy /\ s.on => threads[t].data.state # "Off",
         threads'[t].known,
         threads'[t].data = consume_cpu_delta(ObservedRunning(ts, threads[t].data).data),
         threads'[t].queue = IF s.on \/ s.group # NoGroup THEN Append(threads[t].queue, s)
                             ELSE threads[t].queue,
         walk'[t] = Walk(t, ts, m), lastTime'[t] = lastTime[t],
         number'[t] = number[t] \/ (number'[t] = number[t] + 1 /\ mode[t] = "user"),
         t \in system => mode'[t] = "kernel"
  PROVE  ThreadSound(t)'
<1> DEFINE q == threads[t].queue
           p == threads'[t].queue
           d == threads[t].data
           e == threads'[t].data
           r == ObservedRunning(ts, d)
<1>0. arch' = arch /\ lossy' = lossy /\ system' = system
  BY DEF config
<1>t. /\ number[t] \in Nat /\ number'[t] \in Nat /\ now \in Nat
      /\ walk[t].kernel = -1 /\ walk[t].user \in Int /\ lastTime[t] \in Int
      /\ d.ts \in Nat /\ q \in Seq(Pending) /\ p \in Seq(Pending) /\ number[t] <= number'[t]
      /\ d.ts <= now
  <2>1. number[t] \in Nat /\ number'[t] \in Nat /\ now \in Nat
      /\ walk[t].user \in Int /\ lastTime[t] \in Int
      /\ d \in ThreadContextSwitchData /\ q \in Seq(Pending) /\ p \in Seq(Pending)
    BY ThreadTypes, ThreadTypesNext
  <2>2. walk[t].kernel = -1
    BY DEF StacksReported, None
  <2>3. d.ts <= now
    BY DEF ThreadSound, QueueSound, Sound
  <2> QED
    BY <2>1, <2>2, <2>3, DataTypes
<1>r. /\ Sound(e, ts) /\ e.state = "On" /\ e.ts = ts
      /\ s.group # NoGroup =>
           /\ d.state = "Off" /\ d.ts < s.group.begin
           /\ s.group.begin <= s.group.end /\ s.group.end <= ts
      /\ s.group.begin \in Int /\ s.group.end \in Int
  <2>1. Sound(d, ts)
    BY <1>t DEF ThreadSound, QueueSound, Sound
  <2> QED
    <3>1. Sound(e, ts)
      BY <2>1, RunsAt
    <3>2. e.state = "On" /\ e.ts = ts
      BY <2>1, RunsAt
    <3>3. s.group \in OffCpuSampleGroup /\ s.group.begin \in Int /\ s.group.end \in Int
      BY <2>1, RunsAt
    <3>4. s.group # NoGroup => d.state = "Off" /\ d.ts < s.group.begin
      BY <2>1, RunsAt
    <3>5. s.group # NoGroup => s.group.begin <= s.group.end /\ s.group.end <= ts
      BY <2>1, RunsAt
    <3> QED
      BY <3>1, <3>2, <3>3, <3>4, <3>5
<1>f. d.ts <= FirstTime(s) /\ FirstTime(s) \in Int
  BY <1>r, <1>t DEF FirstTime
<1>p. ASSUME NEW i \in 1 .. Len(p)
      PROVE  \/ i \in 1 .. Len(q) /\ p[i] = q[i]
             \/ /\ s.on \/ s.group # NoGroup
                /\ i = Len(q) + 1 /\ p[i] = s
  <2>1. CASE s.on \/ s.group # NoGroup
    <3>1. p = Append(q, s)
      BY <2>1
    <3>2. i \in 1 .. Len(q) + 1 /\ p[i] = IF i = Len(q) + 1 THEN s ELSE q[i]
      BY <1>t, <3>1, PushFacts
    <3>3. i # Len(q) + 1 => i \in 1 .. Len(q)
      BY <1>t, <3>2
    <3> QED
      BY <2>1, <3>2, <3>3, Zenon
  <2>2. CASE ~(s.on \/ s.group # NoGroup)
    BY <2>2
  <2> QED
    BY <2>1, <2>2
<1>o. ASSUME NEW i \in 1 .. Len(q)
      PROVE  /\ EntrySound(t, q[i]) /\ q[i].ts <= d.ts /\ q[i].ts < ts
             /\ q[i].ts \in Nat /\ q[i].user \in Nat /\ FirstTime(q[i]) \in Int
  <2>1. EntrySound(t, q[i])
    BY DEF ThreadSound, QueueSound
  <2>2. q[i].ts \in Nat /\ q[i].user \in Nat /\ FirstTime(q[i]) \in Int
    BY <1>t, EntryTypes
  <2>3. q[i].ts <= d.ts
    BY <2>1 DEF EntrySound
  <2> QED
    BY SMTT(30), <1>t, <2>1, <2>2, <2>3
<1>w. /\ walk'[t].kernel = (IF m = "kernel" THEN ts ELSE -1)
      /\ walk'[t].user = (IF t \in system THEN -1 ELSE ts)
      /\ t \in system => m = "kernel"
  <2>1. t \in system => mode[t] = "kernel"
    BY DEF ThreadSound, WalkSound
  <2> QED
    BY <2>1 DEF Walk, None
<1>u. s.user = IF t \in system THEN 0 ELSE number'[t]
  BY DEF UserStackOf
<1> HIDE DEF q, p, d, e, r
<1>1. QueueSound(t)'
  <2>1. ASSUME NEW i \in 1 .. Len(p) PROVE EntrySound(t, threads[t].queue[i])'
    <3>1. CASE i \in 1 .. Len(q) /\ p[i] = q[i]
      <4>1. q[i].ts <= e.ts /\ q[i].ts # walk'[t].kernel
        BY <1>o, <1>r, <1>w, <1>t, <3>1
      <4>2. EntrySound(t, q[i]) /\ q[i].user \in Nat
        BY <1>o, <3>1
      <4>3. IF t \in system THEN q[i].user = 0 ELSE q[i].user <= number'[t]
        BY <1>t, <4>2 DEF EntrySound
      <4> QED
        BY <1>0, <3>1, <4>1, <4>2, <4>3, Zenon DEF EntrySound, e, p
    <3>2. CASE (s.on \/ s.group # NoGroup) /\ p[i] = s
      <4>1. WellMade(s)
        BY <1>r, <3>2 DEF WellMade
      <4>2. s.on /\ s.ts = walk'[t].kernel => s.inKernel
        BY <1>w, <1>t
      <4>3. IF t \in system THEN s.user = 0 ELSE s.user <= number'[t]
        BY <1>u, <1>t
      <4> QED
        BY <1>0, <1>r, <3>2, <4>1, <4>2, <4>3 DEF EntrySound, e, p
    <3> QED
      BY <1>p, <3>1, <3>2
  <2>2. InTimeOrder(p)
    <3>1. ASSUME NEW i \in 1 .. Len(p), NEW j \in 1 .. Len(p), i < j
          PROVE  p[i].ts <= FirstTime(p[j]) /\ p[i].ts < p[j].ts
      <4>l. Len(q) \in Nat
        BY <1>t
      <4>1. i \in 1 .. Len(q) /\ p[i] = q[i]
        BY <1>p, <3>1, <4>l
      <4>2. CASE j \in 1 .. Len(q) /\ p[j] = q[j]
        <5>1. InTimeOrder(q)
          BY DEF ThreadSound, QueueSound, q
        <5> QED
          BY <3>1, <4>1, <4>2, <5>1 DEF InTimeOrder, Chained
      <4>3. CASE p[j] = s
        BY <1>o, <1>f, <1>t, <4>1, <4>3
      <4> QED
        BY <1>p, <4>2, <4>3
    <3> QED
      BY <3>1 DEF InTimeOrder, Chained
  <2> QED
    BY <1>r, <2>1, <2>2 DEF QueueSound, e, p
<1>2. WalkSound(t)'
  BY <1>0, <1>w, <1>t DEF WalkSound, None
<1>3. LastSound(t)'
  <2>1. lastTime[t] < ts /\ (arch = "x86" => lastTime[t] <= d.ts)
    <3>1. lastTime[t] <= now /\ (arch = "x86" => lastTime[t] <= d.ts)
      BY DEF ThreadSound, LastSound, d
    <3> QED
      BY <3>1, <1>t
  <2>2. ASSUME arch = "x86", NEW i \in 1 .. Len(p),
               t \notin system \/ p[i].ts = walk'[t].kernel
        PROVE  lastTime[t] <= FirstTime(p[i])
    <3>1. CASE i \in 1 .. Len(q) /\ p[i] = q[i]
      <4>1. p[i].ts # walk'[t].kernel
        BY <1>o, <1>w, <1>t, <3>1
      <4>2. lastTime[t] <= FirstTime(q[i])
        BY <2>2, <3>1, <4>1 DEF ThreadSound, LastSound, q
      <4> QED
        BY <3>1, <4>2
    <3>2. CASE p[i] = s
      BY <1>f, <1>t, <2>1, <2>2, <3>2
    <3> QED
      BY <1>p, <3>1, <3>2
  <2>3. /\ walk'[t].kernel # None => lastTime'[t] <= walk'[t].kernel
        /\ walk'[t].user # None => lastTime'[t] <= walk'[t].user
        /\ lastTime'[t] <= now'
    BY <1>t, <1>w, <2>1 DEF None
  <2>4. arch = "x86" => lastTime'[t] <= e.ts
    BY <1>r, <1>t, <2>1
  <2> QED
    BY <1>0, <2>2, <2>3, <2>4 DEF LastSound, e, p
<1>4. NothingLost(t)'
  <2>1. ASSUME ~lossy, NEW i \in 1 .. Len(p), p[i].on PROVE p[i].group = NoGroup
    <3>1. CASE i \in 1 .. Len(q) /\ p[i] = q[i]
      BY <2>1, <3>1 DEF ThreadSound, NothingLost, q
    <3>2. CASE p[i] = s
      BY <1>r, <2>1, <3>2 DEF d
    <3> QED
      BY <1>p, <3>1, <3>2
  <2>2. ASSUME ~lossy, arch = "x86", NEW i \in 1 .. Len(q)
        PROVE  /\ t \notin system /\ number'[t] = number[t] /\ CompletedNext(t, i)
               /\ ~(q[i].on /\ q[i].inKernel /\ ~q[i].kernel)
    <3>1. CompletedNext(t, i)
      BY <2>2 DEF ThreadSound, NothingLost, q
    <3>2. q[i].ts # walk[t].kernel
      BY <1>o, <1>t
    <3>3. q # <<>>
      BY <1>t
    <3>4. number'[t] = number[t]
      <4>1. mode[t] = "user" => q = <<>>
        BY <2>2, EmptyInUserMode DEF q
      <4> QED
        BY <3>3, <4>1
    <3> QED
      BY <3>1, <3>2, <3>4 DEF CompletedNext, q
  <2>3. ASSUME ~lossy, arch = "x86", NEW i \in 1 .. Len(p) PROVE CompletedNext(t, i)'
    <3>1. CASE i \in 1 .. Len(q) /\ p[i] = q[i]
      <4>1. /\ t \notin system /\ number'[t] = number[t] /\ CompletedNext(t, i)
            /\ ~(q[i].on /\ q[i].inKernel /\ ~q[i].kernel)
        BY <2>2, <2>3, <3>1
      <4>2. q[i].ts <= walk'[t].user
        BY <1>o, <1>t, <1>w, <3>1, <4>1
      <4>3. q[i].user = number[t]
        BY <4>1 DEF CompletedNext, q
      <4> QED
        BY <1>0, <3>1, <4>1, <4>2, <4>3 DEF CompletedNext, p
    <3>2. CASE i = Len(q) + 1 /\ p[i] = s
      <4>1. t \in system => i = 1
        <5>1. t \in system => ~(1 \in 1 .. Len(q))
          BY <2>2, <2>3
        <5> QED
          BY <1>t, <3>2, <5>1
      <4>2. s.on /\ s.inKernel => walk'[t].kernel = ts
        BY <1>w
      <4>3. s.on /\ s.inKernel /\ ~s.kernel => s.ts = walk'[t].kernel
        BY <4>2
      <4>4. IF t \in system THEN i = 1 /\ s.ts = walk'[t].kernel
            ELSE s.ts <= walk'[t].user /\ s.user = number'[t]
        BY <1>t, <1>u, <1>w, <4>1
      <4> QED
        BY <1>0, <3>2, <4>3, <4>4 DEF CompletedNext, p
    <3> QED
      BY <1>p, <3>1, <3>2
  <2> QED
    BY <1>0, <1>r, <2>1, <2>3 DEF NothingLost, e, p
<1> QED
  BY <1>1, <1>2, <1>3, <1>4 DEF ThreadSound

\* Some samples are taken from a queue; the others stay in their order.
LEMMA Kept ==
  ASSUME Types, Types', NEW t \in Tids, QueueSound(t), UNCHANGED config, now' = now,
         threads'[t].known = threads[t].known, threads'[t].data = threads[t].data,
         number'[t] = number[t], walk'[t].kernel = None,
         NEW f \in [1 .. Len(threads'[t].queue) -> 1 .. Len(threads[t].queue)],
         \A i, j \in 1 .. Len(threads'[t].queue) : i < j => f[i] < f[j],
         \A i \in 1 .. Len(threads'[t].queue) : threads'[t].queue[i] = threads[t].queue[f[i]]
  PROVE  QueueSound(t)'
<1> DEFINE q == threads[t].queue
           p == threads'[t].queue
<1>0. system' = system /\ q \in Seq(Pending) /\ p \in Seq(Pending)
  BY SMTT(30), ThreadTypes, ThreadTypesNext DEF config
<1>1. ASSUME NEW i \in 1 .. Len(p) PROVE EntrySound(t, threads[t].queue[i])'
  <2>1. f[i] \in 1 .. Len(q) /\ p[i] = q[f[i]]
    OBVIOUS
  <2>2. EntrySound(t, q[f[i]])
    BY <2>1 DEF QueueSound
  <2>3. q[f[i]].ts # walk'[t].kernel
    BY <1>0, <2>1, EntryTypes DEF None
  <2> QED
    BY <1>0, <2>1, <2>2, <2>3 DEF EntrySound
<1>2. InTimeOrder(p)
  <2>1. ASSUME NEW i \in 1 .. Len(p), NEW j \in 1 .. Len(p), i < j
        PROVE  p[i].ts <= FirstTime(p[j]) /\ p[i].ts < p[j].ts
    <3>1. f[i] \in 1 .. Len(q) /\ f[j] \in 1 .. Len(q) /\ f[i] < f[j]
          /\ p[i] = q[f[i]] /\ p[j] = q[f[j]]
      BY <2>1
    <3>2. InTimeOrder(q)
      BY DEF QueueSound
    <3> QED
      BY <3>1, <3>2 DEF InTimeOrder, Chained
  <2> QED
    BY <2>1 DEF InTimeOrder, Chained
<1>3. threads[t].data.state = "Unknown" => p = <<>>
  <2>1. ASSUME threads[t].data.state = "Unknown", p # <<>> PROVE FALSE
    <3>1. 1 \in 1 .. Len(p)
      BY <1>0, <2>1
    <3>2. f[1] \in 1 .. Len(q)
      BY <3>1
    <3>3. q = <<>>
      BY <2>1 DEF QueueSound
    <3> QED
      BY <3>2, <3>3
  <2> QED
    BY <2>1
<1>4. Sound(threads'[t].data, now') /\ (~threads'[t].known => threads'[t].data.state = "Unknown")
  BY DEF QueueSound
<1> QED
  BY <1>1, <1>2, <1>3, <1>4 DEF QueueSound

\* The kernel stack of a sample of the System process completes it.
LEMMA RemovedSound ==
  ASSUME Types, Types', NEW t \in Tids, ThreadSound(t), UNCHANGED config, now' = now,
         t \in system, arch = "x86", number'[t] = number[t], mode'[t] = mode[t],
         running' = running,
         walk'[t].kernel = None, walk'[t].user = walk[t].user,
         threads'[t].known = threads[t].known, threads'[t].data = threads[t].data,
         NEW i \in 1 .. Len(threads[t].queue),
         threads'[t].queue = RemoveAt(threads[t].queue, i),
         lastTime'[t] <= threads[t].queue[i].ts
  PROVE  ThreadSound(t)'
<1> DEFINE q == threads[t].queue
           p == threads'[t].queue
           f == [k \in 1 .. Len(p) |-> IF k < i THEN k ELSE k + 1]
<1>0. arch' = arch /\ lossy' = lossy /\ system' = system
  BY DEF config
<1>t. /\ q \in Seq(Pending) /\ p \in Seq(Pending) /\ now \in Nat /\ lastTime'[t] \in Int
      /\ threads[t].data.ts \in Nat /\ q[i].ts \in Nat
  BY ThreadTypes, ThreadTypesNext, DataTypes, EntryTypes
<1>r. Len(p) = Len(q) - 1 /\ \A k \in 1 .. Len(p) : p[k] = q[IF k < i THEN k ELSE k + 1]
  <2> DEFINE u == RemoveAt(q, i)
  <2>1. Len(u) = Len(q) - 1
    BY <1>t, RemoveFacts
  <2>2. \A k \in 1 .. Len(u) : u[k] = q[IF k < i THEN k ELSE k + 1]
    BY <1>t, RemoveFacts
  <2>3. p = u
    OBVIOUS
  <2> HIDE DEF u, p
  <2> QED
    BY <2>1, <2>2, <2>3
<1>1. QueueSound(t)'
  <2>1. f \in [1 .. Len(p) -> 1 .. Len(q)]
    <3>1. Len(q) \in Nat
      BY <1>t
    <3> QED
      BY <1>r, <3>1
  <2>2. \A k, m \in 1 .. Len(p) : k < m => f[k] < f[m]
    OBVIOUS
  <2>3. \A k \in 1 .. Len(p) : p[k] = q[f[k]]
    BY <1>r
  <2>4. QueueSound(t)
    BY DEF ThreadSound
  <2> HIDE DEF f
  <2> QED
    BY <2>1, <2>2, <2>3, <2>4, Kept
<1>2. WalkSound(t)'
  BY <1>0, <1>t DEF ThreadSound, WalkSound, None
<1>3. LastSound(t)'
  <2>1. q[i].ts <= threads[t].data.ts /\ threads[t].data.ts <= now
    <3>1. EntrySound(t, q[i]) /\ Sound(threads[t].data, now)
      BY DEF ThreadSound, QueueSound
    <3> QED
      BY <3>1 DEF EntrySound, Sound
  <2>2. lastTime'[t] <= now /\ lastTime'[t] <= threads[t].data.ts
    BY <1>t, <2>1
  <2>3. ASSUME NEW k \in 1 .. Len(p) PROVE p[k].ts # walk'[t].kernel
    BY <1>t, EntryTypes DEF None
  <2> QED
    BY <1>0, <2>2, <2>3 DEF LastSound
<1>4. NothingLost(t)'
  <2>1. ASSUME ~lossy, NEW k \in 1 .. Len(p) PROVE FALSE
    <3>1. Len(q) \in Nat /\ Len(q) >= 2
      BY <1>t, <1>r
    <3>2. 2 \in 1 .. Len(q)
      BY <3>1
    <3>3. CompletedNext(t, 2)
      BY <2>1, <3>2 DEF ThreadSound, NothingLost
    <3> QED
      BY <3>3 DEF CompletedNext
  <2>2. ~lossy /\ running = t => threads[t].data.state # "Off"
    BY DEF ThreadSound, NothingLost
  <2> QED
    BY <1>0, <2>1, <2>2 DEF NothingLost
<1> QED
  BY <1>1, <1>2, <1>3, <1>4 DEF ThreadSound

\* Elsewhere the sample goes on waiting for its user stack.
LEMMA ReplacedSound ==
  ASSUME Types, Types', NEW t \in Tids, ThreadSound(t), UNCHANGED config, now' = now,
         t \notin system, arch = "x86", number'[t] = number[t],
         running' = running,
         walk'[t].kernel = None, walk'[t].user = walk[t].user,
         threads'[t].known = threads[t].known, threads'[t].data = threads[t].data,
         NEW i \in 1 .. Len(threads[t].queue), threads[t].queue[i].ts = walk[t].kernel,
         threads'[t].queue
           = ReplaceAt(threads[t].queue, i, [threads[t].queue[i] EXCEPT !.kernel = TRUE]),
         lastTime'[t] = lastTime[t]
  PROVE  ThreadSound(t)'
<1> DEFINE q == threads[t].queue
           p == threads'[t].queue
           s == [q[i] EXCEPT !.kernel = TRUE]
<1>0. arch' = arch /\ lossy' = lossy /\ system' = system
  BY DEF config
<1>t. /\ q \in Seq(Pending) /\ p \in Seq(Pending) /\ now \in Nat
      /\ walk[t].user \in Int /\ lastTime[t] \in Int
  BY ThreadTypes, ThreadTypesNext
<1>s. /\ s \in Pending /\ s.ts = q[i].ts /\ s.kernel = TRUE /\ s.group = q[i].group
      /\ s.delta = q[i].delta /\ s.on = q[i].on /\ s.cpuDelta = q[i].cpuDelta
      /\ s.user = q[i].user /\ s.inKernel = q[i].inKernel
  <2>1. q[i] \in Pending
    BY <1>t
  <2> QED
    BY <2>1 DEF Pending
<1>r. Len(p) = Len(q) /\ \A k \in 1 .. Len(q) : p[k] = IF k = i THEN s ELSE q[k]
  <2> DEFINE u == ReplaceAt(q, i, s)
  <2> HIDE DEF s
  <2>1. Len(u) = Len(q)
    BY <1>t, <1>s, ReplaceFacts
  <2>2. \A k \in 1 .. Len(q) : u[k] = IF k = i THEN s ELSE q[k]
    BY SMTT(30), <1>t, <1>s, ReplaceFacts
  <2>3. p = u
    BY DEF s
  <2> HIDE DEF u, p
  <2> QED
    BY <2>1, <2>2, <2>3
<1> HIDE DEF s
<1>e. ASSUME NEW k \in 1 .. Len(q)
      PROVE  /\ p[k].ts = q[k].ts /\ FirstTime(p[k]) = FirstTime(q[k])
             /\ p[k].on = q[k].on /\ p[k].group = q[k].group /\ p[k].user = q[k].user
             /\ p[k].inKernel = q[k].inKernel /\ p[k].cpuDelta = q[k].cpuDelta
             /\ p[k].kernel = (IF k = i THEN TRUE ELSE q[k].kernel)
             /\ q[k].ts \in Nat /\ EntrySound(t, q[k])
  <2>1. CASE k = i
    <3>1. p[k] = s
      BY <1>r, <2>1
    <3> QED
      BY <1>s, <1>t, <2>1, <3>1, EntryTypes DEF FirstTime, ThreadSound, QueueSound
  <2>2. CASE k # i
    <3>1. p[k] = q[k]
      BY <1>r, <2>2
    <3> QED
      BY <1>t, <2>2, <3>1, EntryTypes DEF ThreadSound, QueueSound
  <2> QED
    BY <2>1, <2>2
<1> HIDE DEF p, q
<1>1. QueueSound(t)'
  <2>1. ASSUME NEW k \in 1 .. Len(q) PROVE EntrySound(t, threads[t].queue[k])'
    <3>1. WellMade(p[k])
      BY <1>e DEF EntrySound, WellMade
    <3>2. p[k].on /\ p[k].kernel => p[k].inKernel
      <4>1. CASE k = i
        <5>1. q[k].on => q[k].inKernel
          BY <1>e, <4>1 DEF EntrySound, q
        <5> QED
          BY <1>e, <5>1
      <4>2. CASE k # i
        BY <1>e, <4>2 DEF EntrySound
      <4> QED
        BY <4>1, <4>2
    <3>3. p[k].ts # walk'[t].kernel
      <4>1. p[k].ts \in Nat
        BY <1>e
      <4> QED
        BY <4>1 DEF None
    <3>4. /\ p[k].ts <= threads'[t].data.ts /\ (~p[k].on => ~p[k].inKernel)
          /\ IF t \in system THEN p[k].user = 0 ELSE p[k].user <= number'[t]
      BY <1>e DEF EntrySound
    <3> QED
      BY <1>0, <3>1, <3>2, <3>3, <3>4 DEF EntrySound, p
  <2>2. InTimeOrder(p)
    <3>1. InTimeOrder(q)
      BY DEF ThreadSound, QueueSound, q
    <3> QED
      BY <1>e, <1>r, <3>1 DEF InTimeOrder, Chained
  <2>3. threads[t].data.state # "Unknown"
    <3>1. q # <<>>
      BY <1>t DEF q
    <3> QED
      BY <3>1 DEF ThreadSound, QueueSound, q
  <2>4. Sound(threads'[t].data, now') /\ threads'[t].known
    BY <2>3 DEF ThreadSound, QueueSound
  <2> QED
    BY <1>r, <2>1, <2>2, <2>3, <2>4 DEF QueueSound, p
<1>2. WalkSound(t)'
  BY <1>0, <1>t DEF ThreadSound, WalkSound, None
<1>3. LastSound(t)'
  <2>1. ASSUME NEW k \in 1 .. Len(p) PROVE lastTime'[t] <= FirstTime(p[k])
    <3>1. lastTime[t] <= FirstTime(q[k])
      BY <1>r, <2>1 DEF ThreadSound, LastSound, q
    <3> QED
      BY <1>r, <1>e, <2>1, <3>1
  <2>2. lastTime[t] <= now /\ lastTime[t] <= threads[t].data.ts
    BY DEF ThreadSound, LastSound
  <2> QED
    BY <1>0, <2>1, <2>2 DEF LastSound, p
<1>4. NothingLost(t)'
  <2>1. ASSUME ~lossy, NEW k \in 1 .. Len(p) PROVE CompletedNext(t, k)' /\ (p[k].on => p[k].group = NoGroup)
    <3>k. k \in 1 .. Len(q)
      BY <1>r
    <3>1. CompletedNext(t, k) /\ (q[k].on => q[k].group = NoGroup)
      BY <2>1, <3>k DEF ThreadSound, NothingLost, q
    <3>2. ~(p[k].on /\ p[k].inKernel /\ ~p[k].kernel)
      <4>1. CASE k = i
        BY <1>e, <3>k, <4>1
      <4>2. CASE k # i
        <5>1. q[k].ts # q[i].ts
          <6>1. InTimeOrder(q)
            BY DEF ThreadSound, QueueSound, q
          <6>2. i \in 1 .. Len(q) /\ q[i].ts \in Nat /\ q[k].ts \in Nat
            BY <1>e, <3>k DEF q
          <6>3. k < i \/ i < k
            BY <3>k, <4>2, <6>2
          <6>4. q[k].ts < q[i].ts \/ q[i].ts < q[k].ts
            BY <3>k, <6>1, <6>2, <6>3 DEF InTimeOrder
          <6> QED
            BY <6>2, <6>4
        <5>2. ~(q[k].on /\ q[k].inKernel /\ ~q[k].kernel)
          BY <3>1, <5>1 DEF CompletedNext, q
        <5> QED
          BY <1>e, <3>k, <4>2, <5>2
      <4> QED
        BY <4>1, <4>2
    <3>3. p[k].ts <= walk'[t].user /\ p[k].user = number'[t]
      <4>1. q[k].ts <= walk[t].user /\ q[k].user = number[t]
        BY <3>1 DEF CompletedNext, q
      <4> QED
        BY <1>e, <3>k, <4>1
    <3>4. p[k].on => p[k].group = NoGroup
      BY <1>e, <3>1, <3>k
    <3> QED
      BY <1>0, <3>2, <3>3, <3>4 DEF CompletedNext, p
  <2>2. ~lossy /\ running = t => threads[t].data.state # "Off"
    BY DEF ThreadSound, NothingLost
  <2> QED
    BY <1>0, <2>1, <2>2 DEF NothingLost, p
<1> QED
  BY <1>1, <1>2, <1>3, <1>4 DEF ThreadSound

\* The user stack completes what waits.
LEMMA CutSound ==
  ASSUME Types, Types', NEW t \in Tids, ThreadSound(t), UNCHANGED config, now' = now,
         t \notin system, arch = "x86", number'[t] = number[t], running' = running,
         walk'[t] = NoWalk,
         threads'[t].known = threads[t].known, threads'[t].data = threads[t].data,
         NEW n \in 0 .. Len(threads[t].queue),
         threads'[t].queue = SubSeq(threads[t].queue, n + 1, Len(threads[t].queue)),
         ~lossy => n = Len(threads[t].queue),
         lastTime'[t] = lastTime[t] \/ (n # 0 /\ lastTime'[t] <= threads[t].queue[n].ts)
  PROVE  ThreadSound(t)'
<1> DEFINE q == threads[t].queue
           p == threads'[t].queue
           f == [k \in 1 .. Len(p) |-> k + n]
<1>0. arch' = arch /\ lossy' = lossy /\ system' = system
  BY DEF config
<1>t. /\ q \in Seq(Pending) /\ p \in Seq(Pending) /\ now \in Nat /\ lastTime'[t] \in Int
      /\ threads[t].data.ts \in Nat /\ lastTime[t] \in Int
  BY ThreadTypes, ThreadTypesNext, DataTypes
<1>w. walk'[t].kernel = None /\ walk'[t].user = None
  BY DEF NoWalk
<1>r. Len(p) = Len(q) - n /\ \A k \in 1 .. Len(p) : k + n \in 1 .. Len(q) /\ p[k] = q[k + n]
  BY <1>t, CutFacts
<1>1. QueueSound(t)'
  <2>1. f \in [1 .. Len(p) -> 1 .. Len(q)]
    BY <1>r
  <2>2. \A k, m \in 1 .. Len(p) : k < m => f[k] < f[m]
    OBVIOUS
  <2>3. \A k \in 1 .. Len(p) : p[k] = q[f[k]]
    BY <1>r
  <2>4. QueueSound(t)
    BY DEF ThreadSound
  <2> HIDE DEF f
  <2> QED
    BY <1>w, <2>1, <2>2, <2>3, <2>4, Kept
<1>2. WalkSound(t)'
  BY <1>0, <1>t, <1>w DEF ThreadSound, WalkSound, None
<1>n. n # 0 => /\ n \in 1 .. Len(q) /\ q[n].ts \in Nat
               /\ q[n].ts <= threads[t].data.ts
  <2>1. n # 0 => n \in 1 .. Len(q)
    OBVIOUS
  <2>2. n # 0 => EntrySound(t, q[n])
    BY <2>1 DEF ThreadSound, QueueSound
  <2> QED
    BY <1>t, <2>1, <2>2, EntryTypes DEF EntrySound
<1>3. LastSound(t)'
  <2>1. threads[t].data.ts <= now /\ lastTime[t] <= now /\ lastTime[t] <= threads[t].data.ts
    BY DEF ThreadSound, LastSound, QueueSound, Sound
  <2>2. lastTime'[t] <= now /\ lastTime'[t] <= threads[t].data.ts
    <3>1. n # 0 => q[n].ts \in Nat /\ q[n].ts <= threads[t].data.ts
      BY <1>n
    <3>2. CASE lastTime'[t] = lastTime[t]
      BY <2>1, <3>2
    <3>3. CASE n # 0 /\ lastTime'[t] <= q[n].ts
      <4>1. PICK a \in Int, b, c \in Nat : a = lastTime'[t] /\ b = q[n].ts /\ c = threads[t].data.ts
        BY <1>t, <3>1, <3>3
      <4>2. a <= b /\ b <= c /\ c <= now
        BY <2>1, <3>1, <3>3, <4>1
      <4>3. a <= now /\ a <= c
        BY <1>t, <4>2
      <4> QED
        BY <4>1, <4>3
    <3> QED
      BY <3>2, <3>3
  <2>3. ASSUME NEW k \in 1 .. Len(p) PROVE lastTime'[t] <= FirstTime(p[k])
    <3>1. k + n \in 1 .. Len(q) /\ p[k] = q[k + n] /\ FirstTime(q[k + n]) \in Int
      BY <1>r, <1>t, EntryTypes
    <3>2. CASE lastTime'[t] = lastTime[t]
      BY <3>1, <3>2 DEF ThreadSound, LastSound
    <3>3. CASE n # 0 /\ lastTime'[t] <= q[n].ts
      <4>1. n < k + n /\ Chained(q)
        BY DEF ThreadSound, QueueSound, InTimeOrder
      <4>2. q[n].ts <= FirstTime(q[k + n])
        BY <1>n, <3>1, <3>3, <4>1 DEF Chained
      <4> QED
        BY SMTT(30), <1>n, <1>t, <3>1, <3>3, <4>2
    <3> QED
      BY <3>2, <3>3
  <2> QED
    BY <1>0, <2>2, <2>3 DEF LastSound
<1>4. NothingLost(t)'
  <2>1. ~lossy => p = <<>>
    <3>1. Len(q) \in Nat
      BY <1>t
    <3>2. ~lossy => Len(p) = 0
      BY <1>r, <3>1
    <3> QED
      BY <1>t, <3>2
  <2>2. ~lossy /\ running = t => threads[t].data.state # "Off"
    BY DEF ThreadSound, NothingLost
  <2> QED
    BY <1>0, <2>1, <2>2 DEF NothingLost
<1> QED
  BY <1>1, <1>2, <1>3, <1>4 DEF ThreadSound

\* On ARM64 the stack is a sample, and nothing leaves the queue.
LEMMA Arm64Sound ==
  ASSUME Types, Types', NEW t \in Tids, ThreadSound(t), UNCHANGED config, now' = now,
         arch = "arm64", number'[t] = number[t], mode'[t] = mode[t], running' = running,
         walk'[t] = NoWalk,
         threads'[t].known = threads[t].known, threads'[t].queue = threads[t].queue,
         threads'[t].data = consume_cpu_delta(threads[t].data),
         lastTime'[t] <= now
  PROVE  ThreadSound(t)'
<1> DEFINE q == threads[t].queue
           d == threads[t].data
           e == threads'[t].data
<1>0. arch' = arch /\ lossy' = lossy /\ system' = system
  BY DEF config
<1>t. q \in Seq(Pending) /\ now \in Nat
  BY ThreadTypes
<1>w. walk'[t].kernel = -1 /\ walk'[t].user = -1
  BY DEF NoWalk, None
<1>d. e \in ThreadContextSwitchData /\ e.off = d.off /\ e.ts = d.ts /\ e.state = d.state
  BY ThreadTypes, Consume
<1> HIDE DEF e
<1>1. QueueSound(t)'
  <2>1. ASSUME NEW i \in 1 .. Len(q) PROVE EntrySound(t, threads[t].queue[i])'
    <3>1. EntrySound(t, q[i])
      BY DEF ThreadSound, QueueSound
    <3>2. q[i].ts # walk'[t].kernel
      BY <1>t, <1>w, EntryTypes
    <3> QED
      BY <1>0, <1>d, <3>1, <3>2 DEF EntrySound, e
  <2>2. Sound(e, now')
    BY <1>d DEF ThreadSound, QueueSound, Sound
  <2> QED
    BY <1>d, <2>1, <2>2 DEF ThreadSound, QueueSound, e
<1>2. WalkSound(t)'
  BY <1>0, <1>t, <1>w DEF ThreadSound, WalkSound, None
<1>3. LastSound(t)'
  BY <1>0, <1>w DEF LastSound, None
<1>4. NothingLost(t)'
  BY <1>0, <1>d DEF ThreadSound, NothingLost, e
<1> QED
  BY <1>1, <1>2, <1>3, <1>4 DEF ThreadSound

\* The thread that takes over a tid.
LEMMA FreshSound ==
  ASSUME Types', NEW t \in Tids, running' # t, walk'[t] = NoWalk, lastTime'[t] = 0,
         threads'[t].queue = <<>>, threads'[t].data = NewThreadData,
         t \in system' => mode'[t] = "kernel"
  PROVE  ThreadSound(t)'
<1>1. now' \in Nat
  BY ThreadTypesNext
<1>2. Sound(NewThreadData, now')
  BY <1>1, IntervalAssumption DEF Sound, NewThreadData, ThreadContextSwitchData
<1>3. threads'[t].data.state = "Unknown" /\ threads'[t].data.ts = 0
  BY DEF NewThreadData
<1>4. QueueSound(t)'
  BY <1>2, <1>3 DEF QueueSound, InTimeOrder, Chained
<1>5. WalkSound(t)' /\ LastSound(t)' /\ NothingLost(t)'
  BY <1>1, <1>3 DEF WalkSound, LastSound, NothingLost, NoWalk, None
<1> QED
  BY <1>4, <1>5 DEF ThreadSound

-----------------------------------------------------------------------------
(* Steps of the machine                                                    *)

\* What SamplesInTimeOrder says of one step.
OrderStep ==
  \A k \in Tids : \A i \in DOMAIN emitted'[k] :
    emitted'[k][i].time >= IF i = 1 THEN lastTime[k] ELSE emitted'[k][i - 1].time

\* What an event has to establish.
StepSound == IInv' /\ OrderStep

\* The types hold again if each variable keeps its own.
LEMMA TypesStep ==
  ASSUME Types, UNCHANGED config, now' \in 0 .. MaxTime, starts' \in 0 .. MaxStarts,
         running' \in Tids \cup {Idle}, mode' \in [Tids -> {"user", "kernel"}],
         number' \in [Tids -> 1 .. MaxStacks],
         walk' \in [Tids -> [kernel : Nat \cup {None}, user : Nat \cup {None}]],
         threads' \in [Tids -> ThreadState], cpu' \in ThreadContextSwitchData,
         first' \in [Tracks -> Nat], shown' \in [Tracks -> Nat], groups' \in [Tracks -> Nat],
         dropped' \in [Tracks -> Nat], left' \in [Tracks -> Nat], lastTime' \in [Tracks -> Int]
  PROVE  Types'
<1>1. ASSUME NEW t \in Tids
      PROVE  /\ threads'[t].known \in BOOLEAN
             /\ threads'[t].data \in ThreadContextSwitchData
             /\ \A i \in DOMAIN threads'[t].queue : threads'[t].queue[i] \in Pending
  <2>1. threads'[t] \in ThreadState
    OBVIOUS
  <2>2. /\ threads'[t].known \in BOOLEAN
        /\ threads'[t].data \in ThreadContextSwitchData
        /\ threads'[t].queue \in Seq(Pending)
    BY <2>1 DEF ThreadState
  <2> QED
    BY <2>2
<1>2. arch' \in {"x86", "arm64"} /\ lossy' \in BOOLEAN /\ system' \subseteq Tids
  BY DEF Types, TypeOK, config
<1>3. TypeOK'
  BY <1>1, <1>2 DEF TypeOK
<1> QED
  BY <1>3 DEF Types

\* The types, one by one.
LEMMA TypesParts ==
  ASSUME Types
  PROVE  /\ arch \in {"x86", "arm64"} /\ lossy \in BOOLEAN /\ system \subseteq Tids
         /\ now \in 0 .. MaxTime /\ now \in Nat /\ starts \in 0 .. MaxStarts
         /\ running \in Tids \cup {Idle} /\ mode \in [Tids -> {"user", "kernel"}]
         /\ number \in [Tids -> 1 .. MaxStacks]
         /\ walk \in [Tids -> [kernel : Nat \cup {None}, user : Nat \cup {None}]]
         /\ threads \in [Tids -> ThreadState] /\ cpu \in ThreadContextSwitchData
         /\ first \in [Tracks -> Nat] /\ shown \in [Tracks -> Nat] /\ groups \in [Tracks -> Nat]
         /\ dropped \in [Tracks -> Nat] /\ left \in [Tracks -> Nat] /\ lastTime \in [Tracks -> Int]
BY EtwSamplesAssumption DEF Types, TypeOK

\* Nothing is shown: there is nothing to be wrong.
LEMMA NothingShown ==
  ASSUME Types, Emit(<<>>)
  PROVE  /\ EmitsNothing /\ StackMatches' /\ OrderStep
         /\ shown' \in [Tracks -> Nat] /\ lastTime' \in [Tracks -> Int]
<1>1. EmitsNothing
  BY TypesParts, EmitNothing
<1>2. \A k \in Tracks : emitted'[k] = <<>>
  BY <1>1 DEF EmitsNothing
<1>3. StackMatches'
  BY <1>2 DEF StackMatches, Tracks
<1>4. OrderStep
  BY <1>2 DEF OrderStep, Tracks
<1> QED
  BY <1>1, <1>3, <1>4, TypesParts DEF EmitsNothing

\* The accounts are as they were.
LEMMA AccountsKept ==
  ASSUME Types, Accounts, now <= now', now' \in Nat, shown' = shown,
         UNCHANGED <<threads, cpu, first, groups, dropped, left>>
  PROVE  Accounts'
<1>1. Sound(cpu, now')
  <2>1. cpu.ts \in Nat /\ now \in Nat
    BY TypesParts, DataTypes
  <2> QED
    BY <2>1 DEF Accounts, Sound
<1>2. PlacedCpu' = PlacedCpu
  BY DEF PlacedCpu
<1>3. \A t \in Tids : Placed(t)' = Placed(t)
  BY DEF Placed
<1> QED
  BY <1>1, <1>2, <1>3 DEF Accounts

\* A thread does something in user mode.
LEMMA NextNumber ==
  ASSUME Types, NEW t \in Tids, NewStack(t)
  PROVE  /\ number' \in [Tids -> 1 .. MaxStacks]
         /\ number'[t] = number[t] + 1 /\ \A u \in Tids \ {t} : number'[u] = number[u]
         /\ \A u \in Tids : number[u] <= number'[u]
<1>1. number \in [Tids -> 1 .. MaxStacks] /\ number[t] < MaxStacks
      /\ number' = [number EXCEPT ![t] = @ + 1]
  BY TypesParts DEF NewStack
<1>2. number[t] \in 1 .. MaxStacks /\ MaxStacks \in Nat
  BY <1>1, EtwSamplesAssumption
<1>3. number[t] + 1 \in 1 .. MaxStacks /\ number[t] <= number[t] + 1
  BY <1>1, <1>2
<1>4. \A u \in Tids : number[u] \in Nat
  BY <1>1, <1>2
<1> QED
  BY <1>1, <1>3, <1>4

\* EnterKernel: the queue is empty in user mode, so no sample waits for the old stack.
LEMMA StepsEnterKernel ==
  ASSUME IInv, UNCHANGED config, NEW t \in Tids, EnterKernel(t)
  PROVE  StepSound
<1> USE DEF IInv
<1>0. /\ running = t /\ mode[t] = "user" /\ StacksReported(t) /\ NewStack(t)
      /\ mode' = [mode EXCEPT ![t] = "kernel"] /\ Emit(<<>>)
      /\ now' = now /\ walk' = walk /\ running' = running /\ starts' = starts
      /\ threads' = threads /\ cpu' = cpu /\ first' = first /\ groups' = groups
      /\ dropped' = dropped /\ left' = left
  BY DEF EnterKernel
<1>1. /\ EmitsNothing /\ StackMatches' /\ OrderStep
      /\ shown' \in [Tracks -> Nat] /\ lastTime' \in [Tracks -> Int]
  BY <1>0, NothingShown
<1>2. shown' = shown /\ lastTime' = lastTime
  BY <1>1 DEF EmitsNothing
<1>3. /\ number' \in [Tids -> 1 .. MaxStacks]
      /\ number'[t] = number[t] + 1 /\ \A u \in Tids \ {t} : number'[u] = number[u]
      /\ \A u \in Tids : number[u] <= number'[u]
  BY <1>0, NextNumber
<1>4. Types'
  <2>1. mode' \in [Tids -> {"user", "kernel"}]
    BY <1>0, TypesParts
  <2> QED
    BY <1>0, <1>1, <1>3, <2>1, TypesParts, TypesStep
<1>5. ASSUME NEW u \in Tids PROVE ThreadSound(u)'
  <2>1. ThreadSound(u)
    OBVIOUS
  <2>2. number'[u] = number[u] \/ lossy \/ arch # "x86" \/ threads[u].queue = <<>>
    <3>1. CASE u = t
      BY <1>0, <2>1, <3>1, EmptyInUserMode
    <3>2. CASE u # t
      BY <1>3, <3>2
    <3> QED
      BY <3>1, <3>2
  <2>3. u \in system => mode'[u] = "kernel"
    <3>1. u \in system => mode[u] = "kernel"
      BY <2>1 DEF ThreadSound, WalkSound
    <3> QED
      BY <1>0, <3>1, TypesParts
  <2>4. ~lossy /\ running' = u => threads[u].data.state # "Off"
    BY <1>0, <2>1 DEF ThreadSound, NothingLost
  <2>5. now <= now'
    BY <1>0, TypesParts
  <2> QED
    BY <1>0, <1>2, <1>3, <1>4, <2>1, <2>2, <2>3, <2>4, <2>5, MovesOn
<1>6. Accounts'
  BY <1>0, <1>2, TypesParts, AccountsKept
<1> QED
  BY <1>1, <1>4, <1>5, <1>6 DEF StepSound

\* ReturnToUser.
LEMMA StepsReturnToUser ==
  ASSUME IInv, UNCHANGED config, NEW t \in Tids, ReturnToUser(t)
  PROVE  StepSound
<1> USE DEF IInv
<1>0. /\ t \notin system /\ mode' = [mode EXCEPT ![t] = "user"] /\ Emit(<<>>)
      /\ now' = now /\ number' = number /\ walk' = walk /\ running' = running /\ starts' = starts
      /\ threads' = threads /\ cpu' = cpu /\ first' = first /\ groups' = groups
      /\ dropped' = dropped /\ left' = left
  BY DEF ReturnToUser
<1>1. /\ EmitsNothing /\ StackMatches' /\ OrderStep
      /\ shown' \in [Tracks -> Nat] /\ lastTime' \in [Tracks -> Int]
  BY <1>0, NothingShown
<1>2. shown' = shown /\ lastTime' = lastTime
  BY <1>1 DEF EmitsNothing
<1>4. Types'
  <2>1. mode' \in [Tids -> {"user", "kernel"}]
    BY <1>0, TypesParts
  <2> QED
    BY <1>0, <1>1, <2>1, TypesParts, TypesStep
<1>5. ASSUME NEW u \in Tids PROVE ThreadSound(u)'
  <2>1. ThreadSound(u)
    OBVIOUS
  <2>3. u \in system => mode'[u] = "kernel"
    <3>1. u \in system => mode[u] = "kernel"
      BY <2>1 DEF ThreadSound, WalkSound
    <3> QED
      BY <1>0, <3>1, TypesParts
  <2>4. ~lossy /\ running' = u => threads[u].data.state # "Off"
    BY <1>0, <2>1 DEF ThreadSound, NothingLost
  <2>5. now <= now' /\ number[u] <= number'[u]
    <3>1. number[u] \in Nat /\ now \in Nat
      BY ThreadTypes
    <3> QED
      BY <1>0, <3>1
  <2> QED
    BY <1>0, <1>2, <1>4, <2>1, <2>3, <2>4, <2>5, MovesOn
<1>6. Accounts'
  BY <1>0, <1>2, TypesParts, AccountsKept
<1> QED
  BY <1>1, <1>4, <1>5, <1>6 DEF StepSound

-----------------------------------------------------------------------------
(* Stacks                                                                  *)

WalkRequests == [kernel : Nat \cup {None}, user : Nat \cup {None}]

\* A stack that is lost, or that finds no sample to belong to.
LEMMA StackIgnored ==
  ASSUME IInv, UNCHANGED config, NEW t \in Tids,
         UNCHANGED <<now, mode, number, running, starts, cpu, first, groups, dropped, left>>,
         threads' = threads, Emit(<<>>),
         NEW w \in WalkRequests, walk' = [walk EXCEPT ![t] = w],
         w.kernel = None, w.user = None \/ w.user = walk[t].user,
         \/ lossy \/ arch # "x86" \/ threads[t].queue = <<>>
         \/ /\ w.user = walk[t].user
            /\ \A i \in 1 .. Len(threads[t].queue) : threads[t].queue[i].ts # walk[t].kernel
  PROVE  StepSound
<1> USE DEF IInv
<1>1. /\ EmitsNothing /\ StackMatches' /\ OrderStep
      /\ shown' \in [Tracks -> Nat] /\ lastTime' \in [Tracks -> Int]
  BY NothingShown
<1>2. shown' = shown /\ lastTime' = lastTime
  BY <1>1 DEF EmitsNothing
<1>3. /\ walk'[t] = w /\ \A u \in Tids \ {t} : walk'[u] = walk[u]
      /\ walk' \in [Tids -> WalkRequests]
  BY TypesParts DEF WalkRequests
<1>4. Types'
  BY <1>1, <1>3, TypesParts, TypesStep DEF WalkRequests
<1>n. now <= now' /\ now \in Nat
  BY TypesParts
<1>5. ASSUME NEW u \in Tids PROVE ThreadSound(u)'
  <2>1. ThreadSound(u) /\ number[u] <= number'[u]
    BY ThreadTypes
  <2>2. u \in system => mode'[u] = "kernel" /\ walk[u].user = None
    BY <2>1 DEF ThreadSound, WalkSound
  <2>3. ~lossy /\ running' = u => threads[u].data.state # "Off"
    BY <2>1 DEF ThreadSound, NothingLost
  <2>4. CASE u # t
    BY <1>2, <1>3, <1>4, <1>n, <2>1, <2>2, <2>3, <2>4, MovesOn
  <2>5. CASE u = t
    <3>1. walk'[u].kernel = None /\ (walk'[u].user = None \/ walk'[u].user = walk[u].user)
      BY <1>3, <2>5
    <3>2. walk'[u].kernel <= now' /\ walk'[u].user <= now'
      <4>1. walk[u].user <= now
        BY <2>1 DEF ThreadSound, WalkSound
      <4> QED
        BY <1>n, <3>1, <4>1 DEF None
    <3>3. ASSUME ~lossy, arch = "x86", NEW i \in 1 .. Len(threads[u].queue)
          PROVE  CompletedNext(u, i)'
      <4>1. threads[u].queue # <<>>
        <5>1. threads[u].queue \in Seq(Pending)
          BY ThreadTypes
        <5> QED
          BY <5>1
      <4>2. walk'[u].user = walk[u].user /\ threads[u].queue[i].ts # walk[u].kernel
        BY <1>3, <2>5, <3>3, <4>1
      <4>3. CompletedNext(u, i)
        BY <2>1, <3>3 DEF ThreadSound, NothingLost
      <4>4. system' = system
        BY DEF config
      <4> QED
        BY <4>2, <4>3, <4>4 DEF CompletedNext
    <3> QED
      BY <1>2, <1>4, <1>n, <2>1, <2>2, <2>3, <3>1, <3>2, <3>3, WalkMoves
  <2> QED
    BY <2>4, <2>5
<1>6. Accounts'
  BY <1>2, <1>n, AccountsKept
<1> QED
  BY <1>1, <1>4, <1>5, <1>6 DEF StepSound

\* A sample that may be shown with the user stack u.
ReadyFor(s, u) ==
  /\ WellMade(s) /\ s.user <= u
  /\ s.on /\ s.kernel => s.inKernel
  /\ ~s.on => ~s.inKernel
  /\ ~lossy => /\ s.user = u
               /\ s.on => s.group = NoGroup
               /\ s.on /\ s.inKernel => s.kernel

\* The stack of a sample that is shown is its own.
LEMMA RightStack ==
  ASSUME NEW s \in Pending, NEW u \in Nat, ReadyFor(s, u), NEW x \in Item, Shows(x, s, u)
  PROVE  /\ x.user >= x.of.user
         /\ x.kernel => x.of.inKernel
         /\ ~lossy => x.user = x.of.user /\ x.kernel = x.of.inKernel
<1>1. /\ s.on \in BOOLEAN /\ s.kernel \in BOOLEAN /\ s.inKernel \in BOOLEAN /\ s.user \in Nat
      /\ x.kernel \in BOOLEAN
  BY DEF Pending, Item
<1>2. x.of = s /\ x.user = u
  BY DEF Shows
<1>3. x.kernel => s.inKernel
  BY DEF Shows, ReadyFor
<1>4. ~lossy /\ ~x.kernel => ~s.inKernel
  BY DEF Shows, ReadyFor
<1>5. x.user >= x.of.user /\ (~lossy => x.user = x.of.user)
  BY <1>1, <1>2 DEF ReadyFor
<1>6. ~lossy => x.kernel = s.inKernel
  BY <1>1, <1>3, <1>4
<1> QED
  BY <1>2, <1>3, <1>5, <1>6

\* The samples of a queue are shown.
LEMMA QueueShown ==
  ASSUME Types, Types', lossy' = lossy, NEW t \in Tids, NEW q \in Seq(Pending), NEW u \in Nat,
         EmitConsumed(t, q, u), Chained(q),
         \A i \in 1 .. Len(q) : ReadyFor(q[i], u) /\ lastTime[t] <= FirstTime(q[i])
  PROVE  /\ StackMatches' /\ OrderStep
         /\ shown'[t] = shown[t] + Total(Deltas(q))
         /\ shown'[Cpu] = shown[Cpu] + Total(CpuDeltas(q))
         /\ \A k \in Tids \ {t} : shown'[k] = shown[k] /\ lastTime'[k] = lastTime[k]
         /\ \/ lastTime'[t] = lastTime[t]
            \/ \E i \in 1 .. Len(q) : lastTime'[t] <= q[i].ts
<1> DEFINE a == ConsumeAll(q, u).thread
           b == ConsumeAll(q, u).cpu
<1>1. \A i \in 1 .. Len(q) : WellMade(q[i])
  BY DEF ReadyFor
<1>2. shown \in [Tracks -> Nat] /\ lastTime \in [Tracks -> Int]
  BY TypesParts
<1>3. /\ Adds(t, a, Total(Deltas(q))) /\ Adds(Cpu, b, Total(CpuDeltas(q)))
      /\ \A k \in Tids \ {t} : Adds(k, <<>>, 0)
  BY <1>1, <1>2, EmitQueue
<1>4. /\ a \in Seq(Item) /\ InOrder(a)
      /\ \A i \in 1 .. Len(a) : \E j \in 1 .. Len(q) : Shows(a[i], q[j], u)
  BY <1>1, ThreadShows DEF ShownOnThread
<1>5. /\ b \in Seq(Item)
      /\ \A i \in 1 .. Len(b) : \E j \in 1 .. Len(q) : Shows(b[i], q[j], u)
  BY <1>1, CpuShows DEF ShownOnCpu
<1> HIDE DEF a, b
<1>6. emitted'[t] = a /\ emitted'[Cpu] = b /\ \A k \in Tids \ {t} : emitted'[k] = <<>>
  BY <1>3 DEF Adds
<1>7. StackMatches'
  <2>1. ASSUME NEW c \in Seq(Item), NEW i \in 1 .. Len(c),
               \E j \in 1 .. Len(q) : Shows(c[i], q[j], u)
        PROVE  /\ c[i].user >= c[i].of.user
               /\ c[i].kernel => c[i].of.inKernel
               /\ ~lossy => c[i].user = c[i].of.user /\ c[i].kernel = c[i].of.inKernel
    <3>1. PICK j \in 1 .. Len(q) : Shows(c[i], q[j], u)
      BY <2>1
    <3>2. c[i] \in Item /\ q[j] \in Pending /\ ReadyFor(q[j], u)
      OBVIOUS
    <3> QED
      BY <3>1, <3>2, RightStack
  <2>2. ASSUME NEW k \in Tracks, NEW i \in DOMAIN emitted'[k]
        PROVE  LET s == emitted'[k][i]
               IN  /\ s.user >= s.of.user
                   /\ s.kernel => s.of.inKernel
                   /\ ~lossy' => s.user = s.of.user /\ s.kernel = s.of.inKernel
    <3>1. CASE k = t
      BY SMTT(30), <1>4, <1>6, <2>1, <3>1
    <3>2. CASE k = Cpu
      BY SMTT(30), <1>5, <1>6, <2>1, <3>2
    <3>3. CASE k \in Tids \ {t}
      BY <1>6, <3>3
    <3> QED
      BY <3>1, <3>2, <3>3 DEF Tracks
  <2> QED
    BY <2>2 DEF StackMatches
<1>8. ASSUME NEW i \in 1 .. Len(a)
      PROVE  /\ lastTime[t] <= a[i].time
             /\ \E j \in 1 .. Len(q) : a[i].time <= q[j].ts
  <2>1. PICK j \in 1 .. Len(q) : Shows(a[i], q[j], u)
    BY <1>4
  <2>2. FirstTime(q[j]) <= a[i].time /\ a[i].time <= q[j].ts /\ lastTime[t] <= FirstTime(q[j])
    BY <2>1 DEF Shows
  <2>3. FirstTime(q[j]) \in Int /\ a[i] \in Item /\ a[i].time \in Int /\ lastTime[t] \in Int
    BY <1>4, EntryTypes, ItemFacts, ThreadTypes
  <2> QED
    BY <2>2, <2>3
<1>9. OrderStep
  <2>1. ASSUME NEW k \in Tids, NEW i \in DOMAIN emitted'[k]
        PROVE  emitted'[k][i].time >= IF i = 1 THEN lastTime[k] ELSE emitted'[k][i - 1].time
    <3>1. CASE k = t
      <4>1. i \in 1 .. Len(a) /\ emitted'[k] = a /\ Len(a) \in Nat
        BY <1>4, <1>6, <3>1
      <4>2. CASE i = 1
        <5>1. lastTime[t] <= a[i].time /\ a[i].time \in Int /\ lastTime[t] \in Int
          BY <1>4, <1>8, <4>1, ItemFacts, ThreadTypes
        <5> QED
          BY <3>1, <4>1, <4>2, <5>1
      <4>3. CASE i # 1
        <5>1. i - 1 \in 1 .. Len(a) /\ i - 1 < i
          BY <4>1, <4>3
        <5>2. a[i - 1].time <= a[i].time
          BY <1>4, <4>1, <5>1 DEF InOrder
        <5>3. a[i - 1].time \in Int /\ a[i].time \in Int
          BY <1>4, <4>1, <5>1, ItemFacts
        <5> QED
          BY <4>1, <4>3, <5>2, <5>3
      <4> QED
        BY <4>2, <4>3
    <3>2. CASE k # t
      BY <1>6, <3>2
    <3> QED
      BY <3>1, <3>2
  <2> QED
    BY <2>1 DEF OrderStep
<1>10. lastTime'[t] = lastTime[t] \/ \E i \in 1 .. Len(q) : lastTime'[t] <= q[i].ts
  <2>1. CASE a = <<>>
    BY <1>3, <2>1 DEF Adds
  <2>2. CASE a # <<>>
    <3>1. Len(a) \in 1 .. Len(a)
      BY <1>4, <2>2
    <3>2. lastTime'[t] = a[Len(a)].time
      BY <1>3, <2>2 DEF Adds
    <3> QED
      BY <1>8, <3>1, <3>2
  <2> QED
    BY <2>1, <2>2
<1>11. /\ shown'[t] = shown[t] + Total(Deltas(q))
       /\ shown'[Cpu] = shown[Cpu] + Total(CpuDeltas(q))
       /\ \A k \in Tids \ {t} : shown'[k] = shown[k] /\ lastTime'[k] = lastTime[k]
  <2>1. \A k \in Tids : shown[k] \in Nat
    BY <1>2 DEF Tracks
  <2> QED
    BY <1>3, <2>1 DEF Adds
<1> QED
  BY <1>7, <1>9, <1>10, <1>11

\* The time of the samples that leave the queue of t is shown.
LEMMA AccountsShown ==
  ASSUME Types, Types', Accounts, NEW t \in Tids, now' = now, cpu' = cpu,
         UNCHANGED <<first, groups, dropped, left>>,
         \A u \in Tids : threads'[u].data = threads[u].data,
         \A u \in Tids \ {t} : threads'[u].queue = threads[u].queue,
         NEW a \in Nat, NEW b \in Nat,
         shown'[t] = shown[t] + a, shown'[Cpu] = shown[Cpu] + b,
         \A u \in Tids \ {t} : shown'[u] = shown[u],
         Total(Deltas(threads[t].queue)) = Total(Deltas(threads'[t].queue)) + a,
         Total(CpuDeltas(threads[t].queue)) = Total(CpuDeltas(threads'[t].queue)) + b
  PROVE  Accounts'
<1>q. \A u \in Tids : threads[u].queue \in Seq(Pending) /\ threads'[u].queue \in Seq(Pending)
  BY ThreadTypes, ThreadTypesNext
<1>s. \A k \in Tracks : shown[k] \in Nat
  BY TypesParts
<1>1. Placed(t)' = Placed(t)
  <2>1. /\ Total(Deltas(threads[t].queue)) \in Nat /\ Total(Deltas(threads'[t].queue)) \in Nat
        /\ shown[t] \in Nat
    BY <1>q, <1>s, QueueTotals DEF Tracks
  <2>2. PICK x, y, z \in Nat : x = Total(Deltas(threads[t].queue)) /\ y = Total(Deltas(threads'[t].queue))
                               /\ z = shown[t]
    BY <2>1
  <2>3. z + a + y = z + x
    BY <2>2
  <2>4. shown'[t] + Total(Deltas(threads'[t].queue)) = shown[t] + Total(Deltas(threads[t].queue))
    BY <2>2, <2>3
  <2> QED
    BY <2>4 DEF Placed
<1>2. \A u \in Tids \ {t} : Placed(u)' = Placed(u)
  BY DEF Placed
<1>3. PlacedCpu' = PlacedCpu
  <2> DEFINE x == SumOver(CpuQueued(threads), Tids)
             y == SumOver(CpuQueued(threads'), Tids)
             v == Total(CpuDeltas(threads[t].queue))
             w == Total(CpuDeltas(threads'[t].queue))
  <2>1. x \in Nat /\ y \in Nat /\ y + v = x + w
    BY <1>q, CpuQueuedStep
  <2>2. v \in Nat /\ w \in Nat /\ v = w + b /\ shown[Cpu] \in Nat
    BY <1>q, <1>s, QueueTotals DEF Tracks
  <2> HIDE DEF x, y, v, w
  <2>3. shown'[Cpu] + y = shown[Cpu] + x
    <3>1. x = y + b
      BY <2>1, <2>2
    <3> QED
      BY <2>1, <2>2, <3>1
  <2> QED
    BY <2>3 DEF PlacedCpu, x, y
<1>4. Balanced(cpu', first'[Cpu], PlacedCpu') /\ Sound(cpu', now')
  BY <1>3 DEF Accounts
<1>5. ASSUME NEW u \in Tids PROVE left'[u] = 0 /\ Balanced(threads'[u].data, first'[u], Placed(u)')
  <2>1. Placed(u)' = Placed(u)
    BY <1>1, <1>2
  <2> QED
    BY <2>1 DEF Accounts
<1> QED
  BY <1>4, <1>5 DEF Accounts

\* Of the threads that an event does not concern.
LEMMA OthersSound ==
  ASSUME Types, Types', UNCHANGED config, now <= now', NEW u \in Tids, ThreadSound(u),
         threads'[u] = threads[u], walk'[u] = walk[u], lastTime'[u] = lastTime[u],
         number'[u] = number[u], mode'[u] = mode[u], running' = running \/ running' # u
  PROVE  ThreadSound(u)'
<1>1. number[u] <= number'[u]
  <2>1. number[u] \in Nat
    BY ThreadTypes
  <2> QED
    BY <2>1
<1>2. u \in system => mode'[u] = "kernel"
  BY DEF ThreadSound, WalkSound
<1>3. ~lossy /\ running' = u => threads[u].data.state # "Off"
  BY DEF ThreadSound, NothingLost
<1> QED
  BY <1>1, <1>2, <1>3, MovesOn

\* The order of the places does not matter.
LEMMA PlacesAdd ==
  ASSUME NEW a \in Nat, NEW b \in Nat, NEW c \in Nat, NEW d \in Nat, NEW e \in Nat,
         NEW n \in Nat, NEW m \in Nat
  PROVE  /\ a + b + c + d + e \in Nat
         /\ a + n + b + c + d + e = a + b + c + d + e + n
         /\ a + (b + n) + c + d + e = a + b + c + d + e + n
         /\ a + (b + n) + c + d + (e + m) = a + b + c + d + e + m + n
         /\ a + b + c + (d + n) + (e + m) = a + b + c + d + e + m + n
         /\ (a + n) + b + c + d + (e + m) = a + b + c + d + e + m + n
OBVIOUS

\* On ARM64 a stack is shown as a sample of its own.
LEMMA SampleShown ==
  ASSUME IInv, UNCHANGED config, NEW t \in Tids,
         UNCHANGED <<now, mode, number, running, starts, cpu, first, groups, dropped, left>>,
         arch = "arm64", walk' = [walk EXCEPT ![t] = NoWalk],
         NEW ts \in Nat, ts <= now, lastTime[t] <= ts, NEW u \in Nat, NEW m \in BOOLEAN,
         threads' = [threads EXCEPT ![t].data = consume_cpu_delta(@)],
         Emit([k \in {t} |-> <<Sample(ts, u, m, threads[t].data.on, [user |-> u, inKernel |-> m])>>])
  PROVE  StepSound
<1> USE DEF IInv
<1> DEFINE d == threads[t].data
           of == [user |-> u, inKernel |-> m]
           x == Sample(ts, u, m, d.on, of)
           a == [k \in {t} |-> <<x>>]
           E == {x}
<1>t. /\ d \in ThreadContextSwitchData /\ d.on \in Nat /\ threads[t].queue \in Seq(Pending)
      /\ t \in Tracks /\ t # Cpu /\ threads[t] \in ThreadState /\ threads \in [Tids -> ThreadState]
  BY ThreadTypes, DataTypes, TypesParts
<1>x. /\ x.time = ts /\ x.user = u /\ x.kernel = m /\ x.delta = d.on
      /\ x.of.user = u /\ x.of.inKernel = m
  BY DEF Sample
<1>1. /\ shown' \in [Tracks -> Nat] /\ lastTime' \in [Tracks -> Int]
      /\ Adds(t, <<x>>, d.on) /\ \A k \in Tracks \ {t} : Adds(k, <<>>, 0)
  <2> HIDE DEF x
  <2>1. a \in [{t} -> Seq(E)] /\ {t} \in SUBSET Tracks
    BY <1>t
  <2>2. \A e \in E : e.delta \in Nat /\ e.time \in Int
    BY <1>t, <1>x
  <2>3. Emit(a)
    BY DEF x
  <2>4. shown \in [Tracks -> Nat] /\ lastTime \in [Tracks -> Int]
    BY TypesParts
  <2>5. a[t] = <<x>>
    OBVIOUS
  <2>6. Total(Deltas(<<x>>)) = d.on
    <3>1. x.delta \in Nat
      BY <1>t, <1>x
    <3> QED
      BY <1>x, <3>1, DeltasOfOne
  <2> HIDE DEF a, E
  <2>7. /\ shown' \in [Tracks -> Nat] /\ lastTime' \in [Tracks -> Int]
        /\ \A k \in {t} : Adds(k, a[k], Total(Deltas(a[k])))
        /\ \A k \in Tracks \ {t} : Adds(k, <<>>, 0)
    BY <2>1, <2>2, <2>3, <2>4, EmitTo
  <2> QED
    BY <2>5, <2>6, <2>7
<1> HIDE DEF x
<1>2. /\ emitted'[t] = <<x>> /\ \A k \in Tracks \ {t} : emitted'[k] = <<>>
      /\ lastTime'[t] = ts /\ \A k \in Tids \ {t} : lastTime'[k] = lastTime[k]
      /\ shown'[t] = shown[t] + d.on /\ \A k \in Tracks \ {t} : shown'[k] = shown[k]
  <2>1. \A k \in Tracks : shown[k] \in Nat
    BY TypesParts
  <2>2. \A k \in Tracks \ {t} : emitted'[k] = <<>> /\ shown'[k] = shown[k] /\ lastTime'[k] = lastTime[k]
    BY <1>1, <2>1 DEF Adds
  <2>3. emitted'[t] = <<x>> /\ shown'[t] = shown[t] + d.on /\ lastTime'[t] = ts
    BY <1>1, <1>x DEF Adds
  <2> QED
    BY <2>2, <2>3 DEF Tracks
<1>3. /\ threads' \in [Tids -> ThreadState]
      /\ threads'[t].data = consume_cpu_delta(d) /\ threads'[t].queue = threads[t].queue
      /\ threads'[t].known = threads[t].known
      /\ \A k \in Tids \ {t} : threads'[k] = threads[k]
  <2>1. consume_cpu_delta(d) \in ThreadContextSwitchData
    BY <1>t, Consume
  <2>2. [threads[t] EXCEPT !.data = consume_cpu_delta(d)] \in ThreadState
    BY <1>t, <2>1 DEF ThreadState
  <2>3. threads'[t] = [threads[t] EXCEPT !.data = consume_cpu_delta(d)]
    BY <1>t
  <2>4. /\ threads'[t].data = consume_cpu_delta(d) /\ threads'[t].queue = threads[t].queue
        /\ threads'[t].known = threads[t].known
    BY <1>t, <2>3 DEF ThreadState
  <2> QED
    BY <1>t, <2>2, <2>3, <2>4
<1>4. walk' \in [Tids -> WalkRequests] /\ walk'[t] = NoWalk /\ \A k \in Tids \ {t} : walk'[k] = walk[k]
  <2>1. NoWalk \in WalkRequests
    BY DEF NoWalk, WalkRequests, None
  <2> QED
    BY <2>1, TypesParts DEF WalkRequests
<1>5. Types'
  BY <1>1, <1>3, <1>4, TypesParts, TypesStep DEF WalkRequests
<1>n. now <= now' /\ now \in Nat
  BY TypesParts
<1>6. ASSUME NEW k \in Tids PROVE ThreadSound(k)'
  <2>1. CASE k = t
    BY <1>2, <1>3, <1>4, <1>5, <1>n, <2>1, Arm64Sound
  <2>2. CASE k # t
    BY <1>2, <1>3, <1>4, <1>5, <1>n, <2>2, OthersSound
  <2> QED
    BY <2>1, <2>2
<1>7. Accounts'
  <2>q. \A k \in Tids : threads[k].queue \in Seq(Pending) /\ threads'[k].queue \in Seq(Pending)
    BY <1>5, ThreadTypes, ThreadTypesNext
  <2>1. Balanced(threads'[t].data, first'[t], Placed(t)')
    <3> DEFINE y == groups[t] * Interval
               z == Total(Deltas(threads[t].queue))
    <3>1. /\ shown[t] \in Nat /\ z \in Nat /\ left[t] \in Nat /\ dropped[t] \in Nat
          /\ y \in Nat /\ first[t] \in Nat
      <4>1. shown[t] \in Nat /\ left[t] \in Nat /\ dropped[t] \in Nat /\ groups[t] \in Nat
            /\ first[t] \in Nat
        BY <1>t, TypesParts
      <4> QED
        BY <1>t, <4>1, QueueTotals, IntervalAssumption
    <3> HIDE DEF y, z
    <3>2. Placed(t) = shown[t] + z + left[t] + dropped[t] + y
      BY DEF Placed, y, z
    <3>3. Placed(t)' = shown[t] + d.on + z + left[t] + dropped[t] + y
      BY <1>2, <1>3 DEF Placed, y, z
    <3>4. Placed(t) \in Nat /\ Placed(t)' = Placed(t) + d.on
      <4>1. PICK v1, v2, v3, v4, v5, n \in Nat :
              /\ v1 = shown[t] /\ v2 = z /\ v3 = left[t] /\ v4 = dropped[t] /\ v5 = y /\ n = d.on
        BY <1>t, <3>1, Zenon
      <4>2. Placed(t) = v1 + v2 + v3 + v4 + v5 /\ Placed(t)' = v1 + n + v2 + v3 + v4 + v5
        BY <3>2, <3>3, <4>1
      <4>3. v1 + v2 + v3 + v4 + v5 \in Nat /\ v1 + n + v2 + v3 + v4 + v5 = v1 + v2 + v3 + v4 + v5 + n
        BY PlacesAdd
      <4> QED
        BY <4>1, <4>2, <4>3, Zenon
    <3>5. Balanced(d, first[t], Placed(t))
      BY DEF Accounts
    <3> QED
      BY <1>3, <1>t, <3>1, <3>4, <3>5, BalancedConsume
  <2>2. ASSUME NEW k \in Tids, k # t PROVE Balanced(threads'[k].data, first'[k], Placed(k)')
    <3>1. Placed(k)' = Placed(k)
      BY <1>2, <1>3, <2>2 DEF Placed, Tracks
    <3> QED
      BY <1>3, <2>2, <3>1 DEF Accounts
  <2>3. PlacedCpu' = PlacedCpu
    <3>1. CpuQueued(threads') = CpuQueued(threads)
      BY <1>3 DEF CpuQueued
    <3>2. shown'[Cpu] = shown[Cpu]
      BY <1>2, <1>t DEF Tracks
    <3> QED
      BY <3>1, <3>2 DEF PlacedCpu
  <2> QED
    BY <2>1, <2>2, <2>3 DEF Accounts
<1>8. StackMatches'
  <2>1. ASSUME NEW k \in Tracks, NEW i \in DOMAIN emitted'[k]
        PROVE  emitted'[k][i] = x
    BY <1>2
  <2>2. x.user >= x.of.user /\ x.kernel = x.of.inKernel /\ x.user = x.of.user /\ (x.kernel => x.of.inKernel)
    BY <1>x
  <2> QED
    BY <2>1, <2>2 DEF StackMatches
<1>9. OrderStep
  <2>1. ASSUME NEW k \in Tids, NEW i \in DOMAIN emitted'[k]
        PROVE  k = t /\ i = 1 /\ emitted'[k][i] = x
    BY <1>2 DEF Tracks
  <2>2. x.time >= lastTime[t]
    BY <1>x, <1>t, TypesParts
  <2> QED
    BY <2>1, <2>2 DEF OrderStep
<1> QED
  BY <1>5, <1>6, <1>7, <1>8, <1>9 DEF StepSound

\* Only the queue of one thread changes.
LEMMA QueueSet ==
  ASSUME Types, NEW t \in Tids, NEW q \in Seq(Pending), SetQueue(t, q)
  PROVE  /\ threads' \in [Tids -> ThreadState]
         /\ threads'[t].queue = q /\ threads'[t].known = threads[t].known
         /\ \A u \in Tids : threads'[u].data = threads[u].data
         /\ \A u \in Tids \ {t} : threads'[u] = threads[u]
<1>1. threads \in [Tids -> ThreadState] /\ threads[t] \in ThreadState
  BY TypesParts
<1>2. threads' = [threads EXCEPT ![t].queue = q]
  BY DEF SetQueue
<1>3. threads'[t] = [threads[t] EXCEPT !.queue = q]
  BY <1>1, <1>2
<1>4. [threads[t] EXCEPT !.queue = q] \in ThreadState
  BY <1>1 DEF ThreadState
<1>5. threads'[t].queue = q /\ threads'[t].known = threads[t].known /\ threads'[t].data = threads[t].data
  BY <1>1, <1>3 DEF ThreadState
<1> QED
  BY <1>1, <1>2, <1>3, <1>4, <1>5

\* The kernel stack completes a sample of the System process.
LEMMA KernelStackSystem ==
  ASSUME IInv, UNCHANGED config, NEW t \in Tids,
         UNCHANGED <<now, mode, number, running, starts, cpu, first, groups, dropped, left>>,
         arch = "x86", t \in system,
         NEW w \in WalkRequests, w.kernel = None, w.user = walk[t].user,
         walk' = [walk EXCEPT ![t] = w],
         NEW i \in 1 .. Len(threads[t].queue), threads[t].queue[i].ts = walk[t].kernel,
         SetQueue(t, RemoveAt(threads[t].queue, i)),
         EmitConsumed(t, <<[threads[t].queue[i] EXCEPT !.kernel = TRUE]>>, 0)
  PROVE  StepSound
<1> USE DEF IInv
<1> DEFINE q == threads[t].queue
           p == RemoveAt(q, i)
           s == [q[i] EXCEPT !.kernel = TRUE]
           one == <<s>>
<1>t. q \in Seq(Pending) /\ q[i] \in Pending /\ lastTime[t] \in Int /\ t \in Tracks /\ t # Cpu
  BY ThreadTypes
<1>s. /\ s \in Pending /\ s.ts = q[i].ts /\ s.kernel = TRUE /\ s.group = q[i].group
      /\ s.delta = q[i].delta /\ s.on = q[i].on /\ s.cpuDelta = q[i].cpuDelta
      /\ s.user = q[i].user /\ s.inKernel = q[i].inKernel /\ FirstTime(s) = FirstTime(q[i])
      /\ s.delta \in Nat /\ s.cpuDelta \in Nat
  BY <1>t DEF Pending, FirstTime
<1> HIDE DEF s
<1>r. /\ p \in Seq(Pending)
      /\ Total(Deltas(q)) = Total(Deltas(p)) + q[i].delta
      /\ Total(CpuDeltas(q)) = Total(CpuDeltas(p)) + q[i].cpuDelta
  BY <1>t, RemoveFacts
<1>o. /\ one \in Seq(Pending) /\ Len(one) = 1 /\ one[1] = s
      /\ Total(Deltas(one)) = s.delta /\ Total(CpuDeltas(one)) = s.cpuDelta
  <2>1. Total(Deltas(one)) = s.delta /\ Total(CpuDeltas(one)) = s.cpuDelta
    BY <1>s, DeltasOfOne
  <2>2. one \in Seq(Pending) /\ Len(one) = 1 /\ one[1] = s
    BY <1>s
  <2> QED
    BY <2>1, <2>2
<1> HIDE DEF p, one
<1>e. EmitConsumed(t, one, 0) /\ SetQueue(t, p)
  BY DEF one, s, p
<1>1. ReadyFor(s, 0) /\ lastTime[t] <= FirstTime(s)
  <2>1. EntrySound(t, q[i]) /\ ThreadSound(t)
    BY DEF ThreadSound, QueueSound
  <2>2. WellMade(s)
    BY <1>s, <2>1 DEF EntrySound, WellMade
  <2>3. s.user = 0 /\ (s.on => s.inKernel) /\ (~s.on => ~s.inKernel)
    BY <1>s, <2>1 DEF EntrySound
  <2>4. ~lossy /\ s.on => s.group = NoGroup
    BY <1>s, <2>1 DEF ThreadSound, NothingLost
  <2>5. lastTime[t] <= FirstTime(s)
    BY <1>s, <2>1 DEF ThreadSound, LastSound
  <2> QED
    BY <1>s, <2>2, <2>3, <2>4, <2>5 DEF ReadyFor
<1>2. \A k \in 1 .. Len(one) : WellMade(one[k]) /\ ReadyFor(one[k], 0) /\ lastTime[t] <= FirstTime(one[k])
  BY <1>1, <1>o DEF ReadyFor
<1>3. /\ threads' \in [Tids -> ThreadState]
      /\ threads'[t].queue = p /\ threads'[t].known = threads[t].known
      /\ \A u \in Tids : threads'[u].data = threads[u].data
      /\ \A u \in Tids \ {t} : threads'[u] = threads[u]
  BY <1>e, <1>r, QueueSet
<1>4. /\ walk'[t].kernel = None /\ walk'[t].user = walk[t].user
      /\ \A u \in Tids \ {t} : walk'[u] = walk[u]
      /\ walk' \in [Tids -> WalkRequests]
  BY TypesParts DEF WalkRequests
<1>5. Types'
  <2>1. shown' \in [Tracks -> Nat] /\ lastTime' \in [Tracks -> Int]
    BY <1>2, <1>e, <1>o, TypesParts, EmitQueue
  <2> QED
    BY <1>3, <1>4, <2>1, TypesParts, TypesStep DEF WalkRequests
<1>6. /\ StackMatches' /\ OrderStep
      /\ shown'[t] = shown[t] + s.delta /\ shown'[Cpu] = shown[Cpu] + s.cpuDelta
      /\ \A k \in Tids \ {t} : shown'[k] = shown[k] /\ lastTime'[k] = lastTime[k]
      /\ lastTime'[t] = lastTime[t] \/ \E k \in 1 .. Len(one) : lastTime'[t] <= one[k].ts
  <2>1. Chained(one) /\ lossy' = lossy /\ 0 \in Nat
    BY <1>o DEF Chained, config
  <2> QED
    BY <1>2, <1>5, <1>e, <1>o, <2>1, QueueShown
<1>7. lastTime'[t] <= q[i].ts
  <2>1. CASE lastTime'[t] = lastTime[t]
    <3>1. FirstTime(s) <= s.ts /\ FirstTime(s) \in Int /\ s.ts \in Nat
      <4>1. WellMade(s) /\ s.group.begin \in Int /\ s.group.end \in Int /\ s.ts \in Nat
        BY <1>1, <1>s DEF ReadyFor, Pending, OffCpuSampleGroup
      <4> QED
        BY <4>1 DEF WellMade, FirstTime
    <3> QED
      BY <1>1, <1>s, <1>t, <2>1, <3>1
  <2>2. CASE \E k \in 1 .. Len(one) : lastTime'[t] <= one[k].ts
    BY <1>o, <1>s, <2>2
  <2> QED
    BY <1>6, <2>1, <2>2
<1>n. now <= now' /\ now \in Nat
  BY TypesParts
<1>8. ASSUME NEW k \in Tids PROVE ThreadSound(k)'
  <2>1. CASE k = t
    <3>1. ThreadSound(t)
      OBVIOUS
    <3>2. threads'[t].queue = RemoveAt(threads[t].queue, i)
      BY <1>3 DEF p
    <3> QED
      BY <1>3, <1>4, <1>5, <1>7, <2>1, <3>1, <3>2, RemovedSound
  <2>2. CASE k # t
    BY <1>3, <1>4, <1>5, <1>6, <1>n, <2>2, OthersSound
  <2> QED
    BY <2>1, <2>2
<1>9. Accounts'
  BY <1>3, <1>5, <1>6, <1>r, <1>s, AccountsShown
<1> QED
  BY <1>5, <1>6, <1>8, <1>9 DEF StepSound

\* Elsewhere the sample goes on waiting.
LEMMA KernelStackElsewhere ==
  ASSUME IInv, UNCHANGED config, NEW t \in Tids,
         UNCHANGED <<now, mode, number, running, starts, cpu, first, groups, dropped, left>>,
         arch = "x86", t \notin system,
         NEW w \in WalkRequests, w.kernel = None, w.user = walk[t].user,
         walk' = [walk EXCEPT ![t] = w],
         NEW i \in 1 .. Len(threads[t].queue), threads[t].queue[i].ts = walk[t].kernel,
         SetQueue(t, ReplaceAt(threads[t].queue, i, [threads[t].queue[i] EXCEPT !.kernel = TRUE])),
         Emit(<<>>)
  PROVE  StepSound
<1> USE DEF IInv
<1> DEFINE q == threads[t].queue
           s == [q[i] EXCEPT !.kernel = TRUE]
           p == ReplaceAt(q, i, s)
<1>t. q \in Seq(Pending) /\ q[i] \in Pending /\ t \in Tracks /\ t # Cpu
  BY ThreadTypes
<1>s. s \in Pending /\ s.delta = q[i].delta /\ s.cpuDelta = q[i].cpuDelta
  BY <1>t DEF Pending
<1> HIDE DEF s
<1>r. p \in Seq(Pending) /\ Deltas(p) = Deltas(q) /\ CpuDeltas(p) = CpuDeltas(q)
  BY <1>t, <1>s, ReplaceFacts
<1> HIDE DEF p
<1>e. SetQueue(t, p)
  BY DEF p, s
<1>1. /\ EmitsNothing /\ StackMatches' /\ OrderStep
      /\ shown' \in [Tracks -> Nat] /\ lastTime' \in [Tracks -> Int]
  BY NothingShown
<1>2. shown' = shown /\ lastTime' = lastTime
  BY <1>1 DEF EmitsNothing
<1>3. /\ threads' \in [Tids -> ThreadState]
      /\ threads'[t].queue = p /\ threads'[t].known = threads[t].known
      /\ \A u \in Tids : threads'[u].data = threads[u].data
      /\ \A u \in Tids \ {t} : threads'[u] = threads[u]
  BY <1>e, <1>r, QueueSet
<1>4. /\ walk'[t].kernel = None /\ walk'[t].user = walk[t].user
      /\ \A u \in Tids \ {t} : walk'[u] = walk[u]
      /\ walk' \in [Tids -> WalkRequests]
  BY TypesParts DEF WalkRequests
<1>5. Types'
  BY <1>1, <1>3, <1>4, TypesParts, TypesStep DEF WalkRequests
<1>n. now <= now' /\ now \in Nat
  BY TypesParts
<1>8. ASSUME NEW k \in Tids PROVE ThreadSound(k)'
  <2>1. CASE k = t
    <3>1. ThreadSound(t)
      OBVIOUS
    <3>2. threads'[t].queue
            = ReplaceAt(threads[t].queue, i, [threads[t].queue[i] EXCEPT !.kernel = TRUE])
      BY <1>3 DEF p, s
    <3> QED
      BY <1>2, <1>3, <1>4, <1>5, <2>1, <3>1, <3>2, ReplacedSound
  <2>2. CASE k # t
    BY <1>2, <1>3, <1>4, <1>5, <1>n, <2>2, OthersSound
  <2> QED
    BY <2>1, <2>2
<1>9. Accounts'
  <2>1. /\ shown[t] \in Nat /\ shown[Cpu] \in Nat /\ Total(Deltas(q)) \in Nat
        /\ Total(CpuDeltas(q)) \in Nat
    BY <1>t, TypesParts, QueueTotals DEF Tracks
  <2>2. /\ shown'[t] = shown[t] + 0 /\ shown'[Cpu] = shown[Cpu] + 0
        /\ Total(Deltas(q)) = Total(Deltas(threads'[t].queue)) + 0
        /\ Total(CpuDeltas(q)) = Total(CpuDeltas(threads'[t].queue)) + 0
    BY <1>2, <1>3, <1>r, <2>1
  <2>3. 0 \in Nat /\ \A u \in Tids \ {t} : shown'[u] = shown[u]
    BY <1>2
  <2> QED
    BY <1>3, <1>5, <2>2, <2>3, AccountsShown
<1> QED
  BY <1>1, <1>5, <1>8, <1>9 DEF StepSound

\* The user stack is that of all samples that wait.
LEMMA UserStackShown ==
  ASSUME IInv, UNCHANGED config, NEW t \in Tids,
         UNCHANGED <<now, mode, number, running, starts, cpu, first, groups, dropped, left>>,
         arch = "x86", mode[t] = "user", walk[t].user # None, walk[t].kernel = None,
         threads[t].known,
         walk' = [walk EXCEPT ![t] = NoWalk],
         handle_user_stack(t, walk[t].user, number[t])
  PROVE  StepSound
<1> USE DEF IInv
<1> DEFINE q == threads[t].queue
           n == SamplesUntil(q, walk[t].user)
           a == SubSeq(q, 1, n)
           b == SubSeq(q, n + 1, Len(q))
<1>t. /\ q \in Seq(Pending) /\ lastTime[t] \in Int /\ t \in Tracks /\ t # Cpu
      /\ walk[t].user \in Int /\ number[t] \in Nat /\ Len(q) \in Nat
  BY ThreadTypes
<1>u. t \notin system
  BY DEF ThreadSound, WalkSound
<1>e. EmitConsumed(t, a, number[t]) /\ SetQueue(t, b)
  BY DEF handle_user_stack
<1>n. /\ n \in 0 .. Len(q)
      /\ n # Len(q) => n + 1 \in 1 .. Len(q) /\ q[n + 1].ts > walk[t].user
  BY <1>t, SamplesUntilFacts
<1> HIDE DEF n
<1>c. /\ a \in Seq(Pending) /\ Len(a) = n /\ \A i \in 1 .. n : a[i] = q[i]
      /\ b \in Seq(Pending)
      /\ Total(Deltas(q)) = Total(Deltas(b)) + Total(Deltas(a))
      /\ Total(CpuDeltas(q)) = Total(CpuDeltas(b)) + Total(CpuDeltas(a))
      /\ Total(Deltas(a)) \in Nat /\ Total(CpuDeltas(a)) \in Nat
  <2>1. /\ a \in Seq(Pending) /\ Len(a) = n /\ \A i \in 1 .. n : a[i] = q[i]
        /\ b \in Seq(Pending)
    BY <1>t, <1>n, CutFacts
  <2>2. /\ Total(Deltas(q)) = Total(Deltas(a)) + Total(Deltas(b))
        /\ Total(CpuDeltas(q)) = Total(CpuDeltas(a)) + Total(CpuDeltas(b))
    BY <1>t, <1>n, CutFacts
  <2>3. /\ Total(Deltas(a)) \in Nat /\ Total(CpuDeltas(a)) \in Nat
        /\ Total(Deltas(b)) \in Nat /\ Total(CpuDeltas(b)) \in Nat
    BY <2>1, QueueTotals
  <2> HIDE DEF a, b
  <2> QED
    BY <2>1, <2>2, <2>3
<1> HIDE DEF a, b
<1>l. ~lossy => n = Len(q)
  <2>1. ASSUME ~lossy, n # Len(q) PROVE FALSE
    <3>1. n + 1 \in 1 .. Len(q) /\ q[n + 1].ts > walk[t].user
      BY <1>n, <2>1
    <3>2. CompletedNext(t, n + 1)
      BY <2>1, <3>1 DEF ThreadSound, NothingLost
    <3>3. q[n + 1].ts <= walk[t].user
      BY <1>u, <3>2 DEF CompletedNext
    <3>4. q[n + 1].ts \in Nat
      BY <1>t, <3>1, EntryTypes
    <3> QED
      BY <1>t, <3>1, <3>3, <3>4
  <2> QED
    BY <2>1
<1>1. ASSUME NEW i \in 1 .. Len(a)
      PROVE  /\ i \in 1 .. Len(q) /\ a[i] = q[i] /\ WellMade(a[i])
             /\ ReadyFor(a[i], number[t]) /\ lastTime[t] <= FirstTime(a[i])
  <2>0. i \in 1 .. Len(q) /\ a[i] = q[i]
    BY <1>c, <1>n
  <2>1. EntrySound(t, q[i])
    BY <2>0 DEF ThreadSound, QueueSound
  <2>2. /\ WellMade(q[i]) /\ q[i].user <= number[t] /\ (q[i].on /\ q[i].kernel => q[i].inKernel)
        /\ (~q[i].on => ~q[i].inKernel)
    BY <1>u, <2>1 DEF EntrySound
  <2>3. ASSUME ~lossy
        PROVE  /\ q[i].user = number[t] /\ (q[i].on => q[i].group = NoGroup)
               /\ (q[i].on /\ q[i].inKernel => q[i].kernel)
    <3>1. CompletedNext(t, i) /\ (q[i].on => q[i].group = NoGroup)
      BY <2>0, <2>3 DEF ThreadSound, NothingLost
    <3>2. q[i].ts # walk[t].kernel
      BY <1>t, <2>0, EntryTypes DEF None
    <3> QED
      BY <1>u, <3>1, <3>2 DEF CompletedNext
  <2>4. lastTime[t] <= FirstTime(q[i])
    BY <1>u, <2>0 DEF ThreadSound, LastSound
  <2> QED
    BY <2>0, <2>2, <2>3, <2>4 DEF ReadyFor
<1>3. /\ threads' \in [Tids -> ThreadState]
      /\ threads'[t].queue = b /\ threads'[t].known = threads[t].known
      /\ \A u \in Tids : threads'[u].data = threads[u].data
      /\ \A u \in Tids \ {t} : threads'[u] = threads[u]
  BY <1>e, <1>c, QueueSet
<1>4. walk' \in [Tids -> WalkRequests] /\ walk'[t] = NoWalk /\ \A k \in Tids \ {t} : walk'[k] = walk[k]
  <2>1. NoWalk \in WalkRequests
    BY DEF NoWalk, WalkRequests, None
  <2> QED
    BY <2>1, TypesParts DEF WalkRequests
<1>5. Types'
  <2>1. shown' \in [Tracks -> Nat] /\ lastTime' \in [Tracks -> Int]
    BY <1>1, <1>c, <1>e, <1>t, TypesParts, EmitQueue
  <2> QED
    BY <1>3, <1>4, <2>1, TypesParts, TypesStep DEF WalkRequests
<1>k. Chained(q)
  BY DEF ThreadSound, QueueSound, InTimeOrder
<1>6. /\ StackMatches' /\ OrderStep
      /\ shown'[t] = shown[t] + Total(Deltas(a)) /\ shown'[Cpu] = shown[Cpu] + Total(CpuDeltas(a))
      /\ \A k \in Tids \ {t} : shown'[k] = shown[k] /\ lastTime'[k] = lastTime[k]
      /\ lastTime'[t] = lastTime[t] \/ \E k \in 1 .. Len(a) : lastTime'[t] <= a[k].ts
  <2>1. Chained(a)
    <3>1. ASSUME NEW i \in 1 .. Len(a), NEW j \in 1 .. Len(a), i < j
          PROVE  a[i].ts <= FirstTime(a[j])
      BY <1>1, <1>k, <3>1 DEF Chained
    <3> QED
      BY <3>1 DEF Chained
  <2>2. lossy' = lossy
    BY DEF config
  <2> QED
    BY <1>1, <1>5, <1>c, <1>e, <1>t, <2>1, <2>2, QueueShown
<1>7. lastTime'[t] = lastTime[t] \/ (n # 0 /\ lastTime'[t] <= q[n].ts)
  <2>1. ASSUME NEW k \in 1 .. Len(a), lastTime'[t] <= a[k].ts
        PROVE  n # 0 /\ lastTime'[t] <= q[n].ts
    <3>1. k \in 1 .. n /\ n \in 1 .. Len(q) /\ n \in 1 .. Len(a) /\ a[k] = q[k] /\ a[n] = q[n] /\ k \in 1 .. Len(q)
      BY <1>c, <1>n
    <3>2. CASE k = n
      BY <2>1, <3>1, <3>2
    <3>3. CASE k # n
      <4>1. k < n /\ q[k].ts <= FirstTime(q[n])
        BY <1>k, <3>1, <3>3 DEF Chained
      <4>2. q[k].ts \in Nat /\ q[n].ts \in Nat /\ FirstTime(q[n]) \in Int /\ lastTime'[t] \in Int
        BY <1>5, <1>t, <3>1, EntryTypes, ThreadTypesNext
      <4>3. FirstTime(q[n]) <= q[n].ts
        <5>1. WellMade(q[n]) /\ q[n] \in Pending
          BY <1>1, <1>t, <3>1
        <5>2. q[n].group.begin \in Int /\ q[n].group.end \in Int /\ q[n].ts \in Nat
          BY <5>1 DEF Pending, OffCpuSampleGroup
        <5> QED
          BY <5>1, <5>2 DEF WellMade, FirstTime
      <4>4. PICK x, y \in Int, z, v \in Nat : x = lastTime'[t] /\ y = FirstTime(q[n]) /\ z = q[k].ts /\ v = q[n].ts
        BY <4>2
      <4>5. x <= z /\ z <= y /\ y <= v
        BY <2>1, <3>1, <4>1, <4>3, <4>4
      <4>6. x <= v
        BY <4>5
      <4> QED
        BY <3>1, <4>4, <4>6
    <3> QED
      BY <3>2, <3>3
  <2> QED
    BY <1>6, <2>1
<1>m. now <= now' /\ now \in Nat
  BY TypesParts
<1>8. ASSUME NEW k \in Tids PROVE ThreadSound(k)'
  <2>1. CASE k = t
    <3>1. ThreadSound(t)
      OBVIOUS
    <3>2. threads'[t].queue = SubSeq(threads[t].queue, n + 1, Len(threads[t].queue))
      BY <1>3 DEF b
    <3> QED
      BY <1>3, <1>4, <1>5, <1>7, <1>l, <1>n, <1>u, <2>1, <3>1, <3>2, CutSound
  <2>2. CASE k # t
    BY <1>3, <1>4, <1>5, <1>6, <1>m, <2>2, OthersSound
  <2> QED
    BY <2>1, <2>2
<1>9. Accounts'
  BY <1>3, <1>5, <1>6, <1>c, AccountsShown
<1> QED
  BY <1>5, <1>6, <1>8, <1>9 DEF StepSound

\* Nothing waits in the queue of a thread that is not recorded.
LEMMA UnknownEmpty ==
  ASSUME NEW t \in Tids, ThreadSound(t), ~threads[t].known
  PROVE  threads[t].queue = <<>> /\ threads[t].data.state = "Unknown"
BY DEF ThreadSound, QueueSound

\* KernelStack: the stack comes, on either architecture, or is lost.
LEMMA StepsKernelStack ==
  ASSUME IInv, UNCHANGED config, NEW t \in Tids, KernelStack(t)
  PROVE  StepSound
<1> USE DEF IInv
<1> DEFINE w == [walk[t] EXCEPT !.kernel = None]
           ts == walk[t].kernel
<1>0. /\ ts # None
      /\ walk' = [walk EXCEPT ![t] = IF arch = "arm64" THEN NoWalk ELSE w]
      /\ UNCHANGED <<now, mode, number, running, starts, cpu, first, groups, dropped, left>>
  <2>1. walk' = [walk EXCEPT ![t] = IF arch = "arm64" THEN NoWalk ELSE [@ EXCEPT !.kernel = None]]
    BY DEF KernelStack
  <2>2. walk' = [walk EXCEPT ![t] = IF arch = "arm64" THEN NoWalk ELSE w]
    BY <2>1, TypesParts
  <2> QED
    BY <2>2 DEF KernelStack
<1>t. /\ walk[t] \in WalkRequests /\ ts \in Nat /\ number[t] \in Nat /\ threads[t].known \in BOOLEAN
      /\ lastTime[t] \in Int /\ threads[t].queue \in Seq(Pending) /\ now \in Nat
  <2>1. walk[t] \in WalkRequests /\ number[t] \in Nat /\ ts \in Nat \cup {-1} /\ threads[t].known \in BOOLEAN
        /\ lastTime[t] \in Int /\ threads[t].queue \in Seq(Pending) /\ now \in Nat
    BY ThreadTypes DEF WalkRequests
  <2> QED
    BY <1>0, <2>1 DEF None
<1>w. /\ w \in WalkRequests /\ w.kernel = None /\ w.user = walk[t].user
      /\ NoWalk \in WalkRequests /\ NoWalk.kernel = None /\ NoWalk.user = None
  BY <1>t DEF WalkRequests, NoWalk, None
<1>s. ThreadSound(t)
  OBVIOUS
<1> HIDE DEF w
<1>1. CASE arch = "x86" /\ handle_kernel_stack(t, ts)
  <2> DEFINE i == LastAt(threads[t].queue, ts)
  <2>w. walk' = [walk EXCEPT ![t] = w]
    BY <1>0, <1>1
  <2>i. /\ i \in 0 .. Len(threads[t].queue)
        /\ i # 0 => i \in 1 .. Len(threads[t].queue) /\ threads[t].queue[i].ts = ts
        /\ i = 0 => \A j \in 1 .. Len(threads[t].queue) : threads[t].queue[j].ts # ts
    BY <1>t, LastAtFacts
  <2>1. CASE ~threads[t].known \/ i = 0
    <3>1. threads' = threads /\ Emit(<<>>)
      BY <1>1, <2>1 DEF handle_kernel_stack
    <3>2. \/ threads[t].queue = <<>>
          \/ \A j \in 1 .. Len(threads[t].queue) : threads[t].queue[j].ts # walk[t].kernel
      BY <1>s, <2>1, <2>i, UnknownEmpty
    <3> QED
      BY <1>0, <1>w, <2>w, <3>1, <3>2, StackIgnored
  <2>2. CASE threads[t].known /\ i # 0 /\ t \in system
    <3>1. /\ SetQueue(t, RemoveAt(threads[t].queue, i))
          /\ EmitConsumed(t, <<[threads[t].queue[i] EXCEPT !.kernel = TRUE]>>, 0)
      BY <1>1, <2>2 DEF handle_kernel_stack
    <3>2. i \in 1 .. Len(threads[t].queue) /\ threads[t].queue[i].ts = walk[t].kernel
      BY <2>2, <2>i
    <3> HIDE DEF i
    <3> QED
      BY <1>0, <1>1, <1>w, <2>2, <2>w, <3>1, <3>2, KernelStackSystem
  <2>3. CASE threads[t].known /\ i # 0 /\ t \notin system
    <3>1. /\ SetQueue(t, ReplaceAt(threads[t].queue, i, [threads[t].queue[i] EXCEPT !.kernel = TRUE]))
          /\ Emit(<<>>)
      BY <1>1, <2>3 DEF handle_kernel_stack
    <3>2. i \in 1 .. Len(threads[t].queue) /\ threads[t].queue[i].ts = walk[t].kernel
      BY <2>3, <2>i
    <3> HIDE DEF i
    <3> QED
      BY <1>0, <1>1, <1>w, <2>3, <2>w, <3>1, <3>2, KernelStackElsewhere
  <2> QED
    BY <2>1, <2>2, <2>3
<1>2. CASE arch = "arm64" /\ handle_stack_arm64(t, ts, UserStackOf(t, number), TRUE)
  <2>w. walk' = [walk EXCEPT ![t] = NoWalk] /\ arch # "x86"
    BY <1>0, <1>2
  <2>1. CASE ~threads[t].known
    <3>1. threads' = threads /\ Emit(<<>>)
      BY <1>2, <2>1 DEF handle_stack_arm64
    <3> QED
      BY <1>0, <1>w, <2>w, <3>1, StackIgnored
  <2>2. CASE threads[t].known
    <3> DEFINE u == UserStackOf(t, number)
    <3>1. /\ threads' = [threads EXCEPT ![t].data = consume_cpu_delta(@)]
          /\ Emit([k \in {t} |-> <<Sample(ts, u, TRUE, threads[t].data.on, [user |-> u, inKernel |-> TRUE])>>])
      BY <1>2, <2>2 DEF handle_stack_arm64
    <3>2. u \in Nat
      BY <1>t DEF UserStackOf
    <3>3. ts <= now /\ lastTime[t] <= ts
      BY <1>0, <1>2, <1>s DEF ThreadSound, LastSound, WalkSound
    <3> HIDE DEF u
    <3> QED
      BY <1>0, <1>2, <1>t, <2>w, <3>1, <3>2, <3>3, SampleShown
  <2> QED
    BY <2>1, <2>2
<1>3. CASE lossy /\ UNCHANGED threads /\ Emit(<<>>)
  <2>1. CASE arch = "arm64"
    BY <1>0, <1>3, <1>w, <2>1, StackIgnored
  <2>2. CASE arch # "arm64"
    BY <1>0, <1>3, <1>w, <2>2, StackIgnored
  <2> QED
    BY <2>1, <2>2
<1> QED
  BY <1>1, <1>2, <1>3 DEF KernelStack

\* UserStack: the stack comes, on either architecture, or is lost.
LEMMA StepsUserStack ==
  ASSUME IInv, UNCHANGED config, NEW t \in Tids, UserStack(t)
  PROVE  StepSound
<1> USE DEF IInv
<1> DEFINE ts == walk[t].user
<1>0. /\ ts # None /\ walk[t].kernel = None /\ mode[t] = "user"
      /\ walk' = [walk EXCEPT ![t] = NoWalk]
      /\ UNCHANGED <<now, mode, number, running, starts, cpu, first, groups, dropped, left>>
  BY DEF UserStack
<1>t. /\ ts \in Nat /\ number[t] \in Nat /\ threads[t].known \in BOOLEAN
      /\ lastTime[t] \in Int /\ now \in Nat
  <2>1. number[t] \in Nat /\ ts \in Nat \cup {-1} /\ threads[t].known \in BOOLEAN
        /\ lastTime[t] \in Int /\ now \in Nat
    BY ThreadTypes
  <2> QED
    BY <1>0, <2>1 DEF None
<1>w. NoWalk \in WalkRequests /\ NoWalk.kernel = None /\ NoWalk.user = None
  BY DEF WalkRequests, NoWalk, None
<1>s. ThreadSound(t)
  OBVIOUS
<1>1. CASE arch = "x86" /\ handle_user_stack(t, ts, number[t])
  <2>1. CASE ~threads[t].known
    <3>1. threads' = threads /\ Emit(<<>>)
      BY <1>1, <2>1 DEF handle_user_stack
    <3>2. threads[t].queue = <<>>
      BY <1>s, <2>1, UnknownEmpty
    <3> QED
      BY <1>0, <1>w, <3>1, <3>2, StackIgnored
  <2>2. CASE threads[t].known
    BY <1>0, <1>1, <2>2, UserStackShown
  <2> QED
    BY <2>1, <2>2
<1>2. CASE arch = "arm64" /\ handle_stack_arm64(t, ts, number[t], FALSE)
  <2>w. arch # "x86"
    BY <1>2
  <2>1. CASE ~threads[t].known
    <3>1. threads' = threads /\ Emit(<<>>)
      BY <1>2, <2>1 DEF handle_stack_arm64
    <3> QED
      BY <1>0, <1>w, <2>w, <3>1, StackIgnored
  <2>2. CASE threads[t].known
    <3> DEFINE u == number[t]
    <3>1. /\ threads' = [threads EXCEPT ![t].data = consume_cpu_delta(@)]
          /\ Emit([k \in {t} |-> <<Sample(ts, u, FALSE, threads[t].data.on, [user |-> u, inKernel |-> FALSE])>>])
      BY <1>2, <2>2 DEF handle_stack_arm64
    <3>2. ts <= now /\ lastTime[t] <= ts
      BY <1>0, <1>2, <1>s DEF ThreadSound, LastSound, WalkSound
    <3> QED
      BY <1>0, <1>2, <1>t, <2>w, <3>1, <3>2, SampleShown
  <2> QED
    BY <2>1, <2>2
<1>3. CASE lossy /\ UNCHANGED threads /\ Emit(<<>>)
  BY <1>0, <1>3, <1>w, StackIgnored
<1> QED
  BY <1>1, <1>2, <1>3 DEF UserStack

-----------------------------------------------------------------------------
(* A thread id is used again                                               *)

\* Only the cell of one track changes.
LEMMA CellSet ==
  ASSUME NEW S, NEW f \in [Tracks -> S], NEW k \in Tracks, NEW x \in S
  PROVE  LET g == [f EXCEPT ![k] = x]
         IN  g \in [Tracks -> S] /\ g[k] = x /\ \A j \in Tracks \ {k} : g[j] = f[j]
OBVIOUS

\* ThreadStart: the time that waits in the old queue is left behind.
LEMMA StepsThreadStart ==
  ASSUME IInv, UNCHANGED config, NEW t \in Tids, ThreadStart(t)
  PROVE  StepSound
<1> USE DEF IInv
<1> DEFINE v == Total(CpuDeltas(threads[t].queue))
<1>0. /\ running # t /\ starts < MaxStarts /\ starts' = starts + 1 /\ NewStack(t)
      /\ walk' = [walk EXCEPT ![t] = NoWalk]
      /\ \E known \in BOOLEAN : threads' = [threads EXCEPT ![t] = [NewThread EXCEPT !.known = known]]
      /\ first' = [first EXCEPT ![t] = 0] /\ shown' = [shown EXCEPT ![t] = 0]
      /\ groups' = [groups EXCEPT ![t] = 0] /\ dropped' = [dropped EXCEPT ![t] = 0]
      /\ emitted' = [k \in Tracks |-> <<>>] /\ lastTime' = [lastTime EXCEPT ![t] = 0]
      /\ now' = now /\ running' = running /\ mode' = mode /\ cpu' = cpu
  BY DEF ThreadStart
<1>t. /\ threads[t].queue \in Seq(Pending) /\ v \in Nat /\ t \in Tracks /\ Cpu \in Tracks /\ t # Cpu
      /\ left[Cpu] \in Nat
  BY ThreadTypes, QueueTotals, TypesParts DEF Tracks
<1>1. left' = [left EXCEPT ![Cpu] = left[Cpu] + v]
  <2>1. FoldSeq(LAMBDA s, sum : s.cpuDelta + sum, 0, threads[t].queue) = v
    BY <1>t, TotalCpuDeltaSum
  <2>2. left' = [left EXCEPT ![Cpu] = @
                    + FoldSeq(LAMBDA s, sum : s.cpuDelta + sum, 0, threads[t].queue)]
    BY DEF ThreadStart
  <2> HIDE DEF v
  <2>3. left' = [left EXCEPT ![Cpu] = @ + v]
    BY <2>1, <2>2
  <2>4. left \in [Tracks -> Nat]
    BY TypesParts
  <2> QED
    BY <2>3, <2>4
<1> HIDE DEF v
<1>2. /\ left' \in [Tracks -> Nat] /\ left'[Cpu] = left[Cpu] + v
      /\ \A k \in Tids : left'[k] = left[k]
  <2>0. left[Cpu] + v \in Nat
    BY <1>t
  <2>1. left \in [Tracks -> Nat]
    BY TypesParts
  <2>2. left' \in [Tracks -> Nat] /\ left'[Cpu] = left[Cpu] + v
        /\ \A k \in Tracks \ {Cpu} : left'[k] = left[k]
    BY <1>1, <1>t, <2>0, <2>1, CellSet
  <2> QED
    BY <2>2, EtwSamplesAssumption DEF Tracks
<1>3. /\ first' \in [Tracks -> Nat] /\ shown' \in [Tracks -> Nat] /\ groups' \in [Tracks -> Nat]
      /\ dropped' \in [Tracks -> Nat] /\ lastTime' \in [Tracks -> Int]
      /\ first'[t] = 0 /\ shown'[t] = 0 /\ groups'[t] = 0 /\ dropped'[t] = 0 /\ lastTime'[t] = 0
      /\ \A k \in Tracks \ {t} : /\ first'[k] = first[k] /\ shown'[k] = shown[k]
                                /\ groups'[k] = groups[k] /\ dropped'[k] = dropped[k]
                                /\ lastTime'[k] = lastTime[k]
  <2>1. /\ first \in [Tracks -> Nat] /\ shown \in [Tracks -> Nat] /\ groups \in [Tracks -> Nat]
        /\ dropped \in [Tracks -> Nat] /\ lastTime \in [Tracks -> Int]
    BY TypesParts
  <2>2. /\ first' = [first EXCEPT ![t] = 0] /\ shown' = [shown EXCEPT ![t] = 0]
        /\ groups' = [groups EXCEPT ![t] = 0] /\ dropped' = [dropped EXCEPT ![t] = 0]
        /\ lastTime' = [lastTime EXCEPT ![t] = 0]
    BY <1>0
  <2> QED
    BY <1>t, <2>1, <2>2
<1>4. /\ threads' \in [Tids -> ThreadState]
      /\ threads'[t].queue = <<>> /\ threads'[t].data = NewThreadData
      /\ \A u \in Tids \ {t} : threads'[u] = threads[u]
  <2>1. PICK known \in BOOLEAN : threads' = [threads EXCEPT ![t] = [NewThread EXCEPT !.known = known]]
    BY <1>0
  <2>2. <<>> \in Seq(Pending)
    OBVIOUS
  <2>3. NewThreadData \in ThreadContextSwitchData
    BY DEF NewThreadData, ThreadContextSwitchData
  <2>4. /\ [NewThread EXCEPT !.known = known] \in ThreadState
        /\ [NewThread EXCEPT !.known = known].queue = <<>>
        /\ [NewThread EXCEPT !.known = known].data = NewThreadData
    BY <2>2, <2>3 DEF NewThread, ThreadState
  <2> QED
    BY <2>1, <2>4, TypesParts
<1>5. walk' \in [Tids -> WalkRequests] /\ walk'[t] = NoWalk /\ \A k \in Tids \ {t} : walk'[k] = walk[k]
  <2>1. NoWalk \in WalkRequests
    BY DEF NoWalk, WalkRequests, None
  <2> QED
    BY <1>0, <2>1, TypesParts DEF WalkRequests
<1>6. /\ number' \in [Tids -> 1 .. MaxStacks]
      /\ \A u \in Tids \ {t} : number'[u] = number[u]
  BY <1>0, NextNumber
<1>7. Types'
  <2>1. starts' \in 0 .. MaxStarts
    <3>1. starts \in 0 .. MaxStarts /\ MaxStarts \in Nat
      BY TypesParts, EtwSamplesAssumption
    <3>2. starts < MaxStarts /\ starts' = starts + 1
      BY <1>0
    <3> QED
      BY <3>1, <3>2
  <2> QED
    BY <1>0, <1>2, <1>3, <1>4, <1>5, <1>6, <2>1, TypesParts, TypesStep DEF WalkRequests
<1>n. now <= now' /\ now \in Nat
  <2>1. now' = now /\ now \in Nat
    BY <1>0, TypesParts
  <2> QED
    BY <2>1
<1>8. ASSUME NEW k \in Tids PROVE ThreadSound(k)'
  <2>1. CASE k = t
    <3>1. t \in system' => mode'[t] = "kernel"
      BY <1>0 DEF ThreadSound, WalkSound, config
    <3> QED
      BY <1>0, <1>3, <1>4, <1>5, <1>7, <2>1, <3>1, FreshSound
  <2>2. CASE k # t
    <3>1. lastTime'[k] = lastTime[k] /\ mode'[k] = mode[k]
      BY <1>0, <1>3, <2>2 DEF Tracks
    <3> QED
      BY <1>0, <1>4, <1>5, <1>6, <1>7, <1>n, <2>2, <3>1, OthersSound
  <2> QED
    BY <2>1, <2>2
<1>9. Accounts'
  <2>1. left'[t] = 0 /\ Balanced(threads'[t].data, first'[t], Placed(t)')
    <3>1. left'[t] = 0
      BY <1>2 DEF Accounts
    <3>2. Total(Deltas(threads'[t].queue)) = 0
      BY <1>4, DeltasOfNone
    <3>3. groups'[t] * Interval = 0
      BY <1>3, IntervalAssumption
    <3>4. Placed(t)' = 0
      BY <1>3, <3>1, <3>2, <3>3 DEF Placed
    <3> QED
      BY <1>4, <3>1, <3>4 DEF Balanced, NewThreadData
  <2>2. ASSUME NEW k \in Tids, k # t
        PROVE  left'[k] = 0 /\ Balanced(threads'[k].data, first'[k], Placed(k)')
    <3>1. Placed(k)' = Placed(k) /\ first'[k] = first[k]
      BY <1>2, <1>3, <1>4, <2>2 DEF Placed, Tracks
    <3> QED
      BY <1>2, <1>4, <2>2, <3>1 DEF Accounts
  <2>3. PlacedCpu' = PlacedCpu
    <3> DEFINE x == SumOver(CpuQueued(threads), Tids)
               y == SumOver(CpuQueued(threads'), Tids)
               z == groups[Cpu] * Interval
    <3>1. x \in Nat /\ y \in Nat /\ y + v = x
      <4>1. \A u \in Tids : threads[u].queue \in Seq(Pending) /\ threads'[u].queue \in Seq(Pending)
        BY <1>7, ThreadTypes, ThreadTypesNext
      <4>2. \A u \in Tids \ {t} : threads'[u].queue = threads[u].queue
        BY <1>4
      <4>3. Total(CpuDeltas(threads'[t].queue)) = 0
        BY <1>4, DeltasOfNone
      <4>4. x \in Nat /\ y \in Nat /\ y + v = x + Total(CpuDeltas(threads'[t].queue))
        BY <4>1, <4>2, CpuQueuedStep DEF v
      <4> HIDE DEF x, y
      <4> QED
        BY <4>3, <4>4
    <3> HIDE DEF x, y, z
    <3>2. shown[Cpu] \in Nat /\ dropped[Cpu] \in Nat /\ z \in Nat
      <4>1. shown[Cpu] \in Nat /\ dropped[Cpu] \in Nat /\ groups[Cpu] \in Nat
        BY <1>t, TypesParts
      <4> QED
        BY <4>1, IntervalAssumption DEF z
    <3>3. shown[Cpu] + y + (left[Cpu] + v) + dropped[Cpu] + z
            = shown[Cpu] + x + left[Cpu] + dropped[Cpu] + z
      <4>1. PICK a, b, c, d \in Nat : a = shown[Cpu] /\ b = left[Cpu] /\ c = dropped[Cpu] /\ d = z
        BY <1>t, <3>2
      <4>2. a + y + (b + v) + c + d = a + x + b + c + d
        BY <1>t, <3>1
      <4> QED
        BY <4>1, <4>2
    <3>4. shown'[Cpu] = shown[Cpu] /\ dropped'[Cpu] = dropped[Cpu] /\ groups'[Cpu] = groups[Cpu]
      BY <1>3, <1>t
    <3> QED
      BY <1>2, <3>3, <3>4 DEF PlacedCpu, x, y, z
  <2>4. Balanced(cpu', first'[Cpu], PlacedCpu') /\ Sound(cpu', now')
    BY <1>0, <1>3, <1>t, <2>3 DEF Accounts
  <2> QED
    BY <2>1, <2>2, <2>4 DEF Accounts
<1>10. StackMatches' /\ OrderStep
  <2>1. \A k \in Tracks : emitted'[k] = <<>>
    BY <1>0
  <2>2. StackMatches'
    BY <2>1 DEF StackMatches, Tracks
  <2>3. OrderStep
    BY <2>1 DEF OrderStep, Tracks
  <2> QED
    BY <2>2, <2>3
<1> QED
  BY <1>7, <1>8, <1>9, <1>10 DEF StepSound

-----------------------------------------------------------------------------
(* Samples                                                                 *)

\* m samples of groups, and the times a, b and c, are added to the places of t.
Grows(t, m, a, b, c) ==
  /\ groups'[t] = groups[t] + m /\ shown'[t] = shown[t] + a /\ dropped'[t] = dropped[t] + c
  /\ Total(Deltas(threads'[t].queue)) = Total(Deltas(threads[t].queue)) + b
  /\ left'[t] = left[t]

\* What is then in the places of a thread.
LEMMA PlacedGrows ==
  ASSUME Types, Types', NEW t \in Tids, NEW m \in Nat, NEW a \in Nat, NEW b \in Nat, NEW c \in Nat,
         Grows(t, m, a, b, c)
  PROVE  Placed(t) \in Nat /\ Placed(t)' = Placed(t) + m * Interval + (a + b + c)
<1>1. /\ shown[t] \in Nat /\ groups[t] \in Nat /\ dropped[t] \in Nat /\ left[t] \in Nat
      /\ Total(Deltas(threads[t].queue)) \in Nat
  BY TypesParts, ThreadTypes, QueueTotals
<1>2. PICK x, y, z, l, g, gi, mi \in Nat :
        /\ x = shown[t] /\ y = Total(Deltas(threads[t].queue)) /\ z = dropped[t] /\ l = left[t]
        /\ g = groups[t] /\ gi = groups[t] * Interval /\ mi = m * Interval
  <2>1. groups[t] * Interval \in Nat /\ m * Interval \in Nat
    BY <1>1, GroupTime
  <2> QED
    BY <1>1, <2>1, Zenon
<1>3. (groups[t] + m) * Interval = gi + mi
  BY <1>1, <1>2, GroupTime
<1>4. Placed(t) = x + y + l + z + gi
  BY <1>2 DEF Placed
<1>5. Placed(t)' = (x + a) + (y + b) + l + (z + c) + (gi + mi)
  BY <1>2, <1>3 DEF Placed, Grows
<1>6. /\ x + y + l + z + gi \in Nat
      /\ (x + a) + (y + b) + l + (z + c) + (gi + mi) = (x + y + l + z + gi) + mi + (a + b + c)
  OBVIOUS
<1> QED
  BY <1>2, <1>4, <1>5, <1>6, Zenon

\* The same for the CPU.
LEMMA PlacedCpuGrows ==
  ASSUME Types, Types', NEW m \in Nat, NEW a \in Nat, NEW b \in Nat,
         groups'[Cpu] = groups[Cpu] + m, shown'[Cpu] = shown[Cpu] + a,
         dropped'[Cpu] = dropped[Cpu], left'[Cpu] = left[Cpu],
         SumOver(CpuQueued(threads), Tids) \in Nat,
         SumOver(CpuQueued(threads'), Tids) = SumOver(CpuQueued(threads), Tids) + b
  PROVE  PlacedCpu \in Nat /\ PlacedCpu' = PlacedCpu + m * Interval + (a + b)
<1>1. shown[Cpu] \in Nat /\ groups[Cpu] \in Nat /\ dropped[Cpu] \in Nat /\ left[Cpu] \in Nat
  BY TypesParts DEF Tracks
<1>2. PICK x, y, z, l, g, gi, mi \in Nat :
        /\ x = shown[Cpu] /\ y = SumOver(CpuQueued(threads), Tids) /\ z = dropped[Cpu] /\ l = left[Cpu]
        /\ g = groups[Cpu] /\ gi = groups[Cpu] * Interval /\ mi = m * Interval
  <2>1. groups[Cpu] * Interval \in Nat /\ m * Interval \in Nat
    BY <1>1, GroupTime
  <2> QED
    BY <1>1, <2>1, Zenon
<1>3. (groups[Cpu] + m) * Interval = gi + mi
  BY <1>1, <1>2, GroupTime
<1>4. PlacedCpu = x + y + l + z + gi
  BY <1>2 DEF PlacedCpu
<1>5. PlacedCpu' = (x + a) + (y + b) + l + z + (gi + mi)
  BY <1>2, <1>3 DEF PlacedCpu
<1>6. /\ x + y + l + z + gi \in Nat
      /\ (x + a) + (y + b) + l + z + (gi + mi) = (x + y + l + z + gi) + mi + (a + b)
  OBVIOUS
<1> QED
  BY <1>2, <1>4, <1>5, <1>6, Zenon

\* The clocks of the tracks ks start, unless they already run.
LEMMA ClockStarts ==
  ASSUME Types, NEW ks, NEW ts \in Nat, StartClock(ks, ts, StateOf)
  PROVE  /\ first' \in [Tracks -> Nat]
         /\ \A k \in Tids : first'[k] = IF k \in ks THEN Starts(threads[k].data, first[k], ts)
                                        ELSE first[k]
         /\ first'[Cpu] = IF Cpu \in ks THEN Starts(cpu, first[Cpu], ts) ELSE first[Cpu]
<1>1. first \in [Tracks -> Nat]
  BY TypesParts
<1>2. first' = [k \in Tracks |-> IF k \in ks /\ StateOf[k] = "Unknown" THEN ts ELSE first[k]]
  BY DEF StartClock
<1>3. StateOf[Cpu] = cpu.state /\ \A k \in Tids : StateOf[k] = threads[k].data.state
  BY EtwSamplesAssumption DEF StateOf, Tracks
<1>4. Cpu \in Tracks /\ \A k \in Tids : k \in Tracks
  BY DEF Tracks
<1> HIDE DEF StateOf
<1> QED
  BY <1>1, <1>2, <1>3, <1>4 DEF Starts

\* An event of a thread that is not recorded: only its stacks are still to come.
LEMMA UnknownSound ==
  ASSUME Types, Types', UNCHANGED config, NEW t \in Tids, ThreadSound(t), ~threads[t].known,
         NEW ts \in Nat, now < ts, now' = ts, NEW m, walk'[t] = Walk(t, ts, m),
         threads'[t] = threads[t], lastTime'[t] = lastTime[t],
         number[t] <= number'[t], mode[t] = "kernel" => mode'[t] = "kernel"
  PROVE  ThreadSound(t)'
<1>1. threads[t].queue = <<>> /\ threads[t].data.state = "Unknown"
  BY UnknownEmpty
<1>2. lastTime[t] <= now /\ lastTime[t] \in Int /\ now \in Nat
  BY ThreadTypes DEF ThreadSound, LastSound
<1>3. /\ walk'[t].kernel = None \/ walk'[t].kernel = ts
      /\ walk'[t].user = None \/ walk'[t].user = ts
      /\ t \in system => walk'[t].user = None
  BY DEF Walk
<1>4. /\ walk'[t].kernel <= now' /\ walk'[t].user <= now' /\ lastTime[t] <= ts /\ now <= now'
  BY <1>2, <1>3 DEF None
<1>5. t \in system => walk'[t].user = None /\ mode'[t] = "kernel"
  BY <1>3 DEF ThreadSound, WalkSound
<1>6. \A i \in 1 .. Len(threads[t].queue) : CompletedNext(t, i)'
  BY <1>1
<1> QED
  BY <1>1, <1>3, <1>4, <1>5, <1>6, WalkMoves

\* Only the walks of one thread are asked for.
LEMMA WalkType ==
  ASSUME Types, NEW t \in Tids, NEW ts \in Nat, NEW m, walk' = [walk EXCEPT ![t] = Walk(t, ts, m)]
  PROVE  /\ walk' \in [Tids -> WalkRequests] /\ walk'[t] = Walk(t, ts, m)
         /\ \A k \in Tids \ {t} : walk'[k] = walk[k]
<1>1. Walk(t, ts, m) \in WalkRequests
  BY DEF Walk, WalkRequests, None
<1> QED
  BY <1>1, TypesParts DEF WalkRequests

\* The sample that handle_sample and handle_cswitch put into the queue.
LEMMA EntryMade ==
  ASSUME NEW ts \in Nat, NEW d, Sound(d, ts), NEW on \in BOOLEAN, NEW c \in Nat, NEW u \in Nat,
         NEW k \in BOOLEAN
  PROVE  LET r == ObservedRunning(ts, d)
             s == [ts |-> ts, kernel |-> FALSE, group |-> r.group, delta |-> r.data.on, on |-> on,
                   cpuDelta |-> c, user |-> u, inKernel |-> k]
         IN  /\ s \in Pending /\ s.ts = ts /\ s.kernel = FALSE /\ s.group = r.group
             /\ s.delta = r.data.on /\ s.on = on /\ s.cpuDelta = c /\ s.user = u /\ s.inKernel = k
             /\ r.data.on \in Nat /\ r.group.count \in Nat
<1> DEFINE r == ObservedRunning(ts, d)
<1>1. r.group \in OffCpuSampleGroup
  BY Running
<1>2. Sound(r.data, ts)
  BY Running
<1> HIDE DEF r
<1>3. r.data.on \in Nat
  BY <1>2, DataTypes DEF Sound
<1>4. r.group.count \in Nat
  BY <1>1 DEF OffCpuSampleGroup
<1>5. LET s == [ts |-> ts, kernel |-> FALSE, group |-> r.group, delta |-> r.data.on, on |-> on,
                cpuDelta |-> c, user |-> u, inKernel |-> k]
      IN  /\ s \in Pending /\ s.ts = ts /\ s.kernel = FALSE /\ s.group = r.group
          /\ s.delta = r.data.on /\ s.on = on /\ s.cpuDelta = c /\ s.user = u /\ s.inKernel = k
  BY <1>1, <1>3 DEF Pending
<1> QED
  BY <1>3, <1>4, <1>5 DEF r

\* A thread that runs gets a sample, or at least its accumulators move on.
LEMMA Pushed ==
  ASSUME Types, NEW t \in Tids, NEW s \in Pending, NEW e \in ThreadContextSwitchData, NEW th,
         th \in [Tids -> ThreadState], th[t].queue = threads[t].queue, th[t].known = threads[t].known,
         threads' = [th EXCEPT ![t].data = e, ![t].queue = Append(@, s)]
  PROVE  /\ threads' \in [Tids -> ThreadState]
         /\ threads'[t].data = e /\ threads'[t].queue = Append(threads[t].queue, s)
         /\ threads'[t].known = threads[t].known
         /\ \A u \in Tids \ {t} : threads'[u] = th[u]
<1>1. th[t] \in ThreadState /\ threads[t].queue \in Seq(Pending)
  BY ThreadTypes
<1>2. Append(threads[t].queue, s) \in Seq(Pending)
  BY <1>1
<1> DEFINE q == Append(threads[t].queue, s)
           x == [th[t] EXCEPT !.data = e, !.queue = q]
<1>3. threads'[t] = x /\ \A u \in Tids \ {t} : threads'[u] = th[u]
  BY <1>1
<1> HIDE DEF q
<1>4. x \in ThreadState /\ x.data = e /\ x.queue = q /\ x.known = th[t].known
  BY <1>1, <1>2 DEF ThreadState, q
<1> HIDE DEF x
<1>5. threads' \in [Tids -> ThreadState]
  <2>1. threads' = [th EXCEPT ![t] = x]
    BY DEF x, q
  <2> QED
    BY <1>4, <2>1
<1> QED
  BY <1>3, <1>4, <1>5 DEF q

\* A known thread is sampled: its time and that of the CPU go with the sample.
LEMMA SampleAccounts ==
  ASSUME Types, Types', Accounts, \A u \in Tids : ThreadSound(u), NEW t \in Tids,
         NEW ts \in Nat, now < ts, now' = ts, shown' = shown, left' = left, dropped' = dropped,
         NEW s \in Pending,
         s.delta = ObservedRunning(ts, threads[t].data).data.on,
         s.cpuDelta = ObservedRunning(ts, cpu).data.on,
         threads'[t].data = consume_cpu_delta(ObservedRunning(ts, threads[t].data).data),
         threads'[t].queue = Append(threads[t].queue, s),
         \A u \in Tids \ {t} : threads'[u] = threads[u],
         cpu' = consume_cpu_delta(ObservedRunning(ts, cpu).data),
         groups'[t] = groups[t] + ObservedRunning(ts, threads[t].data).group.count,
         groups'[Cpu] = groups[Cpu] + ObservedRunning(ts, cpu).group.count,
         \A u \in Tids \ {t} : groups'[u] = groups[u],
         StartClock({t, Cpu}, ts, StateOf)
  PROVE  Accounts'
<1> DEFINE d == threads[t].data
           r == ObservedRunning(ts, d)
           c == ObservedRunning(ts, cpu)
           q == threads[t].queue
           x == SumOver(CpuQueued(threads), Tids)
           y == SumOver(CpuQueued(threads'), Tids)
<1>t. /\ d \in ThreadContextSwitchData /\ cpu \in ThreadContextSwitchData /\ q \in Seq(Pending)
      /\ now \in Nat /\ first[t] \in Nat /\ first[Cpu] \in Nat /\ shown[t] \in Nat /\ shown[Cpu] \in Nat
      /\ dropped[t] \in Nat /\ s.delta \in Nat /\ s.cpuDelta \in Nat /\ t # Cpu
  <2>1. d \in ThreadContextSwitchData /\ q \in Seq(Pending) /\ now \in Nat /\ t \in Tracks /\ t # Cpu
    BY ThreadTypes
  <2>2. /\ cpu \in ThreadContextSwitchData /\ first \in [Tracks -> Nat] /\ shown \in [Tracks -> Nat]
        /\ dropped \in [Tracks -> Nat] /\ Cpu \in Tracks
    BY TypesParts DEF Tracks
  <2> QED
    BY <2>1, <2>2, PendingDeltas
<1>d. Sound(d, ts) /\ Sound(cpu, ts)
  <2>1. Sound(d, now) /\ Sound(cpu, now) /\ d.ts \in Nat /\ cpu.ts \in Nat
    BY <1>t, DataTypes DEF ThreadSound, QueueSound, Accounts
  <2> QED
    BY <1>t, <2>1 DEF Sound
<1>f. /\ first'[t] = Starts(d, first[t], ts) /\ first'[Cpu] = Starts(cpu, first[Cpu], ts)
      /\ \A u \in Tids \ {t} : first'[u] = first[u]
  <2> DEFINE ks == {t, Cpu}
  <2>1. t \in ks /\ Cpu \in ks /\ \A u \in Tids \ {t} : u \notin ks
    BY EtwSamplesAssumption
  <2>2. StartClock(ks, ts, StateOf)
    OBVIOUS
  <2> HIDE DEF ks
  <2>3. /\ \A k \in Tids : first'[k] = IF k \in ks THEN Starts(threads[k].data, first[k], ts)
                                        ELSE first[k]
        /\ first'[Cpu] = IF Cpu \in ks THEN Starts(cpu, first[Cpu], ts) ELSE first[Cpu]
    BY <2>2, ClockStarts
  <2> QED
    BY <2>1, <2>3
<1>q. /\ Total(Deltas(threads'[t].queue)) = Total(Deltas(q)) + s.delta
      /\ Total(CpuDeltas(threads'[t].queue)) = Total(CpuDeltas(q)) + s.cpuDelta
      /\ Total(CpuDeltas(q)) \in Nat
  <2>1. /\ Total(Deltas(Append(q, s))) = Total(Deltas(q)) + s.delta
        /\ Total(CpuDeltas(Append(q, s))) = Total(CpuDeltas(q)) + s.cpuDelta
    BY <1>t, PushFacts
  <2> QED
    BY <1>t, <2>1, QueueTotals
<1>1. Balanced(threads'[t].data, first'[t], Placed(t)')
  <2> DEFINE n == r.group.count
  <2>1. Placed(t) \in Nat /\ Placed(t)' = Placed(t) + n * Interval + (0 + s.delta + 0)
    <3>1. n \in Nat /\ 0 \in Nat
      BY <1>d, Running DEF OffCpuSampleGroup
    <3>2. shown'[t] = shown[t] + 0 /\ dropped'[t] = dropped[t] + 0 /\ left'[t] = left[t]
          /\ groups'[t] = groups[t] + n
      BY <1>t
    <3>3. PICK b \in Nat : b = s.delta
      BY <1>t
    <3>4. Total(Deltas(threads'[t].queue)) = Total(Deltas(threads[t].queue)) + b
      BY <1>q, <3>3
    <3> HIDE DEF n
    <3>5. PICK z \in Nat : z = 0
      OBVIOUS
    <3>6. shown'[t] = shown[t] + z /\ dropped'[t] = dropped[t] + z
      BY <3>2, <3>5
    <3>7. Grows(t, n, z, b, z)
      BY <3>2, <3>4, <3>6 DEF Grows
    <3>8. Placed(t) \in Nat /\ Placed(t)' = Placed(t) + n * Interval + (z + b + z)
      BY <3>1, <3>7, PlacedGrows
    <3> QED
      BY <3>3, <3>5, <3>8
  <2>2. Balanced(d, first[t], Placed(t))
    BY DEF Accounts
  <2>3. Balanced(consume_cpu_delta(r.data), Starts(d, first[t], ts), Placed(t) + n * Interval + r.data.on)
    BY <1>d, <1>t, <2>1, <2>2, BalancedRuns
  <2>4. 0 + s.delta + 0 = r.data.on
    BY <1>t
  <2> QED
    BY <1>f, <2>1, <2>3, <2>4
<1>2. ASSUME NEW u \in Tids, u # t PROVE Balanced(threads'[u].data, first'[u], Placed(u)')
  <2>1. Placed(u)' = Placed(u)
    BY <1>2 DEF Placed
  <2> QED
    BY <1>2, <1>f, <2>1 DEF Accounts
<1>3. x \in Nat /\ y = x + s.cpuDelta
  <2>1. \A u \in Tids : threads[u].queue \in Seq(Pending) /\ threads'[u].queue \in Seq(Pending)
    BY ThreadTypes, ThreadTypesNext
  <2>2. x \in Nat /\ y \in Nat
        /\ y + Total(CpuDeltas(threads[t].queue)) = x + Total(CpuDeltas(threads'[t].queue))
    BY <2>1, CpuQueuedStep
  <2> HIDE DEF x, y
  <2>3. PICK a \in Nat : a = Total(CpuDeltas(q))
    BY <1>q
  <2>4. y + a = x + (a + s.cpuDelta)
    BY <1>q, <2>2, <2>3
  <2>5. PICK b \in Nat : b = s.cpuDelta
    BY <1>t
  <2>6. y + a = x + (a + b)
    BY <2>4, <2>5
  <2>7. y = x + b
    BY <2>2, <2>6
  <2> QED
    BY <2>2, <2>5, <2>7
<1>4. Balanced(cpu', first'[Cpu], PlacedCpu')
  <2> DEFINE n == c.group.count
  <2>1. PlacedCpu \in Nat /\ PlacedCpu' = PlacedCpu + n * Interval + (0 + s.cpuDelta)
    <3>1. n \in Nat /\ 0 \in Nat
      BY <1>d, Running DEF OffCpuSampleGroup
    <3>2. shown'[Cpu] = shown[Cpu] + 0 /\ dropped'[Cpu] = dropped[Cpu] /\ left'[Cpu] = left[Cpu]
          /\ groups'[Cpu] = groups[Cpu] + n
      BY <1>t
    <3> HIDE DEF n
    <3>3. PICK b, z \in Nat : b = s.cpuDelta /\ z = 0
      BY <1>t, <3>1
    <3>4. shown'[Cpu] = shown[Cpu] + z /\ y = x + b
      BY <1>3, <3>2, <3>3
    <3>5. PlacedCpu \in Nat /\ PlacedCpu' = PlacedCpu + n * Interval + (z + b)
      BY <1>3, <3>1, <3>2, <3>4, PlacedCpuGrows
    <3> QED
      BY <3>3, <3>5
  <2>2. Balanced(cpu, first[Cpu], PlacedCpu)
    BY DEF Accounts
  <2>3. Balanced(consume_cpu_delta(c.data), Starts(cpu, first[Cpu], ts), PlacedCpu + n * Interval + c.data.on)
    BY <1>d, <1>t, <2>1, <2>2, BalancedRuns
  <2>4. 0 + s.cpuDelta = c.data.on
    BY <1>t
  <2> QED
    BY <1>f, <2>1, <2>3, <2>4
<1>5. Sound(cpu', now')
  BY <1>d, RunsAt
<1> QED
  BY <1>1, <1>2, <1>4, <1>5 DEF Accounts

\* SampleProf, in a thread that is recorded or not.
LEMMA StepsSampleProf ==
  ASSUME IInv, UNCHANGED config, NEW ts \in now + 1 .. MaxTime, SampleProf(ts)
  PROVE  StepSound
<1> USE DEF IInv
<1> DEFINE t == running
           m == mode[t]
<1>ts. now \in Nat /\ ts \in Nat /\ now < ts /\ ts \in 0 .. MaxTime
  <2>1. now \in Nat /\ MaxTime \in Nat
    BY TypesParts, EtwSamplesAssumption
  <2> QED
    BY <2>1
<1>0. /\ t # Idle /\ StacksReported(t) /\ now' = ts
      /\ IF m = "user" THEN NewStack(t) ELSE number' = number
      /\ handle_sample(t, ts)
      /\ walk' = [walk EXCEPT ![t] = Walk(t, ts, m)]
      /\ Emit(<<>>)
      /\ running' = running /\ mode' = mode /\ starts' = starts /\ dropped' = dropped /\ left' = left
  BY DEF SampleProf
<1>t. t \in Tids /\ m \in {"user", "kernel"} /\ number[t] \in Nat
  <2>1. t \in Tids
    BY <1>0, TypesParts
  <2> QED
    BY <2>1, ThreadTypes
<1>1. /\ EmitsNothing /\ StackMatches' /\ OrderStep
      /\ shown' \in [Tracks -> Nat] /\ lastTime' \in [Tracks -> Int]
  BY <1>0, NothingShown
<1>2. shown' = shown /\ lastTime' = lastTime
  BY <1>1 DEF EmitsNothing
<1>3. /\ number' \in [Tids -> 1 .. MaxStacks]
      /\ number'[t] = number[t] \/ (number'[t] = number[t] + 1 /\ m = "user")
      /\ \A u \in Tids \ {t} : number'[u] = number[u]
      /\ number'[t] \in Nat /\ number[t] <= number'[t]
  <2>1. CASE m = "user"
    <3>1. /\ number' \in [Tids -> 1 .. MaxStacks] /\ number'[t] = number[t] + 1
          /\ \A u \in Tids \ {t} : number'[u] = number[u]
      BY <1>0, <1>t, <2>1, NextNumber
    <3> QED
      BY <1>t, <2>1, <3>1
  <2>2. CASE m # "user"
    <3>1. number' = number /\ number \in [Tids -> 1 .. MaxStacks]
      BY <1>0, <2>2, TypesParts
    <3> QED
      BY <1>t, <3>1
  <2> QED
    BY <2>1, <2>2
<1>4. /\ walk' \in [Tids -> WalkRequests] /\ walk'[t] = Walk(t, ts, m)
      /\ \A k \in Tids \ {t} : walk'[k] = walk[k]
  BY <1>0, <1>t, <1>ts, WalkType
<1>s. ThreadSound(t)
  BY <1>t
<1> HIDE DEF t, m
<1>5. CASE ~threads[t].known
  <2>1. threads' = threads /\ cpu' = cpu /\ first' = first /\ groups' = groups
    BY <1>0, <1>5 DEF handle_sample
  <2>2. Types'
    BY <1>0, <1>1, <1>3, <1>4, <1>ts, <2>1, TypesParts, TypesStep DEF WalkRequests
  <2>3. ASSUME NEW u \in Tids PROVE ThreadSound(u)'
    <3>1. CASE u = t
      BY <1>0, <1>2, <1>3, <1>4, <1>5, <1>s, <1>t, <1>ts, <2>1, <2>2, <3>1, UnknownSound
    <3>2. CASE u # t
      <4>1. now <= now'
        BY <1>0, <1>ts
      <4> QED
        BY <1>0, <1>2, <1>3, <1>4, <2>1, <2>2, <3>2, <4>1, OthersSound
    <3> QED
      BY <3>1, <3>2
  <2>4. Accounts'
    <3>1. now <= now' /\ now' \in Nat
      BY <1>0, <1>ts
    <3> QED
      BY <1>0, <1>2, <2>1, <3>1, AccountsKept
  <2> QED
    BY <1>1, <2>2, <2>3, <2>4 DEF StepSound
<1>6. CASE threads[t].known
  <2> DEFINE d == threads[t].data
             r == ObservedRunning(ts, d)
             c == ObservedRunning(ts, cpu)
             e == consume_cpu_delta(r.data)
             s == [ts |-> ts, kernel |-> FALSE, group |-> r.group,
                   delta |-> r.data.on, on |-> TRUE, cpuDelta |-> c.data.on,
                   user |-> UserStackOf(t, number'), inKernel |-> m = "kernel"]
  <2>1. /\ threads' = [threads EXCEPT ![t].data = e, ![t].queue = Append(@, s)]
        /\ cpu' = consume_cpu_delta(c.data)
        /\ groups' = [groups EXCEPT ![t] = @ + r.group.count, ![Cpu] = @ + c.group.count]
        /\ StartClock({t, Cpu}, ts, StateOf)
    BY <1>0, <1>6 DEF handle_sample, handle_on_cpu_sample, m
  <2>d. Sound(d, ts) /\ Sound(cpu, ts)
    <3>1. Sound(d, now) /\ Sound(cpu, now)
      BY <1>s DEF ThreadSound, QueueSound, Accounts
    <3>2. d.ts \in Nat /\ cpu.ts \in Nat
      BY <1>t, ThreadTypes, TypesParts, DataTypes
    <3> QED
      BY <1>ts, <3>1, <3>2 DEF Sound
  <2>c. Sound(c.data, ts) /\ c.data.on \in Nat /\ c.group.count \in Nat
    <3>1. Sound(c.data, ts)
      BY <1>ts, <2>d, Running
    <3>2. c.group \in OffCpuSampleGroup
      BY <1>ts, <2>d, Running
    <3> HIDE DEF c
    <3> QED
      BY <3>1, <3>2, DataTypes DEF Sound, OffCpuSampleGroup
  <2>u. UserStackOf(t, number') \in Nat
    BY <1>3 DEF UserStackOf
  <2>s. /\ s \in Pending /\ s.ts = ts /\ s.kernel = FALSE /\ s.group = r.group
        /\ s.delta = r.data.on /\ s.on = TRUE /\ s.cpuDelta = c.data.on
        /\ s.user = UserStackOf(t, number') /\ s.inKernel = (m = "kernel")
        /\ r.data.on \in Nat /\ r.group.count \in Nat
    <3> DEFINE b == m = "kernel"
               u == UserStackOf(t, number')
               z == c.data.on
    <3>1. b \in BOOLEAN /\ u \in Nat /\ z \in Nat /\ TRUE \in BOOLEAN
      BY <2>c, <2>u
    <3> HIDE DEF b, u, z
    <3>2. LET v == [ts |-> ts, kernel |-> FALSE, group |-> r.group, delta |-> r.data.on, on |-> TRUE,
                   cpuDelta |-> z, user |-> u, inKernel |-> b]
         IN  /\ v \in Pending /\ v.ts = ts /\ v.kernel = FALSE /\ v.group = r.group
             /\ v.delta = r.data.on /\ v.on = TRUE /\ v.cpuDelta = z /\ v.user = u /\ v.inKernel = b
             /\ r.data.on \in Nat /\ r.group.count \in Nat
      BY <1>ts, <2>d, <3>1, EntryMade
    <3> QED
      BY <3>2 DEF b, u, z
  <2> HIDE DEF s
  <2>e. Sound(e, ts) /\ e \in ThreadContextSwitchData
    <3>1. Sound(e, ts)
      BY <1>ts, <2>d, RunsAt
    <3> QED
      BY <3>1 DEF Sound
  <2> HIDE DEF e
  <2>2. /\ threads' \in [Tids -> ThreadState]
        /\ threads'[t].data = e /\ threads'[t].queue = Append(threads[t].queue, s)
        /\ threads'[t].known = threads[t].known
        /\ \A u \in Tids \ {t} : threads'[u] = threads[u]
    BY <1>t, <2>1, <2>e, <2>s, TypesParts, Pushed
  <2>3. cpu' \in ThreadContextSwitchData
    BY <2>1, <2>c, Consume DEF Sound
  <2>4. /\ groups' \in [Tracks -> Nat] /\ groups'[t] = groups[t] + r.group.count
        /\ groups'[Cpu] = groups[Cpu] + c.group.count
        /\ \A u \in Tids \ {t} : groups'[u] = groups[u]
    <3>1. groups \in [Tracks -> Nat] /\ t \in Tracks /\ Cpu \in Tracks /\ Cpu \notin Tids
      BY <1>t, TypesParts, EtwSamplesAssumption DEF Tracks
    <3>2. PICK a, b \in Nat : a = r.group.count /\ b = c.group.count
      BY <2>c, <2>s
    <3>3. groups' = [groups EXCEPT ![t] = @ + a, ![Cpu] = @ + b]
      BY <2>1, <3>2
    <3>4. groups[t] + a \in Nat /\ groups[Cpu] + b \in Nat
      BY <3>1
    <3>5. /\ groups' \in [Tracks -> Nat] /\ groups'[t] = groups[t] + a
          /\ groups'[Cpu] = groups[Cpu] + b
          /\ \A u \in Tids \ {t} : groups'[u] = groups[u]
      BY <1>t, <3>1, <3>3, <3>4 DEF Tracks
    <3> QED
      BY <3>2, <3>5
  <2>5. first' \in [Tracks -> Nat]
    BY <1>ts, <2>1, ClockStarts
  <2>6. Types'
    BY <1>0, <1>1, <1>3, <1>4, <1>ts, <2>2, <2>3, <2>4, <2>5, TypesParts, TypesStep DEF WalkRequests
  <2>7. ASSUME NEW u \in Tids PROVE ThreadSound(u)'
    <3>1. CASE u = t
      <4>1. m = "kernel" \/ (m = "user" /\ mode[t] = "user")
        BY <1>t DEF m
      <4>2. /\ s.ts = ts /\ ~s.kernel /\ s.user = UserStackOf(t, number')
            /\ s.group = ObservedRunning(ts, threads[t].data).group
            /\ s.on => (s.inKernel <=> m = "kernel")
            /\ ~s.on => ~s.inKernel /\ s.cpuDelta = 0 /\ m = "kernel"
        BY <2>s
      <4>3. ~lossy /\ s.on => threads[t].data.state # "Off"
        BY <1>s DEF ThreadSound, NothingLost, t
      <4>4. /\ threads'[t].known
            /\ threads'[t].data = consume_cpu_delta(ObservedRunning(ts, threads[t].data).data)
            /\ threads'[t].queue = IF s.on \/ s.group # NoGroup THEN Append(threads[t].queue, s)
                                   ELSE threads[t].queue
        BY <1>6, <2>2, <2>s DEF e
      <4>5. lastTime'[t] = lastTime[t] /\ walk'[t] = Walk(t, ts, m) /\ now' = ts
        BY <1>0, <1>2, <1>4
      <4>6. number'[t] = number[t] \/ (number'[t] = number[t] + 1 /\ mode[t] = "user")
        BY <1>3 DEF m
      <4>7. t \in system => mode'[t] = "kernel"
        BY <1>0, <1>s DEF ThreadSound, WalkSound
      <4> QED
        BY <1>0, <1>s, <1>t, <1>ts, <2>6, <2>s, <3>1, <4>1, <4>2, <4>3, <4>4, <4>5, <4>6, <4>7, PushSound
    <3>2. CASE u # t
      <4>1. now <= now'
        BY <1>0, <1>ts
      <4> QED
        BY <1>0, <1>2, <1>3, <1>4, <2>2, <2>6, <3>2, <4>1, OthersSound
    <3> QED
      BY <3>1, <3>2
  <2>8. Accounts'
    <3>1. /\ s.delta = ObservedRunning(ts, threads[t].data).data.on
          /\ s.cpuDelta = ObservedRunning(ts, cpu).data.on
          /\ threads'[t].data = consume_cpu_delta(ObservedRunning(ts, threads[t].data).data)
      BY <2>2, <2>s DEF e
    <3>2. \A u \in Tids : ThreadSound(u)
      OBVIOUS
    <3>3. /\ now' = ts /\ shown' = shown /\ left' = left /\ dropped' = dropped
          /\ threads'[t].queue = Append(threads[t].queue, s)
          /\ \A u \in Tids \ {t} : threads'[u] = threads[u]
          /\ cpu' = consume_cpu_delta(ObservedRunning(ts, cpu).data)
      BY <1>0, <1>2, <2>1, <2>2
    <3>4. /\ groups'[t] = groups[t] + ObservedRunning(ts, threads[t].data).group.count
          /\ groups'[Cpu] = groups[Cpu] + ObservedRunning(ts, cpu).group.count
          /\ \A u \in Tids \ {t} : groups'[u] = groups[u]
          /\ StartClock({t, Cpu}, ts, StateOf)
      BY <2>1, <2>4
    <3>5. s \in Pending /\ Types' /\ Types /\ Accounts /\ t \in Tids /\ ts \in Nat /\ now < ts
      BY <1>t, <1>ts, <2>6, <2>s
    <3> QED
      BY <3>1, <3>2, <3>3, <3>4, <3>5, SampleAccounts
  <2> QED
    BY <1>1, <2>6, <2>7, <2>8 DEF StepSound
<1> QED
  BY <1>5, <1>6, <1>t, ThreadTypes

-----------------------------------------------------------------------------
(* The context switch                                                      *)

\* The CPU, after what the thread that leaves it has done to its accumulators.
LEMMA CpuSwitched ==
  ASSUME NEW ts \in Nat, NEW d, Sound(d, ts), NEW f \in Nat, NEW x \in Nat, Balanced(d, f, x),
         NEW o, o = d \/ o = handle_switch_out(ts, d)
  PROVE  LET c == ObservedRunning(ts, o)
             g == Starts(d, f, ts)
             y == x + c.group.count * Interval
         IN  /\ Sound(o, ts) /\ Sound(c.data, ts) /\ c.data \in ThreadContextSwitchData
             /\ c.data.on \in Nat /\ c.group.count \in Nat
             /\ Balanced(c.data, g, y) /\ Balanced(consume_cpu_delta(c.data), g, y + c.data.on)
<1> DEFINE c == ObservedRunning(ts, o)
           g == Starts(d, f, ts)
           y == x + c.group.count * Interval
<1>g. g \in Nat
  BY DEF Starts
<1>1. Sound(o, ts)
  BY SwitchedOut
<1>2. Balanced(c.data, g, y) /\ Balanced(consume_cpu_delta(c.data), g, y + c.data.on)
  <2>1. CASE o = d
    BY <2>1, BalancedRuns
  <2>2. CASE o = handle_switch_out(ts, d)
    <3>1. Balanced(o, g, x)
      BY <2>2, BalancedOut
    <3>2. Starts(o, g, ts) = g
      <4>1. o.state = "Off"
        BY <2>2, SwitchedOut
      <4> QED
        BY <4>1 DEF Starts
    <3> HIDE DEF g
    <3>3. /\ Balanced(c.data, Starts(o, g, ts), y)
          /\ Balanced(consume_cpu_delta(c.data), Starts(o, g, ts), y + c.data.on)
      BY <1>1, <1>g, <3>1, BalancedRuns
    <3> QED
      BY <3>2, <3>3
  <2> QED
    BY <2>1, <2>2
<1>3. Sound(c.data, ts)
  BY <1>1, Running
<1>4. c.group \in OffCpuSampleGroup
  BY <1>1, Running
<1> HIDE DEF c
<1>5. c.data \in ThreadContextSwitchData /\ c.data.on \in Nat /\ c.group.count \in Nat
  BY <1>3, <1>4, DataTypes DEF Sound, OffCpuSampleGroup
<1> QED
  BY <1>1, <1>2, <1>3, <1>5 DEF c, g, y

\* A group is shown by two <Idle> samples on the track of the CPU.
LEMMA IdleShown ==
  ASSUME Types, NEW c, c.data.on \in Nat, c.group \in OffCpuSampleGroup,
         Emit([k \in {Cpu} |-> IdleSamples(c)])
  PROVE  /\ shown' \in [Tracks -> Nat] /\ lastTime' \in [Tracks -> Int]
         /\ StackMatches' /\ OrderStep
         /\ shown'[Cpu] = shown[Cpu] + IF c.group = NoGroup THEN 0 ELSE c.data.on
         /\ \A k \in Tids : shown'[k] = shown[k] /\ lastTime'[k] = lastTime[k]
<1> DEFINE idle == [user |-> 0, inKernel |-> FALSE]
           x == Sample(c.group.begin, 0, FALSE, c.data.on, idle)
           y == Sample(c.group.end, 0, FALSE, 0, idle)
           E == {x, y}
           out == IdleSamples(c)
           a == [k \in {Cpu} |-> out]
<1>1. /\ x.time \in Int /\ x.user = 0 /\ x.kernel = FALSE /\ x.delta = c.data.on
      /\ x.of.user = 0 /\ x.of.inKernel = FALSE
      /\ y.time \in Int /\ y.user = 0 /\ y.kernel = FALSE /\ y.delta = 0
      /\ y.of.user = 0 /\ y.of.inKernel = FALSE
  BY DEF Sample, OffCpuSampleGroup
<1>2. out = IF c.group = NoGroup THEN <<>> ELSE <<x, y>>
  BY DEF IdleSamples
<1> HIDE DEF x, y, out
<1>3. out \in Seq(E) /\ Total(Deltas(out)) = IF c.group = NoGroup THEN 0 ELSE c.data.on
  <2>1. CASE c.group = NoGroup
    <3>1. <<>> \in Seq(E)
      OBVIOUS
    <3> QED
      BY <1>2, <2>1, <3>1, DeltasOfNone
  <2>2. CASE c.group # NoGroup
    <3>1. <<x, y>> \in Seq(E)
      OBVIOUS
    <3>2. Total(Deltas(<<x, y>>)) = x.delta + y.delta
      <4>1. x.delta \in Nat /\ y.delta \in Nat
        BY <1>1
      <4> QED
        BY <4>1, DeltasOfTwo
    <3>3. Total(Deltas(<<x, y>>)) = c.data.on
      BY <1>1, <3>2
    <3> QED
      BY <1>2, <2>2, <3>1, <3>3
  <2> QED
    BY <2>1, <2>2
<1>4. \A e \in E : /\ e.delta \in Nat /\ e.time \in Int
                   /\ e.user >= e.of.user /\ e.user = e.of.user /\ ~e.kernel /\ e.kernel = e.of.inKernel
  <2>1. x.kernel = x.of.inKernel /\ y.kernel = y.of.inKernel
    BY <1>1, Zenon
  <2>2. /\ x.delta \in Nat /\ y.delta \in Nat /\ x.user >= x.of.user /\ y.user >= y.of.user
        /\ x.user = x.of.user /\ y.user = y.of.user
    BY <1>1
  <2>3. ~x.kernel /\ ~y.kernel /\ x.time \in Int /\ y.time \in Int
    BY <1>1, Zenon
  <2> QED
    BY <2>1, <2>2, <2>3, Zenon
<1>5. shown \in [Tracks -> Nat] /\ lastTime \in [Tracks -> Int] /\ {Cpu} \in SUBSET Tracks
  BY TypesParts DEF Tracks
<1>6. /\ shown' \in [Tracks -> Nat] /\ lastTime' \in [Tracks -> Int]
      /\ \A k \in {Cpu} : Adds(k, a[k], Total(Deltas(a[k])))
      /\ \A k \in Tracks \ {Cpu} : Adds(k, <<>>, 0)
  <2>1. a \in [{Cpu} -> Seq(E)]
    BY <1>3
  <2>2. Emit(a)
    BY DEF out
  <2>3. \A e \in E : e.delta \in Nat /\ e.time \in Int
    BY <1>4
  <2> HIDE DEF a, E
  <2> QED
    BY <1>5, <2>1, <2>2, <2>3, EmitTo
<1>7. /\ emitted'[Cpu] = out /\ shown'[Cpu] = shown[Cpu] + Total(Deltas(out))
      /\ \A k \in Tids : emitted'[k] = <<>> /\ shown'[k] = shown[k] /\ lastTime'[k] = lastTime[k]
  <2>1. Adds(Cpu, out, Total(Deltas(out))) /\ \A k \in Tids : Adds(k, <<>>, 0) /\ shown[k] \in Nat
    BY <1>5, <1>6, EtwSamplesAssumption DEF Tracks
  <2> QED
    BY <2>1 DEF Adds
<1>8. StackMatches'
  <2>1. ASSUME NEW k \in Tracks, NEW i \in DOMAIN emitted'[k]
        PROVE  emitted'[k][i] \in E
    <3>1. CASE k = Cpu
      BY <1>3, <1>7, <3>1
    <3>2. CASE k \in Tids
      BY <1>7, <3>2
    <3> QED
      BY <3>1, <3>2 DEF Tracks
  <2> HIDE DEF E
  <2> QED
    BY <1>4, <2>1 DEF StackMatches
<1>9. OrderStep
  BY <1>7 DEF OrderStep
<1> QED
  BY <1>3, <1>6, <1>7, <1>8, <1>9

\* What the thread that leaves the CPU does.
LEMMA SwitchOutFacts ==
  ASSUME Types, Accounts, \A u \in Tids : ThreadSound(u), NEW ts \in Nat, now < ts,
         NEW old \in Tids \cup {Idle}
  PROVE  LET out == SwitchOut(old, ts)
         IN  /\ out.threads \in [Tids -> ThreadState]
             /\ \A u \in Tids : /\ out.threads[u].queue = threads[u].queue
                                /\ out.threads[u].known = threads[u].known
             /\ \A u \in Tids : ~(u = old /\ Known(old)) => out.threads[u] = threads[u]
             /\ Known(old) => /\ old \in Tids
                              /\ out.threads[old].data = handle_switch_out(ts, threads[old].data)
             /\ out.cpu = IF Known(old) THEN handle_switch_out(ts, cpu) ELSE cpu
<1> DEFINE out == SwitchOut(old, ts)
<1>t. threads \in [Tids -> ThreadState]
  BY TypesParts
<1>1. CASE ~Known(old)
  BY <1>1, <1>t DEF SwitchOut
<1>2. CASE Known(old)
  <2>1. old \in Tids
    BY <1>2 DEF Known
  <2> DEFINE d == threads[old].data
             e == handle_switch_out(ts, d)
             x == [threads[old] EXCEPT !.data = e]
  <2>2. e \in ThreadContextSwitchData
    <3>1. Sound(d, now)
      BY <2>1 DEF ThreadSound, QueueSound
    <3>2. Sound(d, ts)
      <4>1. d.ts \in Nat /\ now \in Nat
        BY <2>1, ThreadTypes, DataTypes
      <4> QED
        BY <3>1, <4>1 DEF Sound
    <3>3. Sound(e, ts)
      BY <3>2, SwitchedOut
    <3> QED
      BY <3>3 DEF Sound
  <2>3. out.threads = [threads EXCEPT ![old].data = e] /\ out.cpu = handle_switch_out(ts, cpu)
    BY <1>2, <1>t, <2>1 DEF SwitchOut
  <2> HIDE DEF e, out
  <2>4. x \in ThreadState /\ x.data = e /\ x.queue = threads[old].queue /\ x.known = threads[old].known
    <3>1. threads[old] \in ThreadState
      BY <1>t, <2>1
    <3> QED
      BY <2>2, <3>1 DEF ThreadState
  <2>5. out.threads = [threads EXCEPT ![old] = x]
    BY <2>3
  <2> HIDE DEF x
  <2>6. out.threads[old] = x /\ out.threads \in [Tids -> ThreadState]
        /\ \A u \in Tids : u # old => out.threads[u] = threads[u]
    BY <1>t, <2>1, <2>4, <2>5
  <2> QED
    BY <1>2, <2>1, <2>3, <2>4, <2>6 DEF out, e
<1> QED
  BY <1>1, <1>2

\* handle_cswitch adds a sample only if there is an off-CPU group.
LEMMA PushedIfGroup ==
  ASSUME Types, NEW t \in Tids, NEW s \in Pending, NEW e \in ThreadContextSwitchData, NEW th,
         th \in [Tids -> ThreadState], th[t].queue = threads[t].queue, th[t].known = threads[t].known,
         threads' = [th EXCEPT ![t].data = e, ![t].queue = PushIfGroup(@, s)]
  PROVE  /\ threads' \in [Tids -> ThreadState]
         /\ threads'[t].data = e /\ threads'[t].queue = PushIfGroup(threads[t].queue, s)
         /\ threads'[t].known = threads[t].known
         /\ \A u \in Tids \ {t} : threads'[u] = th[u]
<1>1. th[t] \in ThreadState /\ threads[t].queue \in Seq(Pending)
  BY ThreadTypes
<1>2. PushIfGroup(threads[t].queue, s) \in Seq(Pending)
  BY <1>1 DEF PushIfGroup
<1> DEFINE q == PushIfGroup(threads[t].queue, s)
           x == [th[t] EXCEPT !.data = e, !.queue = q]
<1>3. threads'[t] = x /\ \A u \in Tids \ {t} : threads'[u] = th[u]
  BY <1>1
<1> HIDE DEF q
<1>4. x \in ThreadState /\ x.data = e /\ x.queue = q /\ x.known = th[t].known
  BY <1>1, <1>2 DEF ThreadState, q
<1> HIDE DEF x
<1>5. threads' \in [Tids -> ThreadState]
  <2>1. threads' = [th EXCEPT ![t] = x]
    BY DEF x, q
  <2> QED
    BY <1>4, <2>1
<1> QED
  BY <1>3, <1>4, <1>5 DEF q

\* A thread leaves the CPU in the kernel.
LEMMA Leaves ==
  ASSUME Types, NEW old \in Tids \cup {Idle},
         IF old # Idle /\ mode[old] = "user"
         THEN NewStack(old) /\ mode' = [mode EXCEPT ![old] = "kernel"]
         ELSE UNCHANGED <<number, mode>>
  PROVE  /\ number' \in [Tids -> 1 .. MaxStacks] /\ mode' \in [Tids -> {"user", "kernel"}]
         /\ \A u \in Tids : /\ number[u] <= number'[u]
                            /\ number'[u] = number[u] \/ (u = old /\ mode[u] = "user")
                            /\ mode[u] = "kernel" => mode'[u] = "kernel"
<1>t. number \in [Tids -> 1 .. MaxStacks] /\ mode \in [Tids -> {"user", "kernel"}]
  BY TypesParts
<1>1. CASE old # Idle /\ mode[old] = "user"
  <2>1. old \in Tids /\ NewStack(old) /\ mode' = [mode EXCEPT ![old] = "kernel"]
    BY <1>1
  <2>2. /\ number' \in [Tids -> 1 .. MaxStacks]
        /\ \A u \in Tids \ {old} : number'[u] = number[u]
        /\ \A u \in Tids : number[u] <= number'[u]
    BY <2>1, NextNumber
  <2> QED
    BY <1>1, <1>t, <2>1, <2>2
<1>2. CASE ~(old # Idle /\ mode[old] = "user")
  <2>1. number' = number /\ mode' = mode
    BY <1>2
  <2>2. \A u \in Tids : number[u] \in Nat
    BY ThreadTypes
  <2>3. \A u \in Tids : number[u] <= number'[u]
    BY <2>1, <2>2
  <2> QED
    BY <1>t, <2>1, <2>3
<1> QED
  BY <1>1, <1>2

\* The context switch, as the threads see it.
LEMMA SwitchSound ==
  ASSUME Types, Types', \A u \in Tids : ThreadSound(u), UNCHANGED config,
         NEW ts \in Nat, now < ts, now' = ts, NEW new \in Tids \cup {Idle}, new # running,
         running' = new, \A u \in {running, new} \ {Idle} : StacksReported(u),
         \A u \in Tids : /\ number[u] <= number'[u]
                         /\ number'[u] = number[u] \/ (u = running /\ mode[u] = "user")
                         /\ mode[u] = "kernel" => mode'[u] = "kernel",
         \A u \in Tids : lastTime'[u] = lastTime[u],
         Known(running) =>
           /\ threads'[running].known = threads[running].known
           /\ threads'[running].queue = threads[running].queue
           /\ threads'[running].data = handle_switch_out(ts, threads[running].data),
         NEW s,
         Known(new) =>
           /\ s \in Pending /\ s.ts = ts /\ ~s.kernel /\ s.user = UserStackOf(new, number')
           /\ s.group = ObservedRunning(ts, threads[new].data).group
           /\ ~s.on /\ ~s.inKernel /\ s.cpuDelta = 0
           /\ threads'[new].known
           /\ threads'[new].data = consume_cpu_delta(ObservedRunning(ts, threads[new].data).data)
           /\ threads'[new].queue = IF s.group # NoGroup THEN Append(threads[new].queue, s)
                                    ELSE threads[new].queue,
         \A u \in Tids : ~(u = running /\ Known(u)) /\ ~(u = new /\ Known(u)) => threads'[u] = threads[u],
         \A u \in Tids \ {new} : walk'[u] = walk[u],
         new # Idle => walk'[new] = Walk(new, ts, "kernel"),
         NEW t \in Tids
  PROVE  ThreadSound(t)'
<1> USE EtwSamplesAssumption
<1>0. ThreadSound(t) /\ t # Idle /\ now \in Nat /\ now <= now' /\ number[t] <= number'[t]
      /\ lastTime'[t] = lastTime[t]
  BY TypesParts
<1>k. t \in system => mode'[t] = "kernel"
  BY <1>0 DEF ThreadSound, WalkSound
<1>m. t = running => StacksReported(t) /\ t # new
  BY <1>0
<1>n. number'[t] = number[t] \/ lossy \/ arch # "x86" \/ threads[t].queue = <<>>
  <2>1. CASE number'[t] = number[t]
    BY <2>1
  <2>2. CASE t = running /\ mode[t] = "user"
    BY <1>0, <1>m, <2>2, EmptyInUserMode
  <2> QED
    BY <2>1, <2>2
<1>1. CASE t = running /\ Known(t)
  <2>1. threads[t].known /\ walk'[t] = walk[t] /\ running' # t
    BY <1>1, <1>m DEF Known
  <2>2. /\ threads'[t].known = threads[t].known
        /\ threads'[t].queue = threads[t].queue
        /\ threads'[t].data = handle_switch_out(ts, threads[t].data)
    BY <1>1
  <2> QED
    BY <1>0, <1>k, <1>n, <2>1, <2>2, OutSound
<1>2. CASE t = new /\ Known(t)
  <2>1. number'[t] = number[t] /\ StacksReported(t)
    BY <1>0, <1>2
  <2>2. walk'[t] = Walk(t, ts, "kernel")
    BY <1>0, <1>2
  <2> DEFINE m == "kernel"
  <2>3. m = "kernel" \/ (m = "user" /\ mode[t] = "user")
    OBVIOUS
  <2>4. /\ s \in Pending /\ s.ts = ts /\ ~s.kernel /\ s.user = UserStackOf(t, number')
        /\ s.group = ObservedRunning(ts, threads[t].data).group
        /\ s.on => (s.inKernel <=> m = "kernel")
        /\ ~s.on => ~s.inKernel /\ s.cpuDelta = 0 /\ m = "kernel"
        /\ ~lossy /\ s.on => threads[t].data.state # "Off"
    BY <1>2
  <2>5. /\ threads'[t].known
        /\ threads'[t].data = consume_cpu_delta(ObservedRunning(ts, threads[t].data).data)
        /\ threads'[t].queue = IF s.on \/ s.group # NoGroup THEN Append(threads[t].queue, s)
                               ELSE threads[t].queue
    BY <1>2
  <2>6. number'[t] = number[t] \/ (number'[t] = number[t] + 1 /\ mode[t] = "user")
    BY <2>1
  <2> HIDE DEF m
  <2>7. walk'[t] = Walk(t, ts, m)
    BY <2>2 DEF m
  <2> QED
    BY <1>0, <1>k, <2>1, <2>3, <2>4, <2>5, <2>6, <2>7, PushSound
<1>3. CASE t = new /\ ~Known(t)
  <2>1. ~threads[t].known /\ threads'[t] = threads[t]
    BY <1>0, <1>3 DEF Known
  <2>2. walk'[t] = Walk(t, ts, "kernel")
    BY <1>0, <1>3
  <2> QED
    BY <1>0, <2>1, <2>2, UnknownSound
<1>4. CASE t # new /\ ~(t = running /\ Known(t))
  <2>1. threads'[t] = threads[t] /\ walk'[t] = walk[t] /\ running' # t
    BY <1>4
  <2> QED
    BY <1>0, <1>k, <1>n, <2>1, MovesOn
<1> QED
  BY <1>1, <1>2, <1>3, <1>4

\* The context switch, as the accounts see it.
LEMMA SwitchAccounts ==
  ASSUME Types, Types', Accounts, \A u \in Tids : ThreadSound(u),
         NEW ts \in Nat, now < ts, now' = ts, NEW new \in Tids \cup {Idle}, new # running,
         left' = left,
         Known(running) =>
           /\ threads'[running].queue = threads[running].queue
           /\ threads'[running].data = handle_switch_out(ts, threads[running].data),
         \A u \in Tids : ~(u = running /\ Known(u)) /\ ~(u = new /\ Known(u)) => threads'[u] = threads[u],
         \A u \in Tids : ~(u = new /\ Known(u)) =>
           shown'[u] = shown[u] /\ dropped'[u] = dropped[u] /\ groups'[u] = groups[u],
         \A u \in Tids : first'[u] = IF (u = running \/ u = new) /\ Known(u)
                                     THEN Starts(threads[u].data, first[u], ts) ELSE first[u],
         Known(new) =>
           \E b, c \in Nat :
             LET r == ObservedRunning(ts, threads[new].data)
             IN  /\ b + c = r.data.on
                 /\ threads'[new].data = consume_cpu_delta(r.data)
                 /\ Grows(new, r.group.count, 0, b, c)
                 /\ Total(CpuDeltas(threads'[new].queue)) = Total(CpuDeltas(threads[new].queue)),
         NEW t \in Tids
  PROVE  left'[t] = 0 /\ Balanced(threads'[t].data, first'[t], Placed(t)')
<1> DEFINE d == threads[t].data
<1>t. /\ d \in ThreadContextSwitchData /\ now \in Nat /\ first[t] \in Nat /\ t # Cpu /\ t # Idle
  BY ThreadTypes, TypesParts, EtwSamplesAssumption DEF Tracks
<1>d. Sound(d, ts)
  <2>1. Sound(d, now) /\ d.ts \in Nat
    BY <1>t, DataTypes DEF ThreadSound, QueueSound
  <2> QED
    BY <1>t, <2>1 DEF Sound
<1>b. Balanced(d, first[t], Placed(t)) /\ left'[t] = 0 /\ left[t] = 0
  BY DEF Accounts
<1>p. Placed(t) \in Nat
  <2>1. /\ shown[t] \in Nat /\ groups[t] \in Nat /\ dropped[t] \in Nat /\ left[t] \in Nat
        /\ Total(Deltas(threads[t].queue)) \in Nat
    BY TypesParts, ThreadTypes, QueueTotals
  <2>2. groups[t] * Interval \in Nat
    BY <2>1, GroupTime
  <2>3. PICK a, b, c, e, g \in Nat :
          /\ a = shown[t] /\ b = Total(Deltas(threads[t].queue)) /\ c = left[t] /\ e = dropped[t]
          /\ g = groups[t] * Interval
    BY <2>1, <2>2, Zenon
  <2>4. Placed(t) = a + b + c + e + g
    BY <2>3 DEF Placed
  <2> QED
    BY <2>4
<1>1. CASE t = running /\ Known(t)
  <2>1. t # new /\ Placed(t)' = Placed(t)
    BY <1>1 DEF Placed
  <2>2. first'[t] = Starts(d, first[t], ts) /\ threads'[t].data = handle_switch_out(ts, d)
    BY <1>1
  <2> QED
    BY <1>b, <1>d, <1>p, <1>t, <2>1, <2>2, BalancedOut
<1>2. CASE t = new /\ Known(t)
  <2> DEFINE r == ObservedRunning(ts, d)
             n == r.group.count
  <2>1. PICK b, c \in Nat :
          /\ b + c = r.data.on /\ threads'[t].data = consume_cpu_delta(r.data)
          /\ Grows(t, n, 0, b, c)
    BY <1>2
  <2>2. n \in Nat /\ 0 \in Nat
    BY <1>d, Running DEF OffCpuSampleGroup
  <2> HIDE DEF n
  <2>3. Placed(t)' = Placed(t) + n * Interval + (0 + b + c)
    BY <2>1, <2>2, PlacedGrows
  <2>4. 0 + b + c = r.data.on
    BY <2>1
  <2>5. Balanced(consume_cpu_delta(r.data), Starts(d, first[t], ts), Placed(t) + n * Interval + r.data.on)
    BY <1>b, <1>d, <1>p, <1>t, BalancedRuns DEF n
  <2>6. first'[t] = Starts(d, first[t], ts)
    BY <1>2
  <2> QED
    BY <1>b, <2>1, <2>3, <2>4, <2>5, <2>6
<1>3. CASE ~((t = running \/ t = new) /\ Known(t))
  <2>1. threads'[t] = threads[t] /\ Placed(t)' = Placed(t) /\ first'[t] = first[t]
    BY <1>3 DEF Placed
  <2> QED
    BY <1>b, <2>1
<1> QED
  BY <1>1, <1>2, <1>3

\* The clocks that a context switch starts.
LEMMA SwitchClocks ==
  ASSUME Types, NEW ts \in Nat, NEW new \in Tids \cup {Idle},
         StartClock({k \in {running, new, Cpu} \cap Tracks :
                       IF k = Cpu THEN Known(running) \/ Known(new) ELSE Known(k)}, ts, StateOf)
  PROVE  /\ first' \in [Tracks -> Nat]
         /\ \A u \in Tids : first'[u] = IF (u = running \/ u = new) /\ Known(u)
                                        THEN Starts(threads[u].data, first[u], ts) ELSE first[u]
         /\ first'[Cpu] = IF Known(running) \/ Known(new) THEN Starts(cpu, first[Cpu], ts)
                          ELSE first[Cpu]
<1> DEFINE ks == {k \in {running, new, Cpu} \cap Tracks :
                    IF k = Cpu THEN Known(running) \/ Known(new) ELSE Known(k)}
<1>1. \A u \in Tids : u \in ks <=> (u = running \/ u = new) /\ Known(u)
  BY EtwSamplesAssumption DEF Tracks
<1>2. Cpu \in ks <=> Known(running) \/ Known(new)
  BY DEF Tracks
<1>3. StartClock(ks, ts, StateOf)
  OBVIOUS
<1> HIDE DEF ks
<1>4. /\ first' \in [Tracks -> Nat]
      /\ \A k \in Tids : first'[k] = IF k \in ks THEN Starts(threads[k].data, first[k], ts)
                                     ELSE first[k]
      /\ first'[Cpu] = IF Cpu \in ks THEN Starts(cpu, first[Cpu], ts) ELSE first[Cpu]
  BY <1>3, ClockStarts
<1> QED
  BY <1>1, <1>2, <1>4

\* The account of the CPU, when no thread takes it.
LEMMA CpuLeft ==
  ASSUME Types, Types', Accounts, NEW ts \in Nat, now < ts, now' = ts,
         shown' = shown, groups' = groups, dropped' = dropped, left' = left,
         \A u \in Tids : threads'[u].queue = threads[u].queue,
         NEW b \in BOOLEAN,
         cpu' = IF b THEN handle_switch_out(ts, cpu) ELSE cpu,
         first'[Cpu] = IF b THEN Starts(cpu, first[Cpu], ts) ELSE first[Cpu]
  PROVE  Sound(cpu', now') /\ Balanced(cpu', first'[Cpu], PlacedCpu')
<1>t. cpu \in ThreadContextSwitchData /\ now \in Nat /\ first[Cpu] \in Nat
  BY TypesParts DEF Tracks
<1>d. Sound(cpu, ts)
  <2>1. Sound(cpu, now) /\ cpu.ts \in Nat
    BY <1>t, DataTypes DEF Accounts
  <2> QED
    BY <1>t, <2>1 DEF Sound
<1>1. PlacedCpu' = PlacedCpu
  <2>1. CpuQueued(threads') = CpuQueued(threads)
    BY DEF CpuQueued
  <2> QED
    BY <2>1 DEF PlacedCpu
<1>2. PlacedCpu \in Nat
  <2>1. SumOver(CpuQueued(threads), Tids) \in Nat
    <3>1. IsFiniteSet(Tids)
      BY EtwSamplesAssumption
    <3>2. \A u \in Tids : CpuQueued(threads)[u] \in Nat
      BY ThreadTypes, QueueTotals DEF CpuQueued
    <3> QED
      BY <3>1, <3>2, SumRemove
  <2>2. shown[Cpu] \in Nat /\ groups[Cpu] \in Nat /\ dropped[Cpu] \in Nat /\ left[Cpu] \in Nat
    BY TypesParts DEF Tracks
  <2>3. groups[Cpu] * Interval \in Nat
    BY <2>2, GroupTime
  <2>4. PICK v1, v2, v3, v4, v5 \in Nat :
          /\ v1 = shown[Cpu] /\ v2 = SumOver(CpuQueued(threads), Tids) /\ v3 = left[Cpu]
          /\ v4 = dropped[Cpu] /\ v5 = groups[Cpu] * Interval
    BY <2>1, <2>2, <2>3, Zenon
  <2>5. PlacedCpu = v1 + v2 + v3 + v4 + v5
    BY <2>4 DEF PlacedCpu
  <2> QED
    BY <2>5
<1>3. Balanced(cpu, first[Cpu], PlacedCpu)
  BY DEF Accounts
<1>4. CASE b
  <2>1. Sound(handle_switch_out(ts, cpu), ts)
    BY <1>d, SwitchedOut
  <2>2. Balanced(handle_switch_out(ts, cpu), Starts(cpu, first[Cpu], ts), PlacedCpu)
    BY <1>2, <1>3, <1>d, <1>t, BalancedOut
  <2> QED
    BY <1>1, <1>4, <2>1, <2>2
<1>5. CASE ~b
  BY <1>1, <1>3, <1>5, <1>d
<1> QED
  BY <1>4, <1>5

\* The account of the CPU, when a thread that is recorded takes it.
LEMMA CpuTaken ==
  ASSUME Types, Types', Accounts, NEW ts \in Nat, now < ts, now' = ts,
         dropped'[Cpu] = dropped[Cpu], left' = left,
         \A u \in Tids : Total(CpuDeltas(threads'[u].queue)) = Total(CpuDeltas(threads[u].queue)),
         NEW o, o = cpu \/ o = handle_switch_out(ts, cpu),
         groups'[Cpu] = groups[Cpu] + ObservedRunning(ts, o).group.count,
         shown'[Cpu] = shown[Cpu] + IF ObservedRunning(ts, o).group = NoGroup THEN 0
                                    ELSE ObservedRunning(ts, o).data.on,
         cpu' = IF ObservedRunning(ts, o).group = NoGroup THEN ObservedRunning(ts, o).data
                ELSE consume_cpu_delta(ObservedRunning(ts, o).data),
         first'[Cpu] = Starts(cpu, first[Cpu], ts)
  PROVE  Sound(cpu', now') /\ Balanced(cpu', first'[Cpu], PlacedCpu')
<1> DEFINE c == ObservedRunning(ts, o)
           n == c.group.count
           a == IF c.group = NoGroup THEN 0 ELSE c.data.on
           f == Starts(cpu, first[Cpu], ts)
           x == SumOver(CpuQueued(threads), Tids)
<1>t. cpu \in ThreadContextSwitchData /\ now \in Nat /\ first[Cpu] \in Nat
  BY TypesParts DEF Tracks
<1>d. Sound(cpu, ts)
  <2>1. Sound(cpu, now) /\ cpu.ts \in Nat
    BY <1>t, DataTypes DEF Accounts
  <2> QED
    BY <1>t, <2>1 DEF Sound
<1>o. Sound(o, ts)
  BY <1>d, SwitchedOut
<1>c. n \in Nat /\ a \in Nat /\ c.data.on \in Nat /\ Sound(c.data, ts)
  <2>1. Sound(c.data, ts)
    BY <1>o, Running
  <2>2. c.group \in OffCpuSampleGroup
    BY <1>o, Running
  <2> HIDE DEF c
  <2> QED
    BY <2>1, <2>2, DataTypes DEF Sound, OffCpuSampleGroup
<1>1. PlacedCpu \in Nat /\ PlacedCpu' = PlacedCpu + n * Interval + (a + 0)
  <2>1. x \in Nat
    <3>1. IsFiniteSet(Tids)
      BY EtwSamplesAssumption
    <3>2. \A u \in Tids : CpuQueued(threads)[u] \in Nat
      BY ThreadTypes, QueueTotals DEF CpuQueued
    <3> QED
      BY <3>1, <3>2, SumRemove
  <2>2. CpuQueued(threads') = CpuQueued(threads)
    BY DEF CpuQueued
  <2>3. SumOver(CpuQueued(threads'), Tids) = x + 0 /\ 0 \in Nat
    <3>1. SumOver(CpuQueued(threads'), Tids) = x
      BY <2>2
    <3> HIDE DEF x
    <3> QED
      BY <2>1, <3>1
  <2>4. groups'[Cpu] = groups[Cpu] + n /\ shown'[Cpu] = shown[Cpu] + a /\ left'[Cpu] = left[Cpu]
    OBVIOUS
  <2> HIDE DEF n, a
  <2> QED
    BY <1>c, <2>1, <2>3, <2>4, PlacedCpuGrows
<1>2. Balanced(cpu, first[Cpu], PlacedCpu)
  BY DEF Accounts
<1>3. /\ Balanced(c.data, f, PlacedCpu + n * Interval)
      /\ Balanced(consume_cpu_delta(c.data), f, PlacedCpu + n * Interval + c.data.on)
  BY <1>1, <1>2, <1>d, <1>t, CpuSwitched
<1>4. n * Interval \in Nat
  BY <1>c, GroupTime
<1>5. CASE c.group = NoGroup
  <2>1. cpu' = c.data /\ a = 0
    BY <1>5
  <2> HIDE DEF a
  <2>2. PlacedCpu' = PlacedCpu + n * Interval
    <3>1. PICK y, z \in Nat : y = PlacedCpu /\ z = n * Interval
      BY <1>1, <1>4
    <3>2. PlacedCpu' = y + z + (a + 0)
      BY <1>1, <3>1
    <3>3. PlacedCpu' = y + z
      BY <2>1, <3>2
    <3> QED
      BY <3>1, <3>3
  <2> QED
    BY <1>3, <1>c, <2>1, <2>2
<1>6. CASE c.group # NoGroup
  <2>1. cpu' = consume_cpu_delta(c.data) /\ a + 0 = c.data.on
    BY <1>6, <1>c
  <2>s. Sound(consume_cpu_delta(c.data), ts)
    BY <1>o, RunsAt
  <2>2. Sound(cpu', ts)
    BY <2>1, <2>s
  <2> HIDE DEF a
  <2> QED
    BY <1>1, <1>3, <2>1, <2>2
<1> QED
  BY <1>5, <1>6

\* The event of the context switch is lost.
LEMMA StepsSwitchLost ==
  ASSUME IInv, UNCHANGED config, NEW ts \in Nat, now < ts, ts \in 0 .. MaxTime, now' = ts,
         NEW new \in Tids \cup {Idle}, running' = new, lossy,
         IF running # Idle /\ mode[running] = "user"
         THEN NewStack(running) /\ mode' = [mode EXCEPT ![running] = "kernel"]
         ELSE UNCHANGED <<number, mode>>,
         UNCHANGED <<walk, threads, cpu, first, groups, dropped, starts, left>>, Emit(<<>>)
  PROVE  StepSound
<1> USE DEF IInv
<1>1. /\ EmitsNothing /\ StackMatches' /\ OrderStep
      /\ shown' \in [Tracks -> Nat] /\ lastTime' \in [Tracks -> Int]
  BY NothingShown
<1>2. shown' = shown /\ lastTime' = lastTime
  BY <1>1 DEF EmitsNothing
<1>3. /\ number' \in [Tids -> 1 .. MaxStacks] /\ mode' \in [Tids -> {"user", "kernel"}]
      /\ \A u \in Tids : /\ number[u] <= number'[u]
                         /\ mode[u] = "kernel" => mode'[u] = "kernel"
  BY TypesParts, Leaves
<1>4. Types'
  BY <1>1, <1>3, TypesParts, TypesStep
<1>n. now <= now' /\ now' \in Nat
  BY TypesParts
<1>5. ASSUME NEW u \in Tids PROVE ThreadSound(u)'
  <2>1. ThreadSound(u)
    OBVIOUS
  <2>2. u \in system => mode'[u] = "kernel"
    BY <1>3, <2>1 DEF ThreadSound, WalkSound
  <2> QED
    BY <1>2, <1>3, <1>4, <1>n, <2>1, <2>2, MovesOn
<1>6. Accounts'
  BY <1>2, <1>n, AccountsKept
<1> QED
  BY <1>1, <1>4, <1>5, <1>6 DEF StepSound

\* What every context switch does to the machine.
Switches(new, ts) ==
  /\ new # running /\ \A t \in {running, new} \ {Idle} : StacksReported(t)
  /\ now' = ts /\ running' = new
  /\ IF running # Idle /\ mode[running] = "user"
     THEN NewStack(running) /\ mode' = [mode EXCEPT ![running] = "kernel"]
     ELSE UNCHANGED <<number, mode>>
  /\ starts' = starts /\ left' = left

\* The CPU goes to no thread, or to one that is not recorded.
LEMMA StepsSwitchAway ==
  ASSUME IInv, UNCHANGED config, NEW ts \in Nat, now < ts, ts \in 0 .. MaxTime,
         NEW new \in Tids \cup {Idle}, Switches(new, ts), ~Known(new), handle_cswitch(running, new, ts),
         walk' = IF new = Idle THEN walk ELSE [walk EXCEPT ![new] = Walk(new, ts, "kernel")]
  PROVE  StepSound
<1> USE DEF IInv
<1> DEFINE out == SwitchOut(running, ts)
<1>r. running \in Tids \cup {Idle} /\ now \in Nat
  BY TypesParts
<1>0. /\ new # running /\ \A t \in {running, new} \ {Idle} : StacksReported(t)
      /\ now' = ts /\ running' = new /\ starts' = starts /\ left' = left
  BY DEF Switches
<1>h. /\ StartClock({k \in {running, new, Cpu} \cap Tracks :
                       IF k = Cpu THEN Known(running) \/ Known(new) ELSE Known(k)}, ts, StateOf)
      /\ threads' = out.threads /\ cpu' = out.cpu /\ groups' = groups /\ dropped' = dropped
      /\ Emit(<<>>)
  BY DEF handle_cswitch
<1>o. /\ out.threads \in [Tids -> ThreadState]
      /\ \A u \in Tids : /\ out.threads[u].queue = threads[u].queue
                         /\ out.threads[u].known = threads[u].known
      /\ \A u \in Tids : ~(u = running /\ Known(running)) => out.threads[u] = threads[u]
      /\ Known(running) => /\ running \in Tids
                           /\ out.threads[running].data = handle_switch_out(ts, threads[running].data)
      /\ out.cpu = IF Known(running) THEN handle_switch_out(ts, cpu) ELSE cpu
  BY <1>r, SwitchOutFacts
<1> HIDE DEF out
<1>1. /\ EmitsNothing /\ StackMatches' /\ OrderStep
      /\ shown' \in [Tracks -> Nat] /\ lastTime' \in [Tracks -> Int]
  BY <1>h, NothingShown
<1>2. shown' = shown /\ lastTime' = lastTime
  BY <1>1 DEF EmitsNothing
<1>3. /\ number' \in [Tids -> 1 .. MaxStacks] /\ mode' \in [Tids -> {"user", "kernel"}]
      /\ \A u \in Tids : /\ number[u] <= number'[u]
                         /\ number'[u] = number[u] \/ (u = running /\ mode[u] = "user")
                         /\ mode[u] = "kernel" => mode'[u] = "kernel"
  BY <1>r, Leaves DEF Switches
<1>4. /\ walk' \in [Tids -> WalkRequests]
      /\ \A u \in Tids \ {new} : walk'[u] = walk[u]
      /\ new # Idle => walk'[new] = Walk(new, ts, "kernel")
  <2>1. CASE new = Idle
    <3>1. walk \in [Tids -> WalkRequests]
      BY TypesParts DEF WalkRequests
    <3> QED
      BY <2>1, <3>1
  <2>2. CASE new # Idle
    <3>1. new \in Tids /\ walk' = [walk EXCEPT ![new] = Walk(new, ts, "kernel")]
      BY <2>2
    <3> QED
      BY <3>1, WalkType
  <2> QED
    BY <2>1, <2>2
<1>5. /\ first' \in [Tracks -> Nat]
      /\ \A u \in Tids : first'[u] = IF (u = running \/ u = new) /\ Known(u)
                                     THEN Starts(threads[u].data, first[u], ts) ELSE first[u]
      /\ first'[Cpu] = IF Known(running) \/ Known(new) THEN Starts(cpu, first[Cpu], ts)
                       ELSE first[Cpu]
  BY <1>h, SwitchClocks
<1>6. cpu' \in ThreadContextSwitchData
  <2>1. cpu \in ThreadContextSwitchData /\ Sound(cpu, now) /\ cpu.ts \in Nat
    BY TypesParts, DataTypes DEF Accounts
  <2>2. Sound(cpu, ts)
    BY <1>r, <2>1 DEF Sound
  <2>3. Sound(handle_switch_out(ts, cpu), ts)
    BY <2>2, SwitchedOut
  <2> QED
    BY <1>h, <1>o, <2>1, <2>3 DEF Sound
<1>7. Types'
  <2>1. /\ threads' \in [Tids -> ThreadState] /\ now' \in 0 .. MaxTime
        /\ starts' \in 0 .. MaxStarts /\ running' \in Tids \cup {Idle}
        /\ groups' \in [Tracks -> Nat] /\ dropped' \in [Tracks -> Nat] /\ left' \in [Tracks -> Nat]
    BY <1>0, <1>h, <1>o, TypesParts
  <2> QED
    BY <1>1, <1>3, <1>4, <1>5, <1>6, <2>1, TypesStep DEF WalkRequests
<1>8. /\ Known(running) =>
           /\ threads'[running].known = threads[running].known
           /\ threads'[running].queue = threads[running].queue
           /\ threads'[running].data = handle_switch_out(ts, threads[running].data)
      /\ \A u \in Tids : ~(u = running /\ Known(u)) /\ ~(u = new /\ Known(u)) => threads'[u] = threads[u]
  BY <1>h, <1>o
<1>9. ASSUME NEW t \in Tids PROVE ThreadSound(t)'
  <2>1. \A u \in Tids : lastTime'[u] = lastTime[u]
    BY <1>2
  <2> QED
    BY <1>0, <1>3, <1>4, <1>7, <1>8, <2>1, SwitchSound
<1>10. Accounts'
  <2>1. ASSUME NEW t \in Tids PROVE left'[t] = 0 /\ Balanced(threads'[t].data, first'[t], Placed(t)')
    <3>1. \A u \in Tids : shown'[u] = shown[u] /\ dropped'[u] = dropped[u] /\ groups'[u] = groups[u]
      BY <1>2, <1>h
    <3> QED
      BY <1>0, <1>5, <1>7, <1>8, <3>1, SwitchAccounts
  <2>2. Sound(cpu', now') /\ Balanced(cpu', first'[Cpu], PlacedCpu')
    <3>1. PICK b \in BOOLEAN : b <=> Known(running)
      OBVIOUS
    <3>2. /\ cpu' = IF b THEN handle_switch_out(ts, cpu) ELSE cpu
          /\ first'[Cpu] = IF b THEN Starts(cpu, first[Cpu], ts) ELSE first[Cpu]
          /\ \A u \in Tids : threads'[u].queue = threads[u].queue
      BY <1>5, <1>h, <1>o, <3>1
    <3> QED
      BY <1>0, <1>2, <1>7, <1>h, <3>2, CpuLeft
  <2> QED
    BY <2>1, <2>2 DEF Accounts
<1> QED
  BY <1>1, <1>7, <1>9, <1>10 DEF StepSound

\* The CPU goes to a thread that is recorded; o is what the CPU is before.
LEMMA StepsSwitchIn ==
  ASSUME IInv, UNCHANGED config, NEW ts \in Nat, now < ts, ts \in 0 .. MaxTime,
         NEW new \in Tids, Switches(new, ts), Known(new), handle_cswitch(running, new, ts),
         walk' = [walk EXCEPT ![new] = Walk(new, ts, "kernel")]
  PROVE  StepSound
<1> USE DEF IInv
<1> DEFINE out == SwitchOut(running, ts)
           d == threads[new].data
           r == ObservedRunning(ts, d)
           o == out.cpu
           c == ObservedRunning(ts, o)
           e == consume_cpu_delta(r.data)
           s == [ts |-> ts, kernel |-> FALSE, group |-> r.group, delta |-> r.data.on, on |-> FALSE,
                 cpuDelta |-> 0, user |-> UserStackOf(new, number), inKernel |-> FALSE]
<1>r. running \in Tids \cup {Idle} /\ now \in Nat /\ new # Idle /\ threads[new].known
  BY TypesParts DEF Known
<1>0. /\ new # running /\ \A t \in {running, new} \ {Idle} : StacksReported(t)
      /\ now' = ts /\ running' = new /\ starts' = starts /\ left' = left
  BY DEF Switches
<1>o. /\ out.threads \in [Tids -> ThreadState]
      /\ \A u \in Tids : /\ out.threads[u].queue = threads[u].queue
                         /\ out.threads[u].known = threads[u].known
      /\ \A u \in Tids : ~(u = running /\ Known(running)) => out.threads[u] = threads[u]
      /\ Known(running) => /\ running \in Tids
                           /\ out.threads[running].data = handle_switch_out(ts, threads[running].data)
      /\ o = IF Known(running) THEN handle_switch_out(ts, cpu) ELSE cpu
  BY <1>r, SwitchOutFacts
<1>n. out.threads[new] = threads[new]
  BY <1>0, <1>o
<1>h. /\ StartClock({k \in {running, new, Cpu} \cap Tracks :
                       IF k = Cpu THEN Known(running) \/ Known(new) ELSE Known(k)}, ts, StateOf)
      /\ threads' = [out.threads EXCEPT ![new].data = e, ![new].queue = PushIfGroup(@, s)]
      /\ cpu' = IF c.group = NoGroup THEN c.data ELSE consume_cpu_delta(c.data)
      /\ groups' = [groups EXCEPT ![new] = @ + r.group.count, ![Cpu] = @ + c.group.count]
      /\ dropped' = [dropped EXCEPT ![new] = @ + IF r.group = NoGroup THEN r.data.on ELSE 0]
      /\ Emit([k \in {Cpu} |-> IdleSamples(c)])
  BY <1>n DEF handle_cswitch, handle_switch_in
<1>d. Sound(d, ts) /\ Sound(cpu, ts)
  <2>1. Sound(d, now) /\ Sound(cpu, now)
    BY DEF ThreadSound, QueueSound, Accounts
  <2>2. d.ts \in Nat /\ cpu.ts \in Nat
    BY ThreadTypes, TypesParts, DataTypes
  <2> QED
    BY <1>r, <2>1, <2>2 DEF Sound
<1>s. /\ s \in Pending /\ s.ts = ts /\ ~s.kernel /\ s.group = r.group
      /\ s.delta = r.data.on /\ ~s.on /\ s.cpuDelta = 0
      /\ s.user = UserStackOf(new, number) /\ ~s.inKernel
      /\ r.data.on \in Nat /\ r.group.count \in Nat
  <2> DEFINE u == UserStackOf(new, number)
  <2>1. u \in Nat /\ 0 \in Nat /\ FALSE \in BOOLEAN
    BY ThreadTypes DEF UserStackOf
  <2> HIDE DEF u
  <2>2. LET v == [ts |-> ts, kernel |-> FALSE, group |-> r.group, delta |-> r.data.on, on |-> FALSE,
                  cpuDelta |-> 0, user |-> u, inKernel |-> FALSE]
        IN  /\ v \in Pending /\ v.ts = ts /\ v.kernel = FALSE /\ v.group = r.group
            /\ v.delta = r.data.on /\ v.on = FALSE /\ v.cpuDelta = 0 /\ v.user = u /\ v.inKernel = FALSE
            /\ r.data.on \in Nat /\ r.group.count \in Nat
    BY <1>d, <2>1, EntryMade
  <2> QED
    BY <2>2 DEF u
<1> HIDE DEF s
<1>e. e \in ThreadContextSwitchData
  <2>1. Sound(e, ts)
    BY <1>d, RunsAt
  <2> QED
    BY <2>1 DEF Sound
<1>c. Sound(c.data, ts) /\ c.data.on \in Nat /\ c.group \in OffCpuSampleGroup /\ c.group.count \in Nat
  <2>0. Sound(o, ts)
    BY <1>d, <1>o, SwitchedOut
  <2> HIDE DEF o
  <2>1. Sound(c.data, ts)
    BY <2>0, Running
  <2>2. c.group \in OffCpuSampleGroup
    BY <2>0, Running
  <2> HIDE DEF c
  <2> QED
    BY <2>1, <2>2, DataTypes DEF Sound, OffCpuSampleGroup
<1> HIDE DEF out, e, c, o
<1>1. /\ shown' \in [Tracks -> Nat] /\ lastTime' \in [Tracks -> Int]
      /\ StackMatches' /\ OrderStep
      /\ shown'[Cpu] = shown[Cpu] + IF c.group = NoGroup THEN 0 ELSE c.data.on
      /\ \A k \in Tids : shown'[k] = shown[k] /\ lastTime'[k] = lastTime[k]
  BY <1>c, <1>h, IdleShown
<1>3. /\ number' \in [Tids -> 1 .. MaxStacks] /\ mode' \in [Tids -> {"user", "kernel"}]
      /\ \A u \in Tids : /\ number[u] <= number'[u]
                         /\ number'[u] = number[u] \/ (u = running /\ mode[u] = "user")
                         /\ mode[u] = "kernel" => mode'[u] = "kernel"
  BY <1>r, Leaves DEF Switches
<1>4. /\ walk' \in [Tids -> WalkRequests]
      /\ \A u \in Tids \ {new} : walk'[u] = walk[u]
      /\ walk'[new] = Walk(new, ts, "kernel")
  BY WalkType
<1>5. /\ first' \in [Tracks -> Nat]
      /\ \A u \in Tids : first'[u] = IF (u = running \/ u = new) /\ Known(u)
                                     THEN Starts(threads[u].data, first[u], ts) ELSE first[u]
      /\ first'[Cpu] = IF Known(running) \/ Known(new) THEN Starts(cpu, first[Cpu], ts)
                       ELSE first[Cpu]
  BY <1>h, SwitchClocks
<1>6. cpu' \in ThreadContextSwitchData
  <2>1. c.data \in ThreadContextSwitchData
    BY <1>c DEF Sound
  <2> QED
    BY <1>c, <1>h, <2>1, Consume DEF Sound
<1>7. /\ threads' \in [Tids -> ThreadState]
      /\ threads'[new].data = e /\ threads'[new].queue = PushIfGroup(threads[new].queue, s)
      /\ threads'[new].known = threads[new].known
      /\ \A u \in Tids \ {new} : threads'[u] = out.threads[u]
  BY <1>e, <1>h, <1>o, <1>s, PushedIfGroup
<1>8. /\ groups' \in [Tracks -> Nat] /\ groups'[new] = groups[new] + r.group.count
      /\ groups'[Cpu] = groups[Cpu] + c.group.count
      /\ \A u \in Tids \ {new} : groups'[u] = groups[u]
  <2>1. groups \in [Tracks -> Nat] /\ new \in Tracks /\ Cpu \in Tracks /\ Cpu \notin Tids
    BY TypesParts, EtwSamplesAssumption DEF Tracks
  <2>2. PICK a, b \in Nat : a = r.group.count /\ b = c.group.count
    BY <1>c, <1>s
  <2>3. groups' = [groups EXCEPT ![new] = @ + a, ![Cpu] = @ + b]
    BY <1>h, <2>2
  <2>4. groups[new] + a \in Nat /\ groups[Cpu] + b \in Nat
    BY <2>1
  <2>5. /\ groups' \in [Tracks -> Nat] /\ groups'[new] = groups[new] + a
        /\ groups'[Cpu] = groups[Cpu] + b
        /\ \A u \in Tids \ {new} : groups'[u] = groups[u]
    BY <2>1, <2>3, <2>4 DEF Tracks
  <2> QED
    BY <2>2, <2>5
<1>9. PICK x \in Nat :
        /\ x = (IF r.group = NoGroup THEN r.data.on ELSE 0)
        /\ dropped' \in [Tracks -> Nat] /\ dropped'[new] = dropped[new] + x
        /\ \A k \in Tracks \ {new} : dropped'[k] = dropped[k]
  <2>1. dropped \in [Tracks -> Nat] /\ new \in Tracks
    BY TypesParts DEF Tracks
  <2>2. PICK x \in Nat : x = (IF r.group = NoGroup THEN r.data.on ELSE 0)
    BY <1>s
  <2>3. dropped' = [dropped EXCEPT ![new] = @ + x]
    BY <1>h, <2>2
  <2>4. dropped[new] + x \in Nat
    BY <2>1
  <2> QED
    BY <2>1, <2>2, <2>3, <2>4
<1>10. Types'
  <2>1. /\ now' \in 0 .. MaxTime /\ starts' \in 0 .. MaxStarts /\ running' \in Tids \cup {Idle}
        /\ left' \in [Tracks -> Nat]
    BY <1>0, TypesParts
  <2> QED
    BY <1>1, <1>3, <1>4, <1>5, <1>6, <1>7, <1>8, <1>9, <2>1, TypesStep DEF WalkRequests
<1>11. /\ Known(running) =>
            /\ threads'[running].known = threads[running].known
            /\ threads'[running].queue = threads[running].queue
            /\ threads'[running].data = handle_switch_out(ts, threads[running].data)
       /\ \A u \in Tids : ~(u = running /\ Known(u)) /\ ~(u = new /\ Known(u)) => threads'[u] = threads[u]
  BY <1>0, <1>7, <1>o
<1>12. ASSUME NEW t \in Tids PROVE ThreadSound(t)'
  <2>1. \A u \in Tids : lastTime'[u] = lastTime[u]
    BY <1>1
  <2>2. s.user = UserStackOf(new, number')
    <3>1. number'[new] = number[new]
      BY <1>0, <1>3
    <3> QED
      BY <1>s, <3>1 DEF UserStackOf
  <2>3. /\ s \in Pending /\ s.ts = ts /\ ~s.kernel
        /\ s.group = ObservedRunning(ts, threads[new].data).group
        /\ ~s.on /\ ~s.inKernel /\ s.cpuDelta = 0
        /\ threads'[new].known
        /\ threads'[new].data = consume_cpu_delta(ObservedRunning(ts, threads[new].data).data)
        /\ threads'[new].queue = IF s.group # NoGroup THEN Append(threads[new].queue, s)
                                 ELSE threads[new].queue
    BY <1>7, <1>r, <1>s DEF PushIfGroup, e
  <2> HIDE DEF r
  <2> QED
    BY <1>0, <1>3, <1>4, <1>10, <1>11, <2>1, <2>2, <2>3, SwitchSound
<1>q. PICK y \in Nat :
        /\ y = (IF r.group = NoGroup THEN 0 ELSE r.data.on)
        /\ Total(Deltas(threads'[new].queue)) = Total(Deltas(threads[new].queue)) + y
        /\ Total(CpuDeltas(threads'[new].queue)) = Total(CpuDeltas(threads[new].queue))
  <2> DEFINE q == threads[new].queue
  <2>1. q \in Seq(Pending)
    BY ThreadTypes
  <2>2. Total(Deltas(q)) \in Nat /\ Total(CpuDeltas(q)) \in Nat
    BY <2>1, QueueTotals
  <2>3. PICK y \in Nat : y = (IF r.group = NoGroup THEN 0 ELSE r.data.on)
    BY <1>s
  <2>4. CASE r.group = NoGroup
    <3>1. threads'[new].queue = q /\ y = 0
      BY <1>7, <1>s, <2>3, <2>4 DEF PushIfGroup
    <3> QED
      BY <2>2, <2>3, <3>1
  <2>5. CASE r.group # NoGroup
    <3>1. threads'[new].queue = Append(q, s) /\ s.delta = y /\ s.cpuDelta = 0
      BY <1>7, <1>s, <2>3, <2>5 DEF PushIfGroup
    <3>2. /\ Total(Deltas(Append(q, s))) = Total(Deltas(q)) + s.delta
          /\ Total(CpuDeltas(Append(q, s))) = Total(CpuDeltas(q)) + s.cpuDelta
      BY <1>s, <2>1, PushFacts
    <3> QED
      BY <2>2, <2>3, <3>1, <3>2
  <2> QED
    BY <2>4, <2>5
<1>13. ASSUME NEW t \in Tids PROVE left'[t] = 0 /\ Balanced(threads'[t].data, first'[t], Placed(t)')
  <2>1. \A u \in Tids : ~(u = new /\ Known(u)) =>
          shown'[u] = shown[u] /\ dropped'[u] = dropped[u] /\ groups'[u] = groups[u]
    BY <1>1, <1>8, <1>9 DEF Tracks
  <2>2. y + x = r.data.on
    BY <1>9, <1>q, <1>s
  <2>3. Grows(new, r.group.count, 0, y, x)
    <3>1. shown'[new] = shown[new] + 0
      BY <1>1, TypesParts DEF Tracks
    <3> QED
      BY <1>0, <1>8, <1>9, <1>q, <3>1 DEF Grows
  <2>4. threads'[new].data = consume_cpu_delta(ObservedRunning(ts, threads[new].data).data)
    BY <1>7 DEF e
  <2>5. \E b, cc \in Nat :
          LET rr == ObservedRunning(ts, threads[new].data)
          IN  /\ b + cc = rr.data.on
              /\ threads'[new].data = consume_cpu_delta(rr.data)
              /\ Grows(new, rr.group.count, 0, b, cc)
              /\ Total(CpuDeltas(threads'[new].queue)) = Total(CpuDeltas(threads[new].queue))
    BY <1>q, <2>2, <2>3, <2>4
  <2> HIDE DEF r
  <2> QED
    BY <1>0, <1>5, <1>10, <1>11, <2>1, <2>5, SwitchAccounts
<1>14. Sound(cpu', now') /\ Balanced(cpu', first'[Cpu], PlacedCpu')
  <2>1. \A u \in Tids : Total(CpuDeltas(threads'[u].queue)) = Total(CpuDeltas(threads[u].queue))
    BY <1>7, <1>o, <1>q
  <2>2. /\ dropped'[Cpu] = dropped[Cpu] /\ first'[Cpu] = Starts(cpu, first[Cpu], ts)
        /\ o = cpu \/ o = handle_switch_out(ts, cpu)
    BY <1>5, <1>9, <1>o, EtwSamplesAssumption DEF Tracks
  <2>3. /\ groups'[Cpu] = groups[Cpu] + ObservedRunning(ts, o).group.count
        /\ shown'[Cpu] = shown[Cpu] + IF ObservedRunning(ts, o).group = NoGroup THEN 0
                                      ELSE ObservedRunning(ts, o).data.on
        /\ cpu' = IF ObservedRunning(ts, o).group = NoGroup THEN ObservedRunning(ts, o).data
                  ELSE consume_cpu_delta(ObservedRunning(ts, o).data)
    BY <1>1, <1>8, <1>h DEF c
  <2> QED
    BY <1>0, <1>10, <2>1, <2>2, <2>3, CpuTaken
<1> QED
  BY <1>1, <1>10, <1>12, <1>13, <1>14 DEF StepSound, Accounts

\* CSwitch: handled or lost, to a thread that is recorded or not.
LEMMA StepsCSwitch ==
  ASSUME IInv, UNCHANGED config, NEW ts \in now + 1 .. MaxTime, NEW new \in Tids \cup {Idle},
         CSwitch(new, ts)
  PROVE  StepSound
<1>ts. now \in Nat /\ ts \in Nat /\ now < ts /\ ts \in 0 .. MaxTime
  <2>1. now \in Nat /\ MaxTime \in Nat
    BY TypesParts, EtwSamplesAssumption DEF IInv
  <2> QED
    BY <2>1
<1>0. Switches(new, ts)
  BY DEF CSwitch, Switches
<1>1. CASE /\ handle_cswitch(running, new, ts)
           /\ walk' = IF new = Idle THEN walk ELSE [walk EXCEPT ![new] = Walk(new, ts, "kernel")]
  <2>1. CASE ~Known(new)
    BY <1>0, <1>1, <1>ts, <2>1, StepsSwitchAway
  <2>2. CASE Known(new)
    <3>1. new \in Tids /\ walk' = [walk EXCEPT ![new] = Walk(new, ts, "kernel")]
      BY <1>1, <2>2 DEF Known
    <3> QED
      BY <1>0, <1>1, <1>ts, <2>2, <3>1, StepsSwitchIn
  <2> QED
    BY <2>1, <2>2
<1>2. CASE lossy /\ UNCHANGED <<walk, threads, cpu, first, groups, dropped>> /\ Emit(<<>>)
  <2>1. UNCHANGED <<walk, threads, cpu, first, groups, dropped, starts, left>>
    BY <1>0, <1>2 DEF Switches
  <2> QED
    BY <1>0, <1>2, <1>ts, <2>1, StepsSwitchLost DEF Switches
<1> QED
  BY <1>1, <1>2 DEF CSwitch

-----------------------------------------------------------------------------
(* The invariant and what follows from it                                  *)

\* The sum of nothing but zeros.
LEMMA SumOfZeros ==
  ASSUME NEW S, IsFiniteSet(S), NEW f, \A x \in S : f[x] = 0
  PROVE  SumOver(f, S) = 0
<1> DEFINE C == {T \in SUBSET S : SumOver(f, T) # 0}
<1>1. SUFFICES ASSUME C # {} PROVE FALSE
  OBVIOUS
<1>2. \A T \in C : IsFiniteSet(T)
  BY FS_Subset
<1>3. PICK T \in C : \A U \in C : Cardinality(T) <= Cardinality(U)
  BY <1>1, <1>2, HasSmallest
<1>4. T # {} /\ IsFiniteSet(T) /\ T \in SUBSET S
  BY <1>2, SumEmpty
<1>5. Some(T) \in T
  BY <1>4, SomeIn
<1>6. SumOver(f, T) = f[Some(T)] + SumOver(f, T \ {Some(T)})
  BY <1>4, SumStep
<1>7. SumOver(f, T \ {Some(T)}) = 0
  <2> DEFINE U == T \ {Some(T)}
  <2>1. Cardinality(U) < Cardinality(T) /\ Cardinality(U) \in Nat /\ Cardinality(T) \in Nat
    BY <1>4, <1>5, Smaller, FS_CardinalityType, FS_Subset
  <2>2. U \in SUBSET S
    BY <1>4
  <2> HIDE DEF U
  <2>3. U \notin C
    BY <1>3, <2>1
  <2> QED
    BY <2>2, <2>3 DEF U
<1> QED
  BY <1>3, <1>4, <1>5, <1>6, <1>7

\* Nothing waits and nothing is counted before the first event.
LEMMA InitIInv == Init => IInv
<1> SUFFICES ASSUME Init PROVE IInv
  OBVIOUS
<1>d. /\ NewThreadData \in ThreadContextSwitchData /\ Sound(NewThreadData, 0)
      /\ NewThreadData.state = "Unknown" /\ NewThreadData.ts = 0
      /\ NewThreadData.on = 0 /\ NewThreadData.off = 0
  BY IntervalAssumption DEF Sound, NewThreadData, ThreadContextSwitchData
<1>t. NewThread \in ThreadState /\ NewThread.queue = <<>> /\ NewThread.data = NewThreadData
      /\ NewThread.known = TRUE
  BY <1>d DEF NewThread, ThreadState
<1>1. /\ threads \in [Tids -> ThreadState] /\ cpu = NewThreadData /\ now = 0 /\ running = Idle
      /\ \A t \in Tids : threads[t] = NewThread /\ walk[t] = NoWalk /\ mode[t] = "kernel"
                         /\ lastTime[t] = 0 /\ left[t] = 0 /\ shown[t] = 0 /\ dropped[t] = 0
                         /\ groups[t] = 0
      /\ left[Cpu] = 0 /\ shown[Cpu] = 0 /\ dropped[Cpu] = 0 /\ groups[Cpu] = 0
      /\ \A k \in Tracks : emitted[k] = <<>>
  BY <1>t DEF Init, Tracks
<1>2. Types
  <2>1. /\ now \in 0 .. MaxTime /\ starts \in 0 .. MaxStarts /\ running \in Tids \cup {Idle}
        /\ arch \in {"x86", "arm64"} /\ lossy \in BOOLEAN /\ system \subseteq Tids
        /\ mode \in [Tids -> {"user", "kernel"}]
    BY EtwSamplesAssumption DEF Init
  <2>2. number \in [Tids -> 1 .. MaxStacks]
    BY EtwSamplesAssumption DEF Init
  <2>3. walk \in [Tids -> [kernel : Nat \cup {None}, user : Nat \cup {None}]]
    BY DEF Init, NoWalk
  <2>4. /\ first \in [Tracks -> Nat] /\ shown \in [Tracks -> Nat] /\ groups \in [Tracks -> Nat]
        /\ dropped \in [Tracks -> Nat] /\ left \in [Tracks -> Nat] /\ lastTime \in [Tracks -> Int]
    BY DEF Init
  <2>5. \A t \in Tids : /\ threads[t].known \in BOOLEAN
                        /\ threads[t].data \in ThreadContextSwitchData
                        /\ \A i \in DOMAIN threads[t].queue : threads[t].queue[i] \in Pending
    <3>1. \A t \in Tids : /\ threads[t].known = TRUE /\ threads[t].data = NewThreadData
                          /\ threads[t].queue = <<>>
      BY <1>1, <1>t
    <3>2. DOMAIN <<>> = {}
      OBVIOUS
    <3> QED
      BY <1>d, <3>1, <3>2
  <2> QED
    BY <1>1, <1>d, <2>1, <2>2, <2>3, <2>4, <2>5 DEF Types, TypeOK
<1>3. ASSUME NEW t \in Tids PROVE ThreadSound(t)
  <2>1. /\ threads[t].queue = <<>> /\ threads[t].data = NewThreadData
        /\ walk[t].kernel = None /\ walk[t].user = None /\ t # Idle
    BY <1>1, <1>t, EtwSamplesAssumption DEF NoWalk
  <2>2. QueueSound(t)
    BY <1>1, <1>d, <2>1 DEF QueueSound, InTimeOrder, Chained
  <2>3. WalkSound(t) /\ LastSound(t) /\ NothingLost(t)
    BY <1>1, <1>d, <2>1 DEF WalkSound, LastSound, NothingLost, None
  <2> QED
    BY <2>2, <2>3 DEF ThreadSound
<1>4. Accounts
  <2>z. 0 * Interval = 0
    BY IntervalAssumption
  <2>1. ASSUME NEW t \in Tids PROVE left[t] = 0 /\ Balanced(threads[t].data, first[t], Placed(t))
    <3>1. Placed(t) = 0
      BY <1>1, <1>t, <2>z, DeltasOfNone DEF Placed
    <3> QED
      BY <1>1, <1>d, <1>t, <3>1 DEF Balanced
  <2>2. SumOver(CpuQueued(threads), Tids) = 0
    <3>1. \A t \in Tids : CpuQueued(threads)[t] = 0
      BY <1>1, <1>t, DeltasOfNone DEF CpuQueued
    <3> QED
      BY <3>1, SumOfZeros, EtwSamplesAssumption
  <2>3. PlacedCpu = 0
    BY <1>1, <2>2, <2>z DEF PlacedCpu
  <2> QED
    BY <1>1, <1>d, <2>1, <2>3 DEF Accounts, Balanced
<1>5. StackMatches
  BY <1>1 DEF StackMatches
<1> QED
  BY <1>2, <1>3, <1>4, <1>5 DEF IInv

\* Nothing happens.
LEMMA Stutters ==
  ASSUME IInv, UNCHANGED vars
  PROVE  IInv'
<1>1. /\ UNCHANGED config /\ now' = now /\ mode' = mode /\ number' = number /\ walk' = walk
      /\ running' = running /\ starts' = starts /\ threads' = threads /\ cpu' = cpu
      /\ first' = first /\ shown' = shown /\ groups' = groups /\ dropped' = dropped
      /\ left' = left /\ emitted' = emitted /\ lastTime' = lastTime
  BY DEF vars, machine, history
<1>2. Types' = Types
  BY <1>1 DEF Types, TypeOK, config
<1>3. \A t \in Tids : ThreadSound(t) => ThreadSound(t)'
  <2>1. arch' = arch /\ lossy' = lossy /\ system' = system
    BY <1>1 DEF config
  <2> TAKE t \in Tids
  <2>2. QueueSound(t)' = QueueSound(t)
    BY <1>1, <2>1 DEF QueueSound, EntrySound
  <2>3. WalkSound(t)' = WalkSound(t) /\ LastSound(t)' = LastSound(t)
    BY <1>1, <2>1 DEF WalkSound, LastSound
  <2>4. NothingLost(t)' = NothingLost(t)
    BY <1>1, <2>1 DEF NothingLost, CompletedNext
  <2> QED
    BY <2>2, <2>3, <2>4 DEF ThreadSound
<1>4. Accounts' = Accounts
  BY <1>1 DEF Accounts, Placed, PlacedCpu
<1>5. StackMatches' = StackMatches
  BY <1>1 DEF StackMatches, config
<1> QED
  BY <1>2, <1>3, <1>4, <1>5 DEF IInv

\* Every event keeps what a correct profile rests on.
LEMMA StepIsSound == IInv /\ Next => StepSound
<1> SUFFICES ASSUME IInv, Next PROVE StepSound
  OBVIOUS
<1>1. UNCHANGED config
  BY DEF Next
<1>2. ASSUME NEW ts \in now + 1 .. MaxTime, SampleProf(ts) PROVE StepSound
  BY <1>1, <1>2, StepsSampleProf
<1>3. ASSUME NEW ts \in now + 1 .. MaxTime, NEW new \in Tids \cup {Idle}, CSwitch(new, ts)
      PROVE  StepSound
  BY <1>1, <1>3, StepsCSwitch
<1>4. ASSUME NEW t \in Tids, EnterKernel(t) PROVE StepSound
  BY <1>1, <1>4, StepsEnterKernel
<1>5. ASSUME NEW t \in Tids, ReturnToUser(t) PROVE StepSound
  BY <1>1, <1>5, StepsReturnToUser
<1>6. ASSUME NEW t \in Tids, KernelStack(t) PROVE StepSound
  BY <1>1, <1>6, StepsKernelStack
<1>7. ASSUME NEW t \in Tids, UserStack(t) PROVE StepSound
  BY <1>1, <1>7, StepsUserStack
<1>8. ASSUME NEW t \in Tids, ThreadStart(t) PROVE StepSound
  BY <1>1, <1>8, StepsThreadStart
<1> QED
  BY <1>2, <1>3, <1>4, <1>5, <1>6, <1>7, <1>8 DEF Next

(* The conjunction of the types, of what holds of each thread's queue, its *)
(* walks and its latest sample, of the accounts of handle_sample and       *)
(* handle_cswitch, and of the stacks shown is kept by every event.         *)
THEOREM Inductive == IInv /\ [Next]_vars => IInv'
BY StepIsSound, Stutters DEF StepSound

(* In every behaviour of handle_sample, handle_cswitch and the             *)
(* handle_*_stack methods the inductive invariant holds at every moment.   *)
THEOREM Invariance == Spec => []IInv
BY InitIInv, Inductive, PTL DEF Spec

(* Every variable keeps its type: the queues hold samples, the sums that   *)
(* the tracks received are natural numbers, and no bound is passed.        *)
THEOREM TypeCorrect == Spec => []TypeOK
<1>1. IInv => TypeOK
  BY DEF IInv, Types
<1> QED
  BY <1>1, Invariance, PTL

-----------------------------------------------------------------------------
(* Whose samples they are                                                  *)

\* What waits was taken since the first event of the thread that has the tid.
Fresh(t) ==
  /\ first[t] <= now
  /\ \A i \in 1 .. Len(threads[t].queue) : first[t] <= threads[t].queue[i].ts

\* So was what is shown.
OwnSamples ==
  arch = "x86" =>
    \A t \in Tids : \A i \in DOMAIN emitted[t] : emitted[t][i].of.ts >= first[t]

AllFresh == (\A t \in Tids : Fresh(t)) /\ OwnSamples

\* The samples of the queue were there, or have the time of the event.
QueueMoves(t) ==
  \A i \in 1 .. Len(threads'[t].queue) :
    \/ threads'[t].queue[i].ts = now'
    \/ \E j \in 1 .. Len(threads[t].queue) : threads'[t].queue[i].ts = threads[t].queue[j].ts

\* The clock of a thread goes on, or starts with nothing in the queue.
LEMMA FreshMoves ==
  ASSUME Types, Types', NEW t \in Tids, ThreadSound(t), Fresh(t), now <= now', QueueMoves(t),
         first'[t] = first[t] \/ first'[t] = Starts(threads[t].data, first[t], now')
  PROVE  Fresh(t)'
<1>t. /\ threads[t].queue \in Seq(Pending) /\ threads'[t].queue \in Seq(Pending)
      /\ now \in Nat /\ now' \in Nat /\ first[t] \in Nat
  <2>1. t \in Tracks
    BY DEF Tracks
  <2>2. now' \in Nat /\ threads'[t].queue \in Seq(Pending)
    BY ThreadTypesNext
  <2> QED
    BY <2>1, <2>2, ThreadTypes, TypesParts
<1>1. CASE first'[t] = first[t]
  <2>1. first'[t] <= now'
    BY <1>1, <1>t DEF Fresh
  <2>2. ASSUME NEW i \in 1 .. Len(threads'[t].queue) PROVE first'[t] <= threads'[t].queue[i].ts
    <3>1. CASE threads'[t].queue[i].ts = now'
      BY <2>1, <3>1
    <3>2. CASE \E j \in 1 .. Len(threads[t].queue) : threads'[t].queue[i].ts = threads[t].queue[j].ts
      BY <1>1, <3>2 DEF Fresh
    <3> QED
      BY <3>1, <3>2 DEF QueueMoves
  <2> QED
    BY <2>1, <2>2 DEF Fresh
<1>2. CASE first'[t] # first[t]
  <2>1. threads[t].data.state = "Unknown" /\ first'[t] = now'
    BY <1>2 DEF Starts
  <2>2. Len(threads[t].queue) = 0
    BY <2>1 DEF ThreadSound, QueueSound
  <2>3. \A i \in 1 .. Len(threads'[t].queue) : threads'[t].queue[i].ts = now'
    BY <2>2 DEF QueueMoves
  <2> QED
    BY <1>t, <2>1, <2>3 DEF Fresh
<1> QED
  BY <1>1, <1>2

\* Threads whose queue is as it was.
LEMMA QueueStays ==
  ASSUME NEW t \in Tids, threads'[t].queue = threads[t].queue
  PROVE  QueueMoves(t)
BY DEF QueueMoves

\* Nothing is shown of any thread.
LEMMA NothingOwned ==
  ASSUME \A t \in Tids : emitted'[t] = <<>>
  PROVE  OwnSamples'
BY DEF OwnSamples

\* The event changes neither clocks nor queues.
LEMMA FreshIgnored ==
  ASSUME IInv, IInv', AllFresh, now <= now', threads' = threads, first' = first, Emit(<<>>)
  PROVE  AllFresh'
<1>1. OwnSamples'
  <2>1. \A t \in Tids : t \in Tracks
    BY DEF Tracks
  <2>2. emitted' = [k \in Tracks |-> <<>>]
    BY TypesParts, EmitNothing DEF IInv, EmitsNothing
  <2> QED
    BY <2>1, <2>2, NothingOwned
<1>2. ASSUME NEW t \in Tids PROVE Fresh(t)'
  BY QueueStays, FreshMoves DEF AllFresh, IInv
<1> QED
  BY <1>1, <1>2 DEF AllFresh

\* Samples of the queue of t are shown.
LEMMA QueueOwned ==
  ASSUME Types, NEW t \in Tids, NEW q \in Seq(Pending), NEW u \in Nat, EmitConsumed(t, q, u),
         \A i \in 1 .. Len(q) : WellMade(q[i]) /\ first[t] <= q[i].ts, first' = first
  PROVE  OwnSamples'
<1> DEFINE a == ConsumeAll(q, u).thread
<1>1. Adds(t, a, Total(Deltas(q))) /\ \A k \in Tids \ {t} : Adds(k, <<>>, 0)
  BY TypesParts, EmitQueue
<1>2. a \in Seq(Item) /\ \A i \in 1 .. Len(a) : \E j \in 1 .. Len(q) : Shows(a[i], q[j], u)
  BY ThreadShows DEF ShownOnThread
<1> HIDE DEF a
<1>3. emitted'[t] = a /\ \A k \in Tids \ {t} : emitted'[k] = <<>>
  BY <1>1 DEF Adds
<1>4. ASSUME NEW i \in 1 .. Len(a) PROVE a[i].of.ts >= first[t]
  <2>1. PICK j \in 1 .. Len(q) : Shows(a[i], q[j], u)
    BY <1>2
  <2>2. a[i].of = q[j] /\ q[j].ts \in Nat /\ first[t] \in Nat
    BY <2>1, TypesParts, EntryTypes DEF Shows, Tracks
  <2> QED
    BY <2>2
<1>5. ASSUME NEW k \in Tids, NEW i \in DOMAIN emitted'[k] PROVE emitted'[k][i].of.ts >= first'[k]
  <2>1. CASE k = t
    <3>1. emitted'[k] = a /\ first'[k] = first[t] /\ i \in 1 .. Len(a)
      BY <1>2, <1>3, <2>1
    <3> QED
      BY <1>4, <3>1
  <2>2. CASE k # t
    BY <1>3, <2>2
  <2> QED
    BY <2>1, <2>2
<1> QED
  BY <1>5 DEF OwnSamples

\* handle_kernel_stack.
LEMMA FreshKernelStack ==
  ASSUME IInv, IInv', AllFresh, NEW t \in Tids, NEW ts, handle_kernel_stack(t, ts),
         first' = first, now' = now
  PROVE  AllFresh'
<1> DEFINE q == threads[t].queue
           i == LastAt(q, ts)
           s == [q[i] EXCEPT !.kernel = TRUE]
           one == <<s>>
<1>0. Types /\ Types' /\ (\A u \in Tids : ThreadSound(u) /\ Fresh(u))
      /\ now <= now'
  <2>1. now \in Nat
    BY TypesParts DEF IInv
  <2> QED
    BY <2>1 DEF IInv, AllFresh
<1>t. q \in Seq(Pending) /\ i \in 0 .. Len(q) /\ Len(q) \in Nat
  BY <1>0, ThreadTypes, LastAtFacts
<1>1. CASE ~threads[t].known \/ i = 0
  <2>1. threads' = threads /\ Emit(<<>>)
    BY <1>1 DEF handle_kernel_stack
  <2> QED
    BY <1>0, <2>1, FreshIgnored
<1>2. CASE threads[t].known /\ i # 0
  <2>i. i \in 1 .. Len(q)
    BY <1>2, <1>t
  <2>q. q[i] \in Pending /\ \A k \in 1 .. Len(q) : WellMade(q[k]) /\ first[t] <= q[k].ts
    BY <1>0, <1>t, <2>i DEF ThreadSound, QueueSound, EntrySound, Fresh
  <2>s. s \in Pending /\ s.ts = q[i].ts /\ WellMade(s) /\ s.delta = q[i].delta /\ s.cpuDelta = q[i].cpuDelta
    <3>1. /\ s \in Pending /\ s.ts = q[i].ts /\ s.delta = q[i].delta /\ s.cpuDelta = q[i].cpuDelta
          /\ s.group = q[i].group /\ s.on = q[i].on
      BY <2>q DEF Pending
    <3> HIDE DEF s
    <3> QED
      BY <2>i, <2>q, <3>1 DEF WellMade
  <2>1. CASE t \in system
    <3>1. SetQueue(t, RemoveAt(q, i)) /\ EmitConsumed(t, one, 0)
      BY <1>2, <2>1 DEF handle_kernel_stack
    <3>o. one \in Seq(Pending) /\ Len(one) = 1 /\ one[1] = s
      <4> HIDE DEF s
      <4> QED
        BY <2>s
    <3> HIDE DEF s, i
    <3>2. /\ RemoveAt(q, i) \in Seq(Pending) /\ Len(RemoveAt(q, i)) = Len(q) - 1
          /\ \A k \in 1 .. Len(RemoveAt(q, i)) : RemoveAt(q, i)[k] = q[IF k < i THEN k ELSE k + 1]
      BY <1>t, <2>i, RemoveFacts
    <3> DEFINE r == RemoveAt(q, i)
    <3> HIDE DEF r
    <3>3. r \in Seq(Pending) /\ \A k \in 1 .. Len(r) : \E j \in 1 .. Len(q) : r[k].ts = q[j].ts
      <4>1. ASSUME NEW k \in 1 .. Len(r)
            PROVE  (IF k < i THEN k ELSE k + 1) \in 1 .. Len(q)
        BY <1>t, <2>i, <3>2 DEF r
      <4> QED
        BY <3>2, <4>1 DEF r
    <3>4. /\ threads'[t].queue = r
          /\ \A u \in Tids \ {t} : threads'[u] = threads[u]
      BY <1>0, <3>1, <3>3, QueueSet DEF r
    <3>5. OwnSamples'
      <4>1. \A k \in 1 .. Len(one) : WellMade(one[k]) /\ first[t] <= one[k].ts
        BY <2>i, <2>q, <2>s, <3>o
      <4> HIDE DEF one
      <4> QED
        BY <1>0, <3>1, <3>o, <4>1, QueueOwned
    <3>6. ASSUME NEW u \in Tids PROVE Fresh(u)'
      <4>1. CASE u = t
        BY <1>0, <3>3, <3>4, <4>1, FreshMoves DEF QueueMoves
      <4>2. CASE u # t
        BY <1>0, <3>4, <4>2, QueueStays, FreshMoves
      <4> QED
        BY <4>1, <4>2
    <3> QED
      BY <3>5, <3>6 DEF AllFresh
  <2>2. CASE t \notin system
    <3>1. SetQueue(t, ReplaceAt(q, i, s)) /\ Emit(<<>>)
      BY <1>2, <2>2 DEF handle_kernel_stack
    <3> HIDE DEF s, i
    <3> DEFINE r == ReplaceAt(q, i, s)
    <3>2. /\ r \in Seq(Pending) /\ Len(r) = Len(q)
          /\ \A k \in 1 .. Len(q) : r[k] = IF k = i THEN s ELSE q[k]
      BY <1>t, <2>i, <2>s, ReplaceFacts
    <3> HIDE DEF r
    <3>3. \A k \in 1 .. Len(r) : \E j \in 1 .. Len(q) : r[k].ts = q[j].ts
      BY <2>i, <2>s, <3>2
    <3>4. /\ threads'[t].queue = r
          /\ \A u \in Tids \ {t} : threads'[u] = threads[u]
      BY <1>0, <3>1, <3>2, QueueSet DEF r
    <3>5. OwnSamples'
      <4>1. \A u \in Tids : u \in Tracks
        BY DEF Tracks
      <4>2. emitted' = [k \in Tracks |-> <<>>]
        BY <1>0, <3>1, TypesParts, EmitNothing DEF EmitsNothing
      <4> QED
        BY <4>1, <4>2, NothingOwned
    <3>6. ASSUME NEW u \in Tids PROVE Fresh(u)'
      <4>1. CASE u = t
        BY <1>0, <3>3, <3>4, <4>1, FreshMoves DEF QueueMoves
      <4>2. CASE u # t
        BY <1>0, <3>4, <4>2, QueueStays, FreshMoves
      <4> QED
        BY <4>1, <4>2
    <3> QED
      BY <3>5, <3>6 DEF AllFresh
  <2> QED
    BY <2>1, <2>2
<1> QED
  BY <1>1, <1>2

\* handle_user_stack.
LEMMA FreshUserStack ==
  ASSUME IInv, IInv', AllFresh, NEW t \in Tids, NEW ts \in Int,
         handle_user_stack(t, ts, number[t]), first' = first, now' = now
  PROVE  AllFresh'
<1> DEFINE q == threads[t].queue
           n == SamplesUntil(q, ts)
           a == SubSeq(q, 1, n)
           b == SubSeq(q, n + 1, Len(q))
<1>0. Types /\ Types' /\ (\A u \in Tids : ThreadSound(u) /\ Fresh(u))
      /\ now <= now'
  <2>1. now \in Nat
    BY TypesParts DEF IInv
  <2> QED
    BY <2>1 DEF IInv, AllFresh
<1>t. q \in Seq(Pending) /\ n \in 0 .. Len(q) /\ Len(q) \in Nat /\ number[t] \in Nat
  <2>1. q \in Seq(Pending) /\ Len(q) \in Nat /\ number[t] \in Nat
    BY <1>0, ThreadTypes
  <2>2. n \in 0 .. Len(q)
    BY <2>1, SamplesUntilFacts
  <2> QED
    BY <2>1, <2>2
<1>1. CASE ~threads[t].known
  <2>1. threads' = threads /\ Emit(<<>>)
    BY <1>1 DEF handle_user_stack
  <2> QED
    BY <1>0, <2>1, FreshIgnored
<1>2. CASE threads[t].known
  <2>e. EmitConsumed(t, a, number[t]) /\ SetQueue(t, b)
    BY <1>2 DEF handle_user_stack
  <2> HIDE DEF n
  <2>c. /\ a \in Seq(Pending) /\ Len(a) = n /\ \A i \in 1 .. n : a[i] = q[i]
        /\ b \in Seq(Pending)
        /\ \A i \in 1 .. Len(b) : i + n \in 1 .. Len(q) /\ b[i] = q[i + n]
    BY <1>t, CutFacts
  <2> HIDE DEF a, b
  <2>q. \A k \in 1 .. Len(q) : WellMade(q[k]) /\ first[t] <= q[k].ts
    BY <1>0 DEF ThreadSound, QueueSound, EntrySound, Fresh
  <2>1. OwnSamples'
    <3>1. \A k \in 1 .. Len(a) : k \in 1 .. Len(q) /\ a[k] = q[k]
      BY <1>t, <2>c
    <3>2. \A k \in 1 .. Len(a) : WellMade(a[k]) /\ first[t] <= a[k].ts
      BY <2>q, <3>1
    <3> QED
      BY <1>0, <1>t, <2>c, <2>e, <3>2, QueueOwned
  <2>2. /\ threads'[t].queue = b
        /\ \A u \in Tids \ {t} : threads'[u] = threads[u]
    BY <1>0, <2>c, <2>e, QueueSet
  <2>3. ASSUME NEW u \in Tids PROVE Fresh(u)'
    <3>1. CASE u = t
      <4>1. QueueMoves(t)
        BY <2>2, <2>c DEF QueueMoves
      <4> QED
        BY <1>0, <3>1, <4>1, FreshMoves
    <3>2. CASE u # t
      BY <1>0, <2>2, <3>2, QueueStays, FreshMoves
    <3> QED
      BY <3>1, <3>2
  <2> QED
    BY <2>1, <2>3 DEF AllFresh
<1> QED
  BY <1>1, <1>2

\* handle_stack_arm64 leaves the queues alone.
LEMMA FreshArm64 ==
  ASSUME IInv, IInv', AllFresh, arch = "arm64", UNCHANGED config, NEW t \in Tids, NEW ts, NEW u,
         NEW k, handle_stack_arm64(t, ts, u, k), first' = first, now' = now
  PROVE  AllFresh'
<1>1. Types /\ Types' /\ (\A v \in Tids : ThreadSound(v) /\ Fresh(v))
      /\ now <= now' /\ threads \in [Tids -> ThreadState]
  <2>1. now \in Nat /\ threads \in [Tids -> ThreadState]
    BY TypesParts DEF IInv
  <2> QED
    BY <2>1 DEF IInv, AllFresh
<1>2. \A v \in Tids : threads'[v].queue = threads[v].queue
  <2>1. \A v \in Tids : threads[v] \in ThreadState
    BY <1>1
  <2> QED
    BY <1>1, <2>1 DEF handle_stack_arm64, ThreadState
<1>3. OwnSamples'
  BY DEF OwnSamples, config
<1>4. ASSUME NEW v \in Tids PROVE Fresh(v)'
  BY <1>1, <1>2, QueueStays, FreshMoves
<1> QED
  BY <1>3, <1>4 DEF AllFresh

\* What a sequence holds after something was added.
LEMMA Appended ==
  ASSUME NEW E, NEW q \in Seq(E), NEW e, NEW i \in 1 .. Len(Append(q, e))
  PROVE  Append(q, e)[i] = e \/ (i \in 1 .. Len(q) /\ Append(q, e)[i] = q[i])
<1> DEFINE F == E \cup {e}
<1>1. q \in Seq(F) /\ e \in F
  <2>1. Len(q) \in Nat /\ \A k \in 1 .. Len(q) : q[k] \in F
    OBVIOUS
  <2>2. q = [k \in 1 .. Len(q) |-> q[k]]
    OBVIOUS
  <2>3. q \in [1 .. Len(q) -> F]
    BY <2>1, <2>2
  <2> QED
    BY <2>1, <2>3
<1> HIDE DEF F
<1>2. i \in 1 .. Len(q) + 1
  BY <1>1
<1> QED
  BY <1>1, <1>2

\* SampleProf: the clock of the thread starts, or goes on.
LEMMA FreshSampleProf ==
  ASSUME IInv, IInv', AllFresh, NEW ts \in now + 1 .. MaxTime, SampleProf(ts)
  PROVE  AllFresh'
<1> DEFINE t == running
<1>0. Types /\ Types' /\ (\A u \in Tids : ThreadSound(u) /\ Fresh(u))
      /\ now \in Nat /\ ts \in Nat /\ now <= ts /\ threads \in [Tids -> ThreadState] /\ t \in Tids
  <2>1. now \in Nat /\ MaxTime \in Nat /\ threads \in [Tids -> ThreadState] /\ t \in Tids
    BY TypesParts, EtwSamplesAssumption DEF IInv, SampleProf
  <2> QED
    BY <2>1 DEF IInv, AllFresh
<1>1. now' = ts /\ handle_sample(t, ts) /\ Emit(<<>>)
  BY DEF SampleProf
<1> HIDE DEF t
<1>2. CASE ~threads[t].known
  BY <1>0, <1>1, <1>2, FreshIgnored DEF handle_sample
<1>3. CASE threads[t].known
  <2>1. /\ \E e : threads' = [threads EXCEPT ![t].data = consume_cpu_delta(handle_on_cpu_sample(ts, threads[t].data).data),
                                             ![t].queue = Append(@, e)] /\ e.ts = ts
        /\ StartClock({t, Cpu}, ts, StateOf)
    BY <1>3, <1>1 DEF handle_sample
  <2>2. PICK e : /\ threads' = [threads EXCEPT ![t].data = consume_cpu_delta(handle_on_cpu_sample(ts, threads[t].data).data),
                                               ![t].queue = Append(@, e)]
                 /\ e.ts = ts
    BY <2>1
  <2>3. /\ threads'[t].queue = Append(threads[t].queue, e)
        /\ \A u \in Tids \ {t} : threads'[u] = threads[u]
    <3>1. threads[t] \in ThreadState
      BY <1>0
    <3> QED
      BY <1>0, <2>2, <3>1 DEF ThreadState
  <2>4. \A u \in Tids : first'[u] = first[u] \/ first'[u] = Starts(threads[u].data, first[u], now')
    BY <1>0, <1>1, <2>1, ClockStarts
  <2>5. QueueMoves(t)
    <3>1. threads[t].queue \in Seq(Pending)
      BY <1>0, ThreadTypes
    <3>2. ASSUME NEW i \in 1 .. Len(threads'[t].queue)
          PROVE  \/ threads'[t].queue[i].ts = ts
                 \/ i \in 1 .. Len(threads[t].queue) /\ threads'[t].queue[i] = threads[t].queue[i]
      <4>1. i \in 1 .. Len(Append(threads[t].queue, e))
        BY <2>3
      <4>2. Append(threads[t].queue, e)[i] = e
            \/ (i \in 1 .. Len(threads[t].queue) /\ Append(threads[t].queue, e)[i] = threads[t].queue[i])
        BY <3>1, <4>1, Appended
      <4>3. e.ts = ts
        BY <2>2
      <4> QED
        BY <2>3, <4>2, <4>3
    <3> QED
      BY <1>1, <3>2 DEF QueueMoves
  <2>6. ASSUME NEW u \in Tids PROVE Fresh(u)'
    <3>1. QueueMoves(u)
      BY <2>3, <2>5, QueueStays
    <3> QED
      BY <1>0, <1>1, <2>4, <3>1, FreshMoves
  <2>7. OwnSamples'
    <3>1. \A u \in Tids : u \in Tracks
      BY DEF Tracks
    <3>2. emitted' = [k \in Tracks |-> <<>>]
      BY <1>0, <1>1, TypesParts, EmitNothing DEF EmitsNothing
    <3> QED
      BY <3>1, <3>2, NothingOwned
  <2> QED
    BY <2>6, <2>7 DEF AllFresh
<1> QED
  BY <1>2, <1>3

\* CSwitch: the clocks of both threads start, or go on.
LEMMA FreshCSwitch ==
  ASSUME IInv, IInv', AllFresh, NEW ts \in now + 1 .. MaxTime, NEW new \in Tids \cup {Idle},
         CSwitch(new, ts)
  PROVE  AllFresh'
<1> DEFINE out == SwitchOut(running, ts)
<1>0. Types /\ Types' /\ Accounts /\ (\A u \in Tids : ThreadSound(u) /\ Fresh(u))
      /\ now \in Nat /\ ts \in Nat /\ now < ts /\ now <= ts /\ running \in Tids \cup {Idle}
  <2>1. now \in Nat /\ MaxTime \in Nat /\ running \in Tids \cup {Idle}
    BY TypesParts, EtwSamplesAssumption DEF IInv
  <2> QED
    BY <2>1 DEF IInv, AllFresh
<1>1. now' = ts /\ new # running
  BY DEF CSwitch
<1>k. Cpu \in Tracks /\ \A u \in Tids : u \in Tracks /\ u # Cpu
  BY EtwSamplesAssumption DEF Tracks
<1>2. CASE handle_cswitch(running, new, ts)
  <2>o. /\ out.threads \in [Tids -> ThreadState]
        /\ \A u \in Tids : out.threads[u].queue = threads[u].queue
    BY <1>0, SwitchOutFacts
  <2>c. StartClock({k \in {running, new, Cpu} \cap Tracks :
                      IF k = Cpu THEN Known(running) \/ Known(new) ELSE Known(k)}, ts, StateOf)
    BY <1>2 DEF handle_cswitch
  <2>1. \A u \in Tids : first'[u] = first[u] \/ first'[u] = Starts(threads[u].data, first[u], now')
    BY <1>0, <1>1, <2>c, SwitchClocks
  <2>2. (\A u \in Tids : QueueMoves(u)) /\ OwnSamples'
    <3>1. CASE ~Known(new)
      <4>1. threads' = out.threads /\ Emit(<<>>)
        BY <1>2, <3>1 DEF handle_cswitch
      <4> HIDE DEF out
      <4>2. emitted' = [k \in Tracks |-> <<>>]
        BY <1>0, <4>1, TypesParts, EmitNothing DEF EmitsNothing
      <4> QED
        BY <1>k, <2>o, <4>1, <4>2, QueueStays, NothingOwned
    <3>2. CASE Known(new)
      <4>n. new \in Tids
        BY <3>2 DEF Known
      <4> DEFINE r == handle_switch_in(ts, out.threads[new].data)
                 d == consume_cpu_delta(r.data)
                 s == [ts |-> ts, kernel |-> FALSE, group |-> r.group, delta |-> r.data.on,
                       on |-> FALSE, cpuDelta |-> 0, user |-> UserStackOf(new, number), inKernel |-> FALSE]
                 x == IdleSamples(handle_switch_in(ts, out.cpu))
      <4>2. /\ threads' = [out.threads EXCEPT ![new].data = d, ![new].queue = PushIfGroup(@, s)]
            /\ s.ts = ts
            /\ Emit([k \in {Cpu} |-> x])
        BY <1>2, <3>2 DEF handle_cswitch
      <4> HIDE DEF out, r, d, s, x
      <4>3. /\ threads'[new].queue = PushIfGroup(threads[new].queue, s)
            /\ \A u \in Tids \ {new} : threads'[u].queue = threads[u].queue
        <5>1. out.threads[new] \in ThreadState
          BY <2>o, <4>n
        <5> QED
          BY <2>o, <4>2, <4>n, <5>1 DEF ThreadState
      <4>4. QueueMoves(new)
        <5>1. threads[new].queue \in Seq(Pending)
          BY <1>0, <4>n, ThreadTypes
        <5>2. ASSUME NEW i \in 1 .. Len(threads'[new].queue)
              PROVE  \/ threads'[new].queue[i].ts = ts
                     \/ i \in 1 .. Len(threads[new].queue) /\ threads'[new].queue[i] = threads[new].queue[i]
          <6>1. CASE threads'[new].queue = threads[new].queue
            BY <6>1
          <6>2. CASE threads'[new].queue = Append(threads[new].queue, s)
            BY <4>2, <5>1, <6>2, Appended
          <6> QED
            BY <4>3, <6>1, <6>2 DEF PushIfGroup
        <5> QED
          BY <1>1, <5>2 DEF QueueMoves
      <4>5. \A u \in Tids : emitted'[u] = <<>>
        BY <1>k, <4>2 DEF Emit
      <4> QED
        BY <4>3, <4>4, <4>5, QueueStays, NothingOwned
    <3> QED
      BY <3>1, <3>2
  <2> QED
    BY <1>0, <1>1, <2>1, <2>2, FreshMoves DEF AllFresh
<1>3. CASE lossy /\ UNCHANGED <<walk, threads, cpu, first, groups, dropped>> /\ Emit(<<>>)
  BY <1>0, <1>1, <1>3, FreshIgnored
<1> QED
  BY <1>2, <1>3 DEF CSwitch

\* ThreadStart: nothing waits for the stacks of the new thread.
LEMMA FreshThreadStart ==
  ASSUME IInv, IInv', AllFresh, NEW t \in Tids, ThreadStart(t)
  PROVE  AllFresh'
<1>0. Types /\ Types' /\ (\A u \in Tids : ThreadSound(u) /\ Fresh(u))
      /\ now \in Nat /\ threads \in [Tids -> ThreadState] /\ first \in [Tracks -> Nat]
      /\ \A u \in Tids : u \in Tracks
  BY TypesParts DEF IInv, AllFresh, Tracks
<1>1. now' = now /\ first' = [first EXCEPT ![t] = 0] /\ emitted' = [k \in Tracks |-> <<>>]
  BY DEF ThreadStart
<1>2. PICK known \in BOOLEAN : threads' = [threads EXCEPT ![t] = [NewThread EXCEPT !.known = known]]
  BY DEF ThreadStart
<1>3. threads'[t].queue = <<>> /\ \A u \in Tids \ {t} : threads'[u] = threads[u]
  BY <1>0, <1>2 DEF NewThread
<1>4. ASSUME NEW u \in Tids PROVE Fresh(u)'
  <2>1. CASE u = t
    <3>1. first'[t] = 0 /\ Len(threads'[t].queue) = 0
      BY <1>0, <1>1, <1>3
    <3> QED
      BY <1>0, <1>1, <2>1, <3>1 DEF Fresh
  <2>2. CASE u # t
    <3>1. first'[u] = first[u] /\ threads'[u].queue = threads[u].queue
      BY <1>0, <1>1, <1>3, <2>2
    <3> QED
      BY <1>0, <1>1, <3>1 DEF Fresh
  <2> QED
    BY <2>1, <2>2
<1>5. OwnSamples'
  BY <1>0, <1>1, NothingOwned
<1> QED
  BY <1>4, <1>5 DEF AllFresh

\* Every event.
LEMMA FreshSteps ==
  ASSUME IInv, IInv', AllFresh, [Next]_vars
  PROVE  AllFresh'
<1>n. now \in Nat
  BY TypesParts DEF IInv
<1>0. CASE UNCHANGED vars
  <2>1. now' = now /\ threads' = threads /\ first' = first /\ emitted' = emitted /\ arch' = arch
    BY <1>0 DEF vars, machine, history, config
  <2> QED
    BY <2>1 DEF AllFresh, Fresh, OwnSamples
<1>c. ASSUME Next PROVE UNCHANGED config
  BY <1>c DEF Next
<1>1. ASSUME NEW ts \in now + 1 .. MaxTime, SampleProf(ts) PROVE AllFresh'
  BY <1>1, FreshSampleProf
<1>2. ASSUME NEW ts \in now + 1 .. MaxTime, NEW new \in Tids \cup {Idle}, CSwitch(new, ts)
      PROVE  AllFresh'
  BY <1>2, FreshCSwitch
<1>3. ASSUME NEW t \in Tids, EnterKernel(t) PROVE AllFresh'
  <2>1. now' = now /\ threads' = threads /\ first' = first /\ Emit(<<>>) /\ now <= now'
    BY <1>3, <1>n DEF EnterKernel
  <2> QED
    BY <2>1, FreshIgnored
<1>4. ASSUME NEW t \in Tids, ReturnToUser(t) PROVE AllFresh'
  <2>1. now' = now /\ threads' = threads /\ first' = first /\ Emit(<<>>) /\ now <= now'
    BY <1>4, <1>n DEF ReturnToUser
  <2> QED
    BY <2>1, FreshIgnored
<1>5. ASSUME UNCHANGED config, NEW t \in Tids, KernelStack(t) PROVE AllFresh'
  <2>1. now' = now /\ first' = first /\ now <= now'
    BY <1>5, <1>n DEF KernelStack
  <2>2. CASE arch = "x86" /\ handle_kernel_stack(t, walk[t].kernel)
    BY <2>1, <2>2, FreshKernelStack
  <2>3. CASE arch = "arm64" /\ handle_stack_arm64(t, walk[t].kernel, UserStackOf(t, number), TRUE)
    BY <1>5, <2>1, <2>3, FreshArm64
  <2>4. CASE lossy /\ UNCHANGED threads /\ Emit(<<>>)
    BY <2>1, <2>4, FreshIgnored
  <2> QED
    BY <1>5, <2>2, <2>3, <2>4 DEF KernelStack
<1>6. ASSUME UNCHANGED config, NEW t \in Tids, UserStack(t) PROVE AllFresh'
  <2>1. now' = now /\ first' = first /\ now <= now'
    BY <1>6, <1>n DEF UserStack
  <2>2. CASE arch = "x86" /\ handle_user_stack(t, walk[t].user, number[t])
    <3>1. walk[t].user \in Int
      BY ThreadTypes DEF IInv
    <3> QED
      BY <2>1, <2>2, <3>1, FreshUserStack
  <2>3. CASE arch = "arm64" /\ handle_stack_arm64(t, walk[t].user, number[t], FALSE)
    BY <1>6, <2>1, <2>3, FreshArm64
  <2>4. CASE lossy /\ UNCHANGED threads /\ Emit(<<>>)
    BY <2>1, <2>4, FreshIgnored
  <2> QED
    BY <1>6, <2>2, <2>3, <2>4 DEF UserStack
<1>7. ASSUME NEW t \in Tids, ThreadStart(t) PROVE AllFresh'
  BY <1>7, FreshThreadStart
<1> QED
  BY <1>0, <1>1, <1>2, <1>3, <1>4, <1>5, <1>6, <1>7, <1>c DEF Next

(* On x86 a sample that handle_kernel_stack or handle_user_stack gives to  *)
(* the profile has the stack of its own moment, or, where events are lost, *)
(* never an earlier one.  It was taken since the first event of the thread *)
(* that has the tid now: none is a sample of the thread before.            *)
THEOREM StacksOfTheirTime == Spec => []StackOfItsTime
<1>1. Init => AllFresh
  <2> SUFFICES ASSUME Init PROVE AllFresh
    OBVIOUS
  <2>1. \A t \in Tids : t \in Tracks
    BY DEF Tracks
  <2>2. \A t \in Tids : first[t] = 0 /\ now = 0 /\ threads[t].queue = <<>> /\ emitted[t] = <<>>
    BY <2>1 DEF Init, NewThread
  <2> QED
    BY <2>2 DEF AllFresh, Fresh, OwnSamples
<1>2. IInv /\ IInv' /\ AllFresh /\ [Next]_vars => AllFresh'
  BY FreshSteps
<1>3. IInv /\ AllFresh => StackOfItsTime
  BY DEF IInv, StackMatches, AllFresh, OwnSamples, StackOfItsTime
<1> QED
  BY <1>1, <1>2, <1>3, Invariance, PTL DEF Spec

-----------------------------------------------------------------------------
(* What else follows                                                       *)

(* Once handle_user_stack has seen the stack of a thread that is back in   *)
(* user mode, or handle_kernel_stack that of a thread of the System        *)
(* process, pending_stacks is empty.                                       *)
THEOREM NothingLeft == Spec => []NothingLeftWaiting
<1>1. IInv => NothingLeftWaiting
  <2> SUFFICES ASSUME IInv, ~lossy, arch = "x86", NEW t \in Tids, walk[t].kernel = None,
                      t \in system \/ (mode[t] = "user" /\ walk[t].user = None),
                      threads[t].queue # <<>>
               PROVE  FALSE
    BY DEF NothingLeftWaiting
  <2>0. Types /\ ThreadSound(t)
    BY DEF IInv
  <2>1. threads[t].queue \in Seq(Pending)
    BY <2>0, ThreadTypes
  <2>2. CASE mode[t] = "user" /\ walk[t].user = None
    BY <2>0, <2>2, EmptyInUserMode DEF StacksReported
  <2>3. CASE t \in system
    <3>1. 1 \in 1 .. Len(threads[t].queue)
      BY <2>1
    <3>2. threads[t].queue[1].ts = -1
      BY <2>0, <2>3, <3>1 DEF ThreadSound, NothingLost, CompletedNext, None
    <3>3. threads[t].queue[1].ts \in Nat
      BY <2>1, <3>1, EntryTypes
    <3> QED
      BY <3>2, <3>3
  <2> QED
    BY <2>2, <2>3
<1> QED
  BY <1>1, Invariance, PTL

(* Every moment of a known thread, and of the CPU, is in exactly one       *)
(* place: the deltas that consume_sample gave to the profile, those that   *)
(* wait with a sample, the accumulators of ThreadContextSwitchData, the    *)
(* off-CPU groups, and what handle_cswitch consumed for no sample.         *)
THEOREM Conserved == Spec => []TimeConserved
<1>1. IInv => TimeConserved
  <2> SUFFICES ASSUME IInv PROVE TimeConserved
    OBVIOUS
  <2>0. Types /\ Accounts
    BY DEF IInv
  <2>q. \A t \in Tids : threads[t].queue \in Seq(Pending)
    BY <2>0, ThreadTypes
  <2>1. ASSUME NEW t \in Tids, threads[t].data.state # "Unknown"
        PROVE  threads[t].data.ts - first[t]
                 = shown[t] + QueuedDelta(t) + left[t] + dropped[t] + threads[t].data.on
                   + groups[t] * Interval + threads[t].data.off
    <3> DEFINE d == threads[t].data
               g == groups[t] * Interval
    <3>1. QueuedDelta(t) = Total(Deltas(threads[t].queue))
      BY <2>q, QueuedOfThread
    <3>2. d.ts - first[t] = Placed(t) + d.on + d.off
      BY <2>0, <2>1 DEF Accounts, Balanced
    <3>3. d \in ThreadContextSwitchData /\ t \in Tracks
      BY <2>0, ThreadTypes DEF Tracks
    <3>4. d.on \in Nat /\ d.off \in Nat
      BY <3>3, DataTypes
    <3>5. /\ shown[t] \in Nat /\ left[t] \in Nat /\ dropped[t] \in Nat /\ groups[t] \in Nat
          /\ Total(Deltas(threads[t].queue)) \in Nat
      BY <2>0, <2>q, <3>3, TypesParts, QueueTotals
    <3>6. g \in Nat
      BY <3>5, GroupTime
    <3>7. Placed(t) = shown[t] + QueuedDelta(t) + left[t] + dropped[t] + g
      BY <3>1 DEF Placed
    <3> HIDE DEF d, g
    <3>8. PICK v1, v2, v3, v4, v5, v6, v7 \in Nat :
            /\ v1 = shown[t] /\ v2 = QueuedDelta(t) /\ v3 = left[t] /\ v4 = dropped[t] /\ v5 = g
            /\ v6 = d.on /\ v7 = d.off
      BY <3>1, <3>4, <3>5, <3>6, Zenon
    <3>9. (v1 + v2 + v3 + v4 + v5) + v6 + v7 = v1 + v2 + v3 + v4 + v6 + v5 + v7
      OBVIOUS
    <3> QED
      BY <3>2, <3>7, <3>8, <3>9 DEF d, g
  <2>2. ASSUME cpu.state # "Unknown"
        PROVE  cpu.ts - first[Cpu]
                 = shown[Cpu] + QueuedDelta(Cpu) + left[Cpu] + dropped[Cpu] + cpu.on
                   + groups[Cpu] * Interval + cpu.off
    <3> DEFINE g == groups[Cpu] * Interval
    <3>1. QueuedDelta(Cpu) = SumOver(CpuQueued(threads), Tids)
      BY <2>q, QueuedOfCpu
    <3>2. cpu.ts - first[Cpu] = PlacedCpu + cpu.on + cpu.off
      BY <2>0, <2>2 DEF Accounts, Balanced
    <3>3. cpu \in ThreadContextSwitchData /\ Cpu \in Tracks
      BY <2>0, TypesParts DEF Tracks
    <3>4. cpu.on \in Nat /\ cpu.off \in Nat
      BY <3>3, DataTypes
    <3>5. /\ shown[Cpu] \in Nat /\ left[Cpu] \in Nat /\ dropped[Cpu] \in Nat /\ groups[Cpu] \in Nat
      BY <2>0, <3>3, TypesParts
    <3>6. g \in Nat
      BY <3>5, GroupTime
    <3>7. SumOver(CpuQueued(threads), Tids) \in Nat
      <4>1. IsFiniteSet(Tids) /\ \A u \in Tids : CpuQueued(threads)[u] \in Nat
        BY <2>q, EtwSamplesAssumption, QueueTotals DEF CpuQueued
      <4> QED
        BY <4>1, SumRemove
    <3>8. PlacedCpu = shown[Cpu] + QueuedDelta(Cpu) + left[Cpu] + dropped[Cpu] + g
      BY <3>1 DEF PlacedCpu
    <3> HIDE DEF g
    <3>9. PICK v1, v2, v3, v4, v5, v6, v7 \in Nat :
            /\ v1 = shown[Cpu] /\ v2 = QueuedDelta(Cpu) /\ v3 = left[Cpu] /\ v4 = dropped[Cpu]
            /\ v5 = g /\ v6 = cpu.on /\ v7 = cpu.off
      BY <3>1, <3>4, <3>5, <3>6, <3>7, Zenon
    <3>10. (v1 + v2 + v3 + v4 + v5) + v6 + v7 = v1 + v2 + v3 + v4 + v6 + v5 + v7
      OBVIOUS
    <3> QED
      BY <3>2, <3>8, <3>9, <3>10 DEF g
  <2> QED
    BY <2>1, <2>2, EtwSamplesAssumption DEF TimeConserved, Tracks
<1> QED
  BY <1>1, Invariance, PTL

(* The samples of a thread reach the profile in the order of their times:  *)
(* those of one queue that handle_user_stack consumes together, and those  *)
(* of one event after those of the events before.                          *)
THEOREM InOrderOfTime == Spec => SamplesInTimeOrder
<1>1. IInv /\ [Next]_vars =>
        [\A k \in Tids : \A i \in DOMAIN emitted'[k] :
           emitted'[k][i].time >=
             IF i = 1 THEN lastTime[k] ELSE emitted'[k][i - 1].time]_vars
  BY StepIsSound DEF StepSound, OrderStep
<1> QED
  BY <1>1, Invariance, PTL DEF Spec, SamplesInTimeOrder
=============================================================================
