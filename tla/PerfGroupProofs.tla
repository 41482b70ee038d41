--------------------------- MODULE PerfGroupProofs ---------------------------
(***************************************************************************)
(* Proofs about PerfGroup, for any set of ring buffers of any size: the    *)
(* callback sees the records in time order, the tail of a ring is exact,   *)
(* and a ring is empty when its member is dropped.                         *)
(***************************************************************************)
EXTENDS PerfGroup, TLAPS

\* Where the thread is says what current_group is.
Control ==
  /\ pc \in {"idle", "flush", "wait", "poll"} => current = 0
  /\ pc \in {"pop", "read"} => current \in Groups

\* The kernel stamps in order, and reading does not run ahead of it.
RingsSorted ==
  \A g \in Groups :
    /\ \A p \in 1 .. Len(ring[g]) : ring[g][p] <= clock
    /\ \A p, q \in 1 .. Len(ring[g]) : p <= q => ring[g][p] <= ring[g][q]
    /\ position[g] <= Len(ring[g])

\* A heap item is a record that was read, and no record is there twice.
HeapSound ==
  /\ \A e \in heap : /\ e.pos < position[e.group]
                     /\ e.key = ring[e.group][e.pos + 1]
  /\ \A e, f \in heap : e.group = f.group /\ e.pos = f.pos => e = f

\* Nothing is to be read from a ring that is not, or no longer, a member.
NonMembersEmpty ==
  /\ \A g \in Groups \ members : ~are_events_pending(g)
  /\ opened \ members \subseteq closed
  /\ \A g \in toRemove : ~are_events_pending(g)

\* Group g was read to its end after item e was read.
Scanned(e, g) ==
  \/ g = e.group
  \/ e.age >= 2
  \/ /\ e.age = 1
     /\ g > e.group \/ g < current \/ (g = current /\ pc = "group")
  \/ /\ e.age = 0
     /\ g > e.group
     /\ g < current \/ (g = current /\ pc = "group")

\* A ring that was scanned after e holds nothing earlier than e.
NothingEarlier ==
  \A e \in heap : \A g \in Groups :
    Scanned(e, g) =>
      \A p \in position[g] + 1 .. Len(ring[g]) : e.key <= ring[g][p]

\* What was handed on is not later than anything still to come.
LastIsLeast ==
  /\ lastKey <= clock
  /\ \A e \in heap : lastKey <= e.key
  /\ \A g \in Groups :
       \A p \in position[g] + 1 .. Len(ring[g]) : lastKey <= ring[g][p]

IInv ==
  /\ TypeOK
  /\ Control
  /\ RingsSorted
  /\ HeapSound
  /\ NonMembersEmpty
  /\ NothingEarlier
  /\ LastIsLeast

-----------------------------------------------------------------------------
LEMMA InitIInv == Init => IInv
<1> SUFFICES ASSUME Init PROVE IInv
  OBVIOUS
<1> USE PerfGroupAssumption DEF Init
<1>1. TypeOK
  BY DEF TypeOK, Items
<1>2. Control
  BY DEF Control
<1>3. RingsSorted /\ NonMembersEmpty
  BY DEF RingsSorted, NonMembersEmpty, are_events_pending, DataHead
<1>4. HeapSound /\ NothingEarlier /\ LastIsLeast
  BY DEF HeapSound, NothingEarlier, LastIsLeast
<1> QED
  BY <1>1, <1>2, <1>3, <1>4 DEF IInv

-----------------------------------------------------------------------------
LEMMA TypeStep == TypeOK /\ Control /\ RingsSorted /\ [Next]_vars => TypeOK'
<1> SUFFICES ASSUME TypeOK, Control, RingsSorted, [Next]_vars PROVE TypeOK'
  OBVIOUS
<1> USE PerfGroupAssumption DEF TypeOK, kernelVars, readVars, groupVars
<1>1. CASE Tick
  BY <1>1 DEF Tick
<1>2. ASSUME NEW g \in Groups, Publish(g) PROVE TypeOK'
  <2>1. Append(ring[g], clock) \in Seq(Nat)
    OBVIOUS
  <2>2. ring' \in [Groups -> Seq(Nat)]
    BY <1>2, <2>1 DEF Publish
  <2> QED
    BY <1>2, <2>2 DEF Publish
<1>3. ASSUME NEW g \in Groups, Close(g) PROVE TypeOK'
  BY <1>3 DEF Close
<1>4. ASSUME NEW e \in heap, pop(e) PROVE TypeOK'
  <2>1. e \in Items /\ e.group \in Groups /\ e.pos \in Nat /\ e.key \in Nat
    BY DEF Items
  <2>2. PICK to \in tail[e.group] .. position[e.group] :
          /\ tail' = [tail EXCEPT ![e.group] = to]
          /\ pending' = [pending EXCEPT ![e.group] =
               (@ \cup {e.pos}) \ (tail[e.group] .. to - 1)]
    BY <1>4, <2>1 DEF pop, try_commit
  <2>3. to \in Nat
    <3>1. tail[e.group] \in Nat /\ position[e.group] \in Nat
      BY <2>1
    <3> QED
      BY ONLY <3>1, to \in tail[e.group] .. position[e.group]
  <2>4. tail' \in [Groups -> Nat] /\ pending' \in [Groups -> SUBSET Nat]
    BY <2>1, <2>2, <2>3
  <2> QED
    BY <1>4, <2>1, <2>4 DEF pop
<1>5. CASE consume_events
  BY <1>5 DEF consume_events
<1>6. CASE begin_group
  BY <1>6 DEF begin_group, NextMembers
<1>7. CASE check_pending
  BY <1>7 DEF check_pending
<1>8. CASE extend
  <2>1. current \in Groups /\ position[current] \in Nat /\ ring[current] \in Seq(Nat)
    BY <1>8 DEF extend, Control
  <2>2. position' \in [Groups -> Nat]
    BY <1>8, <2>1 DEF extend
  <2>3. [group |-> current, age |-> 0, key |-> ring[current][position[current] + 1],
         pos |-> position[current]] \in Items
    <3>1. position[current] + 1 \in 1 .. Len(ring[current])
      BY <1>8, <2>1 DEF extend, are_events_pending, DataHead, RingsSorted
    <3>2. ring[current][position[current] + 1] \in Nat
      BY <2>1, <3>1
    <3> QED
      BY <2>1, <3>2 DEF Items
  <2>4. heap' \subseteq Items
    BY <1>8, <2>3 DEF extend
  <2> QED
    BY <1>8, <2>1, <2>2, <2>4 DEF extend
<1>9. CASE end_of_iter
  BY <1>9 DEF end_of_iter
<1>10. CASE advance_round
  <2>1. \A e \in heap : Older(e) \in Items
    BY DEF Items, Older
  <2>2. heap' \subseteq Items
    BY <1>10, <2>1 DEF advance_round
  <2> QED
    BY <1>10, <2>2 DEF advance_round
<1>11. CASE remove_members
  BY <1>11 DEF remove_members
<1>12. CASE wait \/ poll
  BY <1>12 DEF wait, poll
<1>13. ASSUME NEW g \in Groups, open_process(g) PROVE TypeOK'
  BY <1>13 DEF open_process
<1>14. CASE UNCHANGED vars
  BY <1>14 DEF vars
<1> QED
  BY <1>1, <1>2, <1>3, <1>4, <1>5, <1>6, <1>7, <1>8, <1>9, <1>10, <1>11,
     <1>12, <1>13, <1>14 DEF Next, Kernel, Reader

-----------------------------------------------------------------------------
LEMMA ControlStep == TypeOK /\ Control /\ [Next]_vars => Control'
<1> SUFFICES ASSUME TypeOK, Control, [Next]_vars PROVE Control'
  OBVIOUS
<1> USE DEF Control, kernelVars, readVars, groupVars
<1>1. CASE Kernel
  BY <1>1 DEF Kernel, Tick, Publish, Close
<1>2. CASE \E e \in heap : pop(e)
  BY <1>2 DEF pop
<1>3. CASE begin_group
  BY <1>3 DEF begin_group, NextMembers, TypeOK
<1>4. CASE consume_events \/ check_pending \/ end_of_iter \/ advance_round
  BY <1>4 DEF consume_events, check_pending, end_of_iter, advance_round
<1>5. CASE extend
  BY <1>5 DEF extend
<1>6. CASE remove_members
  BY <1>6 DEF remove_members
<1>7. CASE wait \/ poll \/ \E g \in Groups : open_process(g)
  BY <1>7 DEF wait, poll, open_process
<1>8. CASE UNCHANGED vars
  BY <1>8 DEF vars
<1> QED
  BY <1>1, <1>2, <1>3, <1>4, <1>5, <1>6, <1>7, <1>8 DEF Next, Reader

\* The actions that leave the clock, the rings and the reading positions
\* alone.
Quiet == UNCHANGED <<clock, ring, position>>

LEMMA QuietActions ==
  /\ (\E g \in Groups : Close(g)) => Quiet
  /\ (\E e \in heap : pop(e)) => Quiet
  /\ consume_events \/ begin_group \/ check_pending => Quiet
  /\ end_of_iter \/ advance_round \/ remove_members \/ wait \/ poll => Quiet
  /\ (\E g \in Groups : open_process(g)) => Quiet
  /\ UNCHANGED vars => Quiet
BY DEF Quiet, Close, pop, consume_events, begin_group, check_pending, end_of_iter,
       advance_round, remove_members, wait, poll, open_process, vars, kernelVars, readVars

LEMMA RingsStep == TypeOK /\ Control /\ RingsSorted /\ [Next]_vars => RingsSorted'
<1> SUFFICES ASSUME TypeOK, Control, RingsSorted, [Next]_vars PROVE RingsSorted'
  OBVIOUS
<1>1. CASE Quiet
  BY <1>1 DEF RingsSorted, Quiet
<1>2. CASE Tick
  <2>1. clock' = clock + 1 /\ ring' = ring /\ position' = position
    BY <1>2 DEF Tick, readVars
  <2>2. \A g \in Groups : \A p \in 1 .. Len(ring[g]) : ring[g][p] \in Nat
    BY DEF TypeOK
  <2> QED
    BY <2>1, <2>2 DEF RingsSorted, TypeOK
<1>3. ASSUME NEW g \in Groups, Publish(g) PROVE RingsSorted'
  <2>1. /\ ring' = [ring EXCEPT ![g] = Append(ring[g], clock)]
        /\ clock' = clock /\ position' = position
    BY <1>3 DEF Publish, readVars
  <2>2. ring[g] \in Seq(Nat) /\ clock \in Nat /\ position[g] \in Nat
    BY DEF TypeOK
  <2>3. /\ Len(ring'[g]) = Len(ring[g]) + 1
        /\ ring'[g][Len(ring[g]) + 1] = clock
        /\ \A p \in 1 .. Len(ring[g]) : ring'[g][p] = ring[g][p]
    BY <2>1, <2>2 DEF TypeOK
  <2>4. \A h \in Groups \ {g} : ring'[h] = ring[h]
    BY <2>1 DEF TypeOK
  <2>5. \A p \in 1 .. Len(ring'[g]) :
          p \in 1 .. Len(ring[g]) \/ p = Len(ring[g]) + 1
    BY <2>2, <2>3
  <2>6. /\ \A p \in 1 .. Len(ring[g]) : ring[g][p] <= clock
        /\ \A p, q \in 1 .. Len(ring[g]) : p <= q => ring[g][p] <= ring[g][q]
        /\ position[g] <= Len(ring[g])
    BY DEF RingsSorted
  <2>7. \A p \in 1 .. Len(ring'[g]) : ring'[g][p] <= clock
    <3> SUFFICES ASSUME NEW p \in 1 .. Len(ring'[g]) PROVE ring'[g][p] <= clock
      OBVIOUS
    <3>1. CASE p \in 1 .. Len(ring[g])
      BY <3>1, <2>3, <2>6
    <3>2. CASE p = Len(ring[g]) + 1
      BY <3>2, <2>2, <2>3
    <3> QED
      BY <3>1, <3>2, <2>5
  <2>8. \A p, q \in 1 .. Len(ring'[g]) : p <= q => ring'[g][p] <= ring'[g][q]
    <3> SUFFICES ASSUME NEW p \in 1 .. Len(ring'[g]), NEW q \in 1 .. Len(ring'[g]),
                        p <= q
                 PROVE  ring'[g][p] <= ring'[g][q]
      OBVIOUS
    <3>1. CASE q = Len(ring[g]) + 1
      BY <3>1, <2>3, <2>7
    <3>2. CASE q \in 1 .. Len(ring[g])
      <4>1. p \in 1 .. Len(ring[g])
        BY <3>2, <2>2
      <4> QED
        BY <3>2, <4>1, <2>3, <2>6
    <3> QED
      BY <3>1, <3>2, <2>5
  <2>9. position[g] <= Len(ring'[g])
    BY <2>2, <2>3, <2>6
  <2> QED
    BY <2>1, <2>4, <2>7, <2>8, <2>9 DEF RingsSorted
<1>4. CASE extend
  <2>1. /\ ring' = ring /\ clock' = clock
        /\ position' = [position EXCEPT ![current] = position[current] + 1]
        /\ Len(ring[current]) # position[current]
        /\ current \in Groups
    BY <1>4 DEF extend, kernelVars, are_events_pending, DataHead, Control
  <2>2. /\ position[current] \in Nat /\ Len(ring[current]) \in Nat
        /\ position[current] <= Len(ring[current])
    BY <2>1 DEF TypeOK, RingsSorted
  <2>3. \A g \in Groups : position'[g] <= Len(ring[g])
    BY <2>1, <2>2 DEF TypeOK, RingsSorted
  <2> QED
    BY <2>1, <2>3 DEF RingsSorted
<1> QED
  BY <1>1, <1>2, <1>3, <1>4, QuietActions DEF Next, Kernel, Reader

-----------------------------------------------------------------------------
\* The item that extend reads.
ReadItem == [group |-> current, age |-> 0,
             key |-> ring[current][position[current] + 1],
             pos |-> position[current]]

LEMMA HeapStep == TypeOK /\ Control /\ RingsSorted /\ HeapSound /\ [Next]_vars
                    => HeapSound'
<1> SUFFICES ASSUME TypeOK, Control, RingsSorted, HeapSound, [Next]_vars
             PROVE HeapSound'
  OBVIOUS
<1>0. \A e \in heap : /\ e.group \in Groups /\ e.pos \in Nat /\ e.age \in Nat
                      /\ e.key \in Nat /\ e.pos < position[e.group]
                      /\ e = [group |-> e.group, age |-> e.age,
                              key |-> e.key, pos |-> e.pos]
  BY DEF TypeOK, Items, HeapSound
<1>1. CASE UNCHANGED <<ring, position>> /\ heap' \subseteq heap
  BY <1>1 DEF HeapSound
<1>2. ASSUME NEW g \in Groups, Publish(g) PROVE HeapSound'
  <2>1. /\ ring' = [ring EXCEPT ![g] = Append(ring[g], clock)]
        /\ position' = position /\ heap' = heap
    BY <1>2 DEF Publish, readVars
  <2>2. \A h \in Groups : \A p \in 1 .. Len(ring[h]) : ring'[h][p] = ring[h][p]
    BY <2>1 DEF TypeOK
  <2>3. \A e \in heap : e.pos + 1 \in 1 .. Len(ring[e.group])
    <3> SUFFICES ASSUME NEW e \in heap
                 PROVE  e.pos + 1 \in 1 .. Len(ring[e.group])
      OBVIOUS
    <3>1. /\ position[e.group] \in Nat /\ Len(ring[e.group]) \in Nat
          /\ position[e.group] <= Len(ring[e.group])
      BY <1>0 DEF RingsSorted, TypeOK
    <3>2. e.pos \in Nat /\ e.pos < position[e.group]
      BY <1>0
    <3> QED
      BY ONLY <3>1, <3>2
  <2> QED
    BY <1>0, <2>1, <2>2, <2>3 DEF HeapSound
<1>3. CASE extend
  <2>1. /\ ring' = ring /\ heap' = heap \cup {ReadItem}
        /\ position' = [position EXCEPT ![current] = position[current] + 1]
        /\ current \in Groups
    BY <1>3 DEF extend, ReadItem, kernelVars, Control
  <2>2. position \in [Groups -> Nat]
    BY DEF TypeOK
  <2>3. /\ \A g \in Groups : position'[g] >= position[g]
        /\ position'[current] = position[current] + 1
    BY <2>1, <2>2
  <2>4. /\ ReadItem.group = current /\ ReadItem.pos = position[current]
        /\ ReadItem.key = ring[current][position[current] + 1]
    BY DEF ReadItem
  <2>5. \A e \in heap' : /\ e.pos < position'[e.group]
                         /\ e.key = ring[e.group][e.pos + 1]
    <3>1. \A e \in heap : /\ e.pos < position'[e.group]
                          /\ e.key = ring[e.group][e.pos + 1]
      <4> SUFFICES ASSUME NEW e \in heap
                   PROVE  /\ e.pos < position'[e.group]
                          /\ e.key = ring[e.group][e.pos + 1]
        OBVIOUS
      <4>1. /\ e.pos < position[e.group] /\ e.pos \in Nat
            /\ position[e.group] \in Nat
            /\ position'[e.group] >= position[e.group]
            /\ position'[e.group] \in Nat
        BY <1>0, <2>1, <2>2, <2>3
      <4>2. e.key = ring[e.group][e.pos + 1]
        BY DEF HeapSound
      <4> QED
        BY <4>1, <4>2
    <3>2. /\ ReadItem.pos < position'[ReadItem.group]
          /\ ReadItem.key = ring[ReadItem.group][ReadItem.pos + 1]
      <4>1. position[current] < position[current] + 1
        BY <2>1, <2>2
      <4> QED
        BY <2>3, <2>4, <4>1
    <3> QED
      BY <2>1, <3>1, <3>2
  <2>6. \A e, f \in heap' : e.group = f.group /\ e.pos = f.pos => e = f
    <3>1. \A e \in heap : ~(e.group = current /\ e.pos = position[current])
      BY <1>0, <2>1, <2>2
    <3> QED
      BY <2>1, <2>4, <3>1 DEF HeapSound
  <2> QED
    BY <2>1, <2>5, <2>6 DEF HeapSound
<1>4. CASE advance_round
  <2>1. heap' = {Older(e) : e \in heap} /\ ring' = ring /\ position' = position
    BY <1>4 DEF advance_round, kernelVars
  <2>2. \A e \in heap : /\ Older(e).group = e.group /\ Older(e).pos = e.pos
                        /\ Older(e).key = e.key
    BY DEF Older
  <2>3. \A e \in heap' : /\ e.pos < position[e.group]
                         /\ e.key = ring[e.group][e.pos + 1]
    BY <2>1, <2>2 DEF HeapSound
  <2>4. \A e, f \in heap' : e.group = f.group /\ e.pos = f.pos => e = f
    <3> SUFFICES ASSUME NEW e \in heap, NEW f \in heap,
                        Older(e).group = Older(f).group, Older(e).pos = Older(f).pos
                 PROVE  Older(e) = Older(f)
      BY <2>1
    <3>1. e = f
      BY <2>2 DEF HeapSound
    <3> QED
      BY <3>1
  <2> QED
    BY <2>1, <2>3, <2>4 DEF HeapSound
<1>5. CASE Tick \/ \E g \in Groups : Close(g)
  BY <1>1, <1>5 DEF Tick, Close, readVars
<1>6. CASE \E e \in heap : pop(e)
  BY <1>1, <1>6 DEF pop, kernelVars
<1>7. CASE consume_events \/ begin_group \/ check_pending \/ end_of_iter
  BY <1>1, <1>7 DEF consume_events, begin_group, check_pending, end_of_iter,
                    kernelVars, readVars
<1>8. CASE remove_members \/ wait \/ poll \/ \E g \in Groups : open_process(g)
  BY <1>1, <1>8 DEF remove_members, wait, poll, open_process, kernelVars, readVars
<1>9. CASE UNCHANGED vars
  BY <1>1, <1>9 DEF vars, kernelVars, readVars
<1> QED
  BY <1>2, <1>3, <1>4, <1>5, <1>6, <1>7, <1>8, <1>9 DEF Next, Kernel, Reader

LEMMA MembersStep == TypeOK /\ Control /\ NonMembersEmpty /\ [Next]_vars
                       => NonMembersEmpty'
<1> SUFFICES ASSUME TypeOK, Control, NonMembersEmpty, [Next]_vars
             PROVE NonMembersEmpty'
  OBVIOUS
<1> USE DEF NonMembersEmpty, are_events_pending, DataHead
<1>1. CASE Tick
  BY <1>1 DEF Tick, groupVars, readVars
<1>2. ASSUME NEW g \in Groups, Publish(g) PROVE NonMembersEmpty'
  <2>1. /\ ring' = [ring EXCEPT ![g] = Append(ring[g], clock)]
        /\ position' = position /\ closed' = closed /\ opened' = opened
        /\ members' = members /\ toRemove' = toRemove
        /\ g \in opened /\ g \notin closed
    BY <1>2 DEF Publish, readVars, groupVars
  <2>2. g \in members /\ g \notin toRemove
    BY <2>1 DEF TypeOK
  <2>3. \A h \in Groups \ {g} : ring'[h] = ring[h]
    BY <2>1 DEF TypeOK
  <2> QED
    BY <2>1, <2>2, <2>3 DEF TypeOK
<1>3. ASSUME NEW g \in Groups, Close(g) PROVE NonMembersEmpty'
  BY <1>3 DEF Close, readVars, groupVars
<1>4. ASSUME NEW e \in heap, pop(e) PROVE NonMembersEmpty'
  BY <1>4 DEF pop, kernelVars, groupVars
<1>5. CASE consume_events \/ begin_group \/ end_of_iter \/ advance_round
  BY <1>5 DEF consume_events, begin_group, end_of_iter, advance_round,
              kernelVars, readVars, groupVars
<1>6. CASE check_pending
  BY <1>6 DEF check_pending, kernelVars, readVars
<1>7. CASE extend
  <2>1. /\ ring' = ring /\ closed' = closed /\ opened' = opened
        /\ members' = members /\ toRemove' = toRemove
        /\ position' = [position EXCEPT ![current] = position[current] + 1]
        /\ Len(ring[current]) # position[current]
        /\ current \in Groups
    BY <1>7 DEF extend, kernelVars, groupVars, Control
  <2>2. current \in members /\ current \notin toRemove
    BY <2>1
  <2>3. \A h \in Groups \ {current} : position'[h] = position[h]
    BY <2>1 DEF TypeOK
  <2> QED
    BY <2>1, <2>2, <2>3 DEF TypeOK
<1>8. CASE remove_members
  <2>1. PICK failed \in SUBSET toRemove : members' = members \ (toRemove \ failed)
    BY <1>8 DEF remove_members
  <2>2. /\ ring' = ring /\ position' = position /\ closed' = closed
        /\ opened' = opened /\ toRemove' = {}
    BY <1>8 DEF remove_members, kernelVars, readVars
  <2> QED
    BY <2>1, <2>2 DEF TypeOK
<1>9. CASE wait \/ poll
  BY <1>9 DEF wait, poll, kernelVars, readVars, groupVars
<1>10. ASSUME NEW g \in Groups, open_process(g) PROVE NonMembersEmpty'
  BY <1>10 DEF open_process, kernelVars, readVars
<1>11. CASE UNCHANGED vars
  BY <1>11 DEF vars, kernelVars, readVars, groupVars
<1> QED
  BY <1>1, <1>2, <1>3, <1>4, <1>5, <1>6, <1>7, <1>8, <1>9, <1>10, <1>11
     DEF Next, Kernel, Reader

-----------------------------------------------------------------------------
\* Of a record that is still to be read: it is not earlier than a heap item
\* of the same ring, and there is none where the reader has just been.
LEMMA SameRingLater ==
  ASSUME TypeOK, RingsSorted, HeapSound, NEW e \in heap,
         NEW p \in position[e.group] + 1 .. Len(ring[e.group])
  PROVE  e.key <= ring[e.group][p]
<1>1. /\ e.group \in Groups /\ e.pos \in Nat /\ position[e.group] \in Nat
      /\ Len(ring[e.group]) \in Nat
  BY DEF TypeOK, Items
<1>2. e.pos < position[e.group] /\ e.key = ring[e.group][e.pos + 1]
  BY DEF HeapSound
<1>3. /\ e.pos + 1 \in 1 .. Len(ring[e.group]) /\ p \in 1 .. Len(ring[e.group])
      /\ e.pos + 1 <= p
  BY <1>1, <1>2
<1> QED
  BY <1>1, <1>2, <1>3 DEF RingsSorted

LEMMA NonMemberHasNothing ==
  ASSUME TypeOK, NonMembersEmpty, NEW g \in Groups, g \notin members
  PROVE  position[g] + 1 .. Len(ring[g]) = {}
<1>1. Len(ring[g]) = position[g] /\ position[g] \in Nat
  BY DEF TypeOK, NonMembersEmpty, are_events_pending, DataHead
<1> QED
  BY <1>1

\* The heart of the sorter: when pop may release the item on top of the
\* heap, every ring was scanned after the item was read.
LEMMA ReleasableIsScanned ==
  ASSUME TypeOK, Control, NEW e \in heap, NEW g \in Groups,
         pc \in {"pop", "flush"}, Releasable(e)
  PROVE  Scanned(e, g)
<1>1. e.group \in Nat \ {0} /\ g \in Nat \ {0} /\ current \in Nat /\ e.age \in Nat
  <2>1. heap \subseteq Items /\ Groups \subseteq Nat \ {0} /\ current \in Groups \cup {0}
    BY PerfGroupAssumption DEF TypeOK
  <2>2. e.group \in Groups /\ e.age \in Nat
    BY <2>1 DEF Items
  <2>3. \A x \in Groups : x \in Nat \ {0}
    BY ONLY <2>1
  <2>4. current \in Nat
    BY ONLY <2>1
  <2> QED
    BY ONLY g \in Groups, <2>2, <2>3, <2>4
<1>2. CASE e.age >= 2
  BY <1>2 DEF Scanned
<1>3. CASE e.age = 1 /\ e.group <= current
  <2>1. g = e.group \/ g > e.group \/ g < current
    BY <1>1, <1>3
  <2> QED
    BY <2>1, <1>3 DEF Scanned
<1> QED
  BY <1>2, <1>3 DEF Releasable

LEMMA EarlierStep == IInv /\ [Next]_vars => NothingEarlier'
<1> SUFFICES ASSUME IInv, [Next]_vars PROVE NothingEarlier'
  OBVIOUS
<1> USE DEF IInv
<1>0. \A e \in heap : e.group \in Nat \ {0} /\ e.age \in Nat /\ e.key \in Nat
                      /\ e.group \in Groups
  <2>1. heap \subseteq Items /\ Groups \subseteq Nat \ {0}
    BY PerfGroupAssumption DEF TypeOK
  <2> QED
    BY ONLY <2>1 DEF Items
<1>a. Groups \subseteq Nat \ {0} /\ current \in Nat
  BY PerfGroupAssumption DEF TypeOK
<1>1. CASE UNCHANGED <<ring, position, current, pc>> /\ heap' \subseteq heap
  BY <1>1 DEF NothingEarlier, Scanned
<1>2. ASSUME NEW g \in Groups, Publish(g) PROVE NothingEarlier'
  <2>1. /\ ring' = [ring EXCEPT ![g] = Append(ring[g], clock)]
        /\ position' = position /\ heap' = heap /\ current' = current /\ pc' = pc
    BY <1>2 DEF Publish, readVars
  <2>2. /\ ring[g] \in Seq(Nat) /\ clock \in Nat /\ position[g] \in Nat
        /\ position[g] <= Len(ring[g])
    BY DEF TypeOK, RingsSorted
  <2>3. /\ Len(ring'[g]) = Len(ring[g]) + 1
        /\ ring'[g][Len(ring[g]) + 1] = clock
        /\ \A p \in 1 .. Len(ring[g]) : ring'[g][p] = ring[g][p]
        /\ \A h \in Groups \ {g} : ring'[h] = ring[h]
    BY <2>1, <2>2 DEF TypeOK
  <2>4. SUFFICES ASSUME NEW e \in heap, NEW h \in Groups, Scanned(e, h),
                        NEW p \in position[h] + 1 .. Len(ring'[h])
                 PROVE  e.key <= ring'[h][p]
    BY <2>1 DEF NothingEarlier, Scanned
  <2>5. CASE h # g
    BY <2>3, <2>4, <2>5 DEF NothingEarlier
  <2>6. CASE h = g /\ p # Len(ring[g]) + 1
    <3>1. p \in position[g] + 1 .. Len(ring[g]) /\ p \in 1 .. Len(ring[g])
      BY <2>2, <2>3, <2>6
    <3> QED
      BY <2>3, <2>4, <2>6, <3>1 DEF NothingEarlier
  <2>7. CASE h = g /\ p = Len(ring[g]) + 1
    <3>1. e.pos + 1 \in 1 .. Len(ring[e.group])
      <4>1. /\ e.pos \in Nat /\ e.group \in Groups
            /\ position[e.group] \in Nat /\ Len(ring[e.group]) \in Nat
            /\ e.pos < position[e.group]
            /\ position[e.group] <= Len(ring[e.group])
        BY DEF TypeOK, Items, HeapSound, RingsSorted
      <4> QED
        BY ONLY <4>1
    <3>2. e.key <= clock
      BY <1>0, <3>1 DEF HeapSound, RingsSorted
    <3> QED
      BY <2>3, <2>7, <3>2
  <2> QED
    BY <2>5, <2>6, <2>7
<1>3. CASE extend
  <2>0. PICK r : r = ReadItem
    OBVIOUS
  <2>1. /\ ring' = ring /\ heap' = heap \cup {r} /\ current' = current
        /\ position' = [position EXCEPT ![current] = position[current] + 1]
        /\ pc' = pc /\ pc = "read" /\ current \in Groups
    BY <1>3, <2>0 DEF extend, ReadItem, kernelVars, Control
  <2>2. /\ position[current] \in Nat /\ Len(ring[current]) \in Nat
        /\ position[current] # Len(ring[current])
        /\ position[current] <= Len(ring[current])
        /\ position'[current] = position[current] + 1
        /\ \A g \in Groups \ {current} : position'[g] = position[g]
    BY <1>3, <2>1 DEF TypeOK, RingsSorted, extend, are_events_pending, DataHead
  <2>3. \A g \in Groups : position'[g] + 1 .. Len(ring[g])
                            \subseteq position[g] + 1 .. Len(ring[g])
    BY <2>1, <2>2
  <2>4. \A e \in heap : \A g \in Groups : Scanned(e, g)' = Scanned(e, g)
    BY <2>1 DEF Scanned
  <2>5. \A e \in heap : \A g \in Groups : Scanned(e, g)' =>
          \A p \in position'[g] + 1 .. Len(ring[g]) : e.key <= ring[g][p]
    BY <2>3, <2>4 DEF NothingEarlier
  <2>6. \A g \in Groups : Scanned(r, g)' => g = current
    <3>1. r.group = current /\ r.age = 0
      BY <2>0 DEF ReadItem
    <3>2. \A g \in Groups : Scanned(r, g)' =>
            g = current \/ (g > current /\ g < current) \/ (g = current /\ pc = "group")
      BY <2>1, <3>1 DEF Scanned
    <3> QED
      BY <1>a, <2>1, <3>2
  <2>7. \A p \in position'[current] + 1 .. Len(ring[current]) :
          r.key <= ring[current][p]
    <3> SUFFICES ASSUME NEW p \in position'[current] + 1 .. Len(ring[current])
                 PROVE  ring[current][position[current] + 1] <= ring[current][p]
      BY <2>0 DEF ReadItem
    <3>1. /\ position[current] + 1 \in 1 .. Len(ring[current])
          /\ p \in 1 .. Len(ring[current]) /\ position[current] + 1 <= p
      BY <2>2
    <3> QED
      BY <2>1, <3>1 DEF RingsSorted
  <2>8. \A e \in heap' : \A g \in Groups : Scanned(e, g)' =>
          \A p \in position'[g] + 1 .. Len(ring[g]) : e.key <= ring[g][p]
    <3> HIDE DEF IInv
    <3> SUFFICES ASSUME NEW e \in heap', NEW g \in Groups, Scanned(e, g)'
                 PROVE  \A p \in position'[g] + 1 .. Len(ring[g]) :
                          e.key <= ring[g][p]
      OBVIOUS
    <3>1. CASE e \in heap
      BY <3>1, <2>5
    <3>2. CASE e = r
      BY <3>2, <2>6, <2>7
    <3> QED
      BY <3>1, <3>2, <2>1
  <2> QED
    BY <2>1, <2>8 DEF NothingEarlier
<1>4. CASE begin_group
  <2>1. PICK g \in NextMembers : (\A h \in NextMembers : g <= h) /\ current' = g
    BY <1>4 DEF begin_group
  <2>2. /\ ring' = ring /\ heap' = heap /\ position' = position
        /\ pc = "group" /\ pc' = "pop"
    BY <1>4 DEF begin_group, kernelVars, readVars
  <2>3. ASSUME NEW e \in heap, NEW h \in Groups, Scanned(e, h)', h \in members
        PROVE  Scanned(e, h)
    <3>1. h < g => h <= current
      BY <1>a, <2>1, <2>3 DEF NextMembers, TypeOK
    <3> QED
      BY <1>a, <2>1, <2>2, <2>3, <3>1 DEF Scanned
  <2> QED
    BY <2>2, <2>3, NonMemberHasNothing DEF NothingEarlier
<1>5. CASE (check_pending \/ end_of_iter) /\ pc' = "group"
  <2>1. /\ ring' = ring /\ heap' = heap /\ position' = position
        /\ current' = current /\ pc \in {"pop", "read"}
        /\ ~are_events_pending(current) /\ current \in Groups
    BY <1>5 DEF check_pending, end_of_iter, kernelVars, readVars, Control
  <2>2. position[current] + 1 .. Len(ring[current]) = {}
    BY <2>1 DEF are_events_pending, DataHead, TypeOK
  <2>3. ASSUME NEW e \in heap, NEW h \in Groups, Scanned(e, h)', h # current
        PROVE  Scanned(e, h)
    BY <2>1, <2>3 DEF Scanned
  <2> QED
    BY <2>1, <2>2, <2>3 DEF NothingEarlier
<1>6. CASE check_pending /\ pc' # "group"
  <2>1. /\ ring' = ring /\ heap' = heap /\ position' = position
        /\ current' = current /\ pc = "pop" /\ pc' = "read"
    BY <1>6 DEF check_pending, kernelVars, readVars
  <2> QED
    BY <2>1 DEF NothingEarlier, Scanned
<1>7. CASE advance_round
  <2>1. /\ heap' = {Older(e) : e \in heap} /\ ring' = ring /\ position' = position
        /\ current' = 0 /\ pc = "group" /\ pc' = "flush" /\ NextMembers = {}
    BY <1>7 DEF advance_round, kernelVars
  <2>2. \A e \in heap : /\ Older(e).group = e.group /\ Older(e).age = e.age + 1
                        /\ Older(e).key = e.key
    BY DEF Older
  <2>3. ASSUME NEW e \in heap, NEW h \in members, Scanned(Older(e), h)'
        PROVE  Scanned(e, h)
    <3>1. h \in Groups /\ h <= current
      BY <1>a, <2>1 DEF NextMembers, TypeOK
    <3>2. h = e.group \/ e.age + 1 >= 2 \/ (e.age + 1 = 1 /\ h > e.group)
      <4>1. h \in Nat \ {0} /\ e.age \in Nat /\ e.group \in Nat
        BY <1>0, <1>a, <3>1
      <4>2. current' = 0 /\ pc' # "group"
        BY <2>1
      <4> QED
        BY ONLY <4>1, <4>2, Scanned(Older(e), h)' DEF Scanned, Older
    <3>3. e.age = 0 \/ e.age = 1 \/ e.age >= 2
      BY <1>0
    <3> QED
      BY <1>0, <1>a, <2>1, <3>1, <3>2, <3>3 DEF Scanned
  <2> QED
    BY <2>1, <2>2, <2>3, NonMemberHasNothing DEF NothingEarlier
<1>8. CASE remove_members \/ wait \/ poll \/ consume_events
  <2>1. /\ ring' = ring /\ heap' = heap /\ position' = position
        /\ current' = current /\ current = 0
    BY <1>8 DEF remove_members, wait, poll, consume_events, kernelVars, readVars, Control
  <2>2. ASSUME NEW e \in heap, NEW h \in Groups, Scanned(e, h)'
        PROVE  Scanned(e, h)
    BY <1>a, <2>1, <2>2 DEF Scanned
  <2> QED
    BY <2>1, <2>2 DEF NothingEarlier
<1>9. CASE Tick \/ \E g \in Groups : Close(g)
  BY <1>1, <1>9 DEF Tick, Close, readVars
<1>10. CASE (\E e \in heap : pop(e)) \/ \E g \in Groups : open_process(g)
  BY <1>1, <1>10 DEF pop, open_process, kernelVars, readVars
<1>11. CASE UNCHANGED vars
  BY <1>1, <1>11 DEF vars, kernelVars, readVars
<1>12. end_of_iter => pc' = "group"
  BY DEF end_of_iter
<1> QED
  BY <1>2, <1>3, <1>4, <1>5, <1>6, <1>7, <1>8, <1>9, <1>10, <1>11, <1>12
     DEF Next, Kernel, Reader

\* What pop hands on is the least of everything in the heap and everything
\* still to be read, and not earlier than what was handed on before.
LEMMA PoppedIsLeast ==
  ASSUME IInv, NEW e \in heap, pop(e)
  PROVE  /\ lastKey <= e.key /\ lastKey' = e.key
         /\ \A f \in heap : e.key <= f.key
         /\ \A g \in Groups :
              \A p \in position[g] + 1 .. Len(ring[g]) : e.key <= ring[g][p]
<1>1. pc \in {"pop", "flush"} /\ OnTop(e) /\ Releasable(e) /\ lastKey' = e.key
  BY DEF pop
<1>2. \A g \in Groups : Scanned(e, g)
  BY <1>1, ReleasableIsScanned DEF IInv
<1>3. lastKey <= e.key
  BY DEF IInv, LastIsLeast
<1>4. \A f \in heap : e.key <= f.key
  BY <1>1 DEF OnTop
<1>5. \A g \in Groups :
        \A p \in position[g] + 1 .. Len(ring[g]) : e.key <= ring[g][p]
  BY <1>2 DEF IInv, NothingEarlier
<1> QED
  BY <1>1, <1>3, <1>4, <1>5

LEMMA LeastStep == IInv /\ [Next]_vars => LastIsLeast'
<1> SUFFICES ASSUME IInv, [Next]_vars PROVE LastIsLeast'
  OBVIOUS
<1>0. TypeOK /\ LastIsLeast /\ RingsSorted
  BY DEF IInv
<1>1. CASE UNCHANGED <<clock, ring, position, lastKey, heap>>
  BY <1>0, <1>1 DEF LastIsLeast
<1>2. CASE Tick
  <2>1. /\ clock' = clock + 1 /\ ring' = ring /\ position' = position
        /\ lastKey' = lastKey /\ heap' = heap
    BY <1>2 DEF Tick, readVars
  <2>2. lastKey <= clock + 1
    BY <1>0 DEF LastIsLeast, TypeOK
  <2> QED
    BY <1>0, <2>1, <2>2 DEF LastIsLeast
<1>3. ASSUME NEW g \in Groups, Publish(g) PROVE LastIsLeast'
  <2>1. /\ ring' = [ring EXCEPT ![g] = Append(ring[g], clock)]
        /\ position' = position /\ heap' = heap /\ clock' = clock
        /\ lastKey' = lastKey
    BY <1>3 DEF Publish, readVars
  <2>2. /\ ring[g] \in Seq(Nat) /\ clock \in Nat /\ position[g] \in Nat
        /\ position[g] <= Len(ring[g])
    BY <1>0 DEF TypeOK, RingsSorted
  <2>3. /\ Len(ring'[g]) = Len(ring[g]) + 1
        /\ ring'[g][Len(ring[g]) + 1] = clock
        /\ \A p \in 1 .. Len(ring[g]) : ring'[g][p] = ring[g][p]
        /\ \A h \in Groups \ {g} : ring'[h] = ring[h]
    BY <1>0, <2>1, <2>2 DEF TypeOK
  <2>4. ASSUME NEW h \in Groups, NEW p \in position[h] + 1 .. Len(ring'[h])
        PROVE  lastKey <= ring'[h][p]
    <3>1. CASE h # g
      BY <1>0, <2>3, <3>1 DEF LastIsLeast
    <3>2. CASE h = g /\ p # Len(ring[g]) + 1
      <4>1. p \in position[g] + 1 .. Len(ring[g]) /\ p \in 1 .. Len(ring[g])
        BY <2>2, <2>3, <3>2
      <4> QED
        BY <1>0, <2>3, <3>2, <4>1 DEF LastIsLeast
    <3>3. CASE h = g /\ p = Len(ring[g]) + 1
      BY <1>0, <2>3, <3>3 DEF LastIsLeast
    <3> QED
      BY <3>1, <3>2, <3>3
  <2> QED
    BY <1>0, <2>1, <2>4 DEF LastIsLeast
<1>4. ASSUME NEW e \in heap, pop(e) PROVE LastIsLeast'
  <2>1. /\ clock' = clock /\ ring' = ring /\ position' = position
        /\ heap' \subseteq heap
    BY <1>4 DEF pop, kernelVars
  <2>2. e.key <= clock
    <3>1. /\ e.group \in Groups /\ e.pos \in Nat /\ position[e.group] \in Nat
          /\ Len(ring[e.group]) \in Nat
      BY <1>0 DEF TypeOK, Items
    <3>2. /\ e.pos < position[e.group] /\ position[e.group] <= Len(ring[e.group])
          /\ e.key = ring[e.group][e.pos + 1]
      BY <3>1 DEF IInv, HeapSound, RingsSorted
    <3>3. e.pos + 1 \in 1 .. Len(ring[e.group])
      BY ONLY <3>1, <3>2
    <3> QED
      BY <1>0, <3>1, <3>2, <3>3 DEF RingsSorted
  <2> QED
    BY <1>4, <2>1, <2>2, PoppedIsLeast DEF LastIsLeast
<1>5. CASE extend
  <2>1. /\ ring' = ring /\ heap' = heap \cup {ReadItem} /\ clock' = clock
        /\ position' = [position EXCEPT ![current] = position[current] + 1]
        /\ lastKey' = lastKey /\ current \in Groups
    BY <1>5 DEF extend, ReadItem, kernelVars, Control, IInv
  <2>2. /\ position[current] \in Nat /\ Len(ring[current]) \in Nat
        /\ position[current] # Len(ring[current])
        /\ position[current] <= Len(ring[current])
        /\ position'[current] = position[current] + 1
        /\ \A g \in Groups \ {current} : position'[g] = position[g]
    BY <1>0, <1>5, <2>1 DEF TypeOK, RingsSorted, extend, are_events_pending, DataHead
  <2>3. \A g \in Groups : position'[g] + 1 .. Len(ring[g])
                            \subseteq position[g] + 1 .. Len(ring[g])
    BY <2>1, <2>2
  <2>4. position[current] + 1 \in position[current] + 1 .. Len(ring[current])
    BY <2>2
  <2>5. lastKey <= ReadItem.key
    BY <1>0, <2>1, <2>4 DEF LastIsLeast, ReadItem
  <2> QED
    BY <1>0, <2>1, <2>3, <2>5 DEF LastIsLeast
<1>6. CASE advance_round
  <2>1. /\ heap' = {Older(e) : e \in heap} /\ ring' = ring /\ position' = position
        /\ lastKey' = lastKey /\ clock' = clock
    BY <1>6 DEF advance_round, kernelVars
  <2>2. \A e \in heap : Older(e).key = e.key
    BY DEF Older
  <2> QED
    BY <1>0, <2>1, <2>2 DEF LastIsLeast
<1>7. CASE \E g \in Groups : Close(g) \/ open_process(g)
  BY <1>1, <1>7 DEF Close, open_process, kernelVars, readVars
<1>8. CASE consume_events \/ begin_group \/ check_pending \/ end_of_iter
  BY <1>1, <1>8 DEF consume_events, begin_group, check_pending, end_of_iter,
                    kernelVars, readVars
<1>9. CASE remove_members \/ wait \/ poll
  BY <1>1, <1>9 DEF remove_members, wait, poll, kernelVars, readVars
<1>10. CASE UNCHANGED vars
  BY <1>1, <1>10 DEF vars, kernelVars, readVars
<1> QED
  BY <1>2, <1>3, <1>4, <1>5, <1>6, <1>7, <1>8, <1>9, <1>10
     DEF Next, Kernel, Reader

-----------------------------------------------------------------------------
\* The invariant that the other theorems follow from.
THEOREM Inductive == Spec => []IInv
<1>1. Init => IInv
  BY InitIInv
<1>2. IInv /\ [Next]_vars => IInv'
  <2> SUFFICES ASSUME IInv, [Next]_vars PROVE IInv'
    OBVIOUS
  <2>1. TypeOK' /\ Control' /\ RingsSorted'
    BY TypeStep, ControlStep, RingsStep DEF IInv
  <2>2. HeapSound' /\ NonMembersEmpty'
    BY HeapStep, MembersStep DEF IInv
  <2>3. NothingEarlier' /\ LastIsLeast'
    BY EarlierStep, LeastStep
  <2> QED
    BY <2>1, <2>2, <2>3 DEF IInv
<1> QED
  BY <1>1, <1>2, PTL DEF Spec

\* Every reachable state of the rings, the sorter and the loop has its type.
THEOREM TypeCorrect == Spec => []TypeOK
<1>1. IInv => TypeOK
  BY DEF IInv
<1> QED
  BY <1>1, Inductive, PTL

\* The callback of consume_events sees the records of any number of rings in
\* the order of their timestamps.
THEOREM Sorted == Spec => OutputSorted
<1>1. IInv /\ [Next]_vars => [lastKey' >= lastKey]_lastKey
  <2> SUFFICES ASSUME IInv, [Next]_vars, lastKey' # lastKey
               PROVE  lastKey' >= lastKey
    BY DEF IInv, TypeOK
  <2>1. \E e \in heap : pop(e)
    BY DEF Next, Kernel, Reader, Tick, Publish, Close, open_process, consume_events,
           begin_group, check_pending, extend, end_of_iter, advance_round,
           remove_members, wait, poll, vars
  <2>2. PICK e \in heap : pop(e)
    BY <2>1
  <2>3. lastKey \in Nat /\ e.key \in Nat
    BY DEF IInv, TypeOK, Items
  <2> QED
    BY <2>2, <2>3, PoppedIsLeast
<1> QED
  BY <1>1, Inductive, PTL DEF Spec, OutputSorted

\* A ring whose member is dropped has been read to its end.
THEOREM Drained == Spec => []RemovedRingsAreDrained
<1>1. IInv => RemovedRingsAreDrained
  BY DEF IInv, NonMembersEmpty, RemovedRingsAreDrained, TypeOK
<1> QED
  BY <1>1, Inductive, PTL

-----------------------------------------------------------------------------
\* try_commit in terms of sets: what is dropped leaves the heap's positions,
\* and the positions below the new tail leave both sets.
LEMMA CommitArithmetic ==
  ASSUME NEW h, NEW c, NEW from \in h, NEW lo \in Nat, NEW hi \in Nat,
         NEW to \in lo .. hi,
         h \cup c = lo .. hi - 1, h \cap c = {},
         lo .. to - 1 \subseteq c \cup {from}, to \notin c \cup {from}
  PROVE  LET h2 == h \ {from}
             c2 == (c \cup {from}) \ (lo .. to - 1)
         IN  /\ h2 \cup c2 = to .. hi - 1
             /\ h2 \cap c2 = {}
             /\ to \notin c2
<1> DEFINE h2 == h \ {from}
           c2 == (c \cup {from}) \ (lo .. to - 1)
<1>1. \A x : x \in h \/ x \in c <=> x \in lo .. hi - 1
  OBVIOUS
<1>2. \A x \in to .. hi - 1 : x \in lo .. hi - 1 /\ x \notin lo .. to - 1
  OBVIOUS
<1>3. \A x \in lo .. hi - 1 : x \notin lo .. to - 1 => x \in to .. hi - 1
  OBVIOUS
<1>4. \A x \in h2 : x \notin lo .. to - 1
  OBVIOUS
<1>5. h2 \cup c2 \subseteq to .. hi - 1
  BY <1>1, <1>3, <1>4
<1>6. to .. hi - 1 \subseteq h2 \cup c2
  BY <1>1, <1>2
<1> QED
  BY <1>5, <1>6

\* The strengthening of RingAccounting that is inductive, given IInv.
AInv == RingAccounting /\ \A g \in Groups : tail[g] <= position[g]

LEMMA AccountingStep == IInv /\ AInv /\ [Next]_vars => AInv'
<1> SUFFICES ASSUME IInv, AInv, [Next]_vars PROVE AInv'
  OBVIOUS
<1> USE DEF AInv
<1>0. TypeOK /\ HeapSound
  BY DEF IInv
<1>1. CASE UNCHANGED <<tail, position, pending, heap>>
  BY <1>1 DEF RingAccounting, InHeap
<1>2. ASSUME NEW e \in heap, pop(e) PROVE AInv'
  <2> DEFINE g == e.group
  <2>1. /\ e.group \in Groups /\ e.pos \in Nat
        /\ tail[e.group] \in Nat /\ position[e.group] \in Nat
    BY <1>0 DEF TypeOK, Items
  <2>2. heap' = heap \ {e} /\ position' = position
    BY <1>2 DEF pop
  <2>3. PICK to \in tail[g] .. position[g] :
          /\ tail[g] .. to - 1 \subseteq pending[g] \cup {e.pos}
          /\ to \notin pending[g] \cup {e.pos}
          /\ tail' = [tail EXCEPT ![g] = to]
          /\ pending' = [pending EXCEPT ![g] =
               (pending[g] \cup {e.pos}) \ (tail[g] .. to - 1)]
    BY <1>2, <2>1 DEF pop, try_commit
  <2>4. e.pos \in InHeap(g)
    BY DEF InHeap
  <2>5. InHeap(g)' = InHeap(g) \ {e.pos}
    <3>1. \A f \in heap : f.group = g /\ f.pos = e.pos => f = e
      BY <1>0 DEF HeapSound
    <3>2. ASSUME NEW x \in InHeap(g)' PROVE x \in InHeap(g) \ {e.pos}
      BY <2>2, <3>1, <3>2 DEF InHeap
    <3>3. ASSUME NEW x \in InHeap(g) \ {e.pos} PROVE x \in InHeap(g)'
      BY <2>2, <3>3 DEF InHeap
    <3> QED
      BY <3>2, <3>3
  <2>6. /\ InHeap(g) \cup pending[g] = tail[g] .. position[g] - 1
        /\ InHeap(g) \cap pending[g] = {}
    BY <2>1 DEF RingAccounting
  <2>7. tail'[g] = to /\ pending'[g] = (pending[g] \cup {e.pos}) \ (tail[g] .. to - 1)
    BY <1>0, <2>1, <2>3 DEF TypeOK
  <2>8. /\ InHeap(g)' \cup pending'[g] = tail'[g] .. position[g] - 1
        /\ InHeap(g)' \cap pending'[g] = {}
        /\ tail'[g] \notin pending'[g]
    <3> HIDE DEF g
    <3>1. tail[g] \in Nat /\ position[g] \in Nat
      BY <2>1 DEF g
    <3>2. /\ (InHeap(g) \ {e.pos}) \cup ((pending[g] \cup {e.pos}) \ (tail[g] .. to - 1))
               = to .. position[g] - 1
          /\ (InHeap(g) \ {e.pos}) \cap ((pending[g] \cup {e.pos}) \ (tail[g] .. to - 1))
               = {}
          /\ to \notin (pending[g] \cup {e.pos}) \ (tail[g] .. to - 1)
      BY <2>3, <2>4, <2>6, <3>1, CommitArithmetic
    <3> QED
      BY <2>5, <2>7, <3>2
  <2>9. ASSUME NEW h \in Groups, h # g
        PROVE  /\ InHeap(h)' = InHeap(h)
               /\ tail'[h] = tail[h] /\ pending'[h] = pending[h]
    <3>1. InHeap(h)' = InHeap(h)
      <4>1. ASSUME NEW x \in InHeap(h) PROVE x \in InHeap(h)'
        BY <2>2, <2>9, <4>1 DEF InHeap
      <4>2. ASSUME NEW x \in InHeap(h)' PROVE x \in InHeap(h)
        BY <2>2, <4>2 DEF InHeap
      <4> QED
        BY <4>1, <4>2
    <3>2. tail'[h] = tail[h] /\ pending'[h] = pending[h]
      BY <1>0, <2>3, <2>9 DEF TypeOK
    <3> QED
      BY <3>1, <3>2
  <2>10. ASSUME NEW h \in Groups
         PROVE  /\ InHeap(h)' \cup pending'[h] = tail'[h] .. position'[h] - 1
                /\ InHeap(h)' \cap pending'[h] = {}
                /\ tail'[h] \notin pending'[h]
                /\ tail'[h] <= position'[h]
    <3>1. CASE h = g
      BY <2>1, <2>2, <2>7, <2>8, <3>1
    <3>2. CASE h # g
      BY <2>2, <2>9, <3>2 DEF RingAccounting
    <3> QED
      BY <3>1, <3>2
  <2> QED
    BY <2>10 DEF RingAccounting
<1>3. CASE extend
  <2>0. PICK r : r = ReadItem
    OBVIOUS
  <2>1. /\ heap' = heap \cup {r} /\ tail' = tail /\ pending' = pending
        /\ position' = [position EXCEPT ![current] = position[current] + 1]
        /\ r.group = current /\ r.pos = position[current] /\ current \in Groups
    BY <1>3, <2>0 DEF extend, ReadItem, Control, IInv
  <2>2. /\ position[current] \in Nat /\ tail[current] \in Nat
        /\ position'[current] = position[current] + 1
        /\ \A h \in Groups \ {current} : position'[h] = position[h]
    BY <1>0, <2>1 DEF TypeOK
  <2>3. InHeap(current)' = InHeap(current) \cup {position[current]}
    <3>1. current' = current
      BY <1>3 DEF extend
    <3>2. ASSUME NEW x \in InHeap(current)'
          PROVE  x \in InHeap(current) \cup {position[current]}
      BY <2>1, <3>1, <3>2 DEF InHeap
    <3>3. ASSUME NEW x \in InHeap(current) \cup {position[current]}
          PROVE  x \in InHeap(current)'
      BY <2>1, <3>1, <3>3 DEF InHeap
    <3> QED
      BY <3>2, <3>3
  <2>4. ASSUME NEW h \in Groups, h # current PROVE InHeap(h)' = InHeap(h)
    <3>1. ASSUME NEW x \in InHeap(h)' PROVE x \in InHeap(h)
      BY <2>1, <2>4, <3>1 DEF InHeap
    <3>2. ASSUME NEW x \in InHeap(h) PROVE x \in InHeap(h)'
      BY <2>1, <3>2 DEF InHeap
    <3> QED
      BY <3>1, <3>2
  <2>5. /\ InHeap(current) \cup pending[current]
             = tail[current] .. position[current] - 1
        /\ InHeap(current) \cap pending[current] = {}
        /\ tail[current] \notin pending[current]
    BY <2>1 DEF RingAccounting
  <2>6. PICK c : c = current
    OBVIOUS
  <2>7. ASSUME NEW h \in Groups
        PROVE  /\ InHeap(h)' \cup pending[h] = tail[h] .. position'[h] - 1
               /\ InHeap(h)' \cap pending[h] = {}
               /\ tail[h] \notin pending[h]
               /\ tail[h] <= position'[h]
    <3>1. CASE h = c
      <4>1. tail[current] <= position[current]
        BY <2>1
      <4>2. (tail[current] .. position[current] - 1) \cup {position[current]}
              = tail[current] .. position[current]
        BY <2>2, <4>1
      <4>3. position[current] \notin pending[current]
        BY <2>2, <2>5
      <4>4. (position[current] + 1) - 1 = position[current]
        BY <2>2
      <4>5. tail[current] <= position[current] + 1
        BY <2>2, <4>1
      <4>6. h = current /\ InHeap(h)' = InHeap(current)'
        BY <1>3, <2>6, <3>1 DEF extend
      <4> QED
        BY <2>2, <2>3, <2>5, <4>2, <4>3, <4>4, <4>5, <4>6
    <3>2. CASE h # c
      BY <2>2, <2>4, <2>6, <3>2 DEF RingAccounting
    <3> QED
      BY <3>1, <3>2
  <2> QED
    BY <2>1, <2>7 DEF RingAccounting
<1>4. CASE advance_round
  <2>1. /\ heap' = {Older(e) : e \in heap} /\ position' = position
        /\ tail' = tail /\ pending' = pending
    BY <1>4 DEF advance_round
  <2>2. \A e \in heap : Older(e).group = e.group /\ Older(e).pos = e.pos
    BY DEF Older
  <2>3. ASSUME NEW g \in Groups PROVE InHeap(g)' = InHeap(g)
    <3>1. ASSUME NEW x \in InHeap(g)' PROVE x \in InHeap(g)
      BY <2>1, <2>2, <3>1 DEF InHeap
    <3>2. ASSUME NEW x \in InHeap(g) PROVE x \in InHeap(g)'
      BY <2>1, <2>2, <3>2 DEF InHeap
    <3> QED
      BY <3>1, <3>2
  <2> QED
    BY <2>1, <2>3 DEF RingAccounting
<1>5. CASE Kernel \/ \E g \in Groups : open_process(g)
  BY <1>1, <1>5 DEF Kernel, Tick, Publish, Close, open_process, readVars
<1>6. CASE consume_events \/ begin_group \/ check_pending \/ end_of_iter
  BY <1>1, <1>6 DEF consume_events, begin_group, check_pending, end_of_iter, readVars
<1>7. CASE remove_members \/ wait \/ poll
  BY <1>1, <1>7 DEF remove_members, wait, poll, readVars
<1>8. CASE UNCHANGED vars
  BY <1>1, <1>8 DEF vars, readVars
<1> QED
  BY <1>2, <1>3, <1>4, <1>5, <1>6, <1>7, <1>8 DEF Next, Reader

\* The slots between tail and reading position are exactly the records in
\* the heap and the commits that wait, whatever the order of the drops.
THEOREM Accounting == Spec => []RingAccounting
<1>1. Init => AInv
  <2> SUFFICES ASSUME Init PROVE AInv
    OBVIOUS
  <2>1. \A g \in Groups : InHeap(g) = {}
    BY DEF Init, InHeap
  <2> QED
    BY <2>1 DEF Init, AInv, RingAccounting
<1>2. IInv /\ AInv /\ [Next]_vars => AInv'
  BY AccountingStep
<1>3. AInv => RingAccounting
  BY DEF AInv
<1> QED
  BY <1>1, <1>2, <1>3, Inductive, PTL DEF Spec
=============================================================================
