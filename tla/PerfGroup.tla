------------------------------ MODULE PerfGroup ------------------------------
(***************************************************************************)
(* The reading side of a live Linux recording: the perf ring buffers       *)
(* (samply/src/linux/perf_event.rs), the incremental sorter that merges    *)
(* them (linux/sorter.rs), and the loop that drives both                   *)
(* (linux/perf_group.rs: wait and consume_events).  The kernel fills the   *)
(* buffers while the loop reads them.                                      *)
(*                                                                         *)
(* A ring is the sequence of the timestamps of everything ever published   *)
(* in it.  Positions count records, not bytes: ring[g][p + 1] is the       *)
(* record at position p.  The heap holds an item's age, the number of      *)
(* rounds begun since it was read, instead of the number of its round.     *)
(***************************************************************************)
EXTENDS Integers, Sequences

CONSTANTS Groups,     \* the fds of the perf events, one ring buffer each
          Size,       \* records that fit into a ring buffer
          MaxTime,    \* bound: the last timestamp
          MaxRecords  \* bound: records published in one ring

ASSUME PerfGroupAssumption ==
  /\ Groups \subseteq Nat \ {0}
  /\ Size \in Nat \ {0}
  /\ MaxTime \in Nat
  /\ MaxRecords \in Nat

VARIABLES
  \* the kernel's side
  clock,     \* the time
  ring,      \* group -> timestamps of the published records; head is its Len
  closed,    \* groups whose processes have all exited
  \* shared with the kernel
  tail,      \* group -> data_tail
  \* PerfGroup and Perf
  opened,    \* groups opened so far
  members,   \* the keys of members
  isClosed,  \* members whose is_closed flag is set
  position,  \* group -> the position of the next record to read
  pending,   \* group -> from positions of pending_commits
  toRemove,  \* fds_to_remove
  \* EventSorter
  heap,      \* items [group, age, key, pos]
  current,   \* current_group, 0 for None
  \* where the recording thread is, and the last timestamp it handed on
  pc,
  lastKey

kernelVars == <<clock, ring, closed>>
readVars   == <<tail, position, pending, heap>>
groupVars  == <<opened, members, isClosed, toRemove>>
vars == <<kernelVars, readVars, groupVars, current, pc, lastKey>>

DataHead(g) == Len(ring[g])
Items == [group : Groups, age : Nat, key : Nat, pos : Nat]

TypeOK ==
  /\ clock \in Nat
  /\ ring \in [Groups -> Seq(Nat)]
  /\ closed \subseteq Groups
  /\ tail \in [Groups -> Nat]
  /\ opened \subseteq Groups
  /\ members \subseteq opened
  /\ isClosed \subseteq closed
  /\ position \in [Groups -> Nat]
  /\ pending \in [Groups -> SUBSET Nat]
  /\ toRemove \subseteq isClosed
  /\ heap \subseteq Items
  /\ current \in Groups \cup {0}
  /\ pc \in {"idle", "group", "pop", "read", "flush", "wait", "poll"}
  /\ lastKey \in Nat

Init ==
  /\ clock = 0
  /\ ring = [g \in Groups |-> <<>>]
  /\ closed = {}
  /\ tail = [g \in Groups |-> 0]
  /\ opened = {}
  /\ members = {}
  /\ isClosed = {}
  /\ position = [g \in Groups |-> 0]
  /\ pending = [g \in Groups |-> {}]
  /\ toRemove = {}
  /\ heap = {}
  /\ current = 0
  /\ pc = "idle"
  /\ lastKey = 0

-----------------------------------------------------------------------------
(* The kernel.  It stamps and publishes a record in one step, so that      *)
(* every ring is in time order and no ring lags behind another: this is    *)
(* what "sure that nothing earlier can arrive" rests on.  A record that    *)
(* finds the ring full is lost and changes nothing here.                   *)

Tick ==
  /\ clock < MaxTime
  /\ clock' = clock + 1
  /\ UNCHANGED <<ring, closed, readVars, groupVars, current, pc, lastKey>>

Publish(g) ==
  /\ g \in opened \ closed
  /\ DataHead(g) - tail[g] < Size
  /\ DataHead(g) < MaxRecords
  /\ ring' = [ring EXCEPT ![g] = Append(@, clock)]
  /\ UNCHANGED <<clock, closed, readVars, groupVars, current, pc, lastKey>>

Close(g) ==
  /\ g \in opened \ closed
  /\ closed' = closed \cup {g}
  /\ UNCHANGED <<clock, ring, readVars, groupVars, current, pc, lastKey>>

-----------------------------------------------------------------------------
(* EventRefState                                                           *)

\* A slip: the tail follows every drop.
try_commit_in_any_order(g, from) ==
  /\ tail' = [tail EXCEPT ![g] = from + 1]
  /\ UNCHANGED pending

\* The tail moves over the contiguous commits; the others wait.
try_commit(g, from) ==
  LET commits == pending[g] \cup {from}
  IN  \E to \in tail[g] .. position[g] :
        /\ tail[g] .. to - 1 \subseteq commits
        /\ to \notin commits
        /\ tail' = [tail EXCEPT ![g] = to]
        /\ pending' = [pending EXCEPT ![g] = commits \ (tail[g] .. to - 1)]

are_events_pending(g) == DataHead(g) # position[g]

-----------------------------------------------------------------------------
(* EventSorter                                                             *)

\* The heap's order looks at the key only: any item with the least key may
\* be on top.
OnTop(e) == e \in heap /\ \A f \in heap : e.key <= f.key

\* A slip: an item is released within the round that read it.
Releasable_one_round_early(e) == e.age >= 1 \/ e.group <= current

\* Not (event.round + 1, Some(group)) > (round, current_group).
Releasable(e) == e.age >= 2 \/ (e.age = 1 /\ e.group <= current)

\* pop returns an event, which the callback handles and drops.
pop(e) ==
  /\ pc \in {"pop", "flush"}
  /\ OnTop(e)
  /\ Releasable(e)
  /\ heap' = heap \ {e}
  /\ lastKey' = e.key
  /\ try_commit(e.group, e.pos)
  /\ UNCHANGED <<kernelVars, position, groupVars, current, pc>>

PopReturnsNone == heap = {} \/ \E e \in heap : OnTop(e) /\ ~Releasable(e)

-----------------------------------------------------------------------------
(* PerfGroup                                                               *)

open_process(g) ==
  /\ pc = "idle"
  /\ g \in Groups \ opened
  /\ opened' = opened \cup {g}
  /\ members' = members \cup {g}
  /\ UNCHANGED <<kernelVars, readVars, isClosed, toRemove, current, pc, lastKey>>

consume_events ==
  /\ pc = "idle"
  /\ pc' = "group"
  /\ UNCHANGED <<kernelVars, readVars, groupVars, current, lastKey>>

\* members is a BTreeMap: the next member is the one with the next larger fd.
NextMembers == {g \in members : g > current}

begin_group ==
  /\ pc = "group"
  /\ \E g \in NextMembers :
       /\ \A h \in NextMembers : g <= h
       /\ current' = g
  /\ pc' = "pop"
  /\ UNCHANGED <<kernelVars, readVars, groupVars, lastKey>>

\* A slip: a closed member is dropped without a look at its ring.
check_pending_after_closed ==
  /\ pc = "pop"
  /\ PopReturnsNone
  /\ toRemove' = toRemove \cup ({current} \cap isClosed)
  /\ pc' = IF current \notin isClosed /\ are_events_pending(current)
           THEN "read" ELSE "group"
  /\ UNCHANGED <<kernelVars, readVars, opened, members, isClosed, current, lastKey>>

check_pending ==
  /\ pc = "pop"
  /\ PopReturnsNone
  /\ toRemove' = IF are_events_pending(current) THEN toRemove
                 ELSE toRemove \cup ({current} \cap isClosed)
  /\ pc' = IF are_events_pending(current) THEN "read" ELSE "group"
  /\ UNCHANGED <<kernelVars, readVars, opened, members, isClosed, current, lastKey>>

\* EventIter::next looks at the head again for every record.
extend ==
  /\ pc = "read"
  /\ are_events_pending(current)
  /\ heap' = heap \cup {[group |-> current, age |-> 0,
                         key |-> ring[current][position[current] + 1],
                         pos |-> position[current]]}
  /\ position' = [position EXCEPT ![current] = @ + 1]
  /\ UNCHANGED <<kernelVars, tail, pending, groupVars, current, pc, lastKey>>

end_of_iter ==
  /\ pc = "read"
  /\ ~are_events_pending(current)
  /\ pc' = "group"
  /\ UNCHANGED <<kernelVars, readVars, groupVars, current, lastKey>>

Older(e) == [group |-> e.group, age |-> e.age + 1, key |-> e.key, pos |-> e.pos]

\* A slip: only current_group is reset.
advance_round_keeps_round ==
  /\ pc = "group"
  /\ NextMembers = {}
  /\ current' = 0
  /\ pc' = "flush"
  /\ UNCHANGED <<kernelVars, readVars, groupVars, lastKey>>

advance_round ==
  /\ pc = "group"
  /\ NextMembers = {}
  /\ heap' = {Older(e) : e \in heap}
  /\ current' = 0
  /\ pc' = "flush"
  /\ UNCHANGED <<kernelVars, tail, position, pending, groupVars, lastKey>>

\* Deregistering some of the fds may fail; their members stay.
remove_members ==
  /\ pc = "flush"
  /\ PopReturnsNone
  /\ \E failed \in SUBSET toRemove :
       members' = members \ (toRemove \ failed)
  /\ toRemove' = {}
  /\ pc' = IF heap = {} THEN "wait" ELSE "group"
  /\ UNCHANGED <<kernelVars, readVars, opened, isClosed, current, lastKey>>

\* wait returns at once if it sees records.  The kernel may publish more, and
\* close the ring, between this look and the call of poll.
wait ==
  /\ pc = "wait"
  /\ pc' = IF \E g \in members : are_events_pending(g) THEN "idle" ELSE "poll"
  /\ UNCHANGED <<kernelVars, readVars, groupVars, current, lastKey>>

\* poll reports some of the rings that were closed, or fails, or times out.
poll ==
  /\ pc = "poll"
  /\ \E hup \in SUBSET (members \cap closed) :
       isClosed' = isClosed \cup hup
  /\ pc' = "idle"
  /\ UNCHANGED <<kernelVars, readVars, opened, members, toRemove, current, lastKey>>

-----------------------------------------------------------------------------
Kernel == Tick \/ \E g \in Groups : Publish(g) \/ Close(g)

Reader ==
  \/ \E e \in heap : pop(e)
  \/ consume_events \/ begin_group \/ check_pending \/ extend
  \/ end_of_iter \/ advance_round \/ remove_members \/ wait \/ poll

Next == Kernel \/ Reader \/ \E g \in Groups : open_process(g)

Spec == Init /\ [][Next]_vars

\* The recording thread is never stopped for good; nothing is asked of the
\* kernel, or of the user who starts processes.
FairSpec == Spec /\ WF_vars(Reader)

-----------------------------------------------------------------------------
(* The callback sees the records of all rings in time order, although each *)
(* ring is read at a different time and is filled while it is read         *)
(* (sorter.rs: "Once we are sure that nothing earlier than the first event *)
(* in the buffer can arrive, we release it for consumption").              *)
OutputSorted == [][lastKey' >= lastKey]_lastKey

InHeap(g) == {e.pos : e \in {f \in heap : f.group = g}}

(* Between the tail and the reading position lies exactly what is still in *)
(* the heap or waits to be committed: the kernel is never given a slot     *)
(* whose record is still to be used, no record is used twice, and no slot  *)
(* is kept from the kernel for good, although records with equal           *)
(* timestamps are dropped out of order (perf_event.rs: try_commit).        *)
RingAccounting ==
  \A g \in Groups :
    /\ InHeap(g) \cup pending[g] = tail[g] .. position[g] - 1
    /\ InHeap(g) \cap pending[g] = {}
    /\ tail[g] \notin pending[g]

(* A closed ring is read to its end before its member is dropped           *)
(* (perf_group.rs: fds_to_remove).                                         *)
RemovedRingsAreDrained ==
  \A g \in opened \ members : ~are_events_pending(g)

(* consume_events does not give up or spin while records are in its hands: *)
(* once the kernel is quiet, everything it published is handed on.         *)
EverythingDelivered ==
  <>[](heap = {} /\ \A g \in opened : ~are_events_pending(g))
=============================================================================
