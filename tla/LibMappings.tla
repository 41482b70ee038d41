----------------------------- MODULE LibMappings ------------------------------
(***************************************************************************)
(* LibMappings (fxprof-processed-profile/src/lib_mappings.rs): the         *)
(* libraries and JIT functions mapped into an address space, and the       *)
(* queued operations on it (samply/src/shared/lib_mappings.rs).            *)
(*                                                                         *)
(* The BTreeMap is the set of its values.  An Option is a set of at most   *)
(* one element.                                                            *)
(***************************************************************************)
EXTENDS Integers, Sequences, SequencesExt

Address == Nat

\* A Mapping<T>: start_avma, end_avma, relative_address_at_start and value.
IsMapping(m) == m.start \in Address /\ m.end \in Address /\ m.start <= m.end

\* The mappings that start at or before avma, and the last of them.
StartingUpTo(map, avma) == {m \in map : m.start <= avma}
LastStartingUpTo(map, avma) ==
  {m \in StartingUpTo(map, avma) : \A n \in StartingUpTo(map, avma) : n.start <= m.start}

lookup_impl(map, avma) == {m \in LastStartingUpTo(map, avma) : avma < m.end}

\* removal_avma_range_start
RemovalStart(map, start) ==
  LET overlapping == lookup_impl(map, start)
  IN  IF overlapping = {} THEN start ELSE (CHOOSE m \in overlapping : TRUE).start

\* BTreeMap::insert replaces what has the same key.
Insert(map, new) == {m \in map : m.start # new.start} \cup {new}

add_mapping(map, new) ==
  LET from == RemovalStart(map, new.start)
  IN  Insert({m \in map : ~(from <= m.start /\ m.start < new.end)}, new)

Removed(map, start) == {m \in map : m.start = start}

remove_mapping(map, start) == map \ Removed(map, start)

\* The relative address of avma, and the mapping's value.
convert_address(map, avma) ==
  {[rel |-> m.rel + (avma - m.start), value |-> m.value] : m \in lookup_impl(map, avma)}

-----------------------------------------------------------------------------
(* LibMappingOp                                                            *)

Add(mapping)           == [op |-> "Add", mapping |-> mapping]
Move(old, start, end)  == [op |-> "Move", old |-> old, start |-> start, end |-> end]
RemoveMapping(start)   == [op |-> "Remove", start |-> start]
Clear                  == [op |-> "Clear"]

apply_to(map, op) ==
  CASE op.op = "Add"    -> add_mapping(map, op.mapping)
    [] op.op = "Move"   -> LET moved == Removed(map, op.old)
                               m     == CHOOSE n \in moved : TRUE
                           IN  IF moved = {} THEN map
                               ELSE add_mapping(remove_mapping(map, op.old),
                                      [start |-> op.start, end |-> op.end,
                                       rel |-> m.rel, value |-> m.value])
    [] op.op = "Remove" -> remove_mapping(map, op.start)
    [] op.op = "Clear"  -> {}

\* A LibMappingOpQueue is a sequence of [time, op] in the order of the pushes.
\* next_op_if_at_or_before stops at the first op that is later.  How many ops
\* have been applied when k were before, and the mappings they result in.
Applied(queue, k, timestamp) ==
  LET later == {i \in k + 1 .. Len(queue) : queue[i].time > timestamp}
  IN  IF later = {} THEN Len(queue)
      ELSE (CHOOSE i \in later : \A j \in later : i <= j) - 1

MappingsAfter(queue, k) ==
  FoldLeft(LAMBDA map, e : apply_to(map, e.op), {}, SubSeq(queue, 1, k))

-----------------------------------------------------------------------------
(* "A BTreeMap of non-overlapping Mappings": no mapping starts inside      *)
(* another one.                                                            *)
NonOverlapping(map) ==
  \A m, n \in map : m # n => ~(m.start <= n.start /\ n.start < m.end) /\ m.start # n.start
=============================================================================
