---------------------------- MODULE FunctionalCache ----------------------------
(***************************************************************************)
(* One set of the functional cache (src/mem/FunctionalCache.cpp): the tags *)
(* it holds, in LRU order, without data.  The code keeps a doubly linked   *)
(* list from head (most recently used) to tail, a pool of free entries,    *)
(* and addr_map from tag to entry.  Here a set is the sequence of the list *)
(* from head to tail; the free entries are the ways it does not use; and   *)
(* an entry is mapped when addr_map leads to it.                           *)
(*                                                                         *)
(* insert does not look whether the line is already there (the assertion   *)
(* that would is commented out), so a line may occupy two entries, of      *)
(* which only the newer is mapped; and evicting the older one then erases  *)
(* the newer one's mapping.  Both are modelled.                            *)
(***************************************************************************)
EXTENDS Integers, Sequences, SequencesExt

Entry(line, dirty) == [line |-> line, dirty |-> dirty, mapped |-> TRUE]

MappedAt(set, line) == {i \in 1 .. Len(set) : set[i].line = line /\ set[i].mapped}

present(set, line) == MappedAt(set, line) # {}

\* addr_map.erase(line)
Unmapped(set, line) ==
    [i \in 1 .. Len(set) |->
        IF set[i].line = line THEN [set[i] EXCEPT !.mapped = FALSE] ELSE set[i]]

\* CacheSet::access on a hit: move to the front, and a store makes it dirty.
access(set, line, isLoad) ==
    IF ~present(set, line) THEN set
    ELSE LET i == CHOOSE j \in MappedAt(set, line) : TRUE
         IN <<[set[i] EXCEPT !.dirty = @ \/ ~isLoad]>> \o RemoveAt(set, i)

\* The entry CacheSet::insert takes away when no entry is free: the tail.
Victims(set, ways) == IF Len(set) < ways THEN <<>> ELSE <<Last(set)>>

\* What insert does to the rest of the set.
Surviving(set, ways) ==
    IF Len(set) < ways THEN set ELSE Unmapped(Front(set), Last(set).line)

insert(set, line, isLoad, ways) ==
    <<Entry(line, ~isLoad)>> \o Unmapped(Surviving(set, ways), line)

\* Cache::invalidate with CacheSet::invalidate: what is left, and the dirty bit.
invalidate(set, line) ==
    IF ~present(set, line) THEN set
    ELSE RemoveAt(set, CHOOSE j \in MappedAt(set, line) : TRUE)

DirtyIn(set, line) == \E i \in MappedAt(set, line) : set[i].dirty

=============================================================================
