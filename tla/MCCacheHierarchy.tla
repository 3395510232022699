---------------------------- MODULE MCCacheHierarchy ----------------------------
EXTENDS CacheHierarchy

Size(i, d, two) == [c \in Caches |-> CASE c = "L1I" -> i [] c = "L1D" -> d [] c = "L2" -> two]

One == Size(1, 1, 1)
TwoInL2 == Size(1, 1, 2)
TwoInL1D == Size(1, 2, 2)
Slow == Size(1, 2, 2)
TwoLines == {0, 1}
ThreeLines == {0, 1, 2}

Req(p, l, n) == [port |-> p, load |-> l, line |-> n]

DataRequests == {Req("L1D", l, n) : l \in BOOLEAN, n \in Lines}
MixedRequests == DataRequests \cup {Req("L1I", TRUE, n) : n \in {0}}
                    \cup {Req("DMA", l, 0) : l \in BOOLEAN}

=============================================================================
