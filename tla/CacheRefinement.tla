-------------------------- MODULE CacheRefinement --------------------------
(***************************************************************************)
(* cache.c implements RecencyCache: the blocks of a set, sorted by         *)
(* decreasing order stamp, are the abstract list.                          *)
(***************************************************************************)
EXTENDS Cache

ValidWays(set) == {w \in Ways : valid[set][w]}

\* The number of valid ways with a stamp not older than that of w.
Rank(set, w) == Cardinality({v \in ValidWays(set) : order[set][v] >= order[set][w]})

\* The blocks of a set, newest stamp first.
ListOf(set) ==
    [i \in 1..Cardinality(ValidWays(set)) |->
        BlockAt(set, CHOOSE w \in ValidWays(set) : Rank(set, w) = i)]

Recency == INSTANCE RecencyCache WITH list <- [s \in Sets |-> ListOf(s)]

\* Every access of cache.c is an access of the abstract cache: hits and misses
\* are those of an LRU (FIFO, random) set, for every replacement decision
\* taken from stamps, and misses counts exactly the abstract misses.
RefinesRecency == Recency!RSpec
=============================================================================
