--------------------------- MODULE CacheInclusion ---------------------------
(***************************************************************************)
(* Two caches of cache.c with the same number of sets, over the same       *)
(* accesses, one with more ways than the other.  That the added capacity   *)
(* never costs a miss is LRU's inclusion property.                         *)
(***************************************************************************)
EXTENDS CacheRefinement

CONSTANT MoreAssoc

ASSUME MoreAssumption == MoreAssoc \in Nat /\ Assoc <= MoreAssoc

VARIABLES l_valid, l_tag, l_order, l_clock, l_misses

Larger == INSTANCE Cache WITH
    Assoc <- MoreAssoc, valid <- l_valid, tag <- l_tag, order <- l_order,
    clock <- l_clock, misses <- l_misses

IInit == Init /\ Larger!Init

INext == \E block \in Blocks :
             cache_access(block) /\ Larger!cache_access(block)

ISpec == IInit /\ [][INext]_<<vars, l_valid, l_tag, l_order, l_clock, l_misses>>

\* Under LRU whatever the smaller cache holds the larger one holds too, so more
\* ways never cost a miss.
LruInclusion ==
    repl = "lru" =>
        /\ Resident \subseteq Larger!Resident
        /\ l_misses <= misses
=============================================================================
