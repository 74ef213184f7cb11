------------------------------- MODULE Cache -------------------------------
(***************************************************************************)
(* The set-associative cache model (cache.c).  A block number stands for   *)
(* addr / block_bytes; the block maps to set block % nsets and is          *)
(* recognised by the tag block / nsets.  Each way holds a valid bit, a tag *)
(* and an order: the value of the clock when the block was inserted, or,   *)
(* under LRU, last used.                                                   *)
(*                                                                         *)
(* The one operation is cache_access; the blocks accessed are arbitrary.   *)
(***************************************************************************)
EXTENDS Integers, FiniteSets

CONSTANTS
    NSets, Assoc,       \* size_bytes / (block_bytes * assoc), and assoc
    Policies,           \* the replacement policies cfg.repl is taken from
    Blocks,             \* the block numbers the program touches
    MaxAccesses         \* bound on the number of accesses

ASSUME CacheAssumption ==
    /\ NSets \in Nat \ {0} /\ Assoc \in Nat \ {0}
    /\ Policies \subseteq {"lru", "fifo", "random"}
    /\ Blocks \subseteq Nat
    /\ MaxAccesses \in Nat

VARIABLES
    repl,                   \* cfg.repl
    valid, tag, order,      \* one per line: set |-> way |-> ...
    clock, accesses, misses,
    touched                 \* history: the blocks ever accessed

vars == <<repl, valid, tag, order, clock, accesses, misses, touched>>

Sets == 0..NSets-1
Ways == 0..Assoc-1

SetOf(block) == block % NSets
TagOf(block) == block \div NSets

\* The ways that hit.  The scan returns the first; a second one would break
\* CacheRefinement!RefinesRecency.
Hits(block) ==
    {w \in Ways : valid[SetOf(block)][w] /\ tag[SetOf(block)][w] = TagOf(block)}

Cached(block) == Hits(block) # {}

\* Mutant: always evicts the first way.
pick_victimFirst(set) == {0}

\* Mutant: evicts the largest order.
pick_victimNewest(set) ==
    LET empty == {w \in Ways : ~valid[set][w]}
    IN  IF empty # {} THEN {w \in empty : \A v \in empty : w <= v}
        ELSE {w \in Ways : \A v \in Ways : order[set][v] <= order[set][w]}

\* The first empty way; otherwise any way (random replacement) or the first of
\* those with the smallest order.
pick_victim(set) ==
    LET empty == {w \in Ways : ~valid[set][w]}
        oldest == {w \in Ways : \A v \in Ways : order[set][w] <= order[set][v]}
    IN  IF empty # {} THEN {w \in empty : \A v \in empty : w <= v}
        ELSE IF repl = "random" THEN Ways
        ELSE {w \in oldest : \A v \in oldest : w <= v}

Count == accesses < MaxAccesses /\ accesses' = accesses + 1

\* Mutant: a hit does not renew the stamp.
HitUnstamped(block, w) ==
    /\ Count
    /\ w \in Hits(block) /\ \A v \in Hits(block) : w <= v
    /\ touched' = touched \cup {block}
    /\ UNCHANGED <<repl, valid, tag, misses, clock, order>>

\* cache_access, finding the block in way w.
Hit(block, w) ==
    /\ Count
    /\ w \in Hits(block) /\ \A v \in Hits(block) : w <= v
    /\ IF repl = "lru"
       THEN /\ clock' = clock + 1
            /\ order' = [order EXCEPT ![SetOf(block)][w] = clock + 1]
       ELSE UNCHANGED <<clock, order>>
    /\ touched' = touched \cup {block}
    /\ UNCHANGED <<repl, valid, tag, misses>>

\* cache_access, replacing way w.
Miss(block, w) ==
    /\ Count
    /\ ~Cached(block)
    /\ misses' = misses + 1
    /\ w \in pick_victim(SetOf(block))
    /\ valid' = [valid EXCEPT ![SetOf(block)][w] = TRUE]
    /\ tag' = [tag EXCEPT ![SetOf(block)][w] = TagOf(block)]
    /\ order' = [order EXCEPT ![SetOf(block)][w] = clock + 1]
    /\ clock' = clock + 1
    /\ touched' = touched \cup {block}
    /\ UNCHANGED repl

cache_access(block) == \E w \in Ways : Hit(block, w) \/ Miss(block, w)

Init ==
    /\ repl \in Policies
    /\ valid = [s \in Sets |-> [w \in Ways |-> FALSE]]
    /\ tag = [s \in Sets |-> [w \in Ways |-> 0]]
    /\ order = [s \in Sets |-> [w \in Ways |-> 0]]
    /\ clock = 0 /\ accesses = 0 /\ misses = 0
    /\ touched = {}

Next == \E block \in Blocks : cache_access(block)

Spec == Init /\ [][Next]_vars

-----------------------------------------------------------------------------
(* Properties *)

\* The block a valid way of a set holds.
BlockAt(set, w) == tag[set][w] * NSets + set

Resident == {block \in Blocks : Cached(block)}

InSet(set, S) == {block \in S : SetOf(block) = set}

\* The far side of the capacity cliff: while the blocks touched fit, each set's
\* share in its ways, nothing is ever evicted and every miss is compulsory.
CompulsoryOnly ==
    (\A s \in Sets : Cardinality(InSet(s, touched)) <= Assoc) =>
        misses = Cardinality(touched) /\ Resident = touched
=============================================================================
