---------------------------- MODULE RecencyCache ----------------------------
(***************************************************************************)
(* What a set-associative cache promises, without ways, tags, orders or a  *)
(* clock: each set is a list of at most Assoc blocks, newest first.  Under *)
(* LRU a hit moves the block to the front, under FIFO it does not; a miss  *)
(* inserts the block at the front and, in a full set, drops the last block *)
(* (under random replacement, any block).                                  *)
(***************************************************************************)
EXTENDS Integers, Sequences

CONSTANTS NSets, Assoc, Policies, Blocks

VARIABLES
    repl,       \* the replacement policy
    list,       \* set |-> its blocks, newest first
    misses

rvars == <<repl, list, misses>>

Holds(seq) == {seq[i] : i \in DOMAIN seq}

\* The block comes to the front: the blocks before position i move back by one,
\* and what was at i is gone.
Front(seq, i, block) ==
    [j \in 1..(IF i > Len(seq) THEN i ELSE Len(seq)) |->
        IF j = 1 THEN block ELSE IF j <= i THEN seq[j-1] ELSE seq[j]]

\* The positions a miss may take: the next free one, or, in a full set, the last
\* (under random replacement, any).
Vacated(seq) ==
    IF Len(seq) < Assoc THEN {Len(seq) + 1}
    ELSE IF repl = "random" THEN DOMAIN seq ELSE {Len(seq)}

RHit(block) ==
    LET s == block % NSets
    IN  \E i \in DOMAIN list[s] :
            /\ list[s][i] = block
            /\ list' = IF repl = "lru"
                       THEN [list EXCEPT ![s] = Front(@, i, block)]
                       ELSE list
            /\ UNCHANGED <<repl, misses>>

RMiss(block) ==
    LET s == block % NSets
    IN  /\ block \notin Holds(list[s])
        /\ misses' = misses + 1
        /\ \E i \in Vacated(list[s]) :
               list' = [list EXCEPT ![s] = Front(@, i, block)]
        /\ UNCHANGED repl

RInit ==
    /\ repl \in Policies
    /\ list = [s \in 0..NSets-1 |-> <<>>]
    /\ misses = 0

RNext == \E block \in Blocks : RHit(block) \/ RMiss(block)

RSpec == RInit /\ [][RNext]_rvars
=============================================================================
