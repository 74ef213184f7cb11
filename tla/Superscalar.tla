---------------------------- MODULE Superscalar ----------------------------
(***************************************************************************)
(* pipe_run_ss (pipe_sim.c): the in-order superscalar issue model.  Every  *)
(* instruction is given a fetch cycle iff; up to Width instructions share  *)
(* a cycle; ready[s] is the first cycle in which an instruction that reads *)
(* slot s may execute, two cycles after its fetch.                         *)
(*                                                                         *)
(* One step is one iteration of the for loop: gen_ensure produces the      *)
(* instruction (any member of CpuSteps) and the loop body places it.  The  *)
(* loop reads the generator's ring only at the instruction just produced.  *)
(***************************************************************************)
EXTENDS Isa, Naturals

CONSTANTS
    Width,          \* instructions per cycle, at least 1
    Forwarding,     \* cfg.forwarding
    Predictor,      \* cfg.bp # BP_NONE
    GenLimit        \* GEN_LIMIT

VARIABLES
    count, done,    \* Gen
    ready,          \* slot |-> the cycle from which its value can be used
    cur_if,         \* fetch cycle of the current bundle
    cur_count,      \* instructions in it
    fetch_block,    \* no fetch before this cycle: the last redirect
    last_if         \* fetch cycle of the last instruction

schedVars == <<ready, cur_if, cur_count, fetch_block, last_if>>
vars == <<count, done, schedVars>>

Init ==
    /\ count = 0 /\ done = FALSE
    /\ ready = [s \in Slot |-> 0]
    /\ cur_if = 0 /\ cur_count = 0 /\ fetch_block = 0 /\ last_if = 0

\* Mutant: the last place of a bundle is never taken.
earliestLeavesRoom ==
    IF count = 0 THEN 1 ELSE IF cur_count + 1 < Width THEN cur_if ELSE cur_if + 1

\* The first cycle with room in a bundle.
earliest ==
    IF count = 0 THEN 1 ELSE IF cur_count < Width THEN cur_if ELSE cur_if + 1

\* Mutant: a redirect does not hold back the next fetch.
lowerBoundsNoBlock(d) == {earliest} \cup {ready[s] - 2 : s \in d.reads}

\* Everything the fetch cycle of d must not precede: room in a bundle, the
\* last redirect, and each operand, which must be ready by EX (iff + 2).
lowerBounds(d) ==
    {earliest, fetch_block} \cup {ready[s] - 2 : s \in d.reads}

\* Mutant: a load is charged a second wait with forwarding.
resultReadySlowLoad(d, iff) ==
    IF Forwarding THEN (IF d.is_load THEN iff + 6 ELSE iff + 3) ELSE iff + 5

\* When the result of d, fetched in cycle iff, can be used.
resultReady(d, iff) ==
    IF Forwarding THEN (IF d.is_load THEN iff + 4 ELSE iff + 3) ELSE iff + 5
flagsReady(iff) == IF Forwarding THEN iff + 3 ELSE iff + 5

\* The loop body, for an instruction that belongs in cycle iff.
Place(d, pen, iff) ==
    /\ IF iff = cur_if /\ cur_count < Width
       THEN cur_if' = cur_if /\ cur_count' = cur_count + 1
       ELSE cur_if' = iff /\ cur_count' = 1
    /\ ready' = [s \in Slot |->
            IF d.sets_flags /\ s = FLAG_REG THEN flagsReady(iff)
            ELSE IF s \in d.writes THEN resultReady(d, iff)
            ELSE ready[s]]
    /\ fetch_block' = IF pen > 0 THEN iff + 1 + pen ELSE fetch_block
    /\ last_if' = iff

\* iff is the latest of the lower bounds.
Schedule(d, pen) ==
    \E iff \in lowerBounds(d) :
        /\ \A b \in lowerBounds(d) : b <= iff
        /\ Place(d, pen, iff)

\* One iteration for the step s of the reference CPU.
Issue(s, pen) ==
    /\ ~done
    /\ count' = count + 1
    /\ done' = (s.halts \/ count + 1 >= GenLimit)
    /\ Schedule(s.info, pen)

Next == \E s \in CpuSteps : \E pen \in Penalties(Predictor, s.info) : Issue(s, pen)

Spec == Init /\ [][Next]_vars

\* st.cycles
Cycles == IF count > 0 THEN last_if + 4 ELSE 0
=============================================================================
