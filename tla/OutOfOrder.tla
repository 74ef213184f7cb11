----------------------------- MODULE OutOfOrder -----------------------------
(***************************************************************************)
(* pipe_run_ooo (pipe_sim.c): the Tomasulo-style timing model.  Every      *)
(* instruction, in program order, is given a dispatch, an execution and a  *)
(* commit cycle.  Renaming is implicit: reg_ready[s] is the completion     *)
(* cycle of the latest producer of slot s.  rob is the circular array of   *)
(* commit cycles that makes dispatch wait for a free reorder-buffer slot.  *)
(*                                                                         *)
(* One step is one iteration of the for loop, as in module Superscalar.    *)
(***************************************************************************)
EXTENDS Isa, Naturals

CONSTANTS
    Width,          \* dispatch and commit ports, at least 1
    RobSize,        \* reorder-buffer entries, at least 1
    InOrder,        \* in_order
    Predictor,      \* cfg.bp # BP_NONE
    GenLimit        \* GEN_LIMIT

VARIABLES
    count, done,              \* Gen
    reg_ready, rob,
    disp_cycle, disp_count,   \* current dispatch cycle and its population
    com_cycle, com_count,     \* current commit cycle and its population
    fetch_block, last_exec, last_commit

schedVars == <<reg_ready, rob, disp_cycle, disp_count, com_cycle, com_count,
               fetch_block, last_exec, last_commit>>
vars == <<count, done, schedVars>>

Init ==
    /\ count = 0 /\ done = FALSE
    /\ reg_ready = [s \in Slot |-> 0]
    /\ rob = [k \in 0..RobSize-1 |-> 0]
    /\ disp_cycle = 1 /\ disp_count = 0
    /\ com_cycle = 1 /\ com_count = 0
    /\ fetch_block = 0 /\ last_exec = 0 /\ last_commit = 0

\* The latest of a finite set of cycles.
IsLatest(c, S) == c \in S /\ \A b \in S : b <= c

\* Mutant: a ROB slot can be reused only one entry late.
slot_free_late == IF count > RobSize THEN {rob[count % RobSize] + 1} ELSE {}

\* The cycle after the commit of the instruction RobSize older.
slot_free == IF count >= RobSize THEN {rob[count % RobSize] + 1} ELSE {}

\* In order, Width per cycle, after a redirect and into a free ROB slot.
dispatchBounds ==
    {IF disp_count < Width THEN disp_cycle ELSE disp_cycle + 1, fetch_block}
        \cup slot_free

\* When dispatched and the operands are there; in order, also not before the
\* previous instruction's execution.
executeBounds(d, disp) ==
    {disp} \cup {reg_ready[s] : s \in d.reads}
           \cup (IF InOrder THEN {last_exec} ELSE {})

\* Mutant: a full commit cycle is followed by idle ones.
commitBoundsIdle(complete) ==
    {IF com_count < Width THEN com_cycle ELSE com_cycle + Width, complete}

\* In order, Width per cycle, after completion.
commitBounds(complete) ==
    {IF com_count < Width THEN com_cycle ELSE com_cycle + 1, complete}

Dispatch(disp) ==
    IF disp = disp_cycle /\ disp_count < Width
    THEN disp_cycle' = disp_cycle /\ disp_count' = disp_count + 1
    ELSE disp_cycle' = disp /\ disp_count' = 1

\* Mutant: results are forwarded a cycle after execution starts.
ExecuteIgnoresLatency(d, pen, exec) ==
    /\ last_exec' = exec
    /\ reg_ready' = [s \in Slot |->
            IF s \in d.writes \/ (d.sets_flags /\ s = FLAG_REG)
            THEN exec + 1 ELSE reg_ready[s]]
    /\ fetch_block' = IF pen > 0 THEN exec + pen ELSE fetch_block

\* Mutant: out of order, a result is broadcast a cycle after it completes.
ExecuteLateBroadcast(d, pen, exec) ==
    /\ last_exec' = exec
    /\ reg_ready' = [s \in Slot |->
            IF s \in d.writes \/ (d.sets_flags /\ s = FLAG_REG)
            THEN exec + d.latency + (IF InOrder THEN 0 ELSE 1) ELSE reg_ready[s]]
    /\ fetch_block' = IF pen > 0 THEN exec + pen ELSE fetch_block

Execute(d, pen, exec) ==
    /\ last_exec' = exec
    /\ reg_ready' = [s \in Slot |->
            IF s \in d.writes \/ (d.sets_flags /\ s = FLAG_REG)
            THEN exec + d.latency ELSE reg_ready[s]]
    /\ fetch_block' = IF pen > 0 THEN exec + pen ELSE fetch_block

Commit(commit) ==
    /\ IF commit = com_cycle /\ com_count < Width
       THEN com_cycle' = com_cycle /\ com_count' = com_count + 1
       ELSE com_cycle' = commit /\ com_count' = 1
    /\ rob' = [rob EXCEPT ![count % RobSize] = commit]
    /\ last_commit' = commit

Schedule(d, pen) ==
    \E disp \in dispatchBounds :
      \E exec \in executeBounds(d, disp) :
        \E commit \in commitBounds(exec + d.latency) :
          /\ IsLatest(disp, dispatchBounds)
          /\ IsLatest(exec, executeBounds(d, disp))
          /\ IsLatest(commit, commitBounds(exec + d.latency))
          /\ Dispatch(disp)
          /\ Execute(d, pen, exec)
          /\ Commit(commit)

\* One iteration for the step s of the reference CPU.
Issue(s, pen) ==
    /\ ~done
    /\ count' = count + 1
    /\ done' = (s.halts \/ count + 1 >= GenLimit)
    /\ Schedule(s.info, pen)

Next == \E s \in CpuSteps : \E pen \in Penalties(Predictor, s.info) : Issue(s, pen)

Spec == Init /\ [][Next]_vars

\* st.cycles
Cycles == last_commit
=============================================================================
