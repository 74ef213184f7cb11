---------------------------- MODULE OooDominance ----------------------------
(***************************************************************************)
(* Two configurations of pipe_run_ooo over the program of IssueDominance   *)
(* and with the same reorder buffer: main_pipe.c reports the cycles of the *)
(* in-order baseline over those of the out-of-order machine as the         *)
(* speed-up of dynamic scheduling.  Greedy list schedules are known for    *)
(* anomalies, where relaxing a constraint lengthens the schedule; this     *)
(* model has none.                                                         *)
(***************************************************************************)
EXTENDS IssueDominance

CONSTANTS WeakInOrder, StrongInOrder, RobSize

ASSUME OooAssumption ==
    /\ WeakInOrder \in BOOLEAN /\ StrongInOrder \in BOOLEAN
    /\ StrongInOrder => WeakInOrder
    /\ RobSize \in Nat /\ RobSize >= 1

VARIABLES
    b_reg_ready, b_rob, b_disp_cycle, b_disp_count, b_com_cycle, b_com_count,
    b_fetch_block, b_last_exec, b_last_commit,
    o_reg_ready, o_rob, o_disp_cycle, o_disp_count, o_com_cycle, o_com_count,
    o_fetch_block, o_last_exec, o_last_commit

oooVars == <<
    b_reg_ready, b_rob, b_disp_cycle, b_disp_count, b_com_cycle, b_com_count,
    b_fetch_block, b_last_exec, b_last_commit,
    o_reg_ready, o_rob, o_disp_cycle, o_disp_count, o_com_cycle, o_com_count,
    o_fetch_block, o_last_exec, o_last_commit>>

Baseline == INSTANCE OutOfOrder WITH
    Width <- WeakWidth, InOrder <- WeakInOrder,
    reg_ready <- b_reg_ready, rob <- b_rob,
    disp_cycle <- b_disp_cycle, disp_count <- b_disp_count,
    com_cycle <- b_com_cycle, com_count <- b_com_count,
    fetch_block <- b_fetch_block, last_exec <- b_last_exec,
    last_commit <- b_last_commit

OutOfOrderRun == INSTANCE OutOfOrder WITH
    Width <- StrongWidth, InOrder <- StrongInOrder,
    reg_ready <- o_reg_ready, rob <- o_rob,
    disp_cycle <- o_disp_cycle, disp_count <- o_disp_count,
    com_cycle <- o_com_cycle, com_count <- o_com_count,
    fetch_block <- o_fetch_block, last_exec <- o_last_exec,
    last_commit <- o_last_commit

OooInit == Init /\ Baseline!Init /\ OutOfOrderRun!Init

\* The same instruction and the same answer of the predictor for all.
OooNext ==
    \E s \in CpuSteps : \E pen \in Penalties(Predictor, s.info) :
        /\ Weak!Issue(s, pen) /\ Strong!Issue(s, pen)
        /\ Baseline!Issue(s, pen) /\ OutOfOrderRun!Issue(s, pen)

OooSpec == OooInit /\ [][OooNext]_<<vars, oooVars>>

\* Out-of-order execution, or more dispatch and commit ports, never cost a
\* cycle, for any program and at any point of it.
OooNeverSlower == OutOfOrderRun!Cycles <= Baseline!Cycles

\* Why: every cycle the out-of-order machine has recorded is no later than the
\* baseline's, and its open dispatch and commit cycles are earlier, or the
\* same and no fuller.
OooDominates ==
    /\ \A s \in Slot : o_reg_ready[s] <= b_reg_ready[s]
    /\ \A k \in 0..RobSize-1 : o_rob[k] <= b_rob[k]
    /\ o_disp_cycle <= b_disp_cycle
    /\ o_disp_cycle = b_disp_cycle => o_disp_count <= b_disp_count
    /\ o_com_cycle <= b_com_cycle
    /\ o_com_cycle = b_com_cycle => o_com_count <= b_com_count
    /\ o_fetch_block <= b_fetch_block
    /\ o_last_exec <= b_last_exec
    /\ o_last_commit <= b_last_commit
=============================================================================
