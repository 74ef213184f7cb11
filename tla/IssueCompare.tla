---------------------------- MODULE IssueCompare ----------------------------
(***************************************************************************)
(* pipe_run_ss and pipe_run_ooo, each in a weak and a strong               *)
(* configuration, over the same program, as main_pipe.c runs them; each    *)
(* with the history of its decisions.                                      *)
(***************************************************************************)
EXTENDS OooDominance

VARIABLES w_log, s_log, b_log, o_log

WeakH == INSTANCE SuperscalarHistory WITH
            Width <- WeakWidth, Forwarding <- WeakForwarding,
            ready <- w_ready, cur_if <- w_cur_if, cur_count <- w_cur_count,
            fetch_block <- w_fetch_block, last_if <- w_last_if, log <- w_log

StrongH == INSTANCE SuperscalarHistory WITH
            Width <- StrongWidth, Forwarding <- StrongForwarding,
            ready <- s_ready, cur_if <- s_cur_if, cur_count <- s_cur_count,
            fetch_block <- s_fetch_block, last_if <- s_last_if, log <- s_log

BaselineH == INSTANCE OutOfOrderHistory WITH
    Width <- WeakWidth, InOrder <- WeakInOrder,
    reg_ready <- b_reg_ready, rob <- b_rob,
    disp_cycle <- b_disp_cycle, disp_count <- b_disp_count,
    com_cycle <- b_com_cycle, com_count <- b_com_count,
    fetch_block <- b_fetch_block, last_exec <- b_last_exec,
    last_commit <- b_last_commit, log <- b_log

OutOfOrderH == INSTANCE OutOfOrderHistory WITH
    Width <- StrongWidth, InOrder <- StrongInOrder,
    reg_ready <- o_reg_ready, rob <- o_rob,
    disp_cycle <- o_disp_cycle, disp_count <- o_disp_count,
    com_cycle <- o_com_cycle, com_count <- o_com_count,
    fetch_block <- o_fetch_block, last_exec <- o_last_exec,
    last_commit <- o_last_commit, log <- o_log

CInit == WeakH!HInit /\ StrongH!HInit /\ BaselineH!HInit /\ OutOfOrderH!HInit

CNext ==
    \E s \in CpuSteps : \E pen \in Penalties(Predictor, s.info) :
        /\ WeakH!HIssue(s, pen) /\ StrongH!HIssue(s, pen)
        /\ BaselineH!HIssue(s, pen) /\ OutOfOrderH!HIssue(s, pen)

CSpec == CInit /\ [][CNext]_<<vars, oooVars, w_log, s_log, b_log, o_log>>

\* Every schedule pipe_run_ss computes is one the pipeline it stands for could
\* run: no cycle fetches more than the width, every operand has reached the
\* stage its consumer needs it in, counted from the nearest producer, and
\* nothing is fetched under an unresolved redirect.
SchedulesLegal == WeakH!LegalSchedule /\ StrongH!LegalSchedule

\* Every schedule pipe_run_ooo computes is legal: ports, program order at
\* dispatch and commit, the nearest producer of every operand, and redirects.
OooSchedulesLegal == BaselineH!LegalSchedule /\ OutOfOrderH!LegalSchedule

\* The reorder buffer is never over-full, though its slots are reused by index
\* and freed by commit cycles computed in advance.
RobNeverOverfull == BaselineH!RobBounded /\ OutOfOrderH!RobBounded

\* None of the four schedules waits without a reason: in pipe_run_ss every
\* instruction is fetched, and in pipe_run_ooo, in order and out of order, it is
\* dispatched, executed and committed in the very first cycle that order,
\* ports, redirects, the reorder buffer and its nearest producers leave open.
SchedulesTight == /\ WeakH!NoIdleCycle /\ StrongH!NoIdleCycle
                  /\ BaselineH!NoIdleCycle /\ OutOfOrderH!NoIdleCycle
=============================================================================
