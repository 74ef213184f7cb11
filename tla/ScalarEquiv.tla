---------------------------- MODULE ScalarEquiv ----------------------------
(***************************************************************************)
(* pipe_run and pipe_run_ss with width 1 over the same program: README.md  *)
(* and pipe_sim.h say the latter reproduces the scalar pipeline exactly.   *)
(* pipe_run_ss models no caches, so pipe_run runs without them.            *)
(*                                                                         *)
(* The two simulators run one after the other in the code; here the        *)
(* scheduler places an instruction in the step in which the pipeline       *)
(* fetches it.  They share only the program and the predictor's answers,   *)
(* which depend on the sequence of control instructions and not on time.   *)
(***************************************************************************)
EXTENDS PipeSim

\* Every configuration without caches.
NoCacheConfigs ==
    {[forwarding |-> f, bp |-> b, icache |-> FALSE, dcache |-> FALSE,
      l2 |-> FALSE, ic_miss |-> 0, dc_miss |-> 0, l2_hit |-> 0, l2_miss |-> 0]
        : f, b \in BOOLEAN}

VARIABLES
    ss_count, ss_done, ss_ready, ss_cur_if, ss_cur_count, ss_fetch_block,
    ss_last_if

ssVars == <<ss_count, ss_done, ss_ready, ss_cur_if, ss_cur_count,
            ss_fetch_block, ss_last_if>>

\* pipe_run_ss with cfg.forwarding and without; the predictor's answer is
\* passed to Issue.
SSForward == INSTANCE Superscalar WITH
        Width <- 1, Forwarding <- TRUE, Predictor <- TRUE,
        count <- ss_count, done <- ss_done, ready <- ss_ready,
        cur_if <- ss_cur_if, cur_count <- ss_cur_count,
        fetch_block <- ss_fetch_block, last_if <- ss_last_if

SSPlain == INSTANCE Superscalar WITH
        Width <- 1, Forwarding <- FALSE, Predictor <- TRUE,
        count <- ss_count, done <- ss_done, ready <- ss_ready,
        cur_if <- ss_cur_if, cur_count <- ss_cur_count,
        fetch_block <- ss_fetch_block, last_if <- ss_last_if

SSIssue(s, pen) == IF cfg.forwarding THEN SSForward!Issue(s, pen)
                   ELSE SSPlain!Issue(s, pen)

EqInit == Init /\ cfg \in NoCacheConfigs /\ SSForward!Init

\* Fetch with the penalty the predictor gave, handed to both simulators:
\* ctrl_pending is 0 before a fetch, so its new value is that penalty.
FetchBoth(dc, s) == Fetch(dc, s) /\ SSIssue(s, ctrl_pending')

EqFrontEnd(dc) ==
    \/ (DataStall(dc) \/ ControlBubble(dc) \/ Drain(dc)) /\ UNCHANGED ssVars
    \/ \E s \in CpuSteps : FetchBoth(dc, s)

EqNext ==
    \/ \E dc \in DcAnswers : EqFrontEnd(dc)
    \/ Returned /\ UNCHANGED ssVars

EqSpec == EqInit /\ [][EqNext]_<<vars, ssVars>>

\* Both report the same number of cycles for every program: the structural
\* pipeline, which discovers each stall latch by latch, agrees with the
\* closed-form schedule.
WidthOneIsScalar == status = "finished" => cycles = SSForward!Cycles
=============================================================================
