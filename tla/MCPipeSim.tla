----------------------------- MODULE MCPipeSim -----------------------------
(***************************************************************************)
(* Configurations of pipe_run for model checking.                          *)
(***************************************************************************)
EXTENDS PipeSim

\* A predictor and all caches enabled; L1 penalties only.
L1Only(fwd, ic, dc) ==
    [forwarding |-> fwd, bp |-> TRUE, icache |-> TRUE, dcache |-> TRUE,
     l2 |-> FALSE, ic_miss |-> ic, dc_miss |-> dc, l2_hit |-> 0, l2_miss |-> 0]

WithL2(fwd, pen, hit, miss) ==
    [L1Only(fwd, pen, pen) EXCEPT !.l2 = TRUE, !.l2_hit = hit, !.l2_miss = miss]

\* No forwarding and a predictor, with misses on both sides; zero penalties; an L2
\* whose hits and misses differ; a D-cache penalty so large that only a cycle bound
\* that counts it holds, where fetches never miss.
OverlapConfigs == {L1Only(FALSE, 2, 3),
                   [L1Only(TRUE, 0, 0) EXCEPT !.bp = FALSE],
                   [WithL2(TRUE, 2, 1, 3) EXCEPT !.bp = FALSE],
                   [L1Only(TRUE, 0, 130) EXCEPT !.icache = FALSE, !.bp = FALSE]}

\* Memory behind the L2 is twenty times as far as the L1 penalties say.
FarMemory == {WithL2(TRUE, 10, 10, 200)}
=============================================================================
