--------------------------- MODULE IssueDominance ---------------------------
(***************************************************************************)
(* Two configurations of pipe_run_ss over the same program: a weak one and *)
(* a strong one, which is at least as wide and forwards if the weak one    *)
(* does.  The report of main_pipe.c compares widths 1, 2 and 4, and        *)
(* forwarding with none, as speed-ups; an in-order scheduler that filled a *)
(* bundle greedily could in principle lose cycles by being wider.          *)
(***************************************************************************)
EXTENDS Isa, Naturals

CONSTANTS WeakWidth, StrongWidth, WeakForwarding, StrongForwarding,
          Predictor, GenLimit

ASSUME StrongerAssumption ==
    /\ WeakWidth \in Nat /\ StrongWidth \in Nat
    /\ 1 <= WeakWidth /\ WeakWidth <= StrongWidth
    /\ WeakForwarding \in BOOLEAN /\ StrongForwarding \in BOOLEAN
    /\ WeakForwarding => StrongForwarding
    /\ Predictor \in BOOLEAN
    /\ GenLimit \in Nat /\ GenLimit >= 1

VARIABLES
    count, done,
    w_ready, w_cur_if, w_cur_count, w_fetch_block, w_last_if,
    s_ready, s_cur_if, s_cur_count, s_fetch_block, s_last_if

vars == <<count, done,
          w_ready, w_cur_if, w_cur_count, w_fetch_block, w_last_if,
          s_ready, s_cur_if, s_cur_count, s_fetch_block, s_last_if>>

Weak == INSTANCE Superscalar WITH
            Width <- WeakWidth, Forwarding <- WeakForwarding,
            ready <- w_ready, cur_if <- w_cur_if, cur_count <- w_cur_count,
            fetch_block <- w_fetch_block, last_if <- w_last_if

Strong == INSTANCE Superscalar WITH
            Width <- StrongWidth, Forwarding <- StrongForwarding,
            ready <- s_ready, cur_if <- s_cur_if, cur_count <- s_cur_count,
            fetch_block <- s_fetch_block, last_if <- s_last_if

Init == Weak!Init /\ Strong!Init

\* The same instruction and the same answer of the predictor, which does not
\* depend on the schedule, for both.
Next ==
    \E s \in CpuSteps : \E pen \in Penalties(Predictor, s.info) :
        Weak!Issue(s, pen) /\ Strong!Issue(s, pen)

Spec == Init /\ [][Next]_vars

\* The stronger configuration never needs more cycles, for any program and at
\* any point of it.
StrongerNeverSlower == Strong!Cycles <= Weak!Cycles

\* Why: the strong schedule is nowhere behind the weak one.  Its operands are
\* ready no later, its redirects resolve no later, and its current bundle is
\* earlier, or the same and no fuller.
Dominates ==
    /\ \A s \in Slot : s_ready[s] <= w_ready[s]
    /\ s_fetch_block <= w_fetch_block
    /\ s_cur_if <= w_cur_if
    /\ s_cur_if = w_cur_if => s_cur_count <= w_cur_count
    /\ s_last_if <= w_last_if
=============================================================================
