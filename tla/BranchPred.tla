----------------------------- MODULE BranchPred -----------------------------
(***************************************************************************)
(* The branch predictors and the branch target buffer (bpred.c), driven by *)
(* control_penalty (pipe_sim.c).  Several predictors, one per kind in      *)
(* Kinds, see the same stream of control instructions, as the runs of      *)
(* main_pipe.c and test_pipe.c over one program do; the stream is chosen   *)
(* nondeterministically.                                                   *)
(*                                                                         *)
(* A step is one call of control_penalty for every kind: predict, look the *)
(* target up, update.  The global history is kept modulo 2^GhistBits: the  *)
(* code keeps 32 bits and masks them at every use, and a left shift moves  *)
(* nothing down into the masked bits.                                      *)
(***************************************************************************)
EXTENDS Integers, Sequences, FiniteSetsExt

CONSTANTS
    Kinds,          \* the predictors compared
    IdxBits,        \* log2 of the table sizes
    GhistBits,      \* bits of global history used
    CondPcs,        \* addresses of conditional branches
    RetPcs,         \* addresses of returns, the indirect jumps
    RetTargets,     \* where returns may go
    MaxBranches     \* bound on the length of the stream

Kind == {"none", "static", "bimodal1", "bimodal2", "gshare", "tournament",
         "tournament3"}

ASSUME BpAssumption ==
    /\ Kinds \subseteq Kind
    /\ IdxBits \in Nat /\ GhistBits \in Nat \ {0}
    /\ \A pc \in CondPcs \cup RetPcs \cup RetTargets : pc \in Nat /\ pc % 4 = 0
    /\ CondPcs \cap RetPcs = {}
    /\ MaxBranches \in Nat

\* The tables have entries, and the history has values: arithmetic that TLC
\* evaluates and the provers, which know nothing of powers, cannot derive.
ASSUME PowersAssumption == 2^IdxBits \in Nat \ {0} /\ 2^GhistBits \in Nat \ {0}

VARIABLES
    bp,             \* kind |-> its BPredictor
    mispredicts,    \* kind |-> branch_mispredicts
    penalty,        \* kind |-> cycles control_penalty charged
    branches,       \* length of the stream so far
    last_target,    \* history: pc |-> target of its last taken execution
    outcomes,       \* history: pc |-> its last four outcomes, newest first
    fallthroughs    \* history: returns that went to the next instruction

vars == <<bp, mispredicts, penalty, branches, last_target, outcomes,
          fallthroughs>>

Entries == 2^IdxBits
Index == 0..Entries-1
None == -1

-----------------------------------------------------------------------------
(* bpred.c *)

pc_index(pc) == pc \div 4

\* Mutant: one bit of state, the last outcome.
sat_updateOneBit(c, up) == IF up THEN 3 ELSE 0

sat_update(c, up) ==
    IF up THEN (IF c < 3 THEN c + 1 ELSE c) ELSE (IF c > 0 THEN c - 1 ELSE c)

\* (a ^ b) & mask
XorMask(a, b) ==
    MapThenSumSet(LAMBDA i : IF (a \div 2^i) % 2 # (b \div 2^i) % 2 THEN 2^i ELSE 0,
                  0..IdxBits-1)

bp_init(kind) ==
    [kind |-> kind,
     table |-> [i \in Index |-> IF kind \in {"bimodal1", "static", "none"} THEN 0 ELSE 2],
     gtable |-> [i \in Index |-> 2],
     chooser |-> [i \in Index |-> 1],
     chooser3 |-> [i \in Index |-> [s |-> 2, b |-> 1, g |-> 1]],
     ghist |-> 0,
     btb |-> [i \in Index |-> [tag |-> None, target |-> None]]]

bimodal_idx(pc) == pc_index(pc) % Entries

gshare_idx(p, pc) == XorMask(pc_index(pc), p.ghist)

chooser_idx(p) == p.ghist % Entries

bimodal_pred(p, pc) == p.table[bimodal_idx(pc)] >= 2

gshare_pred(p, pc) == p.gtable[gshare_idx(p, pc)] >= 2

bp_predict(p, pc) ==
    CASE p.kind \in {"static", "none"} -> FALSE
      [] p.kind = "bimodal1" -> p.table[bimodal_idx(pc)] # 0
      [] p.kind = "bimodal2" -> bimodal_pred(p, pc)
      [] p.kind = "gshare" -> p.table[gshare_idx(p, pc)] >= 2
      [] p.kind = "tournament" ->
            IF p.chooser[chooser_idx(p)] >= 2
            THEN gshare_pred(p, pc) ELSE bimodal_pred(p, pc)
      [] p.kind = "tournament3" ->
            LET c == p.chooser3[bimodal_idx(pc)]
            IN  IF c.g >= c.b /\ c.g >= c.s THEN gshare_pred(p, pc)
                ELSE IF c.b >= c.s THEN bimodal_pred(p, pc)
                ELSE FALSE

\* bp->ghist = (bp->ghist << 1) | taken
ShiftHistory(p, taken) ==
    (2 * p.ghist + (IF taken THEN 1 ELSE 0)) % 2^GhistBits

\* Mutant: only the half the chooser trusts learns.
TrainHalvesChosen(p, pc, taken) ==
    IF p.chooser[chooser_idx(p)] >= 2
    THEN [p EXCEPT !.gtable[gshare_idx(p, pc)] = sat_update(@, taken),
                   !.ghist = ShiftHistory(p, taken)]
    ELSE [p EXCEPT !.table[bimodal_idx(pc)] = sat_update(@, taken),
                   !.ghist = ShiftHistory(p, taken)]

\* The training common to both tournaments: both halves learn every outcome.
TrainHalves(p, pc, taken) ==
    [p EXCEPT !.table[bimodal_idx(pc)] = sat_update(@, taken),
              !.gtable[gshare_idx(p, pc)] = sat_update(@, taken),
              !.ghist = ShiftHistory(p, taken)]

\* Mutant: the chooser learns from the wrong half.
ChooseSwapped(p, pc, taken) ==
    IF bimodal_pred(p, pc) # gshare_pred(p, pc)
    THEN [p EXCEPT !.chooser[chooser_idx(p)] =
                        sat_update(@, bimodal_pred(p, pc) = taken)]
    ELSE p

\* The 2-way chooser moves towards whichever half was right when they differ.
Choose(p, pc, taken) ==
    IF bimodal_pred(p, pc) # gshare_pred(p, pc)
    THEN [p EXCEPT !.chooser[chooser_idx(p)] =
                        sat_update(@, gshare_pred(p, pc) = taken)]
    ELSE p

\* The 3-way chooser scores static, bimodal and gshare separately.
Score(p, pc, taken) ==
    [p EXCEPT !.chooser3[bimodal_idx(pc)] =
        [s |-> sat_update(@.s, ~taken),
         b |-> sat_update(@.b, bimodal_pred(p, pc) = taken),
         g |-> sat_update(@.g, gshare_pred(p, pc) = taken)]]

bp_update(p, pc, taken) ==
    CASE p.kind \in {"static", "none"} -> p
      [] p.kind = "bimodal1" ->
            [p EXCEPT !.table[bimodal_idx(pc)] = IF taken THEN 1 ELSE 0]
      [] p.kind = "bimodal2" ->
            [p EXCEPT !.table[bimodal_idx(pc)] = sat_update(@, taken)]
      [] p.kind = "gshare" ->
            [p EXCEPT !.table[gshare_idx(p, pc)] = sat_update(@, taken),
                      !.ghist = ShiftHistory(p, taken)]
      [] p.kind = "tournament" -> TrainHalves(Choose(p, pc, taken), pc, taken)
      [] p.kind = "tournament3" -> TrainHalves(Score(p, pc, taken), pc, taken)

\* Mutant: compares the index, which the entry was found by, and not the pc.
btb_lookupUntagged(p, pc) ==
    LET e == p.btb[pc_index(pc) % Entries]
    IN  IF e.tag # None THEN e.target ELSE None

\* The target, or None on a miss.  A valid entry is one with a tag.
btb_lookup(p, pc) ==
    LET e == p.btb[pc_index(pc) % Entries]
    IN  IF e.tag = pc THEN e.target ELSE None

btb_update(p, pc, target) ==
    [p EXCEPT !.btb[pc_index(pc) % Entries] = [tag |-> pc, target |-> target]]

-----------------------------------------------------------------------------
(* control_penalty of pipe_sim.c for d = [pc, cond, target] *)

taken_control(d) == d.target # d.pc + 4

pred_taken(p, d) == IF d.cond THEN bp_predict(p, d.pc) ELSE TRUE

\* Mutant: asks the BTB even when the branch falls through.
MispredictedAnyTarget(p, d) ==
    IF p.kind = "none" THEN taken_control(d)
    ELSE pred_taken(p, d) # taken_control(d) \/ btb_lookup(p, d.pc) # d.target

\* Does d cost the penalty?  Without a predictor every taken control does.
Mispredicted(p, d) ==
    IF p.kind = "none" THEN taken_control(d)
    ELSE \/ pred_taken(p, d) # taken_control(d)
         \/ taken_control(d) /\ btb_lookup(p, d.pc) # d.target

\* bp_update, then btb_update; nothing without a predictor.
Learn(p, d) ==
    LET q == IF d.cond THEN bp_update(p, d.pc, taken_control(d)) ELSE p
    IN  IF taken_control(d) /\ p.kind # "none"
        THEN btb_update(q, d.pc, d.target) ELSE q

\* The first n elements of a sequence, or all of them.
Newest(n, seq) == SubSeq(seq, 1, IF Len(seq) < n THEN Len(seq) ELSE n)

\* One control instruction of the program.
Control(d) ==
    /\ branches < MaxBranches
    /\ branches' = branches + 1
    /\ bp' = [k \in Kinds |-> Learn(bp[k], d)]
    /\ mispredicts' = [k \in Kinds |-> mispredicts[k] +
            IF d.cond /\ k # "none" /\ pred_taken(bp[k], d) # taken_control(d) THEN 1 ELSE 0]
    /\ penalty' = [k \in Kinds |-> penalty[k] +
            IF Mispredicted(bp[k], d) THEN 2 ELSE 0]
    /\ last_target' = IF taken_control(d)
                      THEN [last_target EXCEPT ![d.pc] = d.target]
                      ELSE last_target
    /\ outcomes' = IF d.cond
                   THEN [outcomes EXCEPT ![d.pc] =
                            Newest(4, <<taken_control(d)>> \o @)]
                   ELSE outcomes
    /\ fallthroughs' = fallthroughs +
            IF ~d.cond /\ ~taken_control(d) THEN 1 ELSE 0

\* A conditional branch jumps to the one target in its immediate field.
CondTarget(pc) == pc + 8

Conditional(pc, taken) ==
    Control([pc |-> pc, cond |-> TRUE,
             target |-> IF taken THEN CondTarget(pc) ELSE pc + 4])

\* A return goes wherever the stack says, to the next instruction too.
Return(pc, target) == Control([pc |-> pc, cond |-> FALSE, target |-> target])

Init ==
    /\ bp = [k \in Kinds |-> bp_init(k)]
    /\ mispredicts = [k \in Kinds |-> 0]
    /\ penalty = [k \in Kinds |-> 0]
    /\ branches = 0
    /\ last_target = [pc \in CondPcs \cup RetPcs |-> None]
    /\ outcomes = [pc \in CondPcs |-> <<>>]
    /\ fallthroughs = 0

Next ==
    \/ \E pc \in CondPcs, taken \in BOOLEAN : Conditional(pc, taken)
    \/ \E pc \in RetPcs, target \in RetTargets : Return(pc, target)

Spec == Init /\ [][Next]_vars

-----------------------------------------------------------------------------
(* Properties *)

\* Each half of both tournaments is at every moment in the state the same
\* predictor would be in on its own: which half the chooser trusts never
\* changes what the halves learn.
HalvesTrainAlike ==
    \A t \in {"tournament", "tournament3"} \cap Kinds :
        /\ bp[t].table = bp["bimodal2"].table
        /\ bp[t].gtable = bp["gshare"].table
        /\ bp[t].ghist = bp["gshare"].ghist

\* How far a chooser counter has moved into one half's side.
TowardsGshare(c) == IF c >= 2 THEN c - 1 ELSE 0
TowardsBimodal(c) == IF c <= 1 THEN 2 - c ELSE 0

\* The sum of f[i], each at most 2, over the counters: the units they hold.
Units(f) == {u \in Index \X {1, 2} : u[2] <= f[u[1]]}
Reserve(f) == Cardinality(Units(f))

\* What the 2-way chooser does guarantee: it mispredicts at most twice as often
\* as bimodal alone, and at most twice as often as gshare alone plus one
\* misprediction per chooser counter to leave its initial preference.  The
\* bound is tight in every state: each counter that has been moved towards one
\* half holds that much of it in reserve against the other.
TournamentRegret ==
    LET chooser == bp["tournament"].chooser
    IN  /\ mispredicts["tournament"] + Reserve([i \in Index |-> TowardsGshare(chooser[i])])
             <= 2 * mispredicts["bimodal2"]
        /\ mispredicts["tournament"] + Reserve([i \in Index |-> TowardsBimodal(chooser[i])])
             <= 2 * mispredicts["gshare"] + Entries

\* "The tournament predictor must never do worse than its worse component."
TournamentNotWorse ==
    \/ mispredicts["tournament"] <= mispredicts["bimodal2"]
    \/ mispredicts["tournament"] <= mispredicts["gshare"]

\* A BTB hit is never stale: whatever other branches shared the entry since,
\* the target returned is where this branch went when last taken.
BtbFresh ==
    \A k \in Kinds, pc \in CondPcs \cup RetPcs :
        btb_lookup(bp[k], pc) \in {None, last_target[pc]}

Unaliased(pc) ==
    \A q \in CondPcs \ {pc} : bimodal_idx(q) # bimodal_idx(pc)

\* Two-bit hysteresis: where no other branch shares its counter, a branch that
\* went the same way twice is predicted to do so again, and one deviation
\* after three does not change the prediction.
Hysteresis ==
    \A pc \in CondPcs : Unaliased(pc) =>
        LET o == outcomes[pc]
            prediction == bp_predict(bp["bimodal2"], pc)
        IN  /\ Len(o) >= 2 /\ o[1] = o[2] => prediction = o[1]
            /\ Len(o) = 4 /\ o[1] # o[2] /\ o[2] = o[3] /\ o[3] = o[4]
                 => prediction = o[2]

\* Static prediction with a BTB never costs more than the baseline that
\* charges every taken control instruction, except for the unconditional
\* instructions that fall through, which are predicted taken.
StaticNoWorseThanBaseline ==
    penalty["static"] <= penalty["none"] + 2 * fallthroughs
=============================================================================
