------------------------- MODULE IssueCompareProofs -------------------------
(***************************************************************************)
(* What the reports of main_pipe.c rest on when they compare schedules.    *)
(* More width or forwarding never costs pipe_run_ss a cycle, and more      *)
(* ports or dynamic scheduling never cost pipe_run_ooo one: for every      *)
(* program, every behaviour of the predictor, and every pair of            *)
(* configurations of which one is at least as strong as the other.         *)
(***************************************************************************)
EXTENDS IssueCompare, TLAPS

-----------------------------------------------------------------------------
(* The instruction metadata *)

\* What gen_one can report is an InstInfo and a Boolean.
LEMMA CpuStepsType ==
    ASSUME NEW s \in CpuSteps
    PROVE  s.info \in InstInfo /\ s.halts \in BOOLEAN
<1>1. PICK op \in Ops : s \in [info: {decode_meta(op, rd, rs, t) :
                            rd \in Regs, rs \in Regs, t \in Outcomes(op)},
                         halts: Halts(op)]
  BY DEF CpuSteps
<1>2. PICK rd \in Regs, rs \in Regs, t \in Outcomes(op) :
        s.info = decode_meta(op, rd, rs, t)
  BY <1>1
<1>3. t \in BOOLEAN
  BY DEF Outcomes
<1>4. /\ op_reads(op, rd, rs) \in SUBSET Slot
      /\ op_writes(op, rd) \in SUBSET Slot
  BY DEF op_reads, op_writes, Slot
<1>5. op_latency(op) \in 1..20
  BY DEF op_latency
<1>6. s.info \in InstInfo
  BY <1>2, <1>3, <1>4, <1>5
  DEF decode_meta, InstInfo, op_sets_flags, op_is_control, op_is_conditional,
      op_accesses_mem
<1>7. Halts(op) \subseteq BOOLEAN
  BY DEF Halts
<1>8. s.halts \in Halts(op)
  BY <1>1
<1>. QED  BY <1>6, <1>7, <1>8

\* A penalty is a number of cycles.
LEMMA PenaltiesType ==
    ASSUME NEW predictor \in BOOLEAN, NEW d \in InstInfo,
           NEW pen \in Penalties(predictor, d)
    PROVE  pen \in Nat
  BY DEF Penalties, control_penalty, CONTROL_PENALTY

-----------------------------------------------------------------------------
(* pipe_run_ss *)

\* The types of the two schedules.
SchedulesTyped ==
    /\ count \in Nat
    /\ w_ready \in [Slot -> Nat] /\ s_ready \in [Slot -> Nat]
    /\ w_cur_if \in Nat /\ s_cur_if \in Nat
    /\ w_cur_count \in 0..WeakWidth /\ s_cur_count \in 0..StrongWidth
    /\ w_fetch_block \in Nat /\ s_fetch_block \in Nat
    /\ w_last_if \in Nat /\ s_last_if \in Nat

\* Before the first instruction neither bundle has been opened.
NothingOpen == count = 0 => w_cur_if = 0 /\ s_cur_if = 0

\* The inductive invariant.
DominanceInv == SchedulesTyped /\ NothingOpen /\ Dominates

-----------------------------------------------------------------------------
(* One placement *)

\* Both instances count with the same registers.
LEMMA SlotsShared ==
    /\ Weak!Slot = Slot /\ Strong!Slot = Slot
    /\ Weak!FLAG_REG = FLAG_REG /\ Strong!FLAG_REG = FLAG_REG
  BY DEF Slot, Weak!Slot, Strong!Slot, FLAG_REG, Weak!FLAG_REG, Strong!FLAG_REG

\* The first cycle with room comes no later in the strong schedule.
LEMMA EarliestNoLater ==
    ASSUME DominanceInv
    PROVE  /\ Weak!earliest \in Nat /\ Strong!earliest \in Nat
           /\ Strong!earliest <= Weak!earliest
           /\ w_cur_if <= Weak!earliest
           /\ count # 0 /\ Weak!earliest = w_cur_if => w_cur_count < WeakWidth
<1>1. /\ WeakWidth \in Nat /\ StrongWidth \in Nat /\ WeakWidth <= StrongWidth
  BY StrongerAssumption
<1>. QED
  BY <1>1
  DEF DominanceInv, SchedulesTyped, NothingOpen, Dominates, Weak!earliest,
      Strong!earliest

\* The fetch cycle, the latest of the lower bounds, comes no later in the
\* strong schedule.
LEMMA FetchNoLater ==
    ASSUME DominanceInv, NEW d \in InstInfo,
           NEW wi \in Weak!lowerBounds(d),
           \A b \in Weak!lowerBounds(d) : b <= wi,
           NEW si \in Strong!lowerBounds(d),
           \A b \in Strong!lowerBounds(d) : b <= si
    PROVE  /\ wi \in Nat /\ si \in Nat /\ si <= wi
           /\ w_cur_if <= Weak!earliest /\ Weak!earliest <= wi
<1>1. d.reads \subseteq Slot
  BY DEF InstInfo
<1>2. /\ Weak!earliest \in Nat /\ Strong!earliest \in Nat
      /\ Strong!earliest <= Weak!earliest /\ w_cur_if <= Weak!earliest
  BY EarliestNoLater
<1>3. \A r \in d.reads : /\ w_ready[r] \in Nat /\ s_ready[r] \in Nat
                         /\ s_ready[r] <= w_ready[r]
  BY <1>1 DEF DominanceInv, SchedulesTyped, Dominates
<1>4. /\ w_fetch_block \in Nat /\ s_fetch_block \in Nat
      /\ s_fetch_block <= w_fetch_block
  BY DEF DominanceInv, SchedulesTyped, Dominates
<1>5. wi \in Int /\ si \in Int
  BY <1>2, <1>3, <1>4 DEF Weak!lowerBounds, Strong!lowerBounds
<1>6. /\ Weak!earliest <= wi /\ w_fetch_block <= wi
      /\ \A r \in d.reads : w_ready[r] - 2 <= wi
  BY DEF Weak!lowerBounds
<1>7. Strong!earliest <= si
  BY DEF Strong!lowerBounds
<1>8. wi \in Nat /\ si \in Nat
  BY <1>2, <1>5, <1>6, <1>7
<1>9. si <= wi
  <2>1. CASE si = Strong!earliest
    BY <1>2, <1>5, <1>6, <2>1
  <2>2. CASE si = s_fetch_block
    BY <1>4, <1>5, <1>6, <2>2
  <2>3. CASE \E r \in d.reads : si = s_ready[r] - 2
    BY <1>3, <1>5, <1>6, <2>3
  <2>. QED  BY <2>1, <2>2, <2>3 DEF Strong!lowerBounds
<1>. QED  BY <1>2, <1>6, <1>8, <1>9

\* Placing an instruction no later leaves every result, redirect and bundle no
\* later.
LEMMA PlaceKeepsDominance ==
    ASSUME DominanceInv, NEW d \in InstInfo, NEW pen \in Nat,
           NEW wi \in Nat, NEW si \in Nat, si <= wi,
           w_cur_if <= Weak!earliest, Weak!earliest <= wi,
           count' = count + 1,
           Weak!Place(d, pen, wi), Strong!Place(d, pen, si)
    PROVE  DominanceInv'
<1>. DEFINE WR(s) == IF d.sets_flags /\ s = FLAG_REG THEN Weak!flagsReady(wi)
                     ELSE IF s \in d.writes THEN Weak!resultReady(d, wi)
                     ELSE w_ready[s]
            SR(s) == IF d.sets_flags /\ s = FLAG_REG THEN Strong!flagsReady(si)
                     ELSE IF s \in d.writes THEN Strong!resultReady(d, si)
                     ELSE s_ready[s]
<1>1. /\ WeakWidth \in Nat /\ StrongWidth \in Nat /\ WeakWidth <= StrongWidth
      /\ 1 <= WeakWidth
      /\ WeakForwarding \in BOOLEAN /\ StrongForwarding \in BOOLEAN
      /\ WeakForwarding => StrongForwarding
  BY StrongerAssumption
<1>2. /\ Weak!flagsReady(wi) \in Nat /\ Strong!flagsReady(si) \in Nat
      /\ Strong!flagsReady(si) <= Weak!flagsReady(wi)
  BY <1>1 DEF Weak!flagsReady, Strong!flagsReady
<1>3. /\ Weak!resultReady(d, wi) \in Nat /\ Strong!resultReady(d, si) \in Nat
      /\ Strong!resultReady(d, si) <= Weak!resultReady(d, wi)
  BY <1>1 DEF Weak!resultReady, Strong!resultReady
<1>4. ASSUME NEW s \in Slot  PROVE WR(s) \in Nat /\ SR(s) \in Nat /\ SR(s) <= WR(s)
  BY <1>2, <1>3 DEF DominanceInv, SchedulesTyped, Dominates
<1>5. /\ w_ready' = [s \in Slot |-> WR(s)]
      /\ s_ready' = [s \in Slot |-> SR(s)]
  BY SlotsShared DEF Weak!Place, Strong!Place
<1>. HIDE DEF WR, SR
<1>6. /\ w_ready' \in [Slot -> Nat] /\ s_ready' \in [Slot -> Nat]
      /\ \A s \in Slot : s_ready'[s] <= w_ready'[s]
  BY <1>4, <1>5
<1>7. /\ w_fetch_block' \in Nat /\ s_fetch_block' \in Nat
      /\ s_fetch_block' <= w_fetch_block'
      /\ w_last_if' = wi /\ s_last_if' = si
      /\ w_cur_if' = wi /\ s_cur_if' = si
  BY DEF Weak!Place, Strong!Place, DominanceInv, SchedulesTyped, Dominates
<1>8. /\ w_cur_count' \in 1..WeakWidth /\ s_cur_count' \in 1..StrongWidth
  BY <1>1 DEF Weak!Place, Strong!Place, DominanceInv, SchedulesTyped
<1>9. si = wi => s_cur_count' <= w_cur_count'
  <2>1. SUFFICES ASSUME si = wi, s_cur_count' # 1
                 PROVE  s_cur_count' <= w_cur_count'
    BY <1>1, <1>8
  <2>2. si = s_cur_if /\ s_cur_count' = s_cur_count + 1
    BY <2>1 DEF Strong!Place
  <2>3. wi = w_cur_if /\ w_cur_if = s_cur_if /\ Weak!earliest = w_cur_if
    BY <2>1, <2>2, EarliestNoLater DEF DominanceInv, SchedulesTyped, Dominates
  <2>4. count # 0
    BY <2>3, <2>1 DEF DominanceInv, NothingOpen, SchedulesTyped, Weak!earliest
  <2>5. w_cur_count < WeakWidth
    BY <2>3, <2>4, EarliestNoLater
  <2>6. w_cur_count' = w_cur_count + 1
    BY <2>3, <2>5 DEF Weak!Place
  <2>7. s_cur_count <= w_cur_count
    BY <2>3 DEF DominanceInv, Dominates
  <2>. QED
    BY <2>2, <2>6, <2>7 DEF DominanceInv, SchedulesTyped
<1>10. count \in Nat /\ count' \in Nat /\ count' # 0
  BY DEF DominanceInv, SchedulesTyped
<1>11. SchedulesTyped'
  BY <1>1, <1>6, <1>7, <1>8, <1>10 DEF SchedulesTyped
<1>12. NothingOpen'
  BY <1>10 DEF NothingOpen
<1>13. Dominates'
  BY <1>6, <1>7, <1>9 DEF Dominates
<1>. QED  BY <1>11, <1>12, <1>13 DEF DominanceInv

-----------------------------------------------------------------------------
(* The theorem *)

\* Both schedules start from zero.
LEMMA DominanceInit == ASSUME Init PROVE DominanceInv
<1>1. WeakWidth \in Nat /\ StrongWidth \in Nat
  BY StrongerAssumption
<1>2. w_ready = [s \in Slot |-> 0] /\ s_ready = [s \in Slot |-> 0]
  BY SlotsShared DEF Init, Weak!Init, Strong!Init
<1>3. /\ count = 0 /\ w_cur_if = 0 /\ s_cur_if = 0
      /\ w_cur_count = 0 /\ s_cur_count = 0
      /\ w_fetch_block = 0 /\ s_fetch_block = 0
      /\ w_last_if = 0 /\ s_last_if = 0
  BY DEF Init, Weak!Init, Strong!Init
<1>4. SchedulesTyped
  BY <1>1, <1>2, <1>3 DEF SchedulesTyped
<1>5. NothingOpen /\ Dominates
  BY <1>2, <1>3 DEF NothingOpen, Dominates
<1>. QED  BY <1>4, <1>5 DEF DominanceInv

\* Every instruction keeps the strong schedule ahead.
LEMMA DominanceStep ==
    ASSUME DominanceInv, [Next]_vars
    PROVE  DominanceInv'
<1>1. CASE UNCHANGED vars
  BY <1>1
  DEF vars, DominanceInv, SchedulesTyped, NothingOpen, Dominates
<1>2. CASE Next
  <2>0. PICK s \in CpuSteps : \E pen \in Penalties(Predictor, s.info) :
           Weak!Issue(s, pen) /\ Strong!Issue(s, pen)
    BY <1>2 DEF Next
  <2>1. PICK pen \in Penalties(Predictor, s.info) :
           Weak!Issue(s, pen) /\ Strong!Issue(s, pen)
    BY <2>0
  <2>2. s.info \in InstInfo
    BY CpuStepsType
  <2>3. pen \in Nat
    BY <2>2, PenaltiesType, StrongerAssumption
  <2>4. PICK wi \in Weak!lowerBounds(s.info) :
           /\ \A b \in Weak!lowerBounds(s.info) : b <= wi
           /\ Weak!Place(s.info, pen, wi)
    BY <2>1 DEF Weak!Issue, Weak!Schedule
  <2>5. PICK si \in Strong!lowerBounds(s.info) :
           /\ \A b \in Strong!lowerBounds(s.info) : b <= si
           /\ Strong!Place(s.info, pen, si)
    BY <2>1 DEF Strong!Issue, Strong!Schedule
  <2>6. /\ wi \in Nat /\ si \in Nat /\ si <= wi
        /\ w_cur_if <= Weak!earliest /\ Weak!earliest <= wi
    BY <2>2, <2>4, <2>5, FetchNoLater
  <2>7. count' = count + 1
    BY <2>1 DEF Weak!Issue
  <2>. QED
    BY <2>2, <2>3, <2>4, <2>5, <2>6, <2>7, PlaceKeepsDominance
<1>. QED  BY <1>1, <1>2

\* The strong schedule is nowhere behind the weak one.
THEOREM StrongDominates == Spec => []Dominates
<1>1. DominanceInv => Dominates
  BY DEF DominanceInv
<1>. QED  BY <1>1, DominanceInit, DominanceStep, PTL DEF Spec

\* pipe_run_ss reports no more cycles for the stronger configuration, for any
\* widths, with or without forwarding, whatever the program does.
THEOREM WiderNeverSlower == Spec => []StrongerNeverSlower
<1>1. DominanceInv => StrongerNeverSlower
  BY DEF DominanceInv, SchedulesTyped, Dominates, StrongerNeverSlower,
         Weak!Cycles, Strong!Cycles
<1>. QED  BY <1>1, DominanceInit, DominanceStep, PTL DEF Spec

-----------------------------------------------------------------------------
(* pipe_run_ooo *)

\* The types of the two schedules.
OooTyped ==
    /\ count \in Nat
    /\ b_reg_ready \in [Slot -> Nat] /\ o_reg_ready \in [Slot -> Nat]
    /\ b_rob \in [0..RobSize-1 -> Nat] /\ o_rob \in [0..RobSize-1 -> Nat]
    /\ b_disp_cycle \in Nat /\ o_disp_cycle \in Nat
    /\ b_disp_count \in 0..WeakWidth /\ o_disp_count \in 0..StrongWidth
    /\ b_com_cycle \in Nat /\ o_com_cycle \in Nat
    /\ b_com_count \in 0..WeakWidth /\ o_com_count \in 0..StrongWidth
    /\ b_fetch_block \in Nat /\ o_fetch_block \in Nat
    /\ b_last_exec \in Nat /\ o_last_exec \in Nat
    /\ b_last_commit \in Nat /\ o_last_commit \in Nat

\* The inductive invariant.
OooInv == OooTyped /\ OooDominates

\* Both instances count with the same registers.
LEMMA OooSlotsShared ==
    /\ Baseline!Slot = Slot /\ OutOfOrderRun!Slot = Slot
    /\ Baseline!FLAG_REG = FLAG_REG /\ OutOfOrderRun!FLAG_REG = FLAG_REG
  BY DEF Slot, Baseline!Slot, OutOfOrderRun!Slot, FLAG_REG,
         Baseline!FLAG_REG, OutOfOrderRun!FLAG_REG

\* When every bound of one set is met by one of the other, so is the latest.
LEMMA LatestNoLater ==
    ASSUME NEW S \in SUBSET Nat, NEW W \in SUBSET Nat,
           \A a \in S : \E b \in W : a <= b,
           NEW si \in S, NEW wi \in W, \A b \in W : b <= wi
    PROVE  si \in Nat /\ wi \in Nat /\ si <= wi
<1>1. PICK b \in W : si <= b
  OBVIOUS
<1>2. b \in Nat /\ si \in Nat /\ wi \in Nat /\ b <= wi
  OBVIOUS
<1>. QED  BY <1>1, <1>2

\* A port of W slots at cycle wc with wn taken is moved to cycle wi, one of S >=
\* W slots to a cycle si no later: the stronger port stays earlier, or in the
\* same cycle and no fuller.
LEMMA PortAdvance ==
    ASSUME NEW W \in Nat, NEW S \in Nat, 1 <= W, W <= S,
           NEW wc \in Nat, NEW sc \in Nat, sc <= wc,
           NEW wn \in 0..W, NEW sn \in 0..S, sc = wc => sn <= wn,
           NEW wi \in Nat, NEW si \in Nat, si <= wi,
           (IF wn < W THEN wc ELSE wc + 1) <= wi,
           NEW wc2, NEW wn2, NEW sc2, NEW sn2,
           IF wi = wc /\ wn < W THEN wc2 = wc /\ wn2 = wn + 1
                               ELSE wc2 = wi /\ wn2 = 1,
           IF si = sc /\ sn < S THEN sc2 = sc /\ sn2 = sn + 1
                               ELSE sc2 = si /\ sn2 = 1
    PROVE  /\ wc2 = wi /\ sc2 = si /\ wn2 \in 1..W /\ sn2 \in 1..S
           /\ sc2 = wc2 => sn2 <= wn2
<1>1. wc2 = wi /\ sc2 = si
  OBVIOUS
<1>2. wn2 \in 1..W /\ sn2 \in 1..S
  OBVIOUS
<1>3. ASSUME si = wi PROVE sn2 <= wn2
  <2>1. CASE si = sc /\ sn < S
    <3>1. wi = wc
      BY <1>3, <2>1
    <3>2. wn < W
      BY <3>1
    <3>. QED  BY <1>3, <2>1, <3>1, <3>2
  <2>2. CASE ~(si = sc /\ sn < S)
    BY <1>2, <2>2
  <2>. QED  BY <2>1, <2>2
<1>. QED  BY <1>1, <1>2, <1>3

\* The dispatch cycle comes no later in the strong schedule.
LEMMA DispatchNoLater ==
    ASSUME OooInv,
           NEW wi \in Baseline!dispatchBounds,
           Baseline!IsLatest(wi, Baseline!dispatchBounds),
           NEW si \in OutOfOrderRun!dispatchBounds
    PROVE  /\ wi \in Nat /\ si \in Nat /\ si <= wi
           /\ (IF b_disp_count < WeakWidth THEN b_disp_cycle
              ELSE b_disp_cycle + 1) <= wi
<1>. DEFINE wp == IF b_disp_count < WeakWidth THEN b_disp_cycle
                  ELSE b_disp_cycle + 1
            sp == IF o_disp_count < StrongWidth THEN o_disp_cycle
                  ELSE o_disp_cycle + 1
<1>1. /\ WeakWidth \in Nat /\ StrongWidth \in Nat /\ WeakWidth <= StrongWidth
      /\ RobSize \in Nat /\ RobSize >= 1
  BY StrongerAssumption, OooAssumption
<1>2. wp \in Nat /\ sp \in Nat /\ sp <= wp
  BY <1>1 DEF OooInv, OooTyped, OooDominates
<1>3. count \in Nat /\ count % RobSize \in 0..RobSize-1
  BY <1>1 DEF OooInv, OooTyped
<1>4. /\ b_rob[count % RobSize] + 1 \in Nat /\ o_rob[count % RobSize] + 1 \in Nat
      /\ o_rob[count % RobSize] + 1 <= b_rob[count % RobSize] + 1
  BY <1>3 DEF OooInv, OooTyped, OooDominates
<1>5. /\ b_fetch_block \in Nat /\ o_fetch_block \in Nat
      /\ o_fetch_block <= b_fetch_block
  BY DEF OooInv, OooTyped, OooDominates
<1>6. /\ Baseline!dispatchBounds =
             {wp, b_fetch_block} \cup
             (IF count >= RobSize THEN {b_rob[count % RobSize] + 1} ELSE {})
      /\ OutOfOrderRun!dispatchBounds =
             {sp, o_fetch_block} \cup
             (IF count >= RobSize THEN {o_rob[count % RobSize] + 1} ELSE {})
  BY DEF Baseline!dispatchBounds, OutOfOrderRun!dispatchBounds,
         Baseline!slot_free, OutOfOrderRun!slot_free
<1>. HIDE DEF wp, sp
<1>7. /\ Baseline!dispatchBounds \in SUBSET Nat
      /\ OutOfOrderRun!dispatchBounds \in SUBSET Nat
  BY <1>2, <1>4, <1>5, <1>6
<1>8. \A a \in OutOfOrderRun!dispatchBounds :
         \E b \in Baseline!dispatchBounds : a <= b
  BY <1>2, <1>4, <1>5, <1>6
<1>9. \A b \in Baseline!dispatchBounds : b <= wi
  BY DEF Baseline!IsLatest
<1>10. wi \in Nat /\ si \in Nat /\ si <= wi
  BY <1>7, <1>8, <1>9, LatestNoLater
<1>11. wp <= wi
  BY <1>6, <1>9
<1>. QED  BY <1>10, <1>11 DEF wp

\* The execution cycle comes no later in the strong schedule.
LEMMA ExecuteNoLater ==
    ASSUME OooInv, NEW d \in InstInfo,
           NEW wd \in Nat, NEW sd \in Nat, sd <= wd,
           NEW we \in Baseline!executeBounds(d, wd),
           Baseline!IsLatest(we, Baseline!executeBounds(d, wd)),
           NEW se \in OutOfOrderRun!executeBounds(d, sd)
    PROVE  we \in Nat /\ se \in Nat /\ se <= we
<1>1. d.reads \subseteq Slot
  BY DEF InstInfo
<1>2. /\ StrongInOrder => WeakInOrder
      /\ WeakInOrder \in BOOLEAN /\ StrongInOrder \in BOOLEAN
  BY OooAssumption
<1>3. \A r \in d.reads : /\ b_reg_ready[r] \in Nat /\ o_reg_ready[r] \in Nat
                         /\ o_reg_ready[r] <= b_reg_ready[r]
  BY <1>1 DEF OooInv, OooTyped, OooDominates
<1>4. /\ b_last_exec \in Nat /\ o_last_exec \in Nat
      /\ o_last_exec <= b_last_exec
  BY DEF OooInv, OooTyped, OooDominates
<1>5. Baseline!executeBounds(d, wd) \in SUBSET Nat
  BY <1>3, <1>4 DEF Baseline!executeBounds
<1>6. OutOfOrderRun!executeBounds(d, sd) \in SUBSET Nat
  BY <1>3, <1>4 DEF OutOfOrderRun!executeBounds
<1>7. ASSUME NEW a \in OutOfOrderRun!executeBounds(d, sd)
      PROVE  \E b \in Baseline!executeBounds(d, wd) : a <= b
  <2>1. CASE a = sd
    BY <2>1 DEF Baseline!executeBounds
  <2>2. CASE \E r \in d.reads : a = o_reg_ready[r]
    BY <1>3, <2>2 DEF Baseline!executeBounds
  <2>3. CASE StrongInOrder /\ a = o_last_exec
    BY <1>2, <1>4, <2>3 DEF Baseline!executeBounds
  <2>. QED  BY <2>1, <2>2, <2>3 DEF OutOfOrderRun!executeBounds
<1>8. \A b \in Baseline!executeBounds(d, wd) : b <= we
  BY DEF Baseline!IsLatest
<1>. QED  BY <1>5, <1>6, <1>7, <1>8, LatestNoLater

\* The commit cycle comes no later in the strong schedule.
LEMMA CommitNoLater ==
    ASSUME OooInv, NEW wf \in Nat, NEW sf \in Nat, sf <= wf,
           NEW wi \in Baseline!commitBounds(wf),
           Baseline!IsLatest(wi, Baseline!commitBounds(wf)),
           NEW si \in OutOfOrderRun!commitBounds(sf)
    PROVE  /\ wi \in Nat /\ si \in Nat /\ si <= wi
           /\ (IF b_com_count < WeakWidth THEN b_com_cycle
              ELSE b_com_cycle + 1) <= wi
<1>. DEFINE wp == IF b_com_count < WeakWidth THEN b_com_cycle
                  ELSE b_com_cycle + 1
            sp == IF o_com_count < StrongWidth THEN o_com_cycle
                  ELSE o_com_cycle + 1
<1>1. /\ WeakWidth \in Nat /\ StrongWidth \in Nat /\ WeakWidth <= StrongWidth
  BY StrongerAssumption
<1>2. wp \in Nat /\ sp \in Nat /\ sp <= wp
  BY <1>1 DEF OooInv, OooTyped, OooDominates
<1>3. /\ Baseline!commitBounds(wf) = {wp, wf}
      /\ OutOfOrderRun!commitBounds(sf) = {sp, sf}
  BY DEF Baseline!commitBounds, OutOfOrderRun!commitBounds
<1>. HIDE DEF wp, sp
<1>4. \A b \in Baseline!commitBounds(wf) : b <= wi
  BY DEF Baseline!IsLatest
<1>5. wi \in Nat /\ si \in Nat /\ wp <= wi /\ wf <= wi
  BY <1>2, <1>3, <1>4
<1>6. si <= wi
  BY <1>2, <1>3, <1>5
<1>. QED  BY <1>5, <1>6 DEF wp
\* An instruction dispatched, executed and committed no later leaves every
\* result, redirect, slot and port no later.
LEMMA OooScheduleStep ==
    ASSUME OooInv, NEW d \in InstInfo, NEW pen \in Nat, count' = count + 1,
           Baseline!Schedule(d, pen), OutOfOrderRun!Schedule(d, pen)
    PROVE  OooInv'
<1>1. PICK wd \in Baseline!dispatchBounds :
        \E we \in Baseline!executeBounds(d, wd) :
          \E wi \in Baseline!commitBounds(we + d.latency) :
            /\ Baseline!IsLatest(wd, Baseline!dispatchBounds)
            /\ Baseline!IsLatest(we, Baseline!executeBounds(d, wd))
            /\ Baseline!IsLatest(wi, Baseline!commitBounds(we + d.latency))
            /\ Baseline!Dispatch(wd)
            /\ Baseline!Execute(d, pen, we)
            /\ Baseline!Commit(wi)
  BY DEF Baseline!Schedule
<1>2. PICK we \in Baseline!executeBounds(d, wd) :
          \E wi \in Baseline!commitBounds(we + d.latency) :
            /\ Baseline!IsLatest(wd, Baseline!dispatchBounds)
            /\ Baseline!IsLatest(we, Baseline!executeBounds(d, wd))
            /\ Baseline!IsLatest(wi, Baseline!commitBounds(we + d.latency))
            /\ Baseline!Dispatch(wd)
            /\ Baseline!Execute(d, pen, we)
            /\ Baseline!Commit(wi)
  BY <1>1
<1>3. PICK wi \in Baseline!commitBounds(we + d.latency) :
            /\ Baseline!IsLatest(wi, Baseline!commitBounds(we + d.latency))
            /\ Baseline!Commit(wi)
  BY <1>2
<1>4. PICK sd \in OutOfOrderRun!dispatchBounds :
        \E se \in OutOfOrderRun!executeBounds(d, sd) :
          \E si \in OutOfOrderRun!commitBounds(se + d.latency) :
            /\ OutOfOrderRun!Dispatch(sd)
            /\ OutOfOrderRun!Execute(d, pen, se)
            /\ OutOfOrderRun!Commit(si)
  BY DEF OutOfOrderRun!Schedule
<1>5. PICK se \in OutOfOrderRun!executeBounds(d, sd) :
          \E si \in OutOfOrderRun!commitBounds(se + d.latency) :
            /\ OutOfOrderRun!Dispatch(sd)
            /\ OutOfOrderRun!Execute(d, pen, se)
            /\ OutOfOrderRun!Commit(si)
  BY <1>4
<1>6. PICK si \in OutOfOrderRun!commitBounds(se + d.latency) :
            OutOfOrderRun!Commit(si)
  BY <1>5
<1>7. /\ WeakWidth \in Nat /\ StrongWidth \in Nat /\ 1 <= WeakWidth
      /\ WeakWidth <= StrongWidth /\ RobSize \in Nat /\ RobSize >= 1
  BY StrongerAssumption, OooAssumption
<1>8. /\ wd \in Nat /\ sd \in Nat /\ sd <= wd
      /\ (IF b_disp_count < WeakWidth THEN b_disp_cycle
         ELSE b_disp_cycle + 1) <= wd
  BY <1>1, <1>4, DispatchNoLater
<1>9. we \in Nat /\ se \in Nat /\ se <= we
  BY <1>2, <1>5, <1>8, ExecuteNoLater
<1>10. d.latency \in Nat
  BY DEF InstInfo
<1>11. /\ we + d.latency \in Nat /\ se + d.latency \in Nat
       /\ se + d.latency <= we + d.latency
  BY <1>9, <1>10
<1>12. /\ wi \in Nat /\ si \in Nat /\ si <= wi
       /\ (IF b_com_count < WeakWidth THEN b_com_cycle
          ELSE b_com_cycle + 1) <= wi
  BY <1>3, <1>6, <1>11, CommitNoLater
<1>13. /\ b_disp_cycle' = wd /\ o_disp_cycle' = sd
       /\ b_disp_count' \in 1..WeakWidth /\ o_disp_count' \in 1..StrongWidth
       /\ o_disp_cycle' = b_disp_cycle' => o_disp_count' <= b_disp_count'
  <2>1. IF wd = b_disp_cycle /\ b_disp_count < WeakWidth
        THEN b_disp_cycle' = b_disp_cycle /\ b_disp_count' = b_disp_count + 1
        ELSE b_disp_cycle' = wd /\ b_disp_count' = 1
    BY <1>2 DEF Baseline!Dispatch
  <2>2. IF sd = o_disp_cycle /\ o_disp_count < StrongWidth
        THEN o_disp_cycle' = o_disp_cycle /\ o_disp_count' = o_disp_count + 1
        ELSE o_disp_cycle' = sd /\ o_disp_count' = 1
    BY <1>5 DEF OutOfOrderRun!Dispatch
  <2>3. /\ b_disp_cycle \in Nat /\ o_disp_cycle \in Nat
        /\ b_disp_count \in 0..WeakWidth /\ o_disp_count \in 0..StrongWidth
        /\ o_disp_cycle <= b_disp_cycle
        /\ o_disp_cycle = b_disp_cycle => o_disp_count <= b_disp_count
    BY DEF OooInv, OooTyped, OooDominates
  <2>. QED  BY <1>7, <1>8, <2>1, <2>2, <2>3, PortAdvance
<1>14. /\ b_com_cycle' = wi /\ o_com_cycle' = si
       /\ b_com_count' \in 1..WeakWidth /\ o_com_count' \in 1..StrongWidth
       /\ o_com_cycle' = b_com_cycle' => o_com_count' <= b_com_count'
  <2>1. IF wi = b_com_cycle /\ b_com_count < WeakWidth
        THEN b_com_cycle' = b_com_cycle /\ b_com_count' = b_com_count + 1
        ELSE b_com_cycle' = wi /\ b_com_count' = 1
    BY <1>3 DEF Baseline!Commit
  <2>2. IF si = o_com_cycle /\ o_com_count < StrongWidth
        THEN o_com_cycle' = o_com_cycle /\ o_com_count' = o_com_count + 1
        ELSE o_com_cycle' = si /\ o_com_count' = 1
    BY <1>6 DEF OutOfOrderRun!Commit
  <2>3. /\ b_com_cycle \in Nat /\ o_com_cycle \in Nat
        /\ b_com_count \in 0..WeakWidth /\ o_com_count \in 0..StrongWidth
        /\ o_com_cycle <= b_com_cycle
        /\ o_com_cycle = b_com_cycle => o_com_count <= b_com_count
    BY DEF OooInv, OooTyped, OooDominates
  <2>. QED  BY <1>7, <1>12, <2>1, <2>2, <2>3, PortAdvance
<1>15. /\ b_reg_ready' \in [Slot -> Nat] /\ o_reg_ready' \in [Slot -> Nat]
       /\ \A s \in Slot : o_reg_ready'[s] <= b_reg_ready'[s]
  <2>. DEFINE now(s) == s \in d.writes \/ (d.sets_flags /\ s = FLAG_REG)
  <2>1. /\ b_reg_ready' = [s \in Slot |-> IF now(s) THEN we + d.latency
                                          ELSE b_reg_ready[s]]
        /\ o_reg_ready' = [s \in Slot |-> IF now(s) THEN se + d.latency
                                          ELSE o_reg_ready[s]]
    BY <1>2, <1>5, OooSlotsShared DEF Baseline!Execute, OutOfOrderRun!Execute
  <2>2. \A s \in Slot : /\ b_reg_ready[s] \in Nat /\ o_reg_ready[s] \in Nat
                        /\ o_reg_ready[s] <= b_reg_ready[s]
    BY DEF OooInv, OooTyped, OooDominates
  <2>. HIDE DEF now
  <2>. QED  BY <1>11, <2>1, <2>2
<1>16. /\ b_rob' \in [0..RobSize-1 -> Nat] /\ o_rob' \in [0..RobSize-1 -> Nat]
       /\ \A k \in 0..RobSize-1 : o_rob'[k] <= b_rob'[k]
  <2>1. /\ b_rob' = [b_rob EXCEPT ![count % RobSize] = wi]
        /\ o_rob' = [o_rob EXCEPT ![count % RobSize] = si]
    BY <1>3, <1>6 DEF Baseline!Commit, OutOfOrderRun!Commit
  <2>. QED  BY <1>12, <2>1 DEF OooInv, OooTyped, OooDominates
<1>17. /\ b_last_exec' = we /\ o_last_exec' = se
       /\ b_last_commit' = wi /\ o_last_commit' = si
       /\ b_fetch_block' = (IF pen > 0 THEN we + pen ELSE b_fetch_block)
       /\ o_fetch_block' = (IF pen > 0 THEN se + pen ELSE o_fetch_block)
  BY <1>2, <1>3, <1>5, <1>6
  DEF Baseline!Execute, OutOfOrderRun!Execute, Baseline!Commit,
      OutOfOrderRun!Commit
<1>18. /\ b_fetch_block' \in Nat /\ o_fetch_block' \in Nat
       /\ o_fetch_block' <= b_fetch_block'
  BY <1>9, <1>17 DEF OooInv, OooTyped, OooDominates
<1>19. count' \in Nat
  BY DEF OooInv, OooTyped
<1>20. OooTyped'
  <2>1. /\ b_disp_count' \in 0..WeakWidth /\ o_disp_count' \in 0..StrongWidth
        /\ b_com_count' \in 0..WeakWidth /\ o_com_count' \in 0..StrongWidth
    BY <1>7, <1>13, <1>14
  <2>2. /\ b_disp_cycle' \in Nat /\ o_disp_cycle' \in Nat
        /\ b_com_cycle' \in Nat /\ o_com_cycle' \in Nat
        /\ b_last_exec' \in Nat /\ o_last_exec' \in Nat
        /\ b_last_commit' \in Nat /\ o_last_commit' \in Nat
    BY <1>8, <1>9, <1>12, <1>13, <1>14, <1>17
  <2>. QED  BY <1>15, <1>16, <1>18, <1>19, <2>1, <2>2 DEF OooTyped
<1>21. OooDominates'
  BY <1>8, <1>9, <1>12, <1>13, <1>14, <1>15, <1>16, <1>17, <1>18
  DEF OooDominates
<1>. QED  BY <1>20, <1>21 DEF OooInv

\* Both schedules start alike.
LEMMA OooInvInit == ASSUME Baseline!Init, OutOfOrderRun!Init PROVE OooInv
<1>1. WeakWidth \in Nat /\ StrongWidth \in Nat /\ RobSize \in Nat
  BY StrongerAssumption, OooAssumption
<1>2. /\ b_reg_ready = [s \in Slot |-> 0] /\ o_reg_ready = [s \in Slot |-> 0]
      /\ b_rob = [k \in 0..RobSize-1 |-> 0] /\ o_rob = [k \in 0..RobSize-1 |-> 0]
  BY OooSlotsShared DEF Baseline!Init, OutOfOrderRun!Init
<1>3. OooTyped
  BY <1>1, <1>2 DEF OooTyped, Baseline!Init, OutOfOrderRun!Init
<1>4. OooDominates
  BY <1>2 DEF OooDominates, Baseline!Init, OutOfOrderRun!Init
<1>. QED  BY <1>3, <1>4 DEF OooInv

\* Every instruction keeps the out-of-order schedule ahead.
LEMMA OooInvStep == ASSUME OooInv, [OooNext]_<<vars, oooVars>> PROVE OooInv'
<1>1. CASE UNCHANGED <<vars, oooVars>>
  BY <1>1 DEF vars, oooVars, OooInv, OooTyped, OooDominates
<1>2. CASE OooNext
  <2>1. PICK s \in CpuSteps : \E pen \in Penalties(Predictor, s.info) :
           Baseline!Issue(s, pen) /\ OutOfOrderRun!Issue(s, pen)
    BY <1>2 DEF OooNext
  <2>2. PICK pen \in Penalties(Predictor, s.info) :
           Baseline!Issue(s, pen) /\ OutOfOrderRun!Issue(s, pen)
    BY <2>1
  <2>3. s.info \in InstInfo
    BY CpuStepsType
  <2>4. pen \in Nat
    BY <2>3, PenaltiesType, StrongerAssumption
  <2>5. /\ count' = count + 1
        /\ Baseline!Schedule(s.info, pen) /\ OutOfOrderRun!Schedule(s.info, pen)
    BY <2>2 DEF Baseline!Issue, OutOfOrderRun!Issue
  <2>. QED  BY <2>3, <2>4, <2>5, OooScheduleStep
<1>. QED  BY <1>1, <1>2

\* The out-of-order schedule is nowhere behind the in-order one: relaxing a
\* constraint of pipe_run_ooo never delays anything.
THEOREM OooDominatesBaseline == OooSpec => []OooDominates
<1>1. OooInit => OooInv
  BY OooInvInit DEF OooInit
<1>2. OooInv => OooDominates
  BY DEF OooInv
<1>. QED  BY <1>1, <1>2, OooInvStep, PTL DEF OooSpec

\* pipe_run_ooo reports no more cycles out of order, or with more ports, than
\* the in-order baseline does, for any program and any reorder buffer.
THEOREM DynamicNeverSlower == OooSpec => []OooNeverSlower
<1>1. OooDominates => OooNeverSlower
  BY DEF OooDominates, OooNeverSlower, Baseline!Cycles, OutOfOrderRun!Cycles
<1>. QED  BY <1>1, OooDominatesBaseline, PTL

-----------------------------------------------------------------------------
(* The histories *)

\* The four schedules compared, with the theorems about each.
WeakP == INSTANCE SuperscalarProofs WITH
            Width <- WeakWidth, Forwarding <- WeakForwarding,
            ready <- w_ready, cur_if <- w_cur_if, cur_count <- w_cur_count,
            fetch_block <- w_fetch_block, last_if <- w_last_if, log <- w_log

StrongP == INSTANCE SuperscalarProofs WITH
            Width <- StrongWidth, Forwarding <- StrongForwarding,
            ready <- s_ready, cur_if <- s_cur_if, cur_count <- s_cur_count,
            fetch_block <- s_fetch_block, last_if <- s_last_if, log <- s_log

BaselineP == INSTANCE OutOfOrderProofs WITH
    Width <- WeakWidth, InOrder <- WeakInOrder,
    reg_ready <- b_reg_ready, rob <- b_rob,
    disp_cycle <- b_disp_cycle, disp_count <- b_disp_count,
    com_cycle <- b_com_cycle, com_count <- b_com_count,
    fetch_block <- b_fetch_block, last_exec <- b_last_exec,
    last_commit <- b_last_commit, log <- b_log

OutOfOrderP == INSTANCE OutOfOrderProofs WITH
    Width <- StrongWidth, InOrder <- StrongInOrder,
    reg_ready <- o_reg_ready, rob <- o_rob,
    disp_cycle <- o_disp_cycle, disp_count <- o_disp_count,
    com_cycle <- o_com_cycle, com_count <- o_com_count,
    fetch_block <- o_fetch_block, last_exec <- o_last_exec,
    last_commit <- o_last_commit, log <- o_log

\* The arguments of all four runs are ones their proofs cover.
LEMMA ConfigsOK ==
    /\ WeakP!ConfigOK /\ StrongP!ConfigOK
    /\ BaselineP!ConfigOK /\ OutOfOrderP!ConfigOK
<1>1. /\ WeakWidth \in Nat /\ WeakWidth >= 1
      /\ StrongWidth \in Nat /\ StrongWidth >= 1
      /\ WeakForwarding \in BOOLEAN /\ StrongForwarding \in BOOLEAN
      /\ Predictor \in BOOLEAN
  BY StrongerAssumption
<1>2. /\ RobSize \in Nat /\ RobSize >= 1
      /\ WeakInOrder \in BOOLEAN /\ StrongInOrder \in BOOLEAN
  BY OooAssumption
<1>. QED
  BY <1>1, <1>2 DEF WeakP!ConfigOK, StrongP!ConfigOK, BaselineP!ConfigOK,
                    OutOfOrderP!ConfigOK

\* The instances describe the same instructions and penalties.
LEMMA SameIsa ==
    /\ CpuSteps = WeakP!CpuSteps /\ CpuSteps = StrongP!CpuSteps
    /\ CpuSteps = BaselineP!CpuSteps /\ CpuSteps = OutOfOrderP!CpuSteps
    /\ \A p, d : /\ Penalties(p, d) = WeakP!Penalties(p, d)
                 /\ Penalties(p, d) = StrongP!Penalties(p, d)
                 /\ Penalties(p, d) = BaselineP!Penalties(p, d)
                 /\ Penalties(p, d) = OutOfOrderP!Penalties(p, d)
<1>1. /\ CpuSteps = WeakP!CpuSteps
      /\ \A p, d : Penalties(p, d) = WeakP!Penalties(p, d)
  BY DEF
      CpuSteps, decode_meta, Outcomes, Halts, op_reads, op_writes,
      op_sets_flags, op_is_control, op_is_conditional, op_accesses_mem,
      op_latency, AluOps, CondOps, FLAG_REG, Penalties, control_penalty,
      CONTROL_PENALTY, WeakP!CpuSteps, WeakP!decode_meta, WeakP!Outcomes,
      WeakP!Halts, WeakP!op_reads, WeakP!op_writes, WeakP!op_sets_flags,
      WeakP!op_is_control, WeakP!op_is_conditional, WeakP!op_accesses_mem,
      WeakP!op_latency, WeakP!AluOps, WeakP!CondOps, WeakP!FLAG_REG,
      WeakP!Penalties, WeakP!control_penalty, WeakP!CONTROL_PENALTY
<1>2. /\ CpuSteps = StrongP!CpuSteps
      /\ \A p, d : Penalties(p, d) = StrongP!Penalties(p, d)
  BY DEF
      CpuSteps, decode_meta, Outcomes, Halts, op_reads, op_writes,
      op_sets_flags, op_is_control, op_is_conditional, op_accesses_mem,
      op_latency, AluOps, CondOps, FLAG_REG, Penalties, control_penalty,
      CONTROL_PENALTY, StrongP!CpuSteps, StrongP!decode_meta,
      StrongP!Outcomes, StrongP!Halts, StrongP!op_reads, StrongP!op_writes,
      StrongP!op_sets_flags, StrongP!op_is_control, StrongP!op_is_conditional,
      StrongP!op_accesses_mem, StrongP!op_latency, StrongP!AluOps,
      StrongP!CondOps, StrongP!FLAG_REG, StrongP!Penalties,
      StrongP!control_penalty, StrongP!CONTROL_PENALTY
<1>3. /\ CpuSteps = BaselineP!CpuSteps
      /\ \A p, d : Penalties(p, d) = BaselineP!Penalties(p, d)
  BY DEF
      CpuSteps, decode_meta, Outcomes, Halts, op_reads, op_writes,
      op_sets_flags, op_is_control, op_is_conditional, op_accesses_mem,
      op_latency, AluOps, CondOps, FLAG_REG, Penalties, control_penalty,
      CONTROL_PENALTY, BaselineP!CpuSteps, BaselineP!decode_meta,
      BaselineP!Outcomes, BaselineP!Halts, BaselineP!op_reads,
      BaselineP!op_writes, BaselineP!op_sets_flags, BaselineP!op_is_control,
      BaselineP!op_is_conditional, BaselineP!op_accesses_mem,
      BaselineP!op_latency, BaselineP!AluOps, BaselineP!CondOps,
      BaselineP!FLAG_REG, BaselineP!Penalties, BaselineP!control_penalty,
      BaselineP!CONTROL_PENALTY
<1>4. /\ CpuSteps = OutOfOrderP!CpuSteps
      /\ \A p, d : Penalties(p, d) = OutOfOrderP!Penalties(p, d)
  BY DEF
      CpuSteps, decode_meta, Outcomes, Halts, op_reads, op_writes,
      op_sets_flags, op_is_control, op_is_conditional, op_accesses_mem,
      op_latency, AluOps, CondOps, FLAG_REG, Penalties, control_penalty,
      CONTROL_PENALTY, OutOfOrderP!CpuSteps, OutOfOrderP!decode_meta,
      OutOfOrderP!Outcomes, OutOfOrderP!Halts, OutOfOrderP!op_reads,
      OutOfOrderP!op_writes, OutOfOrderP!op_sets_flags,
      OutOfOrderP!op_is_control, OutOfOrderP!op_is_conditional,
      OutOfOrderP!op_accesses_mem, OutOfOrderP!op_latency, OutOfOrderP!AluOps,
      OutOfOrderP!CondOps, OutOfOrderP!FLAG_REG, OutOfOrderP!Penalties,
      OutOfOrderP!control_penalty, OutOfOrderP!CONTROL_PENALTY
<1>. QED  BY <1>1, <1>2, <1>3, <1>4

\* What the instances assume of the instruction set holds here.
LEMMA IsaAssumed ==
    /\ Regs \subseteq 0..7 /\ Regs # {}
    /\ Ops \subseteq WeakP!Opcode /\ Ops \subseteq StrongP!Opcode
    /\ Ops \subseteq BaselineP!Opcode /\ Ops \subseteq OutOfOrderP!Opcode
  BY RegsAssumption, OpsAssumption DEF
      Opcode, WeakP!Opcode, StrongP!Opcode, BaselineP!Opcode,
      OutOfOrderP!Opcode, AluOps, WeakP!AluOps, StrongP!AluOps,
      BaselineP!AluOps, OutOfOrderP!AluOps, CondOps, WeakP!CondOps,
      StrongP!CondOps, BaselineP!CondOps, OutOfOrderP!CondOps

\* Each of the four is a run of its own function: they share the program and
\* the predictor's answers and nothing else.
LEMMA WeakRuns == CSpec => WeakP!HSpec
<1>1. CInit => WeakP!HInit
  BY DEF CInit, WeakH!HInit, WeakP!HInit, WeakH!Init, WeakP!Init,
         WeakH!Slot, WeakP!Slot, WeakH!FLAG_REG, WeakP!FLAG_REG
<1>2. ASSUME NEW s, NEW pen, WeakH!HIssue(s, pen) PROVE WeakP!HIssue(s, pen)
  BY <1>2 DEF
      WeakH!HIssue, WeakP!HIssue, WeakH!Issue, WeakP!Issue, WeakH!Schedule,
      WeakP!Schedule, WeakH!Place, WeakP!Place, WeakH!lowerBounds,
      WeakP!lowerBounds, WeakH!earliest, WeakP!earliest, WeakH!flagsReady,
      WeakP!flagsReady, WeakH!resultReady, WeakP!resultReady, WeakH!Slot,
      WeakP!Slot, WeakH!FLAG_REG, WeakP!FLAG_REG
<1>3. CNext => WeakP!HNext
  BY <1>2, SameIsa DEF CNext, WeakP!HNext
<1>4. UNCHANGED <<vars, oooVars, w_log, s_log, b_log, o_log>>
        => UNCHANGED <<WeakP!vars, w_log>>
  BY DEF vars, oooVars, WeakP!vars, WeakP!schedVars
<1>. QED  BY <1>1, <1>3, <1>4, PTL DEF CSpec, WeakP!HSpec

\* The stronger superscalar configuration,
LEMMA StrongRuns == CSpec => StrongP!HSpec
<1>1. CInit => StrongP!HInit
  BY DEF CInit, StrongH!HInit, StrongP!HInit, StrongH!Init, StrongP!Init,
         StrongH!Slot, StrongP!Slot, StrongH!FLAG_REG, StrongP!FLAG_REG
<1>2. ASSUME NEW s, NEW pen, StrongH!HIssue(s, pen) PROVE StrongP!HIssue(s, pen)
  BY <1>2 DEF
      StrongH!HIssue, StrongP!HIssue, StrongH!Issue, StrongP!Issue,
      StrongH!Schedule, StrongP!Schedule, StrongH!Place, StrongP!Place,
      StrongH!lowerBounds, StrongP!lowerBounds, StrongH!earliest,
      StrongP!earliest, StrongH!flagsReady, StrongP!flagsReady,
      StrongH!resultReady, StrongP!resultReady, StrongH!Slot, StrongP!Slot,
      StrongH!FLAG_REG, StrongP!FLAG_REG
<1>3. CNext => StrongP!HNext
  BY <1>2, SameIsa DEF CNext, StrongP!HNext
<1>4. UNCHANGED <<vars, oooVars, w_log, s_log, b_log, o_log>>
        => UNCHANGED <<StrongP!vars, s_log>>
  BY DEF vars, oooVars, StrongP!vars, StrongP!schedVars
<1>. QED  BY <1>1, <1>3, <1>4, PTL DEF CSpec, StrongP!HSpec

\* the baseline of the out-of-order model
LEMMA BaselineRuns == CSpec => BaselineP!HSpec
<1>1. CInit => BaselineP!HInit
  BY DEF CInit, BaselineH!HInit, BaselineP!HInit, BaselineH!Init, BaselineP!Init,
         BaselineH!Slot, BaselineP!Slot, BaselineH!FLAG_REG, BaselineP!FLAG_REG
<1>2. ASSUME NEW s, NEW pen, BaselineH!HIssue(s, pen) PROVE BaselineP!HIssue(s, pen)
  BY <1>2 DEF
      BaselineH!HIssue, BaselineP!HIssue, BaselineH!Issue, BaselineP!Issue,
      BaselineH!Schedule, BaselineP!Schedule, BaselineH!Dispatch,
      BaselineP!Dispatch, BaselineH!Execute, BaselineP!Execute,
      BaselineH!Commit, BaselineP!Commit, BaselineH!IsLatest,
      BaselineP!IsLatest, BaselineH!dispatchBounds, BaselineP!dispatchBounds,
      BaselineH!slot_free, BaselineP!slot_free, BaselineH!executeBounds,
      BaselineP!executeBounds, BaselineH!commitBounds, BaselineP!commitBounds,
      BaselineH!Slot, BaselineP!Slot, BaselineH!FLAG_REG, BaselineP!FLAG_REG
<1>3. CNext => BaselineP!HNext
  BY <1>2, SameIsa DEF CNext, BaselineP!HNext
<1>4. UNCHANGED <<vars, oooVars, w_log, s_log, b_log, o_log>>
        => UNCHANGED <<BaselineP!vars, b_log>>
  BY DEF vars, oooVars, BaselineP!vars, BaselineP!schedVars
<1>. QED  BY <1>1, <1>3, <1>4, PTL DEF CSpec, BaselineP!HSpec

\* and the out-of-order model itself.
LEMMA OutOfOrderRuns == CSpec => OutOfOrderP!HSpec
<1>1. CInit => OutOfOrderP!HInit
  BY DEF CInit, OutOfOrderH!HInit, OutOfOrderP!HInit, OutOfOrderH!Init, OutOfOrderP!Init,
         OutOfOrderH!Slot, OutOfOrderP!Slot, OutOfOrderH!FLAG_REG, OutOfOrderP!FLAG_REG
<1>2. ASSUME NEW s, NEW pen, OutOfOrderH!HIssue(s, pen) PROVE OutOfOrderP!HIssue(s, pen)
  BY <1>2 DEF
      OutOfOrderH!HIssue, OutOfOrderP!HIssue, OutOfOrderH!Issue,
      OutOfOrderP!Issue, OutOfOrderH!Schedule, OutOfOrderP!Schedule,
      OutOfOrderH!Dispatch, OutOfOrderP!Dispatch, OutOfOrderH!Execute,
      OutOfOrderP!Execute, OutOfOrderH!Commit, OutOfOrderP!Commit,
      OutOfOrderH!IsLatest, OutOfOrderP!IsLatest, OutOfOrderH!dispatchBounds,
      OutOfOrderP!dispatchBounds, OutOfOrderH!slot_free,
      OutOfOrderP!slot_free, OutOfOrderH!executeBounds,
      OutOfOrderP!executeBounds, OutOfOrderH!commitBounds,
      OutOfOrderP!commitBounds, OutOfOrderH!Slot, OutOfOrderP!Slot,
      OutOfOrderH!FLAG_REG, OutOfOrderP!FLAG_REG
<1>3. CNext => OutOfOrderP!HNext
  BY <1>2, SameIsa DEF CNext, OutOfOrderP!HNext
<1>4. UNCHANGED <<vars, oooVars, w_log, s_log, b_log, o_log>>
        => UNCHANGED <<OutOfOrderP!vars, o_log>>
  BY DEF vars, oooVars, OutOfOrderP!vars, OutOfOrderP!schedVars
<1>. QED  BY <1>1, <1>3, <1>4, PTL DEF CSpec, OutOfOrderP!HSpec

\* Every schedule pipe_run_ss computes in either configuration is legal.
THEOREM IssueSchedulesLegal == CSpec => []SchedulesLegal
<1>1. WeakP!LegalSchedule => WeakH!LegalSchedule
  <2>1. \A S : WeakP!Cardinality(S) = WeakH!Cardinality(S)
    BY DEF WeakP!Cardinality, WeakH!Cardinality
  <2>. QED  BY <2>1 DEF
      WeakH!LegalSchedule, WeakP!LegalSchedule, WeakH!WidthRespected,
      WeakP!WidthRespected, WeakH!OperandsReady, WeakP!OperandsReady,
      WeakH!RedirectRespected, WeakP!RedirectRespected, WeakH!Nearest,
      WeakP!Nearest, WeakH!FirstUse, WeakP!FirstUse, WeakH!produces,
      WeakP!produces, WeakH!FLAG_REG, WeakP!FLAG_REG
<1>2. StrongP!LegalSchedule => StrongH!LegalSchedule
  <2>1. \A S : StrongP!Cardinality(S) = StrongH!Cardinality(S)
    BY DEF StrongP!Cardinality, StrongH!Cardinality
  <2>. QED  BY <2>1 DEF
      StrongH!LegalSchedule, StrongP!LegalSchedule, StrongH!WidthRespected,
      StrongP!WidthRespected, StrongH!OperandsReady, StrongP!OperandsReady,
      StrongH!RedirectRespected, StrongP!RedirectRespected, StrongH!Nearest,
      StrongP!Nearest, StrongH!FirstUse, StrongP!FirstUse, StrongH!produces,
      StrongP!produces, StrongH!FLAG_REG, StrongP!FLAG_REG
<1>3. CSpec => []WeakP!LegalSchedule
  BY IsaAssumed, ConfigsOK, WeakRuns, WeakP!SchedulesAreLegal, PTL
<1>4. CSpec => []StrongP!LegalSchedule
  BY IsaAssumed, ConfigsOK, StrongRuns, StrongP!SchedulesAreLegal, PTL
<1>5. WeakP!LegalSchedule /\ StrongP!LegalSchedule => SchedulesLegal
  BY <1>1, <1>2 DEF SchedulesLegal
<1>. QED  BY <1>3, <1>4, <1>5, PTL

\* Every schedule pipe_run_ooo computes in either configuration is legal.
THEOREM OooLegal == CSpec => []OooSchedulesLegal
<1>1. BaselineP!LegalSchedule => BaselineH!LegalSchedule
  <2>1. \A S : BaselineP!Cardinality(S) = BaselineH!Cardinality(S)
    BY DEF BaselineP!Cardinality, BaselineH!Cardinality
  <2>. QED  BY <2>1 DEF
      BaselineH!LegalSchedule, BaselineP!LegalSchedule,
      BaselineH!PortsRespected, BaselineP!PortsRespected,
      BaselineH!InOrderEnds, BaselineP!InOrderEnds,
      BaselineH!TrueDependencies, BaselineP!TrueDependencies,
      BaselineH!RedirectRespected, BaselineP!RedirectRespected,
      BaselineH!DispatchedIn, BaselineP!DispatchedIn, BaselineH!CommittedIn,
      BaselineP!CommittedIn, BaselineH!Nearest, BaselineP!Nearest,
      BaselineH!Completes, BaselineP!Completes, BaselineH!produces,
      BaselineP!produces, BaselineH!FLAG_REG, BaselineP!FLAG_REG
<1>2. OutOfOrderP!LegalSchedule => OutOfOrderH!LegalSchedule
  <2>1. \A S : OutOfOrderP!Cardinality(S) = OutOfOrderH!Cardinality(S)
    BY DEF OutOfOrderP!Cardinality, OutOfOrderH!Cardinality
  <2>. QED  BY <2>1 DEF
      OutOfOrderH!LegalSchedule, OutOfOrderP!LegalSchedule,
      OutOfOrderH!PortsRespected, OutOfOrderP!PortsRespected,
      OutOfOrderH!InOrderEnds, OutOfOrderP!InOrderEnds,
      OutOfOrderH!TrueDependencies, OutOfOrderP!TrueDependencies,
      OutOfOrderH!RedirectRespected, OutOfOrderP!RedirectRespected,
      OutOfOrderH!DispatchedIn, OutOfOrderP!DispatchedIn,
      OutOfOrderH!CommittedIn, OutOfOrderP!CommittedIn, OutOfOrderH!Nearest,
      OutOfOrderP!Nearest, OutOfOrderH!Completes, OutOfOrderP!Completes,
      OutOfOrderH!produces, OutOfOrderP!produces, OutOfOrderH!FLAG_REG,
      OutOfOrderP!FLAG_REG
<1>3. CSpec => []BaselineP!LegalSchedule
  BY IsaAssumed, ConfigsOK, BaselineRuns, BaselineP!SchedulesAreLegal, PTL
<1>4. CSpec => []OutOfOrderP!LegalSchedule
  BY IsaAssumed, ConfigsOK, OutOfOrderRuns, OutOfOrderP!SchedulesAreLegal, PTL
<1>5. /\ BaselineP!LegalSchedule
      /\ OutOfOrderP!LegalSchedule
      => OooSchedulesLegal
  BY <1>1, <1>2 DEF OooSchedulesLegal
<1>. QED  BY <1>3, <1>4, <1>5, PTL

\* In neither configuration does the reorder buffer overflow.
THEOREM RobWithinBounds == CSpec => []RobNeverOverfull
<1>1. BaselineP!RobBounded => BaselineH!RobBounded
  <2>1. \A S : BaselineP!Cardinality(S) = BaselineH!Cardinality(S)
    BY DEF BaselineP!Cardinality, BaselineH!Cardinality
  <2>. QED  BY <2>1 DEF
      BaselineH!RobBounded, BaselineP!RobBounded
<1>2. OutOfOrderP!RobBounded => OutOfOrderH!RobBounded
  <2>1. \A S : OutOfOrderP!Cardinality(S) = OutOfOrderH!Cardinality(S)
    BY DEF OutOfOrderP!Cardinality, OutOfOrderH!Cardinality
  <2>. QED  BY <2>1 DEF
      OutOfOrderH!RobBounded, OutOfOrderP!RobBounded
<1>3. CSpec => []BaselineP!RobBounded
  BY IsaAssumed, ConfigsOK, BaselineRuns, BaselineP!RobNeverFuller, PTL
<1>4. CSpec => []OutOfOrderP!RobBounded
  BY IsaAssumed, ConfigsOK, OutOfOrderRuns, OutOfOrderP!RobNeverFuller, PTL
<1>5. BaselineP!RobBounded /\ OutOfOrderP!RobBounded => RobNeverOverfull
  BY <1>1, <1>2 DEF RobNeverOverfull
<1>. QED  BY <1>3, <1>4, <1>5, PTL

\* None of the four schedules idles a cycle: pipe_run_ss fetches, and pipe_run_ooo
\* dispatches, executes and commits, in order or out of it, every instruction in
\* the first cycle that a legal schedule has for it.
THEOREM NothingWaitsIdly == CSpec => []SchedulesTight
<1>1. WeakP!NoIdleCycle => WeakH!NoIdleCycle
  <2>1. \A S : WeakP!Cardinality(S) = WeakH!Cardinality(S)
    BY DEF WeakP!Cardinality, WeakH!Cardinality
  <2>. QED  BY <2>1 DEF
      WeakH!NoIdleCycle, WeakP!NoIdleCycle, WeakH!BundleFull,
      WeakP!BundleFull, WeakH!Redirected, WeakP!Redirected, WeakH!Awaited,
      WeakP!Awaited, WeakH!Nearest, WeakP!Nearest, WeakH!FirstUse,
      WeakP!FirstUse, WeakH!produces, WeakP!produces, WeakH!FLAG_REG,
      WeakP!FLAG_REG
<1>2. StrongP!NoIdleCycle => StrongH!NoIdleCycle
  <2>1. \A S : StrongP!Cardinality(S) = StrongH!Cardinality(S)
    BY DEF StrongP!Cardinality, StrongH!Cardinality
  <2>. QED  BY <2>1 DEF
      StrongH!NoIdleCycle, StrongP!NoIdleCycle, StrongH!BundleFull,
      StrongP!BundleFull, StrongH!Redirected, StrongP!Redirected,
      StrongH!Awaited, StrongP!Awaited, StrongH!Nearest, StrongP!Nearest,
      StrongH!FirstUse, StrongP!FirstUse, StrongH!produces,
      StrongP!produces, StrongH!FLAG_REG, StrongP!FLAG_REG
<1>3. BaselineP!NoIdleCycle => BaselineH!NoIdleCycle
  <2>1. \A S : BaselineP!Cardinality(S) = BaselineH!Cardinality(S)
    BY DEF BaselineP!Cardinality, BaselineH!Cardinality
  <2>. QED  BY <2>1 DEF
      BaselineH!NoIdleCycle, BaselineP!NoIdleCycle,
      BaselineH!DispatchPrompt, BaselineP!DispatchPrompt,
      BaselineH!ExecutePrompt, BaselineP!ExecutePrompt,
      BaselineH!CommitPrompt, BaselineP!CommitPrompt, BaselineH!Nearest,
      BaselineP!Nearest, BaselineH!Completes, BaselineP!Completes,
      BaselineH!produces, BaselineP!produces, BaselineH!FLAG_REG,
      BaselineP!FLAG_REG
<1>4. OutOfOrderP!NoIdleCycle => OutOfOrderH!NoIdleCycle
  <2>1. \A S : OutOfOrderP!Cardinality(S) = OutOfOrderH!Cardinality(S)
    BY DEF OutOfOrderP!Cardinality, OutOfOrderH!Cardinality
  <2>. QED  BY <2>1 DEF
      OutOfOrderH!NoIdleCycle, OutOfOrderP!NoIdleCycle,
      OutOfOrderH!DispatchPrompt, OutOfOrderP!DispatchPrompt,
      OutOfOrderH!ExecutePrompt, OutOfOrderP!ExecutePrompt,
      OutOfOrderH!CommitPrompt, OutOfOrderP!CommitPrompt,
      OutOfOrderH!Nearest, OutOfOrderP!Nearest, OutOfOrderH!Completes,
      OutOfOrderP!Completes, OutOfOrderH!produces, OutOfOrderP!produces,
      OutOfOrderH!FLAG_REG, OutOfOrderP!FLAG_REG
<1>5. CSpec => []WeakP!NoIdleCycle
  BY IsaAssumed, ConfigsOK, WeakRuns, WeakP!SchedulesAreTight, PTL
<1>6. CSpec => []StrongP!NoIdleCycle
  BY IsaAssumed, ConfigsOK, StrongRuns, StrongP!SchedulesAreTight, PTL
<1>7. CSpec => []BaselineP!NoIdleCycle
  BY IsaAssumed, ConfigsOK, BaselineRuns, BaselineP!SchedulesAreTight, PTL
<1>8. CSpec => []OutOfOrderP!NoIdleCycle
  BY IsaAssumed, ConfigsOK, OutOfOrderRuns, OutOfOrderP!SchedulesAreTight, PTL
<1>9. /\ WeakP!NoIdleCycle /\ StrongP!NoIdleCycle
      /\ BaselineP!NoIdleCycle /\ OutOfOrderP!NoIdleCycle
      => SchedulesTight
  BY <1>1, <1>2, <1>3, <1>4 DEF SchedulesTight
<1>. QED  BY <1>5, <1>6, <1>7, <1>8, <1>9, PTL

\* The histories only watch: the four runs with them are those without.
THEOREM HistoriesOnlyWatch == CSpec => Spec /\ OooSpec
<1>1. CInit => Init /\ OooInit
  BY DEF CInit, Init, OooInit,
      Weak!Init, Strong!Init, Baseline!Init, OutOfOrderRun!Init, WeakH!Init,
      StrongH!Init, BaselineH!Init, OutOfOrderH!Init, Weak!Slot, Strong!Slot,
      Baseline!Slot, OutOfOrderRun!Slot, WeakH!Slot, StrongH!Slot,
      BaselineH!Slot, OutOfOrderH!Slot, Weak!FLAG_REG, Strong!FLAG_REG,
      Baseline!FLAG_REG, OutOfOrderRun!FLAG_REG, WeakH!FLAG_REG,
      StrongH!FLAG_REG, BaselineH!FLAG_REG, OutOfOrderH!FLAG_REG, WeakH!HInit,
      StrongH!HInit, BaselineH!HInit, OutOfOrderH!HInit
<1>2. ASSUME NEW s, NEW pen, WeakH!HIssue(s, pen) PROVE Weak!Issue(s, pen)
  BY <1>2 DEF WeakH!HIssue,
      Weak!Issue, WeakH!Issue, Weak!Schedule, WeakH!Schedule, Weak!Place,
      WeakH!Place, Weak!lowerBounds, WeakH!lowerBounds, Weak!earliest,
      WeakH!earliest, Weak!flagsReady, WeakH!flagsReady, Weak!resultReady,
      WeakH!resultReady, Weak!Slot, WeakH!Slot, Weak!FLAG_REG, WeakH!FLAG_REG
<1>3. ASSUME NEW s, NEW pen, StrongH!HIssue(s, pen) PROVE Strong!Issue(s, pen)
  BY <1>3 DEF StrongH!HIssue,
      Strong!Issue, StrongH!Issue, Strong!Schedule, StrongH!Schedule,
      Strong!Place, StrongH!Place, Strong!lowerBounds, StrongH!lowerBounds,
      Strong!earliest, StrongH!earliest, Strong!flagsReady,
      StrongH!flagsReady, Strong!resultReady, StrongH!resultReady,
      Strong!Slot, StrongH!Slot, Strong!FLAG_REG, StrongH!FLAG_REG
<1>4. ASSUME NEW s, NEW pen, BaselineH!HIssue(s, pen) PROVE Baseline!Issue(s, pen)
  BY <1>4 DEF BaselineH!HIssue,
      Baseline!Issue, BaselineH!Issue, Baseline!Schedule, BaselineH!Schedule,
      Baseline!Dispatch, BaselineH!Dispatch, Baseline!Execute,
      BaselineH!Execute, Baseline!Commit, BaselineH!Commit, Baseline!IsLatest,
      BaselineH!IsLatest, Baseline!dispatchBounds, BaselineH!dispatchBounds,
      Baseline!slot_free, BaselineH!slot_free, Baseline!executeBounds,
      BaselineH!executeBounds, Baseline!commitBounds, BaselineH!commitBounds,
      Baseline!Slot, BaselineH!Slot, Baseline!FLAG_REG, BaselineH!FLAG_REG
<1>5. ASSUME NEW s, NEW pen, OutOfOrderH!HIssue(s, pen) PROVE OutOfOrderRun!Issue(s, pen)
  BY <1>5 DEF OutOfOrderH!HIssue,
      OutOfOrderRun!Issue, OutOfOrderH!Issue, OutOfOrderRun!Schedule,
      OutOfOrderH!Schedule, OutOfOrderRun!Dispatch, OutOfOrderH!Dispatch,
      OutOfOrderRun!Execute, OutOfOrderH!Execute, OutOfOrderRun!Commit,
      OutOfOrderH!Commit, OutOfOrderRun!IsLatest, OutOfOrderH!IsLatest,
      OutOfOrderRun!dispatchBounds, OutOfOrderH!dispatchBounds,
      OutOfOrderRun!slot_free, OutOfOrderH!slot_free,
      OutOfOrderRun!executeBounds, OutOfOrderH!executeBounds,
      OutOfOrderRun!commitBounds, OutOfOrderH!commitBounds,
      OutOfOrderRun!Slot, OutOfOrderH!Slot, OutOfOrderRun!FLAG_REG,
      OutOfOrderH!FLAG_REG
<1>6. CNext => Next /\ OooNext
  BY <1>2, <1>3, <1>4, <1>5 DEF CNext, Next, OooNext
<1>7. UNCHANGED <<vars, oooVars, w_log, s_log, b_log, o_log>>
        => UNCHANGED vars /\ UNCHANGED <<vars, oooVars>>
  OBVIOUS
<1>. QED  BY <1>1, <1>6, <1>7, PTL DEF CSpec, Spec, OooSpec

\* Side by side, as main_pipe.c reports them, neither stronger machine is ever
\* slower.
THEOREM ComparedNeverSlower ==
    CSpec => [](StrongerNeverSlower /\ OooNeverSlower /\ OooDominates)
  BY HistoriesOnlyWatch, WiderNeverSlower, DynamicNeverSlower,
     OooDominatesBaseline, PTL
=============================================================================
