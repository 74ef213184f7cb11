-------------------------- MODULE OutOfOrderProofs --------------------------
(***************************************************************************)
(* Every schedule pipe_run_ooo computes is legal, keeps the reorder buffer *)
(* within its size and idles no cycle: for every width, every size of the  *)
(* buffer, in order or out of it, and whatever the program and the         *)
(* predictor do.  The invariant ties the register table, the circular      *)
(* array of commit cycles and the two ports, which keep a bounded past, to *)
(* the history of all decisions.                                           *)
(***************************************************************************)
EXTENDS OutOfOrderHistory, FiniteSetTheorems, TLAPS

\* The arguments main_pipe.c calls pipe_run_ooo with.
ConfigOK ==
    /\ Width \in Nat /\ Width >= 1 /\ RobSize \in Nat /\ RobSize >= 1
    /\ InOrder \in BOOLEAN /\ Predictor \in BOOLEAN

\* Any instruction next, with any penalty its predictor allows.
HNext == \E s \in CpuSteps : \E pen \in Penalties(Predictor, s.info) : HIssue(s, pen)

HSpec == HInit /\ [][HNext]_<<vars, log>>

\* What the history records of an instruction.
LogEntry == [d: InstInfo, pen: Nat, disp: Nat, exec: Nat, commit: Nat]

-----------------------------------------------------------------------------
(* The instruction metadata *)

\* What gen_one can report is an InstInfo and a Boolean.
LEMMA CpuStepsType ==
    ASSUME NEW s \in CpuSteps
    PROVE  s.info \in InstInfo /\ s.halts \in BOOLEAN
<1>1. PICK op \in Ops : s \in [info: {decode_meta(op, rd, rs, t) :
                            rd \in Regs, rs \in Regs, t \in Outcomes(op)},
                         halts: Halts(op)]
  BY DEF CpuSteps
<1>2. PICK rd \in Regs, rs \in Regs, t \in Outcomes(op) :
        s.info = decode_meta(op, rd, rs, t)
  BY <1>1
<1>3. t \in BOOLEAN
  BY DEF Outcomes
<1>4. /\ op_reads(op, rd, rs) \in SUBSET Slot
      /\ op_writes(op, rd) \in SUBSET Slot
  BY DEF op_reads, op_writes, Slot
<1>5. op_latency(op) \in 1..20
  BY DEF op_latency
<1>6. s.info \in InstInfo
  BY <1>2, <1>3, <1>4, <1>5
  DEF decode_meta, InstInfo, op_sets_flags, op_is_control, op_is_conditional,
      op_accesses_mem
<1>7. Halts(op) \subseteq BOOLEAN
  BY DEF Halts
<1>8. s.halts \in Halts(op)
  BY <1>1
<1>. QED  BY <1>6, <1>7, <1>8

\* A penalty is a number of cycles.
LEMMA PenaltiesType ==
    ASSUME NEW predictor \in BOOLEAN, NEW d \in InstInfo,
           NEW pen \in Penalties(predictor, d)
    PROVE  pen \in Nat
  BY DEF Penalties, control_penalty, CONTROL_PENALTY

-----------------------------------------------------------------------------
(* The circular array *)

\* Fewer than R apart, two instructions are in different slots.
LEMMA SlotsDistinct ==
    ASSUME NEW R \in Nat, R >= 1, NEW a \in Nat, NEW b \in Nat, a < b, b < a + R
    PROVE  a % R # b % R
<1>. DEFINE qa == a \div R
            qb == b \div R
<1>1. /\ qa \in Int /\ qb \in Int
      /\ a = R * qa + (a % R) /\ b = R * qb + (b % R)
      /\ a % R \in 0..R-1 /\ b % R \in 0..R-1
  OBVIOUS
<1>. HIDE DEF qa, qb
<1>2. SUFFICES ASSUME a % R = b % R PROVE FALSE
  OBVIOUS
<1>3. b - a = R * qb - R * qa
  BY <1>1, <1>2
<1>4. R * qb - R * qa = R * (qb - qa)
  BY <1>1
<1>5. 0 < R * (qb - qa) /\ R * (qb - qa) < R
  BY <1>3, <1>4
<1>6. qb - qa >= 1
  <2>1. SUFFICES ASSUME qb - qa <= 0 PROVE FALSE
    BY <1>1
  <2>2. R * (qb - qa) <= 0
    BY <1>1, <2>1
  <2>. QED  BY <1>1, <1>5, <2>2
<1>7. R * (qb - qa) >= R
  BY <1>1, <1>6
<1>. QED  BY <1>1, <1>5, <1>7

\* R instructions later, the slot is the same.
LEMMA SlotReused ==
    ASSUME NEW R \in Nat, R >= 1, NEW a \in Nat
    PROVE  (a + R) % R = a % R
<1>. DEFINE qa == a \div R
            qb == (a + R) \div R
<1>1. /\ qa \in Int /\ qb \in Int
      /\ a = R * qa + (a % R) /\ a + R = R * qb + ((a + R) % R)
      /\ a % R \in 0..R-1 /\ (a + R) % R \in 0..R-1
  OBVIOUS
<1>. HIDE DEF qa, qb
<1>2. R * (qb - qa - 1) = (a % R) - ((a + R) % R)
  BY <1>1
<1>3. qb - qa - 1 = 0
  <2>1. SUFFICES ASSUME qb - qa - 1 # 0 PROVE FALSE
    OBVIOUS
  <2>2. CASE qb - qa - 1 >= 1
    <3>1. R * (qb - qa - 1) >= R
      BY <1>1, <2>2
    <3>. QED  BY <1>1, <1>2, <3>1
  <2>3. CASE qb - qa - 1 <= -1
    <3>1. R * (qb - qa - 1) <= -R
      BY <1>1, <2>3
    <3>. QED  BY <1>1, <1>2, <3>1
  <2>. QED  BY <1>1, <2>1, <2>2, <2>3
<1>. QED  BY <1>1, <1>2, <1>3

-----------------------------------------------------------------------------
(* A port *)

\* The instructions among the first n that a port served in cycle c.
servedIn(f, n, c) == {j \in 1..n : f[j] = c}

\* A port of W slots has served n instructions in order: f[i] is the cycle that
\* served instruction i, c the open cycle and k its population.
PortOK(W, n, f, c, k) ==
    /\ f \in [1..n -> Nat] /\ c \in Nat /\ k \in 0..W
    /\ \A i \in 1..n : f[i] <= c
    /\ Cardinality(servedIn(f, n, c)) = k
    /\ \A i \in 1..n : Cardinality(servedIn(f, n, f[i])) <= W

\* It serves the next in its open cycle, if there is room, or in a later one.
PortServes(W, n, f, g, c, k, k2) ==
    /\ g \in [1..n+1 -> Nat] /\ \A i \in 1..n : g[i] = f[i]
    /\ c <= g[n+1] /\ (k >= W => c < g[n+1])
    /\ IF g[n+1] = c /\ k < W THEN k2 = k + 1 ELSE k2 = 1

\* No cycle serves more than W.
LEMMA PortCounted ==
    ASSUME NEW W \in Nat, W >= 1, NEW n \in Nat, NEW f, NEW g, NEW c, NEW k, NEW k2,
           PortOK(W, n, f, c, k), PortServes(W, n, f, g, c, k, k2)
    PROVE  PortOK(W, n+1, g, g[n+1], k2)
<1>. USE DEF servedIn, PortOK, PortServes
<1>. DEFINE old == servedIn(f, n, c)
            new == servedIn(g, n+1, g[n+1])
<1>1. k2 \in 1..W
  OBVIOUS
<1>2. IsFiniteSet(old)
  <2>1. IsFiniteSet(1..n)
    BY FS_Interval
  <2>. QED  BY <2>1, FS_Subset
<1>3. n + 1 \notin old /\ n + 1 \in new
  OBVIOUS
<1>4. Cardinality(new) = k2
  <2>1. CASE g[n+1] = c
    <3>1. new = old \cup {n + 1}
      BY <2>1
    <3>2. Cardinality(new) = k + 1
      BY <1>2, <1>3, <3>1, FS_AddElement
    <3>. QED  BY <2>1, <3>2
  <2>2. CASE g[n+1] # c
    <3>1. new = {n + 1}
      BY <2>2
    <3>. QED  BY <2>2, <3>1, FS_Singleton
  <2>. QED  BY <2>1, <2>2
<1>5. ASSUME NEW i \in 1..n+1
      PROVE  g[i] <= g[n+1] /\ Cardinality(servedIn(g, n+1, g[i])) <= W
  <2>1. CASE g[i] = g[n+1]
    BY <1>1, <1>4, <2>1
  <2>2. CASE g[i] # g[n+1]
    <3>1. i \in 1..n
      BY <2>2
    <3>2. servedIn(g, n+1, g[i]) = servedIn(f, n, f[i])
      <4>1. \A j \in 1..n+1 : j \in 1..n \/ j = n + 1
        OBVIOUS
      <4>2. g[i] = f[i] /\ \A j \in 1..n : g[j] = f[j] /\ j \in 1..n+1
        BY <3>1
      <4>. HIDE DEF PortOK, PortServes
      <4>. QED  BY <2>2, <4>1, <4>2
    <3>3. g[i] <= g[n+1]
      BY <3>1
    <3>. HIDE DEF servedIn
    <3>. QED  BY <3>1, <3>2, <3>3
  <2>. QED  BY <2>1, <2>2
<1>6. g \in [1..n+1 -> Nat] /\ n + 1 \in Nat
  OBVIOUS
<1>. HIDE DEF servedIn, PortServes
<1>. QED  BY <1>1, <1>4, <1>5, <1>6

-----------------------------------------------------------------------------
(* The inductive invariant *)

\* The scheduler keeps its types; the log has every instruction.
Typed ==
    /\ log \in Seq(LogEntry) /\ count = Len(log)
    /\ reg_ready \in [Slot -> Nat] /\ rob \in [0..RobSize-1 -> Nat]
    /\ disp_cycle \in Nat /\ disp_count \in 0..Width
    /\ com_cycle \in Nat /\ com_count \in 0..Width
    /\ fetch_block \in Nat /\ last_exec \in Nat

\* The open cycle of each port is the latest, and its population is counted.
PortsOpen ==
    /\ \A i \in DOMAIN log : log[i].disp <= disp_cycle /\ log[i].commit <= com_cycle
    /\ Cardinality(DispatchedIn(disp_cycle)) = disp_count
    /\ Cardinality(CommittedIn(com_cycle)) = com_count

\* The open cycles are the last instruction's, or those before the first.
LastOpen ==
    IF count > 0
    THEN /\ log[count].disp = disp_cycle /\ log[count].commit = com_cycle
         /\ log[count].exec = last_exec
    ELSE /\ disp_cycle = 1 /\ disp_count = 0 /\ com_cycle = 1 /\ com_count = 0
         /\ last_exec = 0

\* A register is ready when its nearest producer completes, or was never
\* written.
RegistersReady ==
    \A s \in Slot :
        \/ reg_ready[s] = 0 /\ \A p \in DOMAIN log : ~produces(log[p].d, s)
        \/ \E p \in DOMAIN log :
             /\ produces(log[p].d, s)
             /\ \A q \in DOMAIN log : q > p => ~produces(log[q].d, s)
             /\ reg_ready[s] = log[p].exec + log[p].d.latency

\* The block is the one of some redirect, and covers every redirect.
Blocked ==
    /\ \A p \in DOMAIN log :
         log[p].pen > 0 => log[p].exec + log[p].pen <= fetch_block
    /\ \/ fetch_block = 0
       \/ \E p \in DOMAIN log :
            log[p].pen > 0 /\ fetch_block = log[p].exec + log[p].pen

\* The circular array holds the commit cycles of the last RobSize instructions.
RobHolds ==
    \A i \in DOMAIN log : i + RobSize > count =>
        rob[(i - 1) % RobSize] = log[i].commit

\* An instruction is dispatched after the one RobSize older has committed.
RobGap ==
    \A i, j \in DOMAIN log : j >= i + RobSize => log[i].commit < log[j].disp

\* The inductive invariant.
HInv == /\ Typed /\ PortsOpen /\ LastOpen /\ RegistersReady /\ Blocked /\ RobHolds
        /\ RobGap /\ LegalSchedule /\ NoIdleCycle

-----------------------------------------------------------------------------
(* One instruction *)

\* What pipe_run_ooo knows of the instruction it schedules.
Placed(d, pen, disp, exec, commit) ==
    /\ d \in InstInfo /\ pen \in Nat
    /\ disp \in Nat /\ exec \in Nat /\ commit \in Nat
    /\ disp \in dispatchBounds /\ IsLatest(disp, dispatchBounds)
    /\ exec \in executeBounds(d, disp) /\ IsLatest(exec, executeBounds(d, disp))
    /\ commit \in commitBounds(exec + d.latency)
    /\ IsLatest(commit, commitBounds(exec + d.latency))
    /\ Dispatch(disp) /\ Execute(d, pen, exec) /\ Commit(commit)
    /\ count' = count + 1
    /\ log' = Append(log, [d |-> d, pen |-> pen, disp |-> disp,
                           exec |-> exec, commit |-> commit])

\* A step places an instruction: the cycles it computes meet every constraint.
LEMMA IssuePlaces ==
    ASSUME ConfigOK, HInv, HNext
    PROVE  \E d, pen, disp, exec, commit : Placed(d, pen, disp, exec, commit)
<1>0. PICK s \in CpuSteps : \E pen \in Penalties(Predictor, s.info) : HIssue(s, pen)
  BY DEF HNext
<1>1. PICK pen \in Penalties(Predictor, s.info) : HIssue(s, pen)
  BY <1>0
<1>. DEFINE d == s.info
<1>2. d \in InstInfo /\ d.latency \in Nat /\ d.reads \subseteq Slot
  <2>1. d \in InstInfo
    BY CpuStepsType
  <2>. HIDE DEF d
  <2>. QED  BY <2>1 DEF InstInfo
<1>3. pen \in Nat
  BY <1>2, PenaltiesType DEF ConfigOK
<1>4. Schedule(d, pen)
  BY <1>1 DEF HIssue, Issue
<1>5. /\ count' = count + 1
      /\ log' = Append(log, [d |-> d, pen |-> pen, disp |-> disp_cycle',
                             exec |-> last_exec', commit |-> last_commit'])
  BY <1>1 DEF HIssue, Issue
<1>. HIDE DEF d
<1>6. PICK disp \in dispatchBounds :
        \E exec \in executeBounds(d, disp) :
          \E commit \in commitBounds(exec + d.latency) :
            /\ IsLatest(disp, dispatchBounds)
            /\ IsLatest(exec, executeBounds(d, disp))
            /\ IsLatest(commit, commitBounds(exec + d.latency))
            /\ Dispatch(disp) /\ Execute(d, pen, exec) /\ Commit(commit)
  BY <1>4 DEF Schedule
<1>7. PICK exec \in executeBounds(d, disp) :
          \E commit \in commitBounds(exec + d.latency) :
            /\ IsLatest(disp, dispatchBounds)
            /\ IsLatest(exec, executeBounds(d, disp))
            /\ IsLatest(commit, commitBounds(exec + d.latency))
            /\ Dispatch(disp) /\ Execute(d, pen, exec) /\ Commit(commit)
  BY <1>6
<1>8. PICK commit \in commitBounds(exec + d.latency) :
            /\ IsLatest(disp, dispatchBounds)
            /\ IsLatest(exec, executeBounds(d, disp))
            /\ IsLatest(commit, commitBounds(exec + d.latency))
            /\ Dispatch(disp) /\ Execute(d, pen, exec) /\ Commit(commit)
  BY <1>7
<1>9. disp \in Nat
  <2>1. count % RobSize \in 0..RobSize-1
    BY DEF HInv, Typed, ConfigOK
  <2>2. rob[count % RobSize] \in Nat
    BY <2>1 DEF HInv, Typed
  <2>. QED  BY <2>2 DEF dispatchBounds, slot_free, HInv, Typed
<1>10. exec \in Nat
  <2>1. \A r \in d.reads : reg_ready[r] \in Nat
    BY <1>2 DEF HInv, Typed
  <2>. QED  BY <1>9, <2>1 DEF executeBounds, HInv, Typed
<1>11. commit \in Nat
  BY <1>2, <1>10 DEF commitBounds, HInv, Typed
<1>12. disp_cycle' = disp /\ last_exec' = exec /\ last_commit' = commit
  BY <1>8 DEF Dispatch, Execute, Commit
<1>13. Placed(d, pen, disp, exec, commit)
  BY <1>2, <1>3, <1>5, <1>6, <1>7, <1>8, <1>9, <1>10, <1>11, <1>12 DEF Placed
<1>. QED  BY <1>13

\* The history grows by the instruction; its cycles are the latest of their
\* ports and in the order of its stages.
Grown(d, pen, disp, exec, commit) ==
    /\ log' \in Seq(LogEntry) /\ Len(log') = count + 1 /\ count' = count + 1
    /\ count \in Nat /\ DOMAIN log = 1..count /\ DOMAIN log' = 1..count+1
    /\ log'[count+1] = [d |-> d, pen |-> pen, disp |-> disp, exec |-> exec,
                        commit |-> commit]
    /\ \A i \in 1..count : log'[i] = log[i] /\ log[i] \in LogEntry
    /\ d \in InstInfo /\ pen \in Nat
    /\ disp \in Nat /\ exec \in Nat /\ commit \in Nat
    /\ disp_cycle <= disp /\ (disp_count >= Width => disp_cycle < disp)
    /\ com_cycle <= commit /\ (com_count >= Width => com_cycle < commit)
    /\ disp <= exec /\ exec + d.latency <= commit
    /\ fetch_block <= disp

\* A placed instruction extends the log, and nothing else of it changes.
LEMMA PlacedGrows ==
    ASSUME ConfigOK, HInv, NEW d, NEW pen, NEW disp, NEW exec, NEW commit,
           Placed(d, pen, disp, exec, commit)
    PROVE  Grown(d, pen, disp, exec, commit)
<1>. DEFINE e == [d |-> d, pen |-> pen, disp |-> disp, exec |-> exec,
                  commit |-> commit]
<1>1. log \in Seq(LogEntry) /\ count = Len(log) /\ count \in Nat
  BY DEF HInv, Typed
<1>2. e \in LogEntry /\ log' = Append(log, e)
  BY DEF Placed, LogEntry
<1>. HIDE DEF e
<1>3. log' \in Seq(LogEntry) /\ Len(log') = count + 1
  BY <1>1, <1>2
<1>4. DOMAIN log = 1..count /\ DOMAIN log' = 1..count+1
  BY <1>1, <1>3
<1>5. log'[count+1] = e
  BY <1>1, <1>2
<1>6. \A i \in 1..count : log'[i] = log[i] /\ log[i] \in LogEntry
  BY <1>1, <1>2
<1>7. /\ disp_cycle <= disp /\ (disp_count >= Width => disp_cycle < disp)
      /\ fetch_block <= disp
  <2>1. /\ (IF disp_count < Width THEN disp_cycle ELSE disp_cycle + 1) <= disp
        /\ fetch_block <= disp
    BY DEF Placed, IsLatest, dispatchBounds
  <2>2. /\ disp_cycle \in Nat /\ disp \in Nat /\ disp_count \in Nat
        /\ Width \in Nat
    BY DEF Placed, HInv, Typed, ConfigOK
  <2>. QED  BY <2>1, <2>2
<1>8. disp <= exec
  BY DEF Placed, IsLatest, executeBounds
<1>9. /\ com_cycle <= commit /\ (com_count >= Width => com_cycle < commit)
      /\ exec + d.latency <= commit
  <2>1. /\ (IF com_count < Width THEN com_cycle ELSE com_cycle + 1) <= commit
        /\ exec + d.latency <= commit
    BY DEF Placed, IsLatest, commitBounds
  <2>2. /\ com_cycle \in Nat /\ commit \in Nat /\ com_count \in Nat
        /\ Width \in Nat
    BY DEF Placed, HInv, Typed, ConfigOK
  <2>. QED  BY <2>1, <2>2
<1>. QED
  BY <1>1, <1>3, <1>4, <1>5, <1>6, <1>7, <1>8, <1>9 DEF Grown, Placed, e

\* Both ports advance and keep their counts.
LEMMA PortsStep ==
    ASSUME ConfigOK, HInv, NEW d, NEW pen, NEW disp, NEW exec, NEW commit,
           Placed(d, pen, disp, exec, commit)
    PROVE  /\ disp_cycle' \in Nat /\ disp_count' \in 0..Width
           /\ com_cycle' \in Nat /\ com_count' \in 0..Width
           /\ PortsOpen' /\ PortsRespected'
<1>0. Grown(d, pen, disp, exec, commit)
  BY PlacedGrows
<1>. DEFINE fd == [i \in 1..count |-> log[i].disp]
            gd == [i \in 1..count+1 |-> log'[i].disp]
            fc == [i \in 1..count |-> log[i].commit]
            gc == [i \in 1..count+1 |-> log'[i].commit]
<1>1. /\ Width \in Nat /\ Width >= 1 /\ count \in Nat
      /\ disp_cycle \in Nat /\ com_cycle \in Nat
      /\ disp_count \in 0..Width /\ com_count \in 0..Width
  BY <1>0 DEF ConfigOK, HInv, Typed, Grown
<1>2. /\ disp_cycle' = disp /\ com_cycle' = commit
      /\ disp \in Nat /\ commit \in Nat
      /\ IF disp = disp_cycle /\ disp_count < Width
         THEN disp_count' = disp_count + 1 ELSE disp_count' = 1
      /\ IF commit = com_cycle /\ com_count < Width
         THEN com_count' = com_count + 1 ELSE com_count' = 1
  BY DEF Placed, Dispatch, Commit
<1>3. /\ \A i \in 1..count : /\ log'[i] = log[i] /\ log[i].disp \in Nat
                             /\ log[i].commit \in Nat
                             /\ log[i].disp <= disp_cycle
                             /\ log[i].commit <= com_cycle
      /\ log'[count+1].disp = disp /\ log'[count+1].commit = commit
      /\ DOMAIN log = 1..count /\ DOMAIN log' = 1..count+1
  <2>1. \A i \in DOMAIN log : log[i].disp <= disp_cycle /\ log[i].commit <= com_cycle
    BY DEF HInv, PortsOpen
  <2>2. \A i \in 1..count : log[i].disp \in Nat /\ log[i].commit \in Nat
    BY <1>0 DEF Grown, LogEntry
  <2>3. /\ \A i \in 1..count : log'[i] = log[i]
        /\ DOMAIN log = 1..count /\ DOMAIN log' = 1..count+1
    BY <1>0 DEF Grown
  <2>4. log'[count+1].disp = disp /\ log'[count+1].commit = commit
    BY <1>0 DEF Grown
  <2>. QED  BY <2>1, <2>2, <2>3, <2>4
<1>4. /\ disp_cycle <= disp /\ (disp_count >= Width => disp_cycle < disp)
      /\ com_cycle <= commit /\ (com_count >= Width => com_cycle < commit)
  BY <1>0 DEF Grown
<1>5. ASSUME NEW i \in 1..count+1 PROVE i \in 1..count \/ i = count + 1
  BY <1>1
<1>6. /\ fd \in [1..count -> Nat] /\ gd \in [1..count+1 -> Nat]
      /\ fc \in [1..count -> Nat] /\ gc \in [1..count+1 -> Nat]
  BY <1>2, <1>3, <1>5
<1>7. /\ \A i \in 1..count : gd[i] = fd[i] /\ fd[i] <= disp_cycle
                          /\ gc[i] = fc[i] /\ fc[i] <= com_cycle
      /\ gd[count+1] = disp /\ gc[count+1] = commit
  BY <1>1, <1>3
<1>8. /\ \A c : DispatchedIn(c) = servedIn(fd, count, c)
      /\ \A c : CommittedIn(c) = servedIn(fc, count, c)
      /\ \A i \in 1..count : log[i].disp = fd[i] /\ log[i].commit = fc[i]
  BY <1>3 DEF DispatchedIn, CommittedIn, servedIn
<1>9. /\ \A c : {i \in DOMAIN log' : log'[i].disp = c}
                  = servedIn(gd, count+1, c)
      /\ \A c : {i \in DOMAIN log' : log'[i].commit = c}
                  = servedIn(gc, count+1, c)
      /\ \A i \in 1..count+1 : log'[i].disp = gd[i] /\ log'[i].commit = gc[i]
  BY <1>3 DEF servedIn
<1>. HIDE DEF fd, gd, fc, gc
<1>10. PortOK(Width, count+1, gd, gd[count+1], disp_count')
  <2>1. PortOK(Width, count, fd, disp_cycle, disp_count)
    <3>1. \A i \in 1..count : Cardinality(servedIn(fd, count, fd[i])) <= Width
      BY <1>3, <1>8 DEF HInv, LegalSchedule, PortsRespected
    <3>2. Cardinality(servedIn(fd, count, disp_cycle)) = disp_count
      BY <1>8 DEF HInv, PortsOpen
    <3>. QED  BY <1>1, <1>6, <1>7, <3>1, <3>2 DEF PortOK
  <2>2. PortServes(Width, count, fd, gd, disp_cycle, disp_count, disp_count')
    BY <1>2, <1>4, <1>6, <1>7 DEF PortServes
  <2>. QED  BY <1>1, <2>1, <2>2, PortCounted
<1>11. PortOK(Width, count+1, gc, gc[count+1], com_count')
  <2>1. PortOK(Width, count, fc, com_cycle, com_count)
    <3>1. \A i \in 1..count : Cardinality(servedIn(fc, count, fc[i])) <= Width
      BY <1>3, <1>8 DEF HInv, LegalSchedule, PortsRespected
    <3>2. Cardinality(servedIn(fc, count, com_cycle)) = com_count
      BY <1>8 DEF HInv, PortsOpen
    <3>. QED  BY <1>1, <1>6, <1>7, <3>1, <3>2 DEF PortOK
  <2>2. PortServes(Width, count, fc, gc, com_cycle, com_count, com_count')
    BY <1>2, <1>4, <1>6, <1>7 DEF PortServes
  <2>. QED  BY <1>1, <2>1, <2>2, PortCounted
<1>12. PortsOpen'
  <2>1. \A i \in 1..count+1 :
           log'[i].disp <= disp_cycle' /\ log'[i].commit <= com_cycle'
    BY <1>1, <1>2, <1>3, <1>4, <1>5
  <2>2. /\ Cardinality({i \in DOMAIN log' : log'[i].disp = disp_cycle'}) = disp_count'
        /\ Cardinality({i \in DOMAIN log' : log'[i].commit = com_cycle'}) = com_count'
    BY <1>2, <1>7, <1>9, <1>10, <1>11 DEF PortOK
  <2>. QED  BY <1>3, <2>1, <2>2 DEF PortsOpen, DispatchedIn, CommittedIn
<1>13. PortsRespected'
  <2>1. ASSUME NEW i \in 1..count+1
        PROVE  /\ Cardinality({j \in DOMAIN log' : log'[j].disp = log'[i].disp}) <= Width
               /\ Cardinality({j \in DOMAIN log' : log'[j].commit = log'[i].commit}) <= Width
    <3>1. /\ {j \in DOMAIN log' : log'[j].disp = log'[i].disp}
               = servedIn(gd, count+1, gd[i])
          /\ {j \in DOMAIN log' : log'[j].commit = log'[i].commit}
               = servedIn(gc, count+1, gc[i])
      BY <1>3 DEF servedIn, gd, gc
    <3>. QED  BY <1>10, <1>11, <3>1 DEF PortOK
  <2>. QED  BY <1>3, <2>1 DEF PortsRespected, DispatchedIn, CommittedIn
<1>. QED  BY <1>1, <1>2, <1>10, <1>11, <1>12, <1>13 DEF PortOK

\* Stages and ends stay in order.
LEMMA InOrderStep ==
    ASSUME ConfigOK, HInv, NEW d, NEW pen, NEW disp, NEW exec, NEW commit,
           Placed(d, pen, disp, exec, commit)
    PROVE  InOrderEnds'
<1>0. Grown(d, pen, disp, exec, commit)
  BY PlacedGrows
<1>1. \A i \in 1..count : /\ log'[i] = log[i] /\ i \in DOMAIN log
                          /\ log[i].disp \in Nat /\ log[i].commit \in Nat
                          /\ log[i].disp <= disp_cycle /\ log[i].commit <= com_cycle
  <2>1. \A i \in DOMAIN log : log[i].disp <= disp_cycle /\ log[i].commit <= com_cycle
    BY DEF HInv, PortsOpen
  <2>. QED  BY <1>0, <2>1 DEF Grown, LogEntry
<1>2. /\ log'[count+1].disp = disp /\ log'[count+1].commit = commit
      /\ log'[count+1].exec = exec /\ log'[count+1].d = d
      /\ disp_cycle \in Nat /\ com_cycle \in Nat
  BY <1>0 DEF Grown, HInv, Typed
<1>3. ASSUME NEW i \in DOMAIN log', NEW j \in DOMAIN log', i < j
      PROVE  log'[i].disp <= log'[j].disp /\ log'[i].commit <= log'[j].commit
  <2>1. i \in 1..count
    BY <1>0, <1>3 DEF Grown
  <2>2. CASE j \in 1..count
    BY <1>1, <1>3, <2>1, <2>2 DEF HInv, LegalSchedule, InOrderEnds
  <2>3. CASE j = count + 1
    BY <1>0, <1>1, <1>2, <2>1, <2>3 DEF Grown
  <2>. QED  BY <1>0, <2>2, <2>3 DEF Grown
<1>4. ASSUME NEW i \in DOMAIN log'
      PROVE  /\ log'[i].disp <= log'[i].exec
             /\ log'[i].exec + log'[i].d.latency <= log'[i].commit
  <2>1. CASE i \in 1..count
    BY <1>1, <2>1 DEF HInv, LegalSchedule, InOrderEnds
  <2>2. CASE i = count + 1
    BY <1>0, <1>2, <2>2 DEF Grown
  <2>. QED  BY <1>0, <2>1, <2>2 DEF Grown
<1>. QED  BY <1>3, <1>4 DEF InOrderEnds

\* A register the instruction produces is ready at its completion; no other
\* changes.
LEMMA RegistersStep ==
    ASSUME ConfigOK, HInv, NEW d, NEW pen, NEW disp, NEW exec, NEW commit,
           Placed(d, pen, disp, exec, commit)
    PROVE  (reg_ready \in [Slot -> Nat])' /\ RegistersReady'
<1>0. Grown(d, pen, disp, exec, commit)
  BY PlacedGrows
<1>1. exec + d.latency \in Nat
  <2>1. d \in InstInfo /\ exec \in Nat
    BY <1>0 DEF Grown
  <2>. QED  BY <2>1 DEF InstInfo
<1>2. /\ reg_ready' \in [Slot -> Nat]
      /\ \A s \in Slot : reg_ready'[s] = IF produces(d, s) THEN exec + d.latency
                                         ELSE reg_ready[s]
  <2>1. \A s \in Slot : reg_ready[s] \in Nat
    BY DEF HInv, Typed
  <2>2. reg_ready' = [s \in Slot |-> IF produces(d, s) THEN exec + d.latency
                                     ELSE reg_ready[s]]
    BY DEF Placed, Execute, produces
  <2>. QED  BY <1>1, <2>1, <2>2
<1>3. /\ log'[count+1].exec = exec /\ log'[count+1].d = d
      /\ count + 1 \in DOMAIN log' /\ \A q \in DOMAIN log' : ~(q > count + 1)
      /\ \A q \in DOMAIN log : q \in DOMAIN log' /\ log'[q] = log[q]
      /\ \A q \in DOMAIN log' : q = count + 1 \/ q \in DOMAIN log
  BY <1>0 DEF Grown
<1>4. ASSUME NEW s \in Slot
      PROVE  \/ reg_ready'[s] = 0 /\ \A p \in DOMAIN log' : ~produces(log'[p].d, s)
             \/ \E p \in DOMAIN log' :
                  /\ produces(log'[p].d, s)
                  /\ \A q \in DOMAIN log' : q > p => ~produces(log'[q].d, s)
                  /\ reg_ready'[s] = log'[p].exec + log'[p].d.latency
  <2>1. CASE produces(d, s)
    BY <1>2, <1>3, <2>1
  <2>2. CASE ~produces(d, s)
    <3>1. reg_ready'[s] = reg_ready[s]
      BY <1>2, <2>2
    <3>2. CASE reg_ready[s] = 0 /\ \A p \in DOMAIN log : ~produces(log[p].d, s)
      BY <1>3, <2>2, <3>1, <3>2
    <3>3. CASE \E p \in DOMAIN log :
                 /\ produces(log[p].d, s)
                 /\ \A q \in DOMAIN log : q > p => ~produces(log[q].d, s)
                 /\ reg_ready[s] = log[p].exec + log[p].d.latency
      <4>1. PICK p \in DOMAIN log :
                 /\ produces(log[p].d, s)
                 /\ \A q \in DOMAIN log : q > p => ~produces(log[q].d, s)
                 /\ reg_ready[s] = log[p].exec + log[p].d.latency
        BY <3>3
      <4>2. \A q \in DOMAIN log' : q > p => ~produces(log'[q].d, s)
        BY <1>3, <2>2, <4>1
      <4>. QED  BY <1>3, <3>1, <4>1, <4>2
    <3>. QED  BY <3>2, <3>3 DEF HInv, RegistersReady
  <2>. QED  BY <2>1, <2>2
<1>5. RegistersReady'
  BY <1>4 DEF RegistersReady, Slot
<1>. QED  BY <1>2, <1>5

\* A new redirect blocks longer than the old one did, which has passed.
LEMMA BlockedStep ==
    ASSUME ConfigOK, HInv, NEW d, NEW pen, NEW disp, NEW exec, NEW commit,
           Placed(d, pen, disp, exec, commit)
    PROVE  fetch_block' \in Nat /\ Blocked' /\ RedirectRespected'
<1>0. Grown(d, pen, disp, exec, commit)
  BY PlacedGrows
<1>1. /\ pen \in Nat /\ disp \in Nat /\ exec \in Nat /\ fetch_block \in Nat
      /\ fetch_block <= disp /\ disp <= exec
  BY <1>0 DEF Grown, HInv, Typed
<1>2. fetch_block' = IF pen > 0 THEN exec + pen ELSE fetch_block
  BY DEF Placed, Execute
<1>3. /\ log'[count+1].pen = pen /\ log'[count+1].exec = exec
      /\ log'[count+1].disp = disp
  BY <1>0 DEF Grown
<1>4. \A p \in 1..count :
         /\ p \in DOMAIN log /\ log'[p] = log[p]
         /\ log[p].pen \in Nat /\ log[p].exec \in Nat
         /\ log[p].pen > 0 => log[p].exec + log[p].pen <= fetch_block
  <2>1. \A p \in 1..count : /\ p \in DOMAIN log /\ log'[p] = log[p]
                            /\ log[p] \in LogEntry
    BY <1>0 DEF Grown
  <2>. QED  BY <2>1 DEF LogEntry, HInv, Blocked
<1>5. \A p \in DOMAIN log' : p = count + 1 \/ p \in 1..count
  BY <1>0 DEF Grown
<1>6. Blocked'
  <2>1. \A p \in DOMAIN log' :
           log'[p].pen > 0 => log'[p].exec + log'[p].pen <= fetch_block'
    BY <1>1, <1>2, <1>3, <1>4, <1>5
  <2>2. \/ fetch_block' = 0
        \/ \E p \in DOMAIN log' :
             log'[p].pen > 0 /\ fetch_block' = log'[p].exec + log'[p].pen
    <3>1. CASE pen > 0
      <4>1. count + 1 \in DOMAIN log'
        BY <1>0 DEF Grown
      <4>. QED  BY <1>2, <1>3, <3>1, <4>1
    <3>2. CASE ~(pen > 0)
      <4>1. \/ fetch_block = 0
            \/ \E p \in DOMAIN log :
                 log[p].pen > 0 /\ fetch_block = log[p].exec + log[p].pen
        BY DEF HInv, Blocked
      <4>2. \A p \in DOMAIN log : p \in 1..count /\ p \in DOMAIN log'
        BY <1>0 DEF Grown
      <4>. QED  BY <1>2, <1>4, <3>2, <4>1, <4>2
    <3>. QED  BY <3>1, <3>2
  <2>. QED  BY <2>1, <2>2 DEF Blocked
<1>7. RedirectRespected'
  <2>1. SUFFICES ASSUME NEW i \in DOMAIN log', NEW j \in DOMAIN log',
                        i < j, log'[i].pen > 0
                 PROVE  log'[j].disp >= log'[i].exec + log'[i].pen
    BY DEF RedirectRespected
  <2>2. i \in 1..count
    BY <1>0, <2>1 DEF Grown
  <2>3. CASE j \in 1..count
    BY <1>4, <2>1, <2>2, <2>3 DEF HInv, LegalSchedule, RedirectRespected
  <2>4. CASE j = count + 1
    BY <1>1, <1>3, <1>4, <2>1, <2>2, <2>4
  <2>. QED  BY <1>5, <2>3, <2>4
<1>. QED  BY <1>1, <1>2, <1>6, <1>7

\* The slot the next instruction takes holds the commit cycle of the one
\* RobSize older.
LEMMA SlotHolds ==
    ASSUME ConfigOK, HInv, NEW m, m = count + 1 - RobSize, count >= RobSize
    PROVE  m \in DOMAIN log /\ rob[count % RobSize] = log[m].commit
<1>1. /\ RobSize \in Nat /\ RobSize >= 1 /\ count \in Nat
      /\ DOMAIN log = 1..count
  BY DEF ConfigOK, HInv, Typed
<1>2. m \in DOMAIN log /\ m + RobSize > count
  BY <1>1
<1>3. (m - 1) % RobSize = count % RobSize
  <2>1. m - 1 \in Nat /\ (m - 1) + RobSize = count
    BY <1>1
  <2>. QED  BY <1>1, <2>1, SlotReused
<1>4. rob[(m - 1) % RobSize] = log[m].commit
  BY <1>2 DEF HInv, RobHolds
<1>. QED  BY <1>2, <1>3, <1>4

\* The instruction takes the slot of the one RobSize older, which it follows.
LEMMA RobStep ==
    ASSUME ConfigOK, HInv, NEW d, NEW pen, NEW disp, NEW exec, NEW commit,
           Placed(d, pen, disp, exec, commit)
    PROVE  rob' \in [0..RobSize-1 -> Nat] /\ RobHolds' /\ RobGap'
<1>0. Grown(d, pen, disp, exec, commit)
  BY PlacedGrows
<1>1. /\ RobSize \in Nat /\ RobSize >= 1 /\ count \in Nat
      /\ commit \in Nat /\ disp \in Nat
      /\ rob \in [0..RobSize-1 -> Nat] /\ count % RobSize \in 0..RobSize-1
  BY <1>0 DEF ConfigOK, Grown, HInv, Typed
<1>2. rob' = [rob EXCEPT ![count % RobSize] = commit]
  BY DEF Placed, Commit
<1>3. /\ \A i \in 1..count : /\ i \in DOMAIN log /\ log'[i] = log[i]
                             /\ log[i].commit \in Nat
      /\ log'[count+1].commit = commit /\ log'[count+1].disp = disp
      /\ \A i \in DOMAIN log' : i = count + 1 \/ i \in 1..count
      /\ DOMAIN log' = 1..count+1 /\ count' = count + 1
  <2>1. /\ \A i \in 1..count : log'[i] = log[i] /\ log[i] \in LogEntry
        /\ DOMAIN log = 1..count /\ DOMAIN log' = 1..count+1 /\ count' = count + 1
    BY <1>0 DEF Grown
  <2>2. \A i \in 1..count : log[i].commit \in Nat
    BY <2>1 DEF LogEntry
  <2>3. log'[count+1].commit = commit /\ log'[count+1].disp = disp
    BY <1>0 DEF Grown
  <2>4. \A i \in 1..count+1 : i = count + 1 \/ i \in 1..count
    BY <1>1
  <2>. QED  BY <2>1, <2>2, <2>3, <2>4
<1>4. RobHolds'
  <2>1. SUFFICES ASSUME NEW i \in DOMAIN log', i + RobSize > count'
                 PROVE  rob'[(i - 1) % RobSize] = log'[i].commit
    BY DEF RobHolds
  <2>2. CASE i = count + 1
    BY <1>1, <1>2, <1>3, <2>2
  <2>3. CASE i \in 1..count
    <3>1. /\ i - 1 \in Nat /\ i - 1 < count /\ count < (i - 1) + RobSize
      BY <1>1, <1>3, <2>1, <2>3
    <3>2. (i - 1) % RobSize # count % RobSize
      BY <1>1, <3>1, SlotsDistinct
    <3>3. (i - 1) % RobSize \in 0..RobSize-1
      BY <1>1, <3>1
    <3>4. rob[(i - 1) % RobSize] = log[i].commit
      BY <1>1, <1>3, <2>1, <2>3 DEF HInv, RobHolds
    <3>. QED  BY <1>1, <1>2, <1>3, <2>3, <3>2, <3>3, <3>4
  <2>. QED  BY <1>3, <2>2, <2>3
<1>5. RobGap'
  <2>1. SUFFICES ASSUME NEW i \in DOMAIN log', NEW j \in DOMAIN log',
                        j >= i + RobSize
                 PROVE  log'[i].commit < log'[j].disp
    BY DEF RobGap
  <2>2. i \in 1..count /\ i + RobSize <= count + 1
    BY <1>1, <1>3, <2>1
  <2>3. CASE j \in 1..count
    BY <1>3, <2>1, <2>2, <2>3 DEF HInv, RobGap
  <2>4. CASE j = count + 1
    <3>. DEFINE m == count + 1 - RobSize
    <3>1. m \in 1..count /\ i <= m /\ count >= RobSize
      BY <1>1, <2>2
    <3>3. rob[count % RobSize] = log[m].commit
      BY <3>1, SlotHolds
    <3>4. rob[count % RobSize] + 1 <= disp
      BY <1>1, <3>1 DEF Placed, IsLatest, dispatchBounds, slot_free
    <3>. HIDE DEF m
    <3>5. log[i].commit <= log[m].commit
      <4>1. CASE i = m
        BY <1>3, <3>1, <4>1
      <4>2. CASE i # m
        BY <1>3, <2>2, <3>1, <4>2 DEF HInv, LegalSchedule, InOrderEnds
      <4>. QED  BY <4>1, <4>2
    <3>6. log'[i].commit = log[i].commit /\ log'[j].disp = disp
      BY <1>3, <2>2, <2>4
    <3>7. log[i].commit \in Nat /\ log[m].commit \in Nat
      BY <1>3, <2>2, <3>1
    <3>. QED  BY <1>1, <3>3, <3>4, <3>5, <3>6, <3>7
  <2>. QED  BY <1>3, <2>3, <2>4
<1>. QED  BY <1>1, <1>2, <1>4, <1>5

\* What the nearest producer of an operand of the instruction left behind.
LEMMA OperandReady ==
    ASSUME ConfigOK, HInv, NEW s \in Slot, NEW p \in DOMAIN log,
           produces(log[p].d, s), \A q \in p+1..count : ~produces(log[q].d, s)
    PROVE  reg_ready[s] = log[p].exec + log[p].d.latency
<1>1. DOMAIN log = 1..count /\ count \in Nat
  BY DEF HInv, Typed
<1>2. PICK p2 \in DOMAIN log :
             /\ produces(log[p2].d, s)
             /\ \A q \in DOMAIN log : q > p2 => ~produces(log[q].d, s)
             /\ reg_ready[s] = log[p2].exec + log[p2].d.latency
  BY DEF HInv, RegistersReady
<1>3. p2 = p
  BY <1>1, <1>2
<1>. QED  BY <1>2, <1>3

\* The instruction waits for its nearest producers.
LEMMA DependenciesStep ==
    ASSUME ConfigOK, HInv, NEW d, NEW pen, NEW disp, NEW exec, NEW commit,
           Placed(d, pen, disp, exec, commit)
    PROVE  TrueDependencies'
<1>0. Grown(d, pen, disp, exec, commit)
  BY PlacedGrows
<1>1. /\ \A i \in 1..count : i \in DOMAIN log /\ log'[i] = log[i]
      /\ log'[count+1].exec = exec /\ log'[count+1].d = d /\ exec \in Nat
      /\ \A i \in DOMAIN log' : i = count + 1 \/ i \in 1..count
      /\ count \in Nat /\ DOMAIN log = 1..count /\ DOMAIN log' = 1..count+1
  BY <1>0 DEF Grown
<1>2. d.reads \subseteq Slot
  <2>1. d \in InstInfo
    BY <1>0 DEF Grown
  <2>. QED  BY <2>1 DEF InstInfo
<1>3. SUFFICES ASSUME NEW i \in DOMAIN log', NEW s \in log'[i].d.reads,
                      NEW p \in 1..i-1, produces(log'[p].d, s),
                      \A q \in p+1..i-1 : ~produces(log'[q].d, s)
               PROVE  log'[i].exec >= log'[p].exec + log'[p].d.latency
  BY DEF TrueDependencies, Nearest, Completes
<1>4. p \in 1..count
  BY <1>1
<1>5. CASE i \in 1..count
  <2>1. \A q \in p+1..i-1 : log'[q] = log[q]
    BY <1>1, <1>5
  <2>. QED
    BY <1>1, <1>3, <1>4, <1>5, <2>1
    DEF HInv, LegalSchedule, TrueDependencies, Nearest, Completes
<1>6. CASE i = count + 1
  <2>1. s \in d.reads /\ s \in Slot
    BY <1>1, <1>2, <1>6
  <2>2. produces(log[p].d, s) /\ \A q \in p+1..count : ~produces(log[q].d, s)
    BY <1>1, <1>3, <1>4, <1>6
  <2>3. reg_ready[s] = log[p].exec + log[p].d.latency
    BY <1>1, <1>4, <2>1, <2>2, OperandReady
  <2>4. reg_ready[s] <= exec
    BY <2>1 DEF Placed, IsLatest, executeBounds
  <2>5. reg_ready[s] \in Nat
    BY <2>1 DEF HInv, Typed
  <2>. QED  BY <1>1, <1>4, <1>6, <2>3, <2>4, <2>5
<1>. QED  BY <1>1, <1>5, <1>6

-----------------------------------------------------------------------------
(* No cycle is idle *)

\* The open cycles become the instruction's.
LEMMA LastStep ==
    ASSUME ConfigOK, HInv, NEW d, NEW pen, NEW disp, NEW exec, NEW commit,
           Placed(d, pen, disp, exec, commit)
    PROVE  LastOpen'
<1>0. Grown(d, pen, disp, exec, commit)
  BY PlacedGrows
<1>1. disp_cycle' = disp /\ com_cycle' = commit /\ last_exec' = exec
  BY DEF Placed, Dispatch, Execute, Commit
<1>2. /\ count' = count + 1 /\ count' > 0 /\ log'[count'].disp = disp
      /\ log'[count'].exec = exec /\ log'[count'].commit = commit
  BY <1>0 DEF Grown
<1>. QED  BY <1>1, <1>2 DEF LastOpen

\* The reasons of the instructions before it are not touched by the next.
LEMMA PromptKept ==
    ASSUME ConfigOK, HInv, NEW d, NEW pen, NEW disp, NEW exec, NEW commit,
           Placed(d, pen, disp, exec, commit), NEW i \in 1..count
    PROVE  DispatchPrompt(i)' /\ ExecutePrompt(i)' /\ CommitPrompt(i)'
<1>0. Grown(d, pen, disp, exec, commit)
  BY PlacedGrows
<1>1. /\ i \in DOMAIN log /\ log'[i] = log[i] /\ i \in Nat
      /\ \A q \in 1..i-1 : log'[q] = log[q]
      /\ RobSize \in Nat /\ RobSize >= 1
  BY <1>0 DEF Grown, ConfigOK
<1>2. i > 1 => i - 1 \in 1..i-1 /\ log'[i-1] = log[i-1]
  BY <1>1
<1>3. DispatchPrompt(i) /\ ExecutePrompt(i) /\ CommitPrompt(i)
  BY <1>1 DEF HInv, NoIdleCycle
<1>4. DispatchPrompt(i)'
  <2>1. CASE log[i].disp = IF i = 1 THEN 1 ELSE log[i-1].disp
    BY <1>1, <1>2, <2>1 DEF DispatchPrompt
  <2>2. CASE /\ i > 1 /\ log[i].disp = log[i-1].disp + 1
             /\ Cardinality({j \in 1..i-1 : log[j].disp = log[i-1].disp}) = Width
    <3>1. {j \in 1..i-1 : log'[j].disp = log'[i-1].disp}
            = {j \in 1..i-1 : log[j].disp = log[i-1].disp}
      BY <1>1, <1>2, <2>2
    <3>. QED  BY <1>1, <1>2, <2>2, <3>1 DEF DispatchPrompt
  <2>3. CASE \E p \in 1..i-1 : log[p].pen > 0 /\ log[i].disp = log[p].exec + log[p].pen
    BY <1>1, <2>3 DEF DispatchPrompt
  <2>4. CASE i > RobSize /\ log[i].disp = log[i - RobSize].commit + 1
    <3>1. i - RobSize \in 1..i-1
      BY <1>1, <2>4
    <3>. QED  BY <1>1, <2>4, <3>1 DEF DispatchPrompt
  <2>. QED  BY <1>3, <2>1, <2>2, <2>3, <2>4 DEF DispatchPrompt
<1>5. ExecutePrompt(i)'
  <2>1. CASE log[i].exec = log[i].disp
    BY <1>1, <2>1 DEF ExecutePrompt
  <2>2. CASE \E s \in log[i].d.reads : \E p \in 1..i-1 :
               Nearest(p, i, s) /\ log[i].exec = Completes(log[p])
    <3>1. PICK s \in log[i].d.reads, p \in 1..i-1 :
            Nearest(p, i, s) /\ log[i].exec = Completes(log[p])
      BY <2>2
    <3>2. log'[p] = log[p] /\ \A q \in p+1..i-1 : log'[q] = log[q]
      BY <1>1
    <3>3. Nearest(p, i, s)' /\ log'[i].exec = Completes(log'[p])
      BY <1>1, <3>1, <3>2 DEF Nearest
    <3>. QED  BY <1>1, <3>3 DEF ExecutePrompt, Completes
  <2>3. CASE InOrder /\ i > 1 /\ log[i].exec = log[i-1].exec
    BY <1>1, <1>2, <2>3 DEF ExecutePrompt
  <2>. QED  BY <1>3, <2>1, <2>2, <2>3 DEF ExecutePrompt
<1>6. CommitPrompt(i)'
  <2>1. CASE log[i].commit = Completes(log[i])
    BY <1>1, <2>1 DEF CommitPrompt, Completes
  <2>2. CASE i > 1 /\ log[i].commit = log[i-1].commit
    BY <1>1, <1>2, <2>2 DEF CommitPrompt
  <2>3. CASE /\ i > 1 /\ log[i].commit = log[i-1].commit + 1
             /\ Cardinality({j \in 1..i-1 : log[j].commit = log[i-1].commit}) = Width
    <3>1. {j \in 1..i-1 : log'[j].commit = log'[i-1].commit}
            = {j \in 1..i-1 : log[j].commit = log[i-1].commit}
      BY <1>1, <1>2, <2>3
    <3>. QED  BY <1>1, <1>2, <2>3, <3>1 DEF CommitPrompt
  <2>. QED  BY <1>3, <2>1, <2>2, <2>3 DEF CommitPrompt
<1>. QED  BY <1>4, <1>5, <1>6

\* What is known of the instruction scheduled as the n-th, and of the one before.
Scheduled(n, d, disp, exec, commit) ==
    /\ n \in Nat /\ n >= 1 /\ n = count + 1 /\ n - 1 = count
    /\ log'[n].d = d /\ log'[n].disp = disp /\ log'[n].exec = exec
    /\ log'[n].commit = commit
    /\ DOMAIN log = 1..n-1 /\ \A q \in 1..n-1 : log'[q] = log[q]
    /\ disp_cycle <= disp /\ disp <= exec /\ exec + d.latency <= commit
    /\ disp \in Nat /\ exec \in Nat /\ commit \in Nat
    /\ d.latency \in Nat /\ d.latency >= 1 /\ d.reads \subseteq Slot
    /\ Width \in Nat /\ Width >= 1 /\ RobSize \in Nat /\ RobSize >= 1
    /\ disp_cycle \in Nat /\ com_cycle \in Nat
    /\ disp_count \in 0..Width /\ com_count \in 0..Width
    /\ IF n > 1
       THEN /\ log'[n-1].disp = disp_cycle /\ log'[n-1].commit = com_cycle
            /\ log'[n-1].exec = last_exec
       ELSE /\ disp_cycle = 1 /\ disp_count = 0 /\ com_cycle = 1 /\ com_count = 0
            /\ last_exec = 0

\* The invariant gives all of it.
LEMMA PlacedIsScheduled ==
    ASSUME ConfigOK, HInv, NEW d, NEW pen, NEW disp, NEW exec, NEW commit,
           Placed(d, pen, disp, exec, commit), NEW n \in Nat, n = count + 1
    PROVE  Scheduled(n, d, disp, exec, commit)
<1>0. Grown(d, pen, disp, exec, commit)
  BY PlacedGrows
<1>1. d.latency \in Nat /\ d.latency >= 1 /\ d.reads \subseteq Slot
  <2>1. d \in InstInfo
    BY <1>0 DEF Grown
  <2>. QED  BY <2>1 DEF InstInfo
<1>2. /\ n - 1 = count /\ count \in Nat /\ n >= 1
      /\ DOMAIN log = 1..n-1 /\ \A q \in 1..n-1 : log'[q] = log[q]
      /\ disp_cycle <= disp /\ disp <= exec /\ exec + d.latency <= commit
      /\ disp \in Nat /\ exec \in Nat /\ commit \in Nat
  BY <1>0 DEF Grown
<1>3. /\ log'[n].d = d /\ log'[n].disp = disp /\ log'[n].exec = exec
      /\ log'[n].commit = commit
  BY <1>0 DEF Grown
<1>4. /\ Width \in Nat /\ Width >= 1 /\ RobSize \in Nat /\ RobSize >= 1
      /\ disp_cycle \in Nat /\ com_cycle \in Nat
      /\ disp_count \in 0..Width /\ com_count \in 0..Width
  BY DEF ConfigOK, HInv, Typed
<1>5. IF n > 1
      THEN /\ log'[n-1].disp = disp_cycle /\ log'[n-1].commit = com_cycle
           /\ log'[n-1].exec = last_exec
      ELSE /\ disp_cycle = 1 /\ disp_count = 0 /\ com_cycle = 1 /\ com_count = 0
           /\ last_exec = 0
  <2>1. CASE n > 1
    <3>1. count > 0 /\ log'[n-1] = log[count]
      BY <1>2, <2>1
    <3>. QED  BY <2>1, <3>1 DEF HInv, LastOpen
  <2>2. CASE ~(n > 1)
    <3>1. ~(count > 0)
      BY <1>2, <2>2
    <3>. QED  BY <2>2, <3>1 DEF HInv, LastOpen
  <2>. QED  BY <2>1, <2>2
<1>. QED  BY <1>1, <1>2, <1>3, <1>4, <1>5 DEF Scheduled

\* The latest dispatch bound is the port, a redirect or the reorder buffer.
LEMMA DispatchNext ==
    ASSUME ConfigOK, HInv, NEW d, NEW pen, NEW disp, NEW exec, NEW commit,
           Placed(d, pen, disp, exec, commit), NEW n \in Nat, n = count + 1
    PROVE  DispatchPrompt(n)'
<1>0. Scheduled(n, d, disp, exec, commit)
  BY PlacedIsScheduled
<1>1. CASE disp = IF disp_count < Width THEN disp_cycle ELSE disp_cycle + 1
  <2>1. CASE n = 1
    BY <1>0, <1>1, <2>1 DEF Scheduled, DispatchPrompt
  <2>2. CASE n > 1 /\ disp_count < Width
    BY <1>0, <1>1, <2>2 DEF Scheduled, DispatchPrompt
  <2>3. CASE n > 1 /\ ~(disp_count < Width)
    <3>1. disp = disp_cycle + 1 /\ disp_count = Width /\ log'[n-1].disp = disp_cycle
      BY <1>0, <1>1, <2>3 DEF Scheduled
    <3>2. {j \in 1..n-1 : log'[j].disp = log'[n-1].disp} = DispatchedIn(disp_cycle)
      BY <1>0, <3>1 DEF Scheduled, DispatchedIn
    <3>3. Cardinality(DispatchedIn(disp_cycle)) = Width
      BY <3>1 DEF HInv, PortsOpen
    <3>. QED  BY <1>0, <2>3, <3>1, <3>2, <3>3 DEF Scheduled, DispatchPrompt
  <2>. QED  BY <1>0, <2>1, <2>2, <2>3 DEF Scheduled
<1>2. CASE disp = fetch_block
  <2>1. CASE fetch_block = 0
    <3>1. disp = 0 /\ n > 1 /\ log'[n-1].disp = disp
      BY <1>0, <1>2, <2>1 DEF Scheduled
    <3>. QED  BY <1>0, <3>1 DEF Scheduled, DispatchPrompt
  <2>2. CASE fetch_block # 0
    <3>1. PICK p \in DOMAIN log :
             log[p].pen > 0 /\ fetch_block = log[p].exec + log[p].pen
      BY <2>2 DEF HInv, Blocked
    <3>2. p \in 1..n-1 /\ log'[p] = log[p] /\ log'[n].disp = disp
      BY <1>0 DEF Scheduled
    <3>. QED  BY <1>2, <3>1, <3>2 DEF DispatchPrompt
  <2>. QED  BY <2>1, <2>2
<1>3. CASE disp \in slot_free
  <2>1. count >= RobSize /\ disp = rob[count % RobSize] + 1
    BY <1>3 DEF slot_free
  <2>2. PICK m : m = count + 1 - RobSize
    OBVIOUS
  <2>3. m \in DOMAIN log /\ rob[count % RobSize] = log[m].commit
    BY <2>1, <2>2, SlotHolds
  <2>4. m = n - RobSize /\ n > RobSize /\ log'[m] = log[m] /\ log'[n].disp = disp
    BY <1>0, <2>1, <2>2, <2>3 DEF Scheduled
  <2>. QED  BY <2>1, <2>3, <2>4 DEF DispatchPrompt
<1>. QED  BY <1>1, <1>2, <1>3 DEF Placed, dispatchBounds

\* The latest execution bound is the dispatch, an operand or the order.
LEMMA ExecuteNext ==
    ASSUME ConfigOK, HInv, NEW d, NEW pen, NEW disp, NEW exec, NEW commit,
           Placed(d, pen, disp, exec, commit), NEW n \in Nat, n = count + 1
    PROVE  ExecutePrompt(n)'
<1>0. Scheduled(n, d, disp, exec, commit)
  BY PlacedIsScheduled
<1>1. CASE exec = disp
  BY <1>0, <1>1 DEF Scheduled, ExecutePrompt
<1>2. CASE exec # disp /\ \E s \in d.reads : exec = reg_ready[s]
  <2>1. PICK s \in d.reads : exec = reg_ready[s]
    BY <1>2
  <2>2. s \in Slot /\ reg_ready[s] # 0
    BY <1>0, <1>2, <2>1 DEF Scheduled
  <2>3. PICK p \in DOMAIN log :
           /\ produces(log[p].d, s)
           /\ \A q \in DOMAIN log : q > p => ~produces(log[q].d, s)
           /\ reg_ready[s] = log[p].exec + log[p].d.latency
    BY <2>2 DEF HInv, RegistersReady
  <2>4. p \in 1..n-1 /\ log'[p] = log[p] /\ log'[n].d = d /\ log'[n].exec = exec
    BY <1>0 DEF Scheduled
  <2>5. Nearest(p, n, s)'
    BY <1>0, <2>3, <2>4 DEF Scheduled, Nearest
  <2>6. log'[n].exec = Completes(log'[p])
    BY <2>1, <2>3, <2>4 DEF Completes
  <2>. QED  BY <2>1, <2>4, <2>5, <2>6 DEF ExecutePrompt, Completes
<1>3. CASE exec # disp /\ InOrder /\ exec = last_exec
  <2>1. n > 1 /\ log'[n-1].exec = exec
    BY <1>0, <1>3 DEF Scheduled
  <2>. QED  BY <1>0, <1>3, <2>1 DEF Scheduled, ExecutePrompt
<1>4. \/ exec = disp \/ \E s \in d.reads : exec = reg_ready[s]
      \/ InOrder /\ exec = last_exec
  BY DEF Placed, executeBounds
<1>. QED  BY <1>1, <1>2, <1>3, <1>4

\* The latest commit bound is the completion or the port.
LEMMA CommitNext ==
    ASSUME ConfigOK, HInv, NEW d, NEW pen, NEW disp, NEW exec, NEW commit,
           Placed(d, pen, disp, exec, commit), NEW n \in Nat, n = count + 1
    PROVE  CommitPrompt(n)'
<1>0. Scheduled(n, d, disp, exec, commit)
  BY PlacedIsScheduled
<1>1. CASE commit = exec + d.latency
  BY <1>0, <1>1 DEF Scheduled, CommitPrompt, Completes
<1>2. CASE commit = IF com_count < Width THEN com_cycle ELSE com_cycle + 1
  <2>1. n > 1
    BY <1>0, <1>2 DEF Scheduled
  <2>2. CASE com_count < Width
    BY <1>0, <1>2, <2>1, <2>2 DEF Scheduled, CommitPrompt
  <2>3. CASE ~(com_count < Width)
    <3>1. commit = com_cycle + 1 /\ com_count = Width /\ log'[n-1].commit = com_cycle
      BY <1>0, <1>2, <2>1, <2>3 DEF Scheduled
    <3>2. {j \in 1..n-1 : log'[j].commit = log'[n-1].commit} = CommittedIn(com_cycle)
      BY <1>0, <3>1 DEF Scheduled, CommittedIn
    <3>3. Cardinality(CommittedIn(com_cycle)) = Width
      BY <3>1 DEF HInv, PortsOpen
    <3>. QED  BY <1>0, <2>1, <3>1, <3>2, <3>3 DEF Scheduled, CommitPrompt
  <2>. QED  BY <2>2, <2>3
<1>. QED  BY <1>1, <1>2 DEF Placed, commitBounds

\* Every instruction, the new one included, is where a reason puts it.
LEMMA NoIdleStep ==
    ASSUME ConfigOK, HInv, NEW d, NEW pen, NEW disp, NEW exec, NEW commit,
           Placed(d, pen, disp, exec, commit)
    PROVE  NoIdleCycle'
<1>0. Grown(d, pen, disp, exec, commit)
  BY PlacedGrows
<1>1. ASSUME NEW i \in DOMAIN log'
      PROVE  DispatchPrompt(i)' /\ ExecutePrompt(i)' /\ CommitPrompt(i)'
  <2>1. i \in Nat /\ (i \in 1..count \/ i = count + 1)
    BY <1>0 DEF Grown
  <2>2. CASE i \in 1..count
    BY <2>2, PromptKept
  <2>3. CASE i = count + 1
    BY <2>1, <2>3, DispatchNext, ExecuteNext, CommitNext
  <2>. QED  BY <2>1, <2>2, <2>3
<1>. QED  BY <1>1 DEF NoIdleCycle

-----------------------------------------------------------------------------
(* The reorder buffer *)

\* Two instructions in the buffer in the same cycle are fewer than RobSize
\* apart, so they have different slots: there are no more of them than slots.
LEMMA RobWithinSize == ASSUME ConfigOK, HInv PROVE RobBounded
<1>1. /\ RobSize \in Nat /\ RobSize >= 1 /\ count \in Nat
      /\ DOMAIN log = 1..count
      /\ \A j \in 1..count : log[j].disp \in Nat /\ log[j].commit \in Nat
  <2>1. /\ RobSize \in Nat /\ RobSize >= 1 /\ count \in Nat
        /\ DOMAIN log = 1..count /\ \A j \in 1..count : log[j] \in LogEntry
    BY DEF ConfigOK, HInv, Typed
  <2>. QED  BY <2>1 DEF LogEntry
<1>2. SUFFICES ASSUME NEW i \in DOMAIN log
               PROVE  Cardinality({j \in DOMAIN log :
                          log[j].disp <= log[i].disp /\ log[i].disp <= log[j].commit})
                        <= RobSize
  BY DEF RobBounded
<1>. DEFINE c == log[i].disp
            S == {j \in DOMAIN log : log[j].disp <= c /\ c <= log[j].commit}
            T == 0..RobSize-1
            f == [j \in S |-> j % RobSize]
<1>3. c \in Nat
  BY <1>1
<1>4. ASSUME NEW a \in S, NEW b \in S, a < b PROVE b < a + RobSize
  <2>1. SUFFICES ASSUME b >= a + RobSize PROVE FALSE
    BY <1>1
  <2>2. log[a].commit < log[b].disp
    BY <2>1 DEF HInv, RobGap
  <2>. QED  BY <1>1, <1>3, <2>2
<1>5. ASSUME NEW a \in S, NEW b \in S, a # b PROVE a % RobSize # b % RobSize
  <2>1. a \in Nat /\ b \in Nat
    BY <1>1
  <2>2. CASE a < b
    BY <1>1, <1>4, <2>1, <2>2, SlotsDistinct
  <2>3. CASE b < a
    BY <1>1, <1>4, <2>1, <2>3, SlotsDistinct
  <2>. QED  BY <1>5, <2>1, <2>2, <2>3
<1>6. \A j \in S : j % RobSize \in T
  BY <1>1
<1>. HIDE DEF S, T, c
<1>7. f \in Injection(S, T)
  BY <1>5, <1>6 DEF Injection, IsInjective
<1>8. IsFiniteSet(T) /\ Cardinality(T) = RobSize
  BY <1>1, FS_Interval DEF T
<1>9. Cardinality(S) <= Cardinality(T)
  BY <1>7, <1>8, FS_Injection
<1>. QED  BY <1>8, <1>9 DEF S, c

-----------------------------------------------------------------------------
(* The theorems *)

\* An idle machine satisfies the invariant ...
LEMMA HInvInit == ASSUME ConfigOK, HInit PROVE HInv
<1>1. log = <<>> /\ Len(log) = 0 /\ DOMAIN log = {} /\ log \in Seq(LogEntry)
  BY DEF HInit
<1>2. /\ count = 0 /\ disp_cycle = 1 /\ disp_count = 0
      /\ com_cycle = 1 /\ com_count = 0 /\ fetch_block = 0 /\ last_exec = 0
      /\ reg_ready = [s \in Slot |-> 0] /\ rob = [k \in 0..RobSize-1 |-> 0]
  BY DEF HInit, Init
<1>3. Typed
  BY <1>1, <1>2 DEF Typed, ConfigOK
<1>4. PortsOpen
  <2>1. DispatchedIn(disp_cycle) = {} /\ CommittedIn(com_cycle) = {}
    BY <1>1 DEF DispatchedIn, CommittedIn
  <2>. QED  BY <1>1, <1>2, <2>1, FS_EmptySet DEF PortsOpen
<1>5. LastOpen /\ RegistersReady /\ Blocked /\ RobHolds /\ RobGap /\ NoIdleCycle
  BY <1>1, <1>2
  DEF LastOpen, RegistersReady, Blocked, RobHolds, RobGap, NoIdleCycle
<1>6. LegalSchedule
  BY <1>1
  DEF LegalSchedule, PortsRespected, InOrderEnds, TrueDependencies,
      RedirectRespected
<1>. QED  BY <1>3, <1>4, <1>5, <1>6 DEF HInv

\* ... and every instruction keeps it.
LEMMA HInvStep == ASSUME ConfigOK, HInv, [HNext]_<<vars, log>> PROVE HInv'
<1>1. CASE UNCHANGED <<vars, log>>
  <2>1. /\ Typed' /\ PortsOpen' /\ LastOpen' /\ RegistersReady' /\ Blocked'
        /\ RobHolds' /\ RobGap'
    BY <1>1
    DEF vars, schedVars, HInv, Typed, PortsOpen, LastOpen, RegistersReady, Blocked,
        RobHolds, RobGap, DispatchedIn, CommittedIn
  <2>2. LegalSchedule'
    BY <1>1
    DEF HInv, LegalSchedule, PortsRespected, InOrderEnds, TrueDependencies,
        RedirectRespected, Nearest, Completes, DispatchedIn, CommittedIn
  <2>3. NoIdleCycle'
    BY <1>1
    DEF HInv, NoIdleCycle, DispatchPrompt, ExecutePrompt, CommitPrompt, Nearest,
        Completes
  <2>. QED  BY <2>1, <2>2, <2>3 DEF HInv
<1>2. CASE HNext
  <2>1. PICK d, pen, disp, exec, commit : Placed(d, pen, disp, exec, commit)
    BY <1>2, IssuePlaces
  <2>2. /\ log' \in Seq(LogEntry) /\ count' = Len(log')
        /\ last_exec' \in Nat
    <3>1. Grown(d, pen, disp, exec, commit)
      BY <2>1, PlacedGrows
    <3>. QED  BY <2>1, <3>1 DEF Grown, Placed, Execute
  <2>3. Typed'
    BY <2>1, <2>2, PortsStep, RegistersStep, BlockedStep, RobStep DEF Typed
  <2>4. LegalSchedule'
    BY <2>1, PortsStep, InOrderStep, DependenciesStep, BlockedStep
    DEF LegalSchedule
  <2>. QED
    BY <2>1, <2>3, <2>4, PortsStep, RegistersStep, BlockedStep, RobStep,
       LastStep, NoIdleStep
    DEF HInv
<1>. QED  BY <1>1, <1>2

\* The invariant holds of every run of pipe_run_ooo.
LEMMA HInvAlways == ConfigOK /\ HSpec => []HInv
<1>1. ConfigOK /\ HInit => HInv
  BY HInvInit
<1>2. ConfigOK /\ HInv /\ [HNext]_<<vars, log>> => HInv'
  BY HInvStep
<1>3. ConfigOK => []ConfigOK
  BY DEF ConfigOK
<1>. QED  BY <1>1, <1>2, <1>3, PTL DEF HSpec

\* Every schedule pipe_run_ooo computes respects the ports, program order at
\* both ends, every operand's nearest producer and every redirect.
THEOREM SchedulesAreLegal == ConfigOK /\ HSpec => []LegalSchedule
<1>1. HInv => LegalSchedule
  BY DEF HInv
<1>. QED  BY <1>1, HInvAlways, PTL

\* Every instruction pipe_run_ooo schedules is dispatched, executes and commits in
\* the first cycle a legal schedule with this reorder buffer has for it: the order,
\* a port, a redirect, the buffer or a true operand forbids the cycle before.
THEOREM SchedulesAreTight == ConfigOK /\ HSpec => []NoIdleCycle
<1>1. HInv => NoIdleCycle
  BY DEF HInv
<1>. QED  BY <1>1, HInvAlways, PTL

\* The reorder buffer never holds more than RobSize instructions.
THEOREM RobNeverFuller == ConfigOK /\ HSpec => []RobBounded
<1>1. ConfigOK => []ConfigOK
  BY DEF ConfigOK
<1>2. ConfigOK /\ HInv => RobBounded
  BY RobWithinSize
<1>. QED  BY <1>1, <1>2, HInvAlways, PTL
=============================================================================
