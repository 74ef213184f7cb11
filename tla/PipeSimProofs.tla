--------------------------- MODULE PipeSimProofs ---------------------------
(***************************************************************************)
(* Machine-checked proofs about pipe_run for every program, every answer   *)
(* of the caches and the predictor, every configuration and latency, and   *)
(* every ring of at least four entries; and, for the configurations        *)
(* without caches, that pipe_run_ss with width 1 reports the same cycles.  *)
(***************************************************************************)
EXTENDS ScalarEquiv, TLAPS

-----------------------------------------------------------------------------
(* The instruction metadata *)

\* What gen_one can report is an InstInfo and a Boolean.
LEMMA CpuStepsType ==
    ASSUME NEW s \in CpuSteps
    PROVE  s.info \in InstInfo /\ s.halts \in BOOLEAN
<1>1. PICK op \in Ops : s \in [info: {decode_meta(op, rd, rs, t) :
                            rd \in Regs, rs \in Regs, t \in Outcomes(op)},
                         halts: Halts(op)]
  BY DEF CpuSteps
<1>2. PICK rd \in Regs, rs \in Regs, t \in Outcomes(op) :
        s.info = decode_meta(op, rd, rs, t)
  BY <1>1
<1>3. t \in BOOLEAN
  BY DEF Outcomes
<1>4. /\ op_reads(op, rd, rs) \in SUBSET Slot
      /\ op_writes(op, rd) \in SUBSET Slot
  BY DEF op_reads, op_writes, Slot
<1>5. op_latency(op) \in 1..20
  BY DEF op_latency
<1>6. s.info \in InstInfo
  BY <1>2, <1>3, <1>4, <1>5
  DEF decode_meta, InstInfo, op_sets_flags, op_is_control, op_is_conditional,
      op_accesses_mem
<1>7. Halts(op) \subseteq BOOLEAN
  BY DEF Halts
<1>8. s.halts \in Halts(op)
  BY <1>1
<1>. QED  BY <1>6, <1>7, <1>8

\* No load sets the flags, so a slot's producer is a load only when it writes
\* the register itself.
LEMMA LoadsSetNoFlags ==
    ASSUME NEW s \in CpuSteps
    PROVE  ~(s.info.is_load /\ s.info.sets_flags)
<1>1. PICK op \in Ops : s \in [info: {decode_meta(op, rd, rs, t) :
                            rd \in Regs, rs \in Regs, t \in Outcomes(op)},
                         halts: Halts(op)]
  BY DEF CpuSteps
<1>2. PICK rd \in Regs, rs \in Regs, t \in Outcomes(op) :
        s.info = decode_meta(op, rd, rs, t)
  BY <1>1
<1>3. s.info.is_load = (op \in {"LOAD", "POP"})
  BY <1>2 DEF decode_meta
<1>4. s.info.sets_flags = (op \in AluOps \cup {"NOT"})
  BY <1>2 DEF decode_meta, op_sets_flags
<1>5. ~(op \in {"LOAD", "POP"} /\ op \in AluOps \cup {"NOT"})
  BY DEF AluOps
<1>. QED  BY <1>3, <1>4, <1>5

-----------------------------------------------------------------------------
(* Facts about the operators *)

\* The answers of the caches are answers.
LEMMA AnswersType ==
    ASSUME TypeOK
    PROVE  /\ DcAnswers \subseteq Answer
           /\ IcHits \subseteq Answer
           /\ IcMisses \subseteq Answer
           /\ NoAccess \in Answer
<1>0. /\ cfg.ic_miss \in Nat /\ cfg.dc_miss \in Nat
      /\ cfg.l2_hit \in Nat /\ cfg.l2_miss \in Nat
  BY DEF TypeOK, PipeConfig
<1>1. NoAccess \in Answer /\ CacheHit \in Answer
  BY DEF NoAccess, CacheHit, Answer
<1>2. ASSUME NEW pen \in Nat
      PROVE  /\ L1Miss(pen) \in Answer
             /\ [L1Miss(pen) EXCEPT !.l2acc = 1] \in Answer
             /\ [L1Miss(pen) EXCEPT !.l2acc = 1, !.l2miss = 1] \in Answer
  <2>1. L1Miss(pen) \in Answer
    BY DEF L1Miss, Answer
  <2>2. ASSUME NEW a \in Answer
        PROVE  /\ [a EXCEPT !.l2acc = 1] \in Answer
               /\ [a EXCEPT !.l2miss = 1] \in Answer
    BY DEF Answer
  <2>. QED  BY <2>1, <2>2
<1>3. ASSUME NEW pen \in Nat PROVE Misses(pen) \subseteq Answer
  BY <1>0, <1>2 DEF Misses
<1>. QED
  BY <1>0, <1>1, <1>3 DEF DcAnswers, IcHits, IcMisses

\* An uninitialised ring entry has the type of an entry.
LEMMA NoInstType == NoInst \in InstInfo
<1>1. /\ op_reads("NOP", 0, 0) = {}
      /\ op_writes("NOP", 0) = {}
      /\ op_latency("NOP") = 1
  BY DEF op_reads, op_writes, op_latency, AluOps, CondOps
<1>. QED
  BY <1>1
  DEF NoInst, decode_meta, InstInfo, op_sets_flags, op_is_control,
      op_is_conditional, op_accesses_mem

-----------------------------------------------------------------------------
(* Type correctness *)

\* Redirect keeps the types of what it writes.
LEMMA RedirectType ==
    ASSUME TypeOK, NEW d \in InstInfo, Redirect(d)
    PROVE  /\ ctrl_pending' \in 0..CONTROL_PENALTY
           /\ control_stalls' \in Nat /\ cond_branches' \in Nat
           /\ redirects' \in Nat
  BY DEF TypeOK, Redirect, control_penalty, CONTROL_PENALTY, redirectVars

\* So does the generator, and the ring stays a ring.
LEMMA GenType ==
    ASSUME TypeOK, NEW s \in CpuSteps, gen_one(s)
    PROVE  /\ count' \in Nat /\ done' \in BOOLEAN
           /\ win' \in [0..WinCap-1 -> Entry]
           /\ gen_mem' \in Nat /\ gen_cond' \in Nat
<1>1. s.info \in InstInfo /\ s.halts \in BOOLEAN
  BY CpuStepsType
<1>2. count' \in Nat /\ gen_mem' \in Nat /\ gen_cond' \in Nat
  BY DEF TypeOK, gen_one
<1>3. done' \in BOOLEAN
  BY <1>1 DEF gen_one
<1>4. [idx |-> count, d |-> s.info] \in Entry
  BY <1>1 DEF Entry, TypeOK
<1>. QED  BY <1>2, <1>3, <1>4 DEF TypeOK, gen_one

\* The part of the pipe behind the decode stage.
LEMMA BackEndType ==
    ASSUME TypeOK, NEW dc \in Answer, NEW ic \in Answer, BackEnd(dc, ic)
    PROVE  /\ sMEM' \in Latch /\ retired' \in Nat /\ mem_stall' \in Nat
           /\ dc_accesses' \in Nat /\ dc_misses' \in Nat
           /\ l2_accesses' \in Nat /\ l2_misses' \in Nat
<1>1. sMEM' \in Latch /\ retired' \in Nat
  BY DEF TypeOK, BackEnd
<1>2. /\ dc.acc \in Nat /\ dc.miss \in Nat /\ dc.pen \in Nat
      /\ dc.l2acc \in Nat /\ dc.l2miss \in Nat
      /\ ic.l2acc \in Nat /\ ic.l2miss \in Nat
  BY DEF Answer
<1>3. mem_stall' \in Nat
  BY <1>2 DEF TypeOK, BackEnd
<1>4. \A n, a, b \in Nat : n + a \in Nat /\ n + a + b \in Nat
  OBVIOUS
<1>5. /\ dc_accesses \in Nat /\ dc_misses \in Nat
      /\ l2_accesses \in Nat /\ l2_misses \in Nat
  BY DEF TypeOK
<1>6. /\ dc_accesses' = dc_accesses + dc.acc
      /\ dc_misses' = dc_misses + dc.miss
      /\ l2_accesses' = l2_accesses + dc.l2acc + ic.l2acc
      /\ l2_misses' = l2_misses + dc.l2miss + ic.l2miss
  BY DEF BackEnd
<1>7. /\ dc_accesses' \in Nat /\ dc_misses' \in Nat
      /\ l2_accesses' \in Nat /\ l2_misses' \in Nat
  BY ONLY <1>2, <1>4, <1>5, <1>6
<1>. QED  BY <1>1, <1>3, <1>7

\* The loop's bookkeeping.
LEMMA TickType ==
    ASSUME TypeOK, Tick
    PROVE  /\ cfg' \in PipeConfig
           /\ cycles' \in Nat
           /\ status' \in {"running", "finished", "aborted", "exited"}
  BY DEF TypeOK, Tick

\* What gen_at returns for an instruction in a latch is an InstInfo.
LEMMA GenAtType ==
    ASSUME TypeOK, NEW k \in Nat
    PROVE  gen_at(k) \in InstInfo
<1>1. RingSlot(k) \in 0..WinCap-1
  BY WinCapAssumption DEF RingSlot
<1>2. win[RingSlot(k)] \in Entry
  BY <1>1 DEF TypeOK
<1>. QED  BY <1>2 DEF gen_at, Entry

\* One step keeps the types; one case per path through the loop body.
LEMMA TypeStep ==
    ASSUME TypeOK, [Next]_vars
    PROVE  TypeOK'
<1>. USE DEF Latch, Bubble
<1>1. CASE Hold
  BY <1>1, TickType DEF Hold, TypeOK, genVars, icVars, redirectVars
<1>2. ASSUME NEW dc \in DcAnswers, DataStall(dc)  PROVE TypeOK'
  BY <1>2, TickType, BackEndType, AnswersType
  DEF DataStall, TypeOK, genVars, icVars, redirectVars
<1>3. ASSUME NEW dc \in DcAnswers, ControlBubble(dc)  PROVE TypeOK'
  BY <1>3, TickType, BackEndType, AnswersType
  DEF ControlBubble, Advance, TypeOK, genVars, icVars, CONTROL_PENALTY
<1>4. ASSUME NEW dc \in DcAnswers, FetchWait(dc)  PROVE TypeOK'
  BY <1>4, TickType, BackEndType, AnswersType
  DEF FetchWait, Advance, TypeOK, genVars, icVars, redirectVars
<1>5. ASSUME NEW dc \in DcAnswers, FetchResume(dc)  PROVE TypeOK'
  <2>1. gen_at(pending_fetch) \in InstInfo
    BY <1>5, GenAtType DEF FetchResume, TypeOK
  <2>. QED
    BY <1>5, <2>1, TickType, BackEndType, AnswersType, RedirectType
    DEF FetchResume, Advance, TypeOK, genVars, icVars
<1>6. ASSUME NEW dc \in DcAnswers, NEW s \in CpuSteps, Fetch(dc, s)
      PROVE  TypeOK'
  <2>1. s.info \in InstInfo
    BY CpuStepsType
  <2>2. PICK ic \in IcHits : BackEnd(dc, ic) /\ ic_accesses' = ic_accesses + ic.acc
    BY <1>6 DEF Fetch
  <2>3. ic \in Answer /\ dc \in Answer
    BY AnswersType
  <2>4. ic_accesses' \in Nat
    BY <2>2, <2>3 DEF TypeOK, Answer
  <2>. QED
    BY <1>6, <2>1, <2>2, <2>3, <2>4, TickType, BackEndType, RedirectType, GenType
    DEF Fetch, Advance, TypeOK
<1>7. ASSUME NEW dc \in DcAnswers, NEW s \in CpuSteps, FetchMiss(dc, s)
      PROVE  TypeOK'
  <2>2. PICK ic \in IcMisses : /\ BackEnd(dc, ic)
                               /\ ic_accesses' = ic_accesses + ic.acc
                               /\ fetch_stall' = ic.pen - 1
    BY <1>7 DEF FetchMiss
  <2>3. ic \in Answer /\ dc \in Answer
    BY AnswersType
  <2>4. ic_accesses' \in Nat /\ fetch_stall' \in Nat \cup {-1}
    BY <2>2, <2>3 DEF TypeOK, Answer
  <2>. QED
    BY <1>7, <2>2, <2>3, <2>4, TickType, BackEndType, GenType
    DEF FetchMiss, Advance, TypeOK, redirectVars
<1>8. ASSUME NEW dc \in DcAnswers, Drain(dc)  PROVE TypeOK'
  BY <1>8, TickType, BackEndType, AnswersType
  DEF Drain, Advance, TypeOK, genVars, icVars, redirectVars
<1>9. CASE MemoryFault
  BY <1>9 DEF MemoryFault, TypeOK, genVars, icVars, redirectVars
<1>10. CASE UNCHANGED vars
  BY <1>10 DEF vars, TypeOK, genVars, icVars, redirectVars
<1>. QED
  BY <1>1, <1>2, <1>3, <1>4, <1>5, <1>6, <1>7, <1>8, <1>9, <1>10
  DEF Next, Iterate, FrontEnd, Returned

\* The initial state is typed.
LEMMA InitType == ASSUME Init PROVE TypeOK
<1>1. [idx |-> -1, d |-> NoInst] \in Entry
  BY NoInstType DEF Entry
<1>2. win \in [0..WinCap-1 -> Entry]
  BY <1>1 DEF Init
<1>3. 0 \in 0..CONTROL_PENALTY /\ 0 \in Nat /\ Bubble \in Latch
  BY DEF CONTROL_PENALTY, Latch
<1>. QED  BY <1>2, <1>3, ConfigsAssumption DEF Init, TypeOK

\* pipe_run keeps every counter natural, every latch an index or a bubble, the
\* redirect counter within the penalty and the I-cache counter at -1 or above.
THEOREM TypeCorrect == Spec => []TypeOK
  BY InitType, TypeStep, PTL DEF Spec

-----------------------------------------------------------------------------
(* Instructions in flight *)

\* An instruction waiting for its I-cache miss has an empty latch before it.
PendingAlone == pending_fetch # Bubble => sIF = Bubble

\* The inductive invariant: the order of the instructions in flight rests on
\* the latches being indices, and the ring on there being at most four of them.
FlowInv == TypeOK /\ InOrderOnce /\ PendingAlone /\ RingLive

\* Two indices closer than the ring's capacity do not share a slot.
LEMMA RingSlotsDistinct ==
    ASSUME NEW j \in Nat, NEW k \in Nat, j < k, k - j < WinCap
    PROVE  RingSlot(j) # RingSlot(k)
<1>. DEFINE W == WinCap
            p == j \div W
            q == k \div W
<1>1. W \in Nat /\ W > 0
  BY WinCapAssumption
<1>2. /\ p \in Int /\ q \in Int
      /\ j = W * p + (j % W)
      /\ k = W * q + (k % W)
  BY <1>1
<1>3. SUFFICES ASSUME j % W = k % W  PROVE FALSE
  BY DEF RingSlot
<1>. HIDE DEF p, q, W
<1>4. k - j = W * (q - p)
  BY <1>1, <1>2, <1>3
<1>5. CASE q - p <= 0
  <2>1. W * (q - p) <= 0
    BY <1>1, <1>2, <1>5
  <2>. QED  BY <1>1, <1>2, <1>4, <2>1
<1>6. CASE q - p >= 1
  <2>1. W * (q - p) >= W
    BY <1>1, <1>2, <1>6
  <2>. QED  BY <1>1, <1>2, <1>4, <2>1 DEF W
<1>. QED  BY <1>1, <1>2, <1>5, <1>6

\* At most four instructions are in flight.
LEMMA AtMostFour ==
    ASSUME TypeOK, InOrderOnce, PendingAlone
    PROVE  retired <= count /\ count - retired <= 4
  BY DEF TypeOK, InOrderOnce, PendingAlone, Occ, Bubble, Latch

\* A step that produces nothing keeps the ring of what is still in flight.
LEMMA RingKept ==
    ASSUME TypeOK, RingLive, UNCHANGED <<count, win>>,
           retired' \in Nat, retired' >= retired
    PROVE  RingLive'
  BY DEF TypeOK, RingLive, RingSlot

\* The arithmetic of the next lemma: k is in flight after instruction c was
\* produced, and is not c.
LEMMA InFlightClose ==
    ASSUME NEW c \in Nat, NEW r \in Nat, NEW q \in Nat, q >= r, c <= q + 3,
           NEW k \in q..c, k # c, NEW w \in Nat, w >= 4
    PROVE  k \in Nat /\ k \in r..c-1 /\ c - k < w /\ k < c
  OBVIOUS

\* A step that produces an instruction overwrites no instruction in flight.
LEMMA RingWritten ==
    ASSUME TypeOK, RingLive, NEW s \in CpuSteps, gen_one(s),
           retired \in Nat, count \in Nat, retired' \in Nat,
           retired' >= retired, count <= retired' + 3
    PROVE  RingLive'
<1>1. SUFFICES ASSUME NEW k \in retired'..count
               PROVE  win'[RingSlot(k)].idx = k
  BY DEF RingLive, RingSlot, gen_one
<1>2. k \in Nat /\ WinCap \in Nat /\ WinCap >= 4
  BY WinCapAssumption
<1>3. RingSlot(k) \in 0..WinCap-1 /\ RingSlot(count) \in 0..WinCap-1
  BY <1>2 DEF RingSlot
<1>4. CASE k = count
  BY <1>3, <1>4 DEF gen_one, TypeOK
<1>5. CASE k # count
  <2>1. k \in retired..count-1 /\ count - k < WinCap /\ k < count
    BY <1>2, <1>5, InFlightClose
  <2>2. RingSlot(k) # RingSlot(count)
    BY <1>2, <2>1, RingSlotsDistinct
  <2>3. win'[RingSlot(k)] = win[RingSlot(k)]
    BY <1>3, <2>2 DEF gen_one, TypeOK
  <2>. QED  BY <2>1, <2>3 DEF RingLive
<1>. QED  BY <1>4, <1>5
\* What a step that does not hold does to the latches and the counters, by
\* where its path leaves the instruction entering IF.
LEMMA OrderStep ==
    ASSUME TypeOK, TypeOK', InOrderOnce, PendingAlone,
           sMEM' = sEX,
           retired' = (IF sMEM # Bubble THEN retired + 1 ELSE retired),
           \/ /\ sID # Bubble /\ sEX' = Bubble
              /\ UNCHANGED <<sID, sIF, pending_fetch, count>>
           \/ /\ sEX' = sID /\ sID' = sIF
              /\ \/ sIF' = Bubble /\ UNCHANGED <<pending_fetch, count>>
                 \/ /\ pending_fetch # Bubble /\ sIF' = pending_fetch
                    /\ pending_fetch' = Bubble /\ UNCHANGED count
                 \/ /\ pending_fetch = Bubble /\ sIF' = count
                    /\ UNCHANGED pending_fetch /\ count' = count + 1
                 \/ /\ pending_fetch = Bubble /\ sIF' = Bubble
                    /\ pending_fetch' = count /\ count' = count + 1
    PROVE  InOrderOnce' /\ PendingAlone'
<1>1. /\ sIF \in Latch /\ sID \in Latch /\ sEX \in Latch /\ sMEM \in Latch
      /\ pending_fetch \in Latch /\ retired \in Nat /\ count \in Nat
      /\ sIF' \in Latch /\ sID' \in Latch /\ sEX' \in Latch /\ sMEM' \in Latch
      /\ pending_fetch' \in Latch /\ retired' \in Nat /\ count' \in Nat
  BY DEF TypeOK
<1>2. PendingAlone'
  BY DEF PendingAlone
<1>3. retired' = retired + Occ(sMEM)
  BY <1>1 DEF Occ
<1>4. Occ(sMEM)' = Occ(sEX) /\ Occ(Bubble) = 0
  BY DEF Occ
<1>5. ASSUME NEW l \in Latch  PROVE Occ(l) \in 0..1
  BY DEF Occ
<1>6. CASE /\ sID # Bubble /\ sEX' = Bubble
           /\ UNCHANGED <<sID, sIF, pending_fetch, count>>
  <2>1. /\ Occ(sEX)' = 0 /\ Occ(sID)' = Occ(sID) /\ Occ(sIF)' = Occ(sIF)
        /\ Occ(pending_fetch)' = Occ(pending_fetch)
    BY <1>4, <1>6 DEF Occ
  <2>. QED
    BY <1>1, <1>2, <1>3, <1>4, <1>5, <1>6, <2>1 DEF InOrderOnce
<1>7. CASE sEX' = sID /\ sID' = sIF
  <2>1. Occ(sEX)' = Occ(sID) /\ Occ(sID)' = Occ(sIF)
    BY <1>7 DEF Occ
  <2>2. pending_fetch # Bubble => Occ(sIF) = 0
    BY <1>4 DEF PendingAlone
  <2>3. CASE sIF' = Bubble /\ UNCHANGED <<pending_fetch, count>>
    <3>1. Occ(sIF)' = 0 /\ Occ(pending_fetch)' = Occ(pending_fetch)
      BY <1>4, <2>3 DEF Occ
    <3>. QED
      BY <1>1, <1>2, <1>3, <1>4, <1>5, <1>7, <2>1, <2>3, <3>1 DEF InOrderOnce
  <2>4. CASE /\ pending_fetch # Bubble /\ sIF' = pending_fetch
             /\ pending_fetch' = Bubble /\ UNCHANGED count
    <3>1. Occ(sIF)' = 1 /\ Occ(pending_fetch)' = 0 /\ Occ(pending_fetch) = 1
      BY <1>4, <2>4 DEF Occ
    <3>. QED
      BY <1>1, <1>2, <1>3, <1>4, <1>5, <1>7, <2>1, <2>2, <2>4, <3>1
      DEF InOrderOnce
  <2>5. CASE /\ pending_fetch = Bubble /\ sIF' = count
             /\ UNCHANGED pending_fetch /\ count' = count + 1
    <3>1. /\ Occ(sIF)' = 1 /\ Occ(pending_fetch)' = 0
          /\ Occ(pending_fetch) = 0
      BY <1>1, <1>4, <2>5 DEF Occ, Bubble
    <3>. QED
      BY <1>1, <1>2, <1>3, <1>4, <1>5, <1>7, <2>1, <2>5, <3>1 DEF InOrderOnce
  <2>6. CASE /\ pending_fetch = Bubble /\ sIF' = Bubble
             /\ pending_fetch' = count /\ count' = count + 1
    <3>1. /\ Occ(sIF)' = 0 /\ Occ(pending_fetch)' = 1
          /\ Occ(pending_fetch) = 0
      BY <1>1, <1>4, <2>6 DEF Occ, Bubble
    <3>. QED
      BY <1>1, <1>2, <1>3, <1>4, <1>5, <1>7, <2>1, <2>6, <3>1 DEF InOrderOnce
  <2>. QED  BY <1>7, <2>3, <2>4, <2>5, <2>6 DEF Bubble
<1>. QED  BY <1>6, <1>7

\* Retirement only moves forward, and what was produced before the step is at
\* most three instructions ahead of it.
LEMMA RetireForward ==
    ASSUME TypeOK, InOrderOnce, PendingAlone, NEW dc, NEW ic, BackEnd(dc, ic)
    PROVE  /\ retired' \in Nat /\ retired' >= retired
           /\ pending_fetch = Bubble => count <= retired' + 3
  BY DEF TypeOK, InOrderOnce, PendingAlone, BackEnd, Occ, Bubble, Latch

\* One step keeps the order and the ring; one case per path.
LEMMA FlowStep ==
    ASSUME FlowInv, [Next]_vars
    PROVE  FlowInv'
<1>1. TypeOK /\ InOrderOnce /\ PendingAlone /\ RingLive
  BY DEF FlowInv
<1>2. TypeOK'
  BY <1>1, TypeStep
<1>3. ASSUME UNCHANGED <<count, win, sIF, sID, sEX, sMEM, retired, pending_fetch>>
      PROVE  InOrderOnce' /\ PendingAlone' /\ RingLive'
  BY <1>1, <1>3 DEF InOrderOnce, PendingAlone, RingLive, RingSlot, Occ
<1>4. ASSUME NEW dc \in DcAnswers,
             \/ DataStall(dc) \/ ControlBubble(dc) \/ FetchWait(dc)
             \/ FetchResume(dc) \/ Drain(dc)
      PROVE  InOrderOnce' /\ PendingAlone' /\ RingLive'
  <2>1. BackEnd(dc, NoAccess) /\ UNCHANGED <<count, win>>
    BY <1>4
    DEF DataStall, ControlBubble, FetchWait, FetchResume, Drain, genVars
  <2>2. InOrderOnce' /\ PendingAlone'
    BY <1>1, <1>2, <1>4, <2>1, OrderStep
    DEF DataStall, ControlBubble, FetchWait, FetchResume, Drain, Advance,
        BackEnd, needs_stall, genVars
  <2>3. RingLive'
    BY <1>1, <2>1, RetireForward, RingKept
  <2>. QED  BY <2>2, <2>3
<1>5. ASSUME NEW dc \in DcAnswers, NEW s \in CpuSteps,
             Fetch(dc, s) \/ FetchMiss(dc, s)
      PROVE  InOrderOnce' /\ PendingAlone' /\ RingLive'
  <2>1. PICK ic : BackEnd(dc, ic)
    BY <1>5 DEF Fetch, FetchMiss
  <2>2. gen_one(s) /\ pending_fetch = Bubble
    BY <1>5 DEF Fetch, FetchMiss, MayGenerate
  <2>3. InOrderOnce' /\ PendingAlone'
    BY <1>1, <1>2, <1>5, <2>1, <2>2, OrderStep
    DEF Fetch, FetchMiss, Advance, BackEnd, gen_one
  <2>4. RingLive'
    BY <1>1, <2>1, <2>2, RetireForward, RingWritten DEF TypeOK
  <2>. QED  BY <2>3, <2>4
<1>6. ASSUME Hold \/ MemoryFault \/ UNCHANGED vars
      PROVE  InOrderOnce' /\ PendingAlone' /\ RingLive'
  BY <1>3, <1>6 DEF Hold, MemoryFault, vars, genVars
<1>7. InOrderOnce' /\ PendingAlone' /\ RingLive'
  BY <1>4, <1>5, <1>6 DEF Next, Iterate, FrontEnd, Returned
<1>. QED  BY <1>2, <1>7 DEF FlowInv

\* Nothing is in flight before the first cycle.
LEMMA FlowInit == ASSUME Init PROVE FlowInv
<1>1. TypeOK
  BY InitType
<1>2. InOrderOnce /\ PendingAlone
  BY DEF Init, InOrderOnce, PendingAlone, Occ, Bubble
<1>3. RingLive
  BY DEF Init, RingLive
<1>. QED  BY <1>1, <1>2, <1>3 DEF FlowInv

\* FlowInv is an invariant.
LEMMA FlowAlways == Spec => []FlowInv
  BY FlowInit, FlowStep, PTL DEF Spec

\* pipe_run loses, repeats and reorders no instruction, whatever stalls, holds
\* and misses overlap.
THEOREM EveryInstructionOnce == Spec => []InOrderOnce
<1>1. FlowInv => InOrderOnce
  BY DEF FlowInv
<1>. QED  BY <1>1, FlowAlways, PTL

\* With any ring of at least four entries, gen_at never reads an instruction
\* other than the one asked for.
THEOREM RingNeverStale == Spec => []RingLive
<1>1. FlowInv => RingLive
  BY DEF FlowInv
<1>. QED  BY <1>1, FlowAlways, PTL

-----------------------------------------------------------------------------
(* Redirect bubbles *)

\* A step adds a redirect with its whole penalty, or turns one pending bubble
\* into a counted one.
LEMMA RedirectStep ==
    ASSUME TypeOK, RedirectAccounting, [Next]_vars
    PROVE  RedirectAccounting'
<1>1. ASSUME NEW d, ctrl_pending <= 0, Redirect(d)
      PROVE  RedirectAccounting'
  BY <1>1
  DEF Redirect, control_penalty, RedirectAccounting, TypeOK, CONTROL_PENALTY,
      redirectVars
<1>2. ASSUME UNCHANGED redirectVars  PROVE RedirectAccounting'
  BY <1>2 DEF redirectVars, RedirectAccounting
<1>3. ASSUME NEW dc, ControlBubble(dc)  PROVE RedirectAccounting'
  BY <1>3 DEF ControlBubble, RedirectAccounting, TypeOK, CONTROL_PENALTY
<1>4. ASSUME NEW dc, FetchResume(dc)  PROVE RedirectAccounting'
  BY <1>1, <1>4 DEF FetchResume
<1>5. ASSUME NEW dc, NEW s, Fetch(dc, s)  PROVE RedirectAccounting'
  BY <1>1, <1>5 DEF Fetch, MayGenerate
<1>6. ASSUME NEW dc, NEW s,
             \/ Hold \/ DataStall(dc) \/ FetchWait(dc) \/ FetchMiss(dc, s)
             \/ Drain(dc) \/ MemoryFault \/ UNCHANGED vars
      PROVE  RedirectAccounting'
  BY <1>2, <1>6
  DEF Hold, DataStall, FetchWait, FetchMiss, Drain, MemoryFault, vars
<1>. QED
  BY <1>3, <1>4, <1>5, <1>6 DEF Next, Iterate, FrontEnd, Returned

\* Every redirect costs its two bubbles and no more, in every program.
THEOREM RedirectsPaid == Spec => []RedirectAccounting
<1>1. Init => RedirectAccounting
  BY DEF Init, RedirectAccounting, CONTROL_PENALTY
<1>. QED  BY <1>1, RedirectStep, TypeCorrect, PTL DEF Spec

-----------------------------------------------------------------------------
(* What the ring holds for the latches *)

\* Producing an instruction keeps the ring entries of IF, ID and EX.  The
\* entry of MEM may be the one written: that instruction retires in this step.
LEMMA LatchKept ==
    ASSUME FlowInv, NEW s \in CpuSteps, gen_one(s), pending_fetch = Bubble,
           NEW l \in {sIF, sID, sEX}, l # Bubble
    PROVE  win'[RingSlot(l)] = win[RingSlot(l)]
<1>1. TypeOK /\ InOrderOnce /\ PendingAlone
  BY DEF FlowInv
<1>2. l \in Nat /\ l < count /\ count - l <= 3 /\ count \in Nat
  BY <1>1 DEF TypeOK, InOrderOnce, Occ, Bubble, Latch
<1>3. WinCap \in Nat /\ WinCap >= 4
  BY WinCapAssumption
<1>4. RingSlot(l) # RingSlot(count)
  <2>1. count - l < WinCap
    BY <1>2, <1>3
  <2>. QED  BY <1>2, <2>1, RingSlotsDistinct
<1>5. RingSlot(l) \in 0..WinCap-1 /\ RingSlot(count) \in 0..WinCap-1
  BY <1>2, <1>3 DEF RingSlot
<1>. QED  BY <1>1, <1>4, <1>5 DEF TypeOK, gen_one

\* The new instruction is in its slot.
LEMMA LatchWritten ==
    ASSUME TypeOK, NEW s, gen_one(s)
    PROVE  win'[RingSlot(count)].d = s.info
<1>1. RingSlot(count) \in 0..WinCap-1
  BY WinCapAssumption DEF RingSlot, TypeOK
<1>. QED  BY <1>1 DEF TypeOK, gen_one

\* A conditional instruction is a control instruction, and so is a taken one.
Sane(d) == (d.is_conditional => d.is_control) /\ (d.taken_control => d.is_control)

\* Every ring entry describes an instruction decode_meta can describe.
RingSane == \A j \in 0..WinCap-1 : Sane(win[j].d)

\* What the generator produces is such a description ...
LEMMA StepsAreSane == ASSUME NEW s \in CpuSteps PROVE Sane(s.info)
<1>1. PICK op \in Ops : s \in [info: {decode_meta(op, rd, rs, t) :
                            rd \in Regs, rs \in Regs, t \in Outcomes(op)},
                         halts: Halts(op)]
  BY DEF CpuSteps
<1>2. PICK rd \in Regs, rs \in Regs, t \in Outcomes(op) :
        s.info = decode_meta(op, rd, rs, t)
  BY <1>1
<1>3. /\ s.info.is_conditional = op_is_conditional(op)
      /\ s.info.is_control = op_is_control(op)
      /\ s.info.taken_control = t
  BY <1>2 DEF decode_meta
<1>4. t => op_is_control(op)
  BY DEF Outcomes
<1>. QED  BY <1>3, <1>4 DEF Sane, op_is_control

\* ... so the ring only ever holds them.
LEMMA SaneStep ==
    ASSUME TypeOK, RingSane, [Next]_vars
    PROVE  RingSane'
<1>1. CASE UNCHANGED win
  BY <1>1 DEF RingSane
<1>2. ASSUME NEW s \in CpuSteps, gen_one(s) PROVE RingSane'
  <2>1. SUFFICES ASSUME NEW j \in 0..WinCap-1 PROVE Sane(win'[j].d)
    BY DEF RingSane
  <2>2. Sane(s.info) /\ Sane(win[j].d)
    BY StepsAreSane DEF RingSane
  <2>3. win'[j] \in {win[j], [idx |-> count, d |-> s.info]}
    BY <1>2 DEF gen_one, TypeOK
  <2>4. win'[j].d \in {win[j].d, s.info}
    BY <2>3
  <2>. QED  BY <2>2, <2>4
<1>. QED
  BY <1>1, <1>2
  DEF Next, Iterate, FrontEnd, Returned, Hold, DataStall, ControlBubble,
      FetchWait, FetchResume, Fetch, FetchMiss, Drain, MemoryFault, vars, genVars

\* The ring starts with them.
LEMMA SaneInit == ASSUME Init PROVE RingSane
<1>1. Sane(NoInst)
  BY DEF Sane, NoInst, decode_meta, op_is_conditional, CondOps
<1>2. \A j \in 0..WinCap-1 : win[j].d = NoInst
  BY DEF Init
<1>. QED  BY <1>1, <1>2 DEF RingSane

-----------------------------------------------------------------------------
(* Once per instruction *)

\* 1 when a latch holds a memory instruction, as the ring w says.
InMem(w, l) == Ind(l # Bubble /\ w[RingSlot(l)].d.accesses_mem)
InCond(w, l) == Ind(l # Bubble /\ w[RingSlot(l)].d.is_conditional)

\* The indicators are 0 or 1, and 0 for a bubble.
LEMMA InMemFacts ==
    /\ \A w, l : InMem(w, l) \in 0..1 /\ InCond(w, l) \in 0..1
    /\ \A w : InMem(w, Bubble) = 0 /\ InCond(w, Bubble) = 0
  BY DEF InMem, InCond, Ind

\* What the counters are told of a hit and of a miss.
LEMMA HitFields ==
    /\ NoAccess.acc = 0 /\ NoAccess.miss = 0 /\ NoAccess.l2acc = 0
    /\ NoAccess.l2miss = 0 /\ NoAccess.pen = 0
    /\ CacheHit.acc = 1 /\ CacheHit.miss = 0 /\ CacheHit.l2acc = 0
    /\ CacheHit.l2miss = 0 /\ CacheHit.pen = 0
  BY DEF NoAccess, CacheHit

\* A miss: it goes to L2 if there is one, which decides the penalty.
MissOf(pen, a) ==
    /\ a.acc = 1 /\ a.miss = 1
    /\ cfg.l2 => /\ a.l2acc = 1
                 /\ \/ a.l2miss = 0 /\ a.pen = cfg.l2_hit
                    \/ a.l2miss = 1 /\ a.pen = cfg.l2_miss
    /\ ~cfg.l2 => a.l2acc = 0 /\ a.l2miss = 0 /\ a.pen = pen

\* Every answer of a missing cache is such a miss.
LEMMA MissFields ==
    ASSUME NEW pen, NEW a \in Misses(pen)
    PROVE  MissOf(pen, a)
<1>1. CASE ~cfg.l2
  <2>1. a = [acc |-> 1, miss |-> 1, pen |-> pen, l2acc |-> 0, l2miss |-> 0]
    BY <1>1 DEF Misses, L1Miss
  <2>. QED  BY <1>1, <2>1 DEF MissOf
<1>2. CASE cfg.l2 /\ a = [L1Miss(cfg.l2_hit) EXCEPT !.l2acc = 1]
  <2>1. a = [acc |-> 1, miss |-> 1, pen |-> cfg.l2_hit, l2acc |-> 1, l2miss |-> 0]
    BY <1>2 DEF L1Miss
  <2>2. /\ a.acc = 1 /\ a.miss = 1 /\ a.pen = cfg.l2_hit
        /\ a.l2acc = 1 /\ a.l2miss = 0
    BY <2>1
  <2>3. cfg.l2
    BY <1>2
  <2>. QED  BY <2>2, <2>3 DEF MissOf
<1>3. CASE cfg.l2 /\ a = [L1Miss(cfg.l2_miss) EXCEPT !.l2acc = 1, !.l2miss = 1]
  <2>1. a = [acc |-> 1, miss |-> 1, pen |-> cfg.l2_miss, l2acc |-> 1, l2miss |-> 1]
    BY <1>3 DEF L1Miss
  <2>2. /\ a.acc = 1 /\ a.miss = 1 /\ a.pen = cfg.l2_miss
        /\ a.l2acc = 1 /\ a.l2miss = 1
    BY <2>1
  <2>3. cfg.l2
    BY <1>3
  <2>. QED  BY <2>2, <2>3 DEF MissOf
<1>. QED  BY <1>1, <1>2, <1>3 DEF Misses

\* With a D-cache, an access is made exactly when EX holds a memory instruction.
LEMMA DcOnce ==
    ASSUME cfg.dcache, NEW dc \in DcAnswers
    PROVE  dc.acc = InMem(win, sEX)
<1>1. CASE sEX # Bubble /\ gen_at(sEX).accesses_mem
  <2>1. dc \in {CacheHit} \cup Misses(cfg.dc_miss)
    BY <1>1 DEF DcAnswers
  <2>2. dc.acc = 1
    BY <2>1, HitFields, MissFields DEF MissOf
  <2>. QED  BY <1>1, <2>2 DEF InMem, Ind, gen_at
<1>2. CASE ~(sEX # Bubble /\ gen_at(sEX).accesses_mem)
  <2>1. dc = NoAccess
    BY <1>2 DEF DcAnswers
  <2>. QED  BY <1>2, <2>1 DEF InMem, Ind, gen_at, NoAccess
<1>. QED  BY <1>1, <1>2

\* The memory instructions presented to the D-cache and those still ahead.
DcBalance ==
    cfg.dcache =>
      dc_accesses + InMem(win, pending_fetch) + InMem(win, sIF)
        + InMem(win, sID) + InMem(win, sEX) = gen_mem

\* Each is presented when it enters MEM, once.
LEMMA DcBalanceStep ==
    ASSUME FlowInv, DcBalance, [Next]_vars
    PROVE  DcBalance'
<1>1. SUFFICES ASSUME cfg'.dcache
               PROVE  dc_accesses' + InMem(win', pending_fetch') + InMem(win', sIF')
                        + InMem(win', sID') + InMem(win', sEX') = gen_mem'
  BY DEF DcBalance
<1>2. UNCHANGED cfg
  BY DEF Next, Iterate, FrontEnd, Returned, Hold, DataStall, ControlBubble,
      FetchWait, FetchResume, Fetch, FetchMiss, Drain, MemoryFault, vars, Tick
<1>. DEFINE mp == InMem(win, pending_fetch)
            mF == InMem(win, sIF)
            mD == InMem(win, sID)
            mX == InMem(win, sEX)
<1>3. /\ mp \in 0..1 /\ mF \in 0..1 /\ mD \in 0..1 /\ mX \in 0..1
      /\ dc_accesses + mp + mF + mD + mX = gen_mem
      /\ dc_accesses \in Nat /\ gen_mem \in Nat
  BY <1>1, <1>2, InMemFacts DEF DcBalance, FlowInv, TypeOK
<1>4. CASE UNCHANGED <<dc_accesses, win, pending_fetch, sIF, sID, sEX, gen_mem>>
  BY <1>3, <1>4
<1>5. ASSUME NEW dc \in DcAnswers,
             \/ DataStall(dc) \/ ControlBubble(dc) \/ FetchWait(dc)
             \/ FetchResume(dc) \/ Drain(dc)
      PROVE  dc_accesses' + InMem(win', pending_fetch') + InMem(win', sIF')
               + InMem(win', sID') + InMem(win', sEX') = gen_mem'
  <2>1. /\ dc_accesses' = dc_accesses + mX
        /\ win' = win /\ gen_mem' = gen_mem
    BY <1>1, <1>2, <1>5, DcOnce
    DEF DataStall, ControlBubble, FetchWait, FetchResume, Drain, BackEnd, genVars
  <2>2. \/ /\ sEX' = Bubble /\ sID' = sID /\ sIF' = sIF
           /\ pending_fetch' = pending_fetch
        \/ /\ sEX' = sID /\ sID' = sIF /\ sIF' = Bubble
           /\ pending_fetch' = pending_fetch
        \/ /\ sEX' = sID /\ sID' = sIF /\ sIF' = pending_fetch
           /\ pending_fetch' = Bubble
    BY <1>5
    DEF DataStall, ControlBubble, FetchWait, FetchResume, Drain, Advance
  <2>3. InMem(win, Bubble) = 0
    BY InMemFacts
  <2>4. \/ /\ InMem(win', sEX') = 0 /\ InMem(win', sID') = mD
           /\ InMem(win', sIF') = mF /\ InMem(win', pending_fetch') = mp
        \/ /\ InMem(win', sEX') = mD /\ InMem(win', sID') = mF
           /\ InMem(win', sIF') = 0 /\ InMem(win', pending_fetch') = mp
        \/ /\ InMem(win', sEX') = mD /\ InMem(win', sID') = mF
           /\ InMem(win', sIF') = mp /\ InMem(win', pending_fetch') = 0
    BY <2>1, <2>2, <2>3
  <2>. HIDE DEF mp, mF, mD, mX
  <2>. QED  BY <1>3, <2>1, <2>4
<1>6. ASSUME NEW dc \in DcAnswers, NEW s \in CpuSteps,
             Fetch(dc, s) \/ FetchMiss(dc, s)
      PROVE  dc_accesses' + InMem(win', pending_fetch') + InMem(win', sIF')
               + InMem(win', sID') + InMem(win', sEX') = gen_mem'
  <2>1. PICK ic : BackEnd(dc, ic)
    BY <1>6 DEF Fetch, FetchMiss
  <2>2. /\ gen_one(s) /\ pending_fetch = Bubble
        /\ sEX' = sID /\ sID' = sIF
        /\ dc_accesses' = dc_accesses + mX
        /\ gen_mem' = gen_mem + Ind(s.info.accesses_mem)
        /\ \/ sIF' = count /\ pending_fetch' = Bubble
           \/ sIF' = Bubble /\ pending_fetch' = count
    BY <1>1, <1>2, <1>6, <2>1, DcOnce
    DEF Fetch, FetchMiss, MayGenerate, Advance, gen_one, BackEnd, Ind
  <2>3. InMem(win', sID) = mD /\ InMem(win', sIF) = mF
    BY <2>2, LatchKept DEF InMem
  <2>4. InMem(win', count) = Ind(s.info.accesses_mem)
    <3>1. win'[RingSlot(count)].d = s.info /\ count # Bubble
      BY <2>2, LatchWritten DEF FlowInv, TypeOK, Bubble
    <3>. QED  BY <3>1 DEF InMem, Ind
  <2>5. mp = 0 /\ InMem(win', Bubble) = 0
    BY <2>2, InMemFacts
  <2>6. Ind(s.info.accesses_mem) \in 0..1
    BY DEF Ind
  <2>7. /\ InMem(win', sEX') = mD /\ InMem(win', sID') = mF
        /\ \/ /\ InMem(win', sIF') = Ind(s.info.accesses_mem)
              /\ InMem(win', pending_fetch') = 0
           \/ /\ InMem(win', sIF') = 0
              /\ InMem(win', pending_fetch') = Ind(s.info.accesses_mem)
    BY <2>2, <2>3, <2>4, <2>5
  <2>. HIDE DEF mp, mF, mD, mX
  <2>. QED  BY <1>3, <2>2, <2>5, <2>6, <2>7
<1>. QED
  BY <1>4, <1>5, <1>6
  DEF Next, Iterate, FrontEnd, Returned, Hold, MemoryFault, vars, genVars

\* The conditional instructions presented to the predictor and the one ahead.
CondBalance ==
    cfg.bp => cond_branches + InCond(win, pending_fetch) = gen_cond

\* With a predictor, Redirect presents a conditional instruction once.
LEMMA RedirectCounts ==
    ASSUME TypeOK, cfg.bp, NEW d, Sane(d), Redirect(d)
    PROVE  cond_branches' = cond_branches + Ind(d.is_conditional)
<1>1. cond_branches \in Nat
  BY DEF TypeOK
<1>2. CASE d.is_control \/ d.taken_control
  <2>1. cond_branches' = cond_branches + (IF cfg.bp /\ d.is_conditional THEN 1 ELSE 0)
    BY <1>2 DEF Redirect
  <2>. QED  BY <2>1 DEF Ind
<1>3. CASE ~(d.is_control \/ d.taken_control)
  <2>1. cond_branches' = cond_branches
    BY <1>3 DEF Redirect, redirectVars
  <2>2. ~d.is_conditional
    BY <1>3 DEF Sane
  <2>. QED  BY <1>1, <2>1, <2>2 DEF Ind
<1>. QED  BY <1>2, <1>3

\* Each is presented when it is fetched, once.
LEMMA CondBalanceStep ==
    ASSUME FlowInv, RingSane, CondBalance, [Next]_vars
    PROVE  CondBalance'
<1>1. SUFFICES ASSUME cfg'.bp
               PROVE  cond_branches' + InCond(win', pending_fetch') = gen_cond'
  BY DEF CondBalance
<1>2. UNCHANGED cfg
  BY DEF Next, Iterate, FrontEnd, Returned, Hold, DataStall, ControlBubble,
      FetchWait, FetchResume, Fetch, FetchMiss, Drain, MemoryFault, vars, Tick
<1>. DEFINE cp == InCond(win, pending_fetch)
<1>3. /\ cp \in 0..1 /\ cond_branches + cp = gen_cond
      /\ cond_branches \in Nat /\ gen_cond \in Nat /\ TypeOK /\ cfg.bp
  BY <1>1, <1>2, InMemFacts DEF CondBalance, FlowInv, TypeOK
<1>4. CASE UNCHANGED <<cond_branches, win, pending_fetch, gen_cond>>
  BY <1>3, <1>4
<1>5. ASSUME NEW dc \in DcAnswers, FetchResume(dc)
      PROVE  cond_branches' + InCond(win', pending_fetch') = gen_cond'
  <2>1. /\ pending_fetch # Bubble /\ pending_fetch' = Bubble /\ gen_cond' = gen_cond
        /\ Redirect(gen_at(pending_fetch))
    BY <1>5 DEF FetchResume, genVars
  <2>2. Sane(gen_at(pending_fetch))
    <3>1. RingSlot(pending_fetch) \in 0..WinCap-1
      BY <1>3, <2>1, WinCapAssumption DEF TypeOK, Latch, Bubble, RingSlot
    <3>. QED  BY <3>1 DEF RingSane, gen_at
  <2>3. cond_branches' = cond_branches + Ind(gen_at(pending_fetch).is_conditional)
    BY <1>3, <2>1, <2>2, RedirectCounts
  <2>4. cp = Ind(gen_at(pending_fetch).is_conditional)
    BY <2>1 DEF InCond, gen_at, Ind
  <2>5. InCond(win', pending_fetch') = 0
    BY <2>1, InMemFacts
  <2>. HIDE DEF cp
  <2>. QED  BY <1>3, <2>1, <2>3, <2>4, <2>5
<1>6. ASSUME NEW dc \in DcAnswers, NEW s \in CpuSteps,
             Fetch(dc, s) \/ FetchMiss(dc, s)
      PROVE  cond_branches' + InCond(win', pending_fetch') = gen_cond'
  <2>. DEFINE n == Ind(s.info.is_conditional)
  <2>1. /\ gen_one(s) /\ pending_fetch = Bubble /\ gen_cond' = gen_cond + n
    BY <1>6 DEF Fetch, FetchMiss, MayGenerate, gen_one, Ind
  <2>2. Sane(s.info) /\ n \in 0..1
    BY StepsAreSane DEF Ind
  <2>3. cp = 0
    BY <2>1, InMemFacts
  <2>4. CASE Fetch(dc, s)
    <3>1. Redirect(s.info) /\ pending_fetch' = Bubble
      BY <2>1, <2>4 DEF Fetch
    <3>2. cond_branches' = cond_branches + n
      BY <1>3, <2>2, <3>1, RedirectCounts
    <3>3. InCond(win', pending_fetch') = 0
      BY <3>1, InMemFacts
    <3>. HIDE DEF n, cp
    <3>. QED  BY <1>3, <2>1, <2>2, <2>3, <3>2, <3>3
  <2>5. CASE FetchMiss(dc, s)
    <3>1. cond_branches' = cond_branches /\ pending_fetch' = count
      BY <2>5 DEF FetchMiss, redirectVars
    <3>2. InCond(win', count) = n
      <4>1. win'[RingSlot(count)].d = s.info /\ count # Bubble
        BY <1>3, <2>1, LatchWritten DEF TypeOK, Bubble
      <4>. QED  BY <4>1 DEF InCond, Ind
    <3>. HIDE DEF n, cp
    <3>. QED  BY <1>3, <2>1, <2>2, <2>3, <3>1, <3>2
  <2>. QED  BY <1>6, <2>4, <2>5
<1>. QED
  BY <1>4, <1>5, <1>6
  DEF Next, Iterate, FrontEnd, Returned, Hold, DataStall, ControlBubble,
      FetchWait, Drain, MemoryFault, vars, genVars, redirectVars

\* An instruction that stalls, holds or comes back from an I-cache miss is
\* presented once to the D-cache and once to the predictor.
THEOREM PresentedOnce == Spec => []OncePerInstruction
<1>. DEFINE I == FlowInv /\ RingSane /\ DcBalance /\ CondBalance
<1>1. Init => I
  <2>1. ASSUME Init PROVE DcBalance /\ CondBalance
    BY <2>1, InMemFacts DEF Init, DcBalance, CondBalance
  <2>. QED  BY <2>1, FlowInit, SaneInit
<1>2. I /\ [Next]_vars => I'
  BY FlowStep, SaneStep, DcBalanceStep, CondBalanceStep DEF FlowInv
<1>3. I => OncePerInstruction
  BY DEF DcBalance, CondBalance, InMem, InCond, OncePerInstruction, MemOp, CondOp, gen_at
<1>. QED  BY <1>1, <1>2, <1>3, PTL DEF Spec

-----------------------------------------------------------------------------
(* What the misses cost *)

\* The cycles still owed to a miss count as soon as the miss is known.
Outstanding == mem_stalls + mem_stall + AtLeast(0, fetch_stall)

\* What the misses counted so far cost, at the latencies they really have.
Bill ==
    IF cfg.l2
    THEN (l2_accesses - l2_misses) * cfg.l2_hit + l2_misses * cfg.l2_miss
    ELSE dc_misses * cfg.dc_miss + ic_misses * AtLeast(1, cfg.ic_miss)

\* The same at the L1 penalties, which the safety net is computed from.
L1Bill == dc_misses * cfg.dc_miss + ic_misses * AtLeast(1, cfg.ic_miss)

\* A hit or no access; what MEM is answered; what a miss charges.
NoMiss(a) == a.miss = 0 /\ a.l2acc = 0 /\ a.l2miss = 0
DcOf(dc) == NoMiss(dc) \/ MissOf(cfg.dc_miss, dc)
Charge(a) == IF a.miss = 1 THEN a.pen ELSE 0

\* What a step does to the caches: an instruction entering MEM may miss, and
\* one being fetched may, but the second only where nothing else is fetched.
NoFetchMiss(ic) ==
    NoMiss(ic) /\ ic_misses' = ic_misses

\* A fetch that missed in this cycle.
NewFetchMiss(ic) ==
    MissOf(cfg.ic_miss, ic) /\ ic_misses' = ic_misses + 1

\* The answers of the caches.
LEMMA AnswerFields ==
    /\ \A dc \in DcAnswers : DcOf(dc)
    /\ \A ic \in IcHits : NoMiss(ic)
    /\ \A ic \in IcMisses : MissOf(cfg.ic_miss, ic)
    /\ NoMiss(NoAccess)
<1>1. NoMiss(NoAccess) /\ NoMiss(CacheHit)
  BY HitFields DEF NoMiss
<1>2. \A dc \in DcAnswers : DcOf(dc)
  BY <1>1, MissFields DEF DcAnswers, DcOf
<1>3. \A ic \in IcHits : NoMiss(ic)
  BY <1>1 DEF IcHits
<1>4. \A ic \in IcMisses : MissOf(cfg.ic_miss, ic)
  BY MissFields DEF IcMisses
<1>. QED  BY <1>1, <1>2, <1>3, <1>4

\* The configured latencies are numbers.
LEMMA CfgNat ==
    ASSUME TypeOK
    PROVE  /\ cfg.ic_miss \in Nat /\ cfg.dc_miss \in Nat
           /\ cfg.l2_hit \in Nat /\ cfg.l2_miss \in Nat /\ cfg.l2 \in BOOLEAN
           /\ AtLeast(1, cfg.ic_miss) \in Nat
  BY DEF TypeOK, PipeConfig, AtLeast

\* One more at the same price.
LEMMA TimesNext ==
    ASSUME NEW n \in Int, NEW c \in Int
    PROVE  n * c \in Int /\ (n + 0) * c = n * c /\ (n + 1) * c = n * c + c
  OBVIOUS

\* A D-cache miss adds its penalty to both bills; with an L2 that is no slower
\* than the L1 penalties, no more than that to the second.
LEMMA BillHit ==
    ASSUME TypeOK, NEW dc, DcOf(dc), NEW ic, NoFetchMiss(ic), BackEnd(dc, ic),
           UNCHANGED cfg
    PROVE  /\ Bill' = Bill + Charge(dc) /\ Charge(dc) \in Nat
           /\ L1Bill' = L1Bill + (IF dc.miss = 1 THEN cfg.dc_miss ELSE 0)
<1>1. /\ dc_misses' = dc_misses + dc.miss /\ ic_misses' = ic_misses
      /\ l2_accesses' = l2_accesses + dc.l2acc + 0
      /\ l2_misses' = l2_misses + dc.l2miss + 0
  BY DEF BackEnd, NoFetchMiss, NoMiss
<1>2. /\ dc_misses \in Nat /\ ic_misses \in Nat
      /\ l2_accesses \in Nat /\ l2_misses \in Nat
  BY DEF TypeOK
<1>. DEFINE d == cfg.dc_miss
            i == AtLeast(1, cfg.ic_miss)
            h == cfg.l2_hit
            m == cfg.l2_miss
            x == l2_accesses - l2_misses
<1>3. d \in Nat /\ i \in Nat /\ h \in Nat /\ m \in Nat /\ cfg.l2 \in BOOLEAN
  BY CfgNat
<1>4. /\ Bill = IF cfg.l2 THEN x * h + l2_misses * m ELSE dc_misses * d + ic_misses * i
      /\ Bill' = IF cfg.l2 THEN (l2_accesses' - l2_misses') * h + l2_misses' * m
                 ELSE dc_misses' * d + ic_misses' * i
      /\ L1Bill = dc_misses * d + ic_misses * i
      /\ L1Bill' = dc_misses' * d + ic_misses' * i
  BY DEF Bill, L1Bill, AtLeast
<1>5. x \in Int
  BY <1>2
<1>. HIDE DEF d, i, h, m, x
<1>6. /\ dc_misses * d \in Int /\ ic_misses * i \in Int /\ x * h \in Int
      /\ l2_misses * m \in Int
      /\ (dc_misses + 1) * d = dc_misses * d + d
      /\ (x + 1) * h = x * h + h
      /\ (l2_misses + 1) * m = l2_misses * m + m
  <2>1. /\ dc_misses * d \in Int /\ (dc_misses + 1) * d = dc_misses * d + d
    BY <1>2, <1>3, TimesNext
  <2>2. /\ x * h \in Int /\ (x + 1) * h = x * h + h
    BY <1>3, <1>5, TimesNext
  <2>3. /\ l2_misses * m \in Int /\ (l2_misses + 1) * m = l2_misses * m + m
    BY <1>2, <1>3, TimesNext
  <2>4. ic_misses * i \in Int
    BY <1>2, <1>3, TimesNext
  <2>. QED  BY <2>1, <2>2, <2>3, <2>4
<1>7. CASE NoMiss(dc)
  <2>1. dc.miss = 0 /\ dc.l2acc = 0 /\ dc.l2miss = 0 /\ Charge(dc) = 0
    BY <1>7 DEF NoMiss, Charge
  <2>2. /\ dc_misses' = dc_misses /\ l2_accesses' = l2_accesses
        /\ l2_misses' = l2_misses
    BY <1>1, <1>2, <2>1
  <2>3. Bill' = Bill /\ L1Bill' = L1Bill /\ Bill \in Int /\ L1Bill \in Int
    BY <1>1, <1>4, <1>6, <2>2 DEF x
  <2>. QED  BY <2>1, <2>3
<1>8. CASE MissOf(cfg.dc_miss, dc)
  <2>1. dc.miss = 1 /\ Charge(dc) = dc.pen /\ dc_misses' = dc_misses + 1
    BY <1>1, <1>8 DEF MissOf, Charge
  <2>2. CASE ~cfg.l2
    <3>1. dc.pen = d
      BY <1>8, <2>2 DEF MissOf, d
    <3>. QED  BY <1>1, <1>3, <1>4, <1>6, <2>1, <2>2, <3>1 DEF d
  <2>3. CASE cfg.l2
    <3>1. /\ dc.l2acc = 1
          /\ \/ dc.l2miss = 0 /\ dc.pen = h
             \/ dc.l2miss = 1 /\ dc.pen = m
      BY <1>8, <2>3 DEF MissOf, h, m
    <3>2. \/ /\ dc.pen = h /\ l2_misses' = l2_misses
             /\ l2_accesses' - l2_misses' = x + 1
          \/ /\ dc.pen = m /\ l2_misses' = l2_misses + 1
             /\ l2_accesses' - l2_misses' = x
      BY <1>1, <1>2, <3>1 DEF x
    <3>3. Bill' = Bill + dc.pen /\ dc.pen \in Nat
      BY <1>3, <1>4, <1>6, <2>3, <3>2
    <3>4. L1Bill' = L1Bill + d
      BY <1>1, <1>3, <1>4, <1>6, <2>1
    <3>. QED  BY <2>1, <3>3, <3>4 DEF d
  <2>. QED  BY <1>3, <2>2, <2>3
<1>. QED  BY <1>7, <1>8 DEF DcOf

\* Prices add up.
LEMMA TimesSum ==
    ASSUME NEW n \in Int, NEW u \in Int, NEW v \in Int, NEW c \in Int
    PROVE  (n + u + v) * c = n * c + u * c + v * c
  OBVIOUS

\* What an answer costs, as a number of L2 hits and L2 misses.
LEMMA L2Share ==
    ASSUME TypeOK, cfg.l2, NEW a, NEW pen, NoMiss(a) \/ MissOf(pen, a)
    PROVE  /\ a.l2acc - a.l2miss \in Int /\ a.l2miss \in Int
           /\ a.l2acc \in Int
           /\ (a.l2acc - a.l2miss) * cfg.l2_hit + a.l2miss * cfg.l2_miss = Charge(a)
<1>1. cfg.l2_hit \in Nat /\ cfg.l2_miss \in Nat
  BY CfgNat
<1>2. CASE NoMiss(a)
  <2>1. a.l2acc = 0 /\ a.l2miss = 0 /\ Charge(a) = 0
    BY <1>2 DEF NoMiss, Charge
  <2>. QED  BY <1>1, <2>1
<1>3. CASE MissOf(pen, a)
  <2>1. /\ a.l2acc = 1 /\ Charge(a) = a.pen
        /\ \/ a.l2miss = 0 /\ a.pen = cfg.l2_hit
           \/ a.l2miss = 1 /\ a.pen = cfg.l2_miss
    BY <1>3 DEF MissOf, Charge
  <2>. QED  BY <1>1, <2>1
<1>. QED  BY <1>2, <1>3

\* An I-cache miss adds its own, at least the cycle that discovers it.
LEMMA BillMiss ==
    ASSUME TypeOK, NEW dc, DcOf(dc), NEW ic, NewFetchMiss(ic), BackEnd(dc, ic),
           UNCHANGED cfg
    PROVE  /\ Bill' = Bill + Charge(dc) +
                        (IF cfg.l2 THEN ic.pen ELSE AtLeast(1, ic.pen))
           /\ Charge(dc) \in Nat /\ ic.pen \in Nat
           /\ L1Bill' = L1Bill + (IF dc.miss = 1 THEN cfg.dc_miss ELSE 0)
                               + AtLeast(1, cfg.ic_miss)
<1>. DEFINE d == cfg.dc_miss
            i == AtLeast(1, cfg.ic_miss)
            h == cfg.l2_hit
            m == cfg.l2_miss
            x == l2_accesses - l2_misses
<1>1. /\ dc_misses' = dc_misses + dc.miss /\ ic_misses' = ic_misses + 1
      /\ l2_accesses' = l2_accesses + dc.l2acc + ic.l2acc
      /\ l2_misses' = l2_misses + dc.l2miss + ic.l2miss
  BY DEF BackEnd, NewFetchMiss
<1>2. /\ dc_misses \in Nat /\ ic_misses \in Nat
      /\ l2_accesses \in Nat /\ l2_misses \in Nat /\ x \in Int
  BY DEF TypeOK
<1>3. d \in Nat /\ i \in Nat /\ h \in Nat /\ m \in Nat /\ cfg.l2 \in BOOLEAN
  BY CfgNat
<1>4. /\ Bill = IF cfg.l2 THEN x * h + l2_misses * m ELSE L1Bill
      /\ Bill' = IF cfg.l2 THEN (l2_accesses' - l2_misses') * h + l2_misses' * m
                 ELSE L1Bill'
      /\ L1Bill = dc_misses * d + ic_misses * i
      /\ L1Bill' = dc_misses' * d + ic_misses' * i
  BY DEF Bill, L1Bill, AtLeast
<1>5. /\ ic.miss = 1 /\ (~cfg.l2 => ic.pen = cfg.ic_miss) /\ Charge(ic) = ic.pen
      /\ (cfg.l2 => ic.pen \in {h, m})
  BY DEF NewFetchMiss, MissOf, Charge
<1>6. ic.pen \in Nat
  BY <1>3, <1>5, CfgNat
<1>7. /\ dc.miss \in 0..1 /\ Charge(dc) \in Nat
      /\ ~cfg.l2 => Charge(dc) = IF dc.miss = 1 THEN d ELSE 0
  <2>1. CASE NoMiss(dc)
    BY <2>1 DEF NoMiss, Charge
  <2>2. CASE MissOf(cfg.dc_miss, dc)
    BY <1>3, <2>2 DEF MissOf, Charge
  <2>. QED  BY <2>1, <2>2 DEF DcOf
<1>. HIDE DEF d, i, h, m, x
<1>8. L1Bill' = L1Bill + (IF dc.miss = 1 THEN d ELSE 0) + i
  <2>1. /\ dc_misses * d \in Int /\ (dc_misses + 1) * d = dc_misses * d + d
    BY <1>2, <1>3, TimesNext
  <2>2. /\ ic_misses * i \in Int /\ (ic_misses + 1) * i = ic_misses * i + i
    BY <1>2, <1>3, TimesNext
  <2>3. dc_misses' * d = dc_misses * d + (IF dc.miss = 1 THEN d ELSE 0)
    BY <1>1, <1>2, <1>3, <1>7, <2>1
  <2>. QED  BY <1>1, <1>3, <1>4, <2>1, <2>2, <2>3
<1>9. CASE ~cfg.l2
  <2>1. AtLeast(1, ic.pen) = i
    BY <1>5, <1>9 DEF i
  <2>. QED  BY <1>4, <1>6, <1>7, <1>8, <1>9, <2>1 DEF d, i
<1>10. CASE cfg.l2
  <2>. DEFINE u == dc.l2acc - dc.l2miss
              v == ic.l2acc - ic.l2miss
              p == dc.l2miss
              q == ic.l2miss
  <2>1. /\ u \in Int /\ p \in Int /\ dc.l2acc \in Int /\ u * h + p * m = Charge(dc)
    BY <1>10, L2Share DEF DcOf, h, m
  <2>2. /\ v \in Int /\ q \in Int /\ ic.l2acc \in Int /\ v * h + q * m = Charge(ic)
    BY <1>10, L2Share DEF NewFetchMiss, h, m
  <2>3. l2_accesses' - l2_misses' = x + u + v
    BY <1>1, <1>2, <2>1, <2>2 DEF x
  <2>. HIDE DEF u, v
  <2>4. (x + u + v) * h = x * h + u * h + v * h
    BY <1>2, <1>3, <2>1, <2>2, TimesSum
  <2>. HIDE DEF p, q
  <2>5. (l2_misses + p + q) * m = l2_misses * m + p * m + q * m
    BY <1>2, <1>3, <2>1, <2>2, TimesSum
  <2>6. /\ x * h \in Int /\ u * h \in Int /\ v * h \in Int
        /\ l2_misses * m \in Int /\ p * m \in Int /\ q * m \in Int
    BY <1>2, <1>3, <2>1, <2>2, TimesNext
  <2>7. l2_misses' * m = l2_misses * m + p * m + q * m
    BY <1>1, <2>5 DEF p, q
  <2>8. Bill' = Bill + Charge(dc) + ic.pen
    BY <1>4, <1>5, <1>10, <2>1, <2>2, <2>3, <2>4, <2>6, <2>7
  <2>. QED  BY <1>6, <1>7, <1>8, <1>10, <2>8 DEF d, i
<1>. QED  BY <1>3, <1>9, <1>10

\* The L2 is no slower than the L1 penalties.
NearL2 ==
    cfg.l2 => \A lat \in {cfg.l2_hit, cfg.l2_miss} :
                  lat <= cfg.ic_miss /\ lat <= cfg.dc_miss

\* Then what is paid and owed is within the L1 penalties.
MissBound == NearL2 => Outstanding <= L1Bill

\* The two statements about misses, in terms of what is outstanding.
MissInv ==
    /\ (cfg.l2 => cfg.l2_hit >= 1 /\ cfg.l2_miss >= 1) => Outstanding = Bill
    /\ MissBound

\* A step owes what the misses it discovers cost.
LEMMA OwesHit ==
    ASSUME TypeOK, MissInv, NEW dc \in DcAnswers, NEW ic, NoFetchMiss(ic),
           BackEnd(dc, ic), UNCHANGED cfg,
           mem_stalls' + AtLeast(0, fetch_stall') = mem_stalls + AtLeast(0, fetch_stall),
           mem_stalls' \in Nat, fetch_stall' \in Int
    PROVE  MissInv'
<1>1. DcOf(dc)
  BY AnswerFields
<1>2. /\ Bill' = Bill + Charge(dc) /\ Charge(dc) \in Nat
      /\ L1Bill' = L1Bill + (IF dc.miss = 1 THEN cfg.dc_miss ELSE 0)
  BY <1>1, BillHit
<1>3. /\ mem_stall = 0 /\ mem_stall' = Charge(dc)
  BY DEF TypeOK, BackEnd, Charge
<1>4. /\ mem_stalls \in Nat /\ AtLeast(0, fetch_stall) \in Nat
      /\ AtLeast(0, fetch_stall') \in Nat
  BY DEF TypeOK, AtLeast
<1>5. Outstanding' = Outstanding + Charge(dc) /\ Outstanding \in Nat
  <2>1. Outstanding' = mem_stalls' + mem_stall' + AtLeast(0, fetch_stall')
    BY DEF Outstanding, AtLeast
  <2>. QED  BY <1>2, <1>3, <1>4, <2>1 DEF Outstanding
<1>6. NearL2 => Charge(dc) <= (IF dc.miss = 1 THEN cfg.dc_miss ELSE 0)
  <2>1. CASE NoMiss(dc)
    BY <2>1 DEF NoMiss, Charge
  <2>2. CASE MissOf(cfg.dc_miss, dc)
    BY <2>2, CfgNat DEF MissOf, Charge, NearL2
  <2>. QED  BY <1>1, <2>1, <2>2 DEF DcOf
<1>7. L1Bill \in Int /\ (IF dc.miss = 1 THEN cfg.dc_miss ELSE 0) \in Nat
  BY CfgNat DEF L1Bill, TypeOK
<1>8. NearL2' <=> NearL2
  BY DEF NearL2
<1>. QED  BY <1>2, <1>5, <1>6, <1>7, <1>8 DEF MissInv, MissBound

\* A fetch miss owes its penalty, less the cycle that found it.
LEMMA OwesMiss ==
    ASSUME TypeOK, MissInv, NEW dc \in DcAnswers, NEW ic, NewFetchMiss(ic),
           BackEnd(dc, ic), UNCHANGED cfg, fetch_stall <= 0,
           mem_stalls' = mem_stalls + 1, fetch_stall' = ic.pen - 1
    PROVE  MissInv'
<1>1. DcOf(dc)
  BY AnswerFields
<1>2. /\ Bill' = Bill + Charge(dc) + (IF cfg.l2 THEN ic.pen ELSE AtLeast(1, ic.pen))
      /\ Charge(dc) \in Nat /\ ic.pen \in Nat
      /\ L1Bill' = L1Bill + (IF dc.miss = 1 THEN cfg.dc_miss ELSE 0)
                          + AtLeast(1, cfg.ic_miss)
  BY <1>1, BillMiss
<1>3. /\ mem_stall = 0 /\ mem_stall' = Charge(dc)
  BY DEF TypeOK, BackEnd, Charge
<1>4. /\ mem_stalls \in Nat /\ AtLeast(0, fetch_stall) = 0
      /\ mem_stalls' + AtLeast(0, fetch_stall') = mem_stalls + AtLeast(1, ic.pen)
      /\ AtLeast(0, fetch_stall') \in Nat /\ AtLeast(1, ic.pen) \in Nat
  BY <1>2 DEF TypeOK, AtLeast
<1>5. /\ Outstanding' = Outstanding + Charge(dc) + AtLeast(1, ic.pen)
      /\ Outstanding \in Nat
  <2>1. Outstanding' = mem_stalls' + mem_stall' + AtLeast(0, fetch_stall')
    BY DEF Outstanding, AtLeast
  <2>2. mem_stalls' \in Nat
    BY <1>4
  <2>. QED  BY <1>2, <1>3, <1>4, <2>1, <2>2 DEF Outstanding
<1>6. NearL2 => Charge(dc) <= (IF dc.miss = 1 THEN cfg.dc_miss ELSE 0)
  <2>1. CASE NoMiss(dc)
    BY <2>1 DEF NoMiss, Charge
  <2>2. CASE MissOf(cfg.dc_miss, dc)
    BY <2>2, CfgNat DEF MissOf, Charge, NearL2
  <2>. QED  BY <1>1, <2>1, <2>2 DEF DcOf
<1>7. NearL2 => AtLeast(1, ic.pen) <= AtLeast(1, cfg.ic_miss)
  <2>1. NearL2 => ic.pen <= cfg.ic_miss
    BY CfgNat DEF NearL2, NewFetchMiss, MissOf
  <2>. QED  BY <1>2, <2>1, CfgNat DEF AtLeast
<1>8. /\ L1Bill \in Int /\ (IF dc.miss = 1 THEN cfg.dc_miss ELSE 0) \in Nat
      /\ AtLeast(1, cfg.ic_miss) \in Nat
  BY CfgNat DEF L1Bill, TypeOK
<1>9. NearL2' <=> NearL2
  BY DEF NearL2
<1>10. MissBound'
  BY <1>2, <1>4, <1>5, <1>6, <1>7, <1>8, <1>9 DEF MissInv, MissBound
<1>11. (cfg.l2 => cfg.l2_hit >= 1 /\ cfg.l2_miss >= 1)
          => AtLeast(1, ic.pen) = IF cfg.l2 THEN ic.pen ELSE AtLeast(1, ic.pen)
  BY <1>2, CfgNat DEF AtLeast, NewFetchMiss, MissOf
<1>12. (cfg.l2 => cfg.l2_hit >= 1 /\ cfg.l2_miss >= 1) => Outstanding' = Bill'
  BY <1>2, <1>4, <1>5, <1>11 DEF MissInv
<1>. QED  BY <1>10, <1>12 DEF MissInv

\* Every cycle pays one or adds to the bill.
LEMMA MissStep ==
    ASSUME TypeOK, MissInv, [Next]_vars
    PROVE  MissInv'
<1>1. TypeOK'
  BY TypeStep
<1>2. /\ mem_stalls \in Nat /\ mem_stall \in Nat /\ fetch_stall \in Nat \cup {-1}
      /\ mem_stalls' \in Nat /\ mem_stall' \in Nat /\ fetch_stall' \in Nat \cup {-1}
  BY <1>1 DEF TypeOK
<1>3. UNCHANGED cfg
  BY DEF Next, Iterate, FrontEnd, Returned, Hold, DataStall, ControlBubble,
      FetchWait, FetchResume, Fetch, FetchMiss, Drain, MemoryFault, vars, Tick
<1>4. CASE UNCHANGED <<mem_stalls, mem_stall, fetch_stall, dc_misses, ic_misses,
                       l2_accesses, l2_misses>>
  BY <1>3, <1>4 DEF MissInv, MissBound, NearL2, Outstanding, Bill, L1Bill, AtLeast
<1>5. CASE Hold
  <2>1. UNCHANGED <<dc_misses, ic_misses, l2_accesses, l2_misses, fetch_stall>>
    BY <1>5 DEF Hold, icVars
  <2>2. Outstanding' = Outstanding
    BY <1>2, <1>5, <2>1 DEF Hold, Outstanding, AtLeast
  <2>. QED
    BY <1>3, <2>1, <2>2 DEF MissInv, MissBound, NearL2, Bill, L1Bill, AtLeast
<1>6. ASSUME NEW dc \in DcAnswers,
             \/ DataStall(dc) \/ ControlBubble(dc)
             \/ FetchResume(dc) \/ Drain(dc)
      PROVE  MissInv'
  <2>1. BackEnd(dc, NoAccess) /\ UNCHANGED <<ic_misses, mem_stalls, fetch_stall>>
    BY <1>6 DEF DataStall, ControlBubble, FetchResume, Drain, icVars
  <2>2. NoFetchMiss(NoAccess)
    BY <2>1, AnswerFields DEF NoFetchMiss
  <2>. QED  BY <1>2, <1>3, <2>1, <2>2, OwesHit
<1>7. ASSUME NEW dc \in DcAnswers, FetchWait(dc) PROVE MissInv'
  <2>1. /\ BackEnd(dc, NoAccess) /\ UNCHANGED ic_misses
        /\ fetch_stall > 0 /\ fetch_stall' = fetch_stall - 1
        /\ mem_stalls' = mem_stalls + 1
    BY <1>7 DEF FetchWait, icVars
  <2>2. NoFetchMiss(NoAccess)
    BY <2>1, AnswerFields DEF NoFetchMiss
  <2>3. mem_stalls' + AtLeast(0, fetch_stall') = mem_stalls + AtLeast(0, fetch_stall)
    BY <1>2, <2>1 DEF AtLeast
  <2>. QED  BY <1>2, <1>3, <2>1, <2>2, <2>3, OwesHit
<1>8. ASSUME NEW dc \in DcAnswers, NEW s \in CpuSteps, Fetch(dc, s) PROVE MissInv'
  <2>1. PICK ic \in IcHits : BackEnd(dc, ic)
    BY <1>8 DEF Fetch
  <2>2. UNCHANGED <<ic_misses, mem_stalls, fetch_stall>>
    BY <1>8 DEF Fetch
  <2>3. NoFetchMiss(ic)
    BY <2>2, AnswerFields DEF NoFetchMiss
  <2>. QED  BY <1>2, <1>3, <2>1, <2>2, <2>3, OwesHit
<1>9. ASSUME NEW dc \in DcAnswers, NEW s \in CpuSteps, FetchMiss(dc, s)
      PROVE  MissInv'
  <2>1. PICK ic \in IcMisses : BackEnd(dc, ic) /\ fetch_stall' = ic.pen - 1
    BY <1>9 DEF FetchMiss
  <2>2. /\ ic_misses' = ic_misses + 1 /\ mem_stalls' = mem_stalls + 1
        /\ fetch_stall <= 0
    BY <1>9 DEF FetchMiss, MayGenerate
  <2>3. NewFetchMiss(ic)
    BY <2>2, AnswerFields DEF NewFetchMiss
  <2>. QED  BY <1>3, <2>1, <2>2, <2>3, OwesMiss
<1>. QED
  BY <1>4, <1>5, <1>6, <1>7, <1>8, <1>9
  DEF Next, Iterate, FrontEnd, Returned, MemoryFault, vars, icVars

\* Nothing is owed at the start.
LEMMA MissInit == ASSUME Init PROVE MissInv
<1>1. TypeOK
  BY InitType
<1>2. Outstanding = 0
  BY DEF Init, Outstanding, AtLeast
<1>3. Bill = 0 /\ L1Bill = 0
  BY <1>1, CfgNat DEF Init, Bill, L1Bill
<1>. QED  BY <1>2, <1>3 DEF MissInv, MissBound

\* No cycle of a miss is lost or charged twice, whatever holds, waits, stalls
\* and bubbles overlap, for all latencies.
THEOREM MissesPaid == Spec => []MissAccounting
<1>. DEFINE I == TypeOK /\ MissInv
<1>1. Init => I
  BY InitType, MissInit
<1>2. I /\ [Next]_vars => I'
  BY TypeStep, MissStep
<1>3. I => MissAccounting
  BY DEF MissInv, MissAccounting, Outstanding, Bill
<1>. QED  BY <1>1, <1>2, <1>3, PTL DEF Spec

-----------------------------------------------------------------------------
(* The cycles of a run *)

\* Iterations that only drained: all the others fetched or counted a stall.
Drains ==
    cycles + Occ(pending_fetch) - count - data_stalls - control_stalls - mem_stalls

\* How many cycles the youngest instruction is from leaving the pipe.
Dist ==
    IF sIF # Bubble THEN 4 ELSE IF sID # Bubble THEN 3
    ELSE IF sEX # Bubble THEN 2 ELSE Occ(sMEM)

\* Fetch waits only for a pending instruction.
FetchIdle == fetch_stall > 0 => pending_fetch # Bubble

\* The loop ends when everything produced has retired, and not later.
EndInv ==
    /\ done => count >= 1
    /\ status = "finished" => done /\ retired >= count
    /\ done /\ retired >= count => status # "running"

\* The pipe drains once the last instruction is in it, one cycle per stage; a
\* redirect the last instruction pays for may do part of the draining.
DrainInv ==
    /\ ~done \/ pending_fetch # Bubble => Drains = 0
    /\ done /\ pending_fetch = Bubble =>
         /\ Drains >= 0 /\ Drains + Dist <= 4
         /\ ~gen_at(count - 1).is_control => Drains + Dist = 4 /\ ctrl_pending = 0

\* FetchIdle is kept by every step.
LEMMA IdleStep == ASSUME TypeOK, FetchIdle, [Next]_vars PROVE FetchIdle'
<1>1. CASE UNCHANGED <<fetch_stall, pending_fetch>>
  BY <1>1 DEF FetchIdle
<1>2. ASSUME NEW dc, FetchWait(dc) PROVE FetchIdle'
  BY <1>2 DEF FetchWait, FetchIdle
<1>3. ASSUME NEW dc, FetchResume(dc) PROVE FetchIdle'
  <2>1. fetch_stall' = fetch_stall /\ fetch_stall <= 0
    BY <1>3 DEF FetchResume
  <2>2. fetch_stall \in Int
    BY DEF TypeOK
  <2>. QED  BY <2>1, <2>2 DEF FetchIdle
<1>4. ASSUME NEW dc, NEW s, FetchMiss(dc, s) PROVE FetchIdle'
  BY <1>4 DEF FetchMiss, FetchIdle, TypeOK, Bubble
<1>. QED
  BY <1>1, <1>2, <1>3, <1>4
  DEF Next, Iterate, FrontEnd, Returned, Hold, DataStall, ControlBubble, Fetch,
      Drain, MemoryFault, vars

\* EndInv is kept by every step.
LEMMA EndStep == ASSUME TypeOK, EndInv, [Next]_vars PROVE EndInv'
<1>1. CASE UNCHANGED <<done, count, status, retired>>
  BY <1>1 DEF EndInv
<1>2. CASE MemoryFault
  BY <1>2 DEF MemoryFault, EndInv, genVars
<1>3. CASE Iterate
  <2>1. Tick
    BY <1>3 DEF Iterate, FrontEnd, Hold, DataStall, ControlBubble, FetchWait,
        FetchResume, Fetch, FetchMiss, Drain
  <2>2. \/ UNCHANGED <<done, count>>
        \/ count' = count + 1
    BY <1>3 DEF Iterate, FrontEnd, Hold, DataStall, ControlBubble, FetchWait,
        FetchResume, Fetch, FetchMiss, Drain, genVars, gen_one
  <2>3. done' => count' >= 1
    <3>1. count \in Nat
      BY DEF TypeOK
    <3>2. CASE count' = count + 1
      BY <3>1, <3>2
    <3>3. CASE UNCHANGED <<done, count>>
      BY <3>3 DEF EndInv
    <3>. QED  BY <2>2, <3>2, <3>3
  <2>4. /\ status' = "finished" => done' /\ retired' >= count'
        /\ done' /\ retired' >= count' => status' # "running"
    BY <2>1 DEF Tick
  <2>. QED  BY <2>3, <2>4 DEF EndInv
<1>. QED  BY <1>1, <1>2, <1>3 DEF Next, Returned, vars, genVars

\* Only Drain drains.
LEMMA DrainsStep ==
    ASSUME TypeOK, TypeOK', [Next]_vars
    PROVE  /\ Drains \in Int /\ Drains' \in Int
           /\ \/ Drains' = Drains
              \/ Drains' = Drains + 1 /\ \E dc \in DcAnswers : Drain(dc)
           /\ \A dc \in DcAnswers : Drain(dc) => Drains' = Drains + 1
<1>. DEFINE o == Occ(pending_fetch)
            p == Occ(pending_fetch')
<1>1. /\ cycles \in Nat /\ count \in Nat /\ data_stalls \in Nat
      /\ control_stalls \in Nat /\ mem_stalls \in Nat /\ o \in 0..1 /\ p \in 0..1
      /\ cycles' \in Nat /\ count' \in Nat /\ data_stalls' \in Nat
      /\ control_stalls' \in Nat /\ mem_stalls' \in Nat
  BY DEF TypeOK, Occ
<1>2. /\ Drains = cycles + o - count - data_stalls - control_stalls - mem_stalls
      /\ Drains' = cycles' + p - count' - data_stalls' - control_stalls' - mem_stalls'
  BY DEF Drains, Occ
<1>3. CASE UNCHANGED <<cycles, pending_fetch, count, data_stalls, control_stalls,
                       mem_stalls>>
  BY <1>1, <1>2, <1>3 DEF Drain, Tick
<1>4. pending_fetch' = pending_fetch => p = o
  BY DEF Occ
<1>5. (pending_fetch = Bubble => o = 0) /\ (pending_fetch # Bubble => o = 1)
      /\ (pending_fetch' = Bubble => p = 0) /\ (pending_fetch' # Bubble => p = 1)
  BY DEF Occ
<1>. HIDE DEF o, p
<1>6. CASE Hold
  <2>1. /\ cycles' = cycles + 1 /\ mem_stalls' = mem_stalls + 1
        /\ UNCHANGED <<count, data_stalls, control_stalls, pending_fetch>>
        /\ mem_stall > 0
    BY <1>6 DEF Hold, Tick, genVars, redirectVars
  <2>2. \A dc : ~Drain(dc)
    BY <2>1 DEF Drain, BackEnd, TypeOK
  <2>. QED  BY <1>1, <1>2, <1>4, <2>1, <2>2
<1>7. ASSUME NEW dc \in DcAnswers, DataStall(dc)
      PROVE  Drains' = Drains /\ \A dd \in DcAnswers : ~Drain(dd)
  <2>1. /\ cycles' = cycles + 1 /\ data_stalls' = data_stalls + 1
        /\ UNCHANGED <<count, mem_stalls, control_stalls, pending_fetch>>
        /\ needs_stall
    BY <1>7 DEF DataStall, Tick, genVars, redirectVars
  <2>2. \A dd : ~Drain(dd)
    BY <2>1 DEF Drain, Advance
  <2>. QED  BY <1>1, <1>2, <1>4, <2>1, <2>2
<1>8. ASSUME NEW dc \in DcAnswers, ControlBubble(dc)
      PROVE  Drains' = Drains /\ \A dd \in DcAnswers : ~Drain(dd)
  <2>1. /\ cycles' = cycles + 1 /\ control_stalls' = control_stalls + 1
        /\ UNCHANGED <<count, mem_stalls, data_stalls, pending_fetch>>
        /\ ctrl_pending > 0
    BY <1>8 DEF ControlBubble, Advance, Tick, genVars
  <2>2. \A dd : ~Drain(dd)
    BY <2>1 DEF Drain, MayGenerate, TypeOK
  <2>. QED  BY <1>1, <1>2, <1>4, <2>1, <2>2
<1>9. ASSUME NEW dc \in DcAnswers, FetchWait(dc)
      PROVE  Drains' = Drains /\ \A dd \in DcAnswers : ~Drain(dd)
  <2>1. /\ cycles' = cycles + 1 /\ mem_stalls' = mem_stalls + 1
        /\ UNCHANGED <<count, control_stalls, data_stalls, pending_fetch>>
        /\ fetch_stall > 0
    BY <1>9 DEF FetchWait, Advance, Tick, genVars, redirectVars
  <2>2. \A dd : ~Drain(dd)
    BY <2>1 DEF Drain, MayGenerate, TypeOK
  <2>. QED  BY <1>1, <1>2, <1>4, <2>1, <2>2
<1>10. ASSUME NEW d, Redirect(d) PROVE UNCHANGED control_stalls
  BY <1>10 DEF Redirect, redirectVars
<1>11. ASSUME NEW dc \in DcAnswers, FetchResume(dc)
       PROVE  Drains' = Drains /\ \A dd \in DcAnswers : ~Drain(dd)
  <2>1. /\ cycles' = cycles + 1 /\ pending_fetch # Bubble /\ pending_fetch' = Bubble
        /\ UNCHANGED <<count, control_stalls, data_stalls, mem_stalls>>
    BY <1>10, <1>11 DEF FetchResume, Advance, Tick, genVars
  <2>2. \A dd : ~Drain(dd)
    BY <2>1 DEF Drain, MayGenerate
  <2>. QED  BY <1>1, <1>2, <1>5, <2>1, <2>2
<1>12. ASSUME NEW dc \in DcAnswers, NEW s, Fetch(dc, s) \/ FetchMiss(dc, s)
       PROVE  Drains' = Drains /\ \A dd \in DcAnswers : ~Drain(dd)
  <2>1. /\ cycles' = cycles + 1 /\ count' = count + 1 /\ pending_fetch = Bubble
        /\ UNCHANGED <<control_stalls, data_stalls>> /\ ~done
        /\ \/ pending_fetch' = Bubble /\ mem_stalls' = mem_stalls
           \/ pending_fetch' = count /\ mem_stalls' = mem_stalls + 1
    BY <1>10, <1>12 DEF Fetch, FetchMiss, MayGenerate, Advance, Tick, gen_one, redirectVars
  <2>2. \A dd : ~Drain(dd)
    BY <2>1 DEF Drain
  <2>3. count # Bubble
    BY <1>1 DEF Bubble
  <2>4. CASE pending_fetch' = Bubble /\ mem_stalls' = mem_stalls
    BY <1>1, <1>2, <1>5, <2>1, <2>2, <2>4
  <2>5. CASE pending_fetch' = count /\ mem_stalls' = mem_stalls + 1
    <3>1. o = 0 /\ p = 1
      BY <1>5, <2>1, <2>3, <2>5
    <3>. QED  BY <1>1, <1>2, <2>1, <2>2, <2>5, <3>1
  <2>. QED  BY <2>1, <2>4, <2>5
<1>13. ASSUME NEW dc \in DcAnswers, Drain(dc) PROVE Drains' = Drains + 1
  <2>1. /\ cycles' = cycles + 1
        /\ UNCHANGED <<count, control_stalls, data_stalls, mem_stalls, pending_fetch>>
    BY <1>13 DEF Drain, Advance, Tick, genVars, redirectVars
  <2>. QED  BY <1>1, <1>2, <1>4, <2>1
<1>14. Drains \in Int /\ Drains' \in Int
  BY <1>1, <1>2
<1>. HIDE DEF Drains
<1>. QED
  BY <1>3, <1>6, <1>7, <1>8, <1>9, <1>11, <1>12, <1>13, <1>14
  DEF Next, Iterate, FrontEnd, Returned, MemoryFault, vars, genVars, redirectVars

\* The youngest instruction moves one stage with each bubble fetched, and
\* stays where it is in a stall.
LEMMA DistAdvance ==
    ASSUME TypeOK, sMEM' = sEX, sEX' = sID, sID' = sIF, sIF' = Bubble
    PROVE  Dist' = IF Dist > 0 THEN Dist - 1 ELSE 0
  BY DEF Dist, Occ

\* The drain is at most four cycles away.
LEMMA DistType == Dist \in 0..4
  BY DEF Dist, Occ

\* The youngest instruction has left the pipe only when all have.
LEMMA DistZero ==
    ASSUME TypeOK, InOrderOnce, pending_fetch = Bubble
    PROVE  Dist = 0 <=> retired >= count
  BY DEF TypeOK, InOrderOnce, Dist, Occ, Latch, Bubble

\* A step that fetches no instruction: what is pending stays pending.
LEMMA DrainKept ==
    ASSUME FlowInv, EndInv, DrainInv, FetchIdle, [Next]_vars,
           UNCHANGED <<count, done, win, pending_fetch>>
    PROVE  DrainInv'
<1>1. TypeOK /\ TypeOK' /\ InOrderOnce
  BY TypeStep DEF FlowInv
<1>2. /\ Drains \in Int /\ Drains' \in Int
      /\ \/ Drains' = Drains
         \/ Drains' = Drains + 1 /\ \E dc \in DcAnswers : Drain(dc)
      /\ \A dc \in DcAnswers : Drain(dc) => Drains' = Drains + 1
  BY <1>1, DrainsStep
<1>3. CASE ~done \/ pending_fetch # Bubble
  <2>1. \A dc : ~Drain(dc)
    BY <1>3 DEF Drain, MayGenerate
  <2>2. Drains' = 0 /\ (~done' \/ pending_fetch' # Bubble)
    BY <1>2, <1>3, <2>1 DEF DrainInv
  <2>. QED  BY <2>2 DEF DrainInv
<1>4. CASE done /\ pending_fetch = Bubble
  <2>. DEFINE K == ~gen_at(count - 1).is_control
  <2>1. /\ Drains >= 0 /\ Drains + Dist <= 4
        /\ K => Drains + Dist = 4 /\ ctrl_pending = 0
    BY <1>4 DEF DrainInv
  <2>2. K' <=> K
    BY DEF gen_at, RingSlot
  <2>3. SUFFICES /\ Drains' >= 0 /\ Drains' + Dist' <= 4
                 /\ K => Drains' + Dist' = 4 /\ ctrl_pending' = 0
    BY <1>4, <2>2 DEF DrainInv
  <2>4. Dist \in 0..4
    BY DistType
  <2>. HIDE DEF K, Drains, Dist
  <2>5. CASE Drains' = Drains /\ Dist' = Dist /\ ctrl_pending' = ctrl_pending
    BY <2>1, <2>5
  <2>6. ASSUME NEW dc \in DcAnswers, ControlBubble(dc)
        PROVE  /\ Drains' >= 0 /\ Drains' + Dist' <= 4
               /\ K => Drains' + Dist' = 4 /\ ctrl_pending' = 0
    <3>1. ctrl_pending > 0
      BY <2>6 DEF ControlBubble
    <3>2. Dist' = IF Dist > 0 THEN Dist - 1 ELSE 0
      BY <1>1, <2>6, DistAdvance DEF ControlBubble, BackEnd, Advance
    <3>3. Drains' = Drains
      <4>1. \A dd \in DcAnswers : ~Drain(dd)
        BY <1>1, <3>1 DEF Drain, MayGenerate, TypeOK
      <4>. QED  BY <1>2, <4>1
    <3>4. ~K
      BY <1>1, <2>1, <3>1 DEF TypeOK
    <3>. QED  BY <1>2, <2>1, <2>4, <3>2, <3>3, <3>4
  <2>7. ASSUME NEW dc \in DcAnswers, Drain(dc)
        PROVE  /\ Drains' >= 0 /\ Drains' + Dist' <= 4
               /\ K => Drains' + Dist' = 4 /\ ctrl_pending' = 0
    <3>1. status = "running" /\ ctrl_pending' = ctrl_pending
      BY <2>7 DEF Drain, Tick, redirectVars
    <3>2. Dist' = IF Dist > 0 THEN Dist - 1 ELSE 0
      BY <1>1, <2>7, DistAdvance DEF Drain, BackEnd, Advance
    <3>3. Drains' = Drains + 1
      BY <1>2, <2>7
    <3>4. Dist # 0
      BY <1>1, <1>4, <3>1, DistZero DEF EndInv
    <3>. QED  BY <1>2, <2>1, <2>4, <3>1, <3>2, <3>3, <3>4
  <2>8. ASSUME NEW dc \in DcAnswers, DataStall(dc)
        PROVE  Drains' = Drains /\ Dist' = Dist /\ ctrl_pending' = ctrl_pending
    <3>1. /\ sID # Bubble /\ UNCHANGED <<sID, sIF, ctrl_pending>>
      BY <2>8 DEF DataStall, needs_stall, redirectVars
    <3>2. \A dd : ~Drain(dd)
      BY <2>8 DEF DataStall, Drain, Advance
    <3>3. Dist' = Dist
      BY <3>1 DEF Dist
    <3>. QED  BY <1>2, <3>1, <3>2, <3>3
  <2>9. CASE Hold \/ MemoryFault \/ UNCHANGED vars
    <3>1. UNCHANGED <<sIF, sID, sEX, sMEM, ctrl_pending>>
      BY <2>9 DEF Hold, MemoryFault, vars, redirectVars
    <3>2. Dist' = Dist
      BY <3>1 DEF Dist, Occ
    <3>3. \A dd \in DcAnswers : ~Drain(dd)
      <4>1. UNCHANGED cycles \/ mem_stall > 0
        BY <2>9 DEF Hold, MemoryFault, vars
      <4>. QED  BY <1>1, <4>1 DEF Drain, Tick, BackEnd, TypeOK
    <3>. QED  BY <1>2, <2>5, <3>1, <3>2, <3>3
  <2>10. \A dc, s : ~FetchWait(dc) /\ ~FetchResume(dc) /\ ~Fetch(dc, s) /\ ~FetchMiss(dc, s)
    BY <1>1, <1>4 DEF FetchWait, FetchResume, Fetch, FetchMiss, gen_one, FetchIdle, TypeOK
  <2>. QED
    BY <2>5, <2>6, <2>7, <2>8, <2>9, <2>10
    DEF Next, Iterate, FrontEnd, Returned
<1>5. done \in BOOLEAN
  BY <1>1 DEF TypeOK
<1>. QED  BY <1>3, <1>4, <1>5

\* A fetched instruction starts the draining at the head of the pipe.
LEMMA DrainFetched ==
    ASSUME FlowInv, RingSane, DrainInv, [Next]_vars, NEW dc \in DcAnswers,
           \/ FetchResume(dc)
           \/ \E s \in CpuSteps : Fetch(dc, s) \/ FetchMiss(dc, s)
    PROVE  DrainInv'
<1>1. TypeOK /\ TypeOK' /\ InOrderOnce
  BY TypeStep DEF FlowInv
<1>2. /\ ~done \/ pending_fetch # Bubble
      /\ ctrl_pending <= 0
  BY DEF FetchResume, Fetch, FetchMiss, gen_one, MayGenerate
<1>3. Drains' = 0
  <2>1. \A dd : ~Drain(dd)
    BY <1>2 DEF Drain, MayGenerate
  <2>2. Drains = 0
    BY <1>2 DEF DrainInv
  <2>. HIDE DEF Drains
  <2>. QED  BY <1>1, <2>1, <2>2, DrainsStep
<1>4. ctrl_pending = 0
  BY <1>1, <1>2 DEF TypeOK
<1>5. ASSUME NEW d, Sane(d), Redirect(d), ~d.is_control
      PROVE  ctrl_pending' = 0
  BY <1>4, <1>5 DEF Sane, Redirect, redirectVars
<1>6. CASE FetchResume(dc)
  <2>1. /\ pending_fetch # Bubble /\ sIF' = pending_fetch /\ pending_fetch' = Bubble
        /\ Redirect(gen_at(pending_fetch)) /\ UNCHANGED <<count, win>>
    BY <1>6 DEF FetchResume, Advance, genVars
  <2>2. pending_fetch = count - 1 /\ pending_fetch \in Nat
    BY <1>1, <2>1 DEF InOrderOnce, TypeOK, Occ, Latch, Bubble
  <2>3. Sane(gen_at(pending_fetch))
    <3>1. RingSlot(pending_fetch) \in 0..WinCap-1
      BY <2>2, WinCapAssumption DEF RingSlot
    <3>. QED  BY <3>1 DEF RingSane, gen_at
  <2>4. gen_at(count - 1)' = gen_at(pending_fetch)
    BY <2>1, <2>2 DEF gen_at, RingSlot
  <2>5. Dist' = 4
    BY <2>1 DEF Dist
  <2>6. ~gen_at(count - 1)'.is_control => ctrl_pending' = 0
    BY <1>5, <2>1, <2>3, <2>4
  <2>. QED  BY <1>3, <2>1, <2>5, <2>6 DEF DrainInv
<1>7. ASSUME NEW s \in CpuSteps, Fetch(dc, s) PROVE DrainInv'
  <2>1. /\ sIF' = count /\ pending_fetch' = Bubble /\ gen_one(s) /\ count' = count + 1
        /\ Redirect(s.info)
    BY <1>7 DEF Fetch, Advance, gen_one, MayGenerate
  <2>2. Dist' = 4
    BY <1>1, <2>1 DEF Dist, TypeOK, Bubble
  <2>3. gen_at(count - 1)' = s.info
    <3>1. count' - 1 = count
      BY <1>1, <2>1 DEF TypeOK
    <3>2. win'[RingSlot(count)].d = s.info
      BY <1>1, <2>1, LatchWritten
    <3>. QED  BY <3>1, <3>2 DEF gen_at, RingSlot
  <2>4. ~gen_at(count - 1)'.is_control => ctrl_pending' = 0
    BY <1>5, <2>1, <2>3, StepsAreSane
  <2>. QED  BY <1>3, <2>1, <2>2, <2>4 DEF DrainInv
<1>8. ASSUME NEW s \in CpuSteps, FetchMiss(dc, s) PROVE DrainInv'
  <2>1. pending_fetch' # Bubble
    BY <1>1, <1>8 DEF FetchMiss, TypeOK, Bubble
  <2>. QED  BY <1>3, <2>1 DEF DrainInv
<1>. QED  BY <1>6, <1>7, <1>8

\* The invariant the account of the cycles rests on.
CycleInv == FlowInv /\ RingSane /\ FetchIdle /\ EndInv /\ DrainInv

\* CycleInv is kept by every step.
LEMMA CycleStep == ASSUME CycleInv, [Next]_vars PROVE CycleInv'
<1>1. FlowInv /\ RingSane /\ FetchIdle /\ EndInv /\ DrainInv /\ TypeOK
  BY DEF CycleInv, FlowInv
<1>2. FlowInv' /\ RingSane' /\ FetchIdle' /\ EndInv'
  BY <1>1, FlowStep, SaneStep, IdleStep, EndStep
<1>3. DrainInv'
  <2>1. CASE UNCHANGED <<count, done, win, pending_fetch>>
    BY <1>1, <2>1, DrainKept
  <2>2. ASSUME NEW dc \in DcAnswers,
               \/ FetchResume(dc)
               \/ \E s \in CpuSteps : Fetch(dc, s) \/ FetchMiss(dc, s)
        PROVE  DrainInv'
    BY <1>1, <2>2, DrainFetched
  <2>. QED
    BY <2>1, <2>2
    DEF Next, Iterate, FrontEnd, Returned, Hold, DataStall, ControlBubble,
        FetchWait, Drain, MemoryFault, vars, genVars
<1>. QED  BY <1>2, <1>3 DEF CycleInv

\* CycleInv holds initially.
LEMMA CycleInit == ASSUME Init PROVE CycleInv
<1>1. FlowInv /\ RingSane
  BY FlowInit, SaneInit
<1>2. FetchIdle /\ EndInv /\ DrainInv
  BY DEF Init, FetchIdle, EndInv, DrainInv, Drains, Occ
<1>. QED  BY <1>1, <1>2 DEF CycleInv

\* Every cycle of a finished run is one of the instructions, one of the four
\* that drain the pipe, or counted by exactly one of the three stall counters.
THEOREM CyclesAccounted == Spec => []CycleBreakdown
<1>1. CycleInv => CycleBreakdown
  <2>1. SUFFICES ASSUME CycleInv, status = "finished", ~gen_at(count - 1).is_control
                 PROVE  cycles = count + 4 + data_stalls + control_stalls + mem_stalls
    BY DEF CycleBreakdown
  <2>2. TypeOK /\ InOrderOnce /\ EndInv /\ DrainInv
    BY <2>1 DEF CycleInv, FlowInv
  <2>3. done /\ retired >= count
    BY <2>1, <2>2 DEF EndInv
  <2>4. pending_fetch = Bubble
    BY <2>2, <2>3 DEF TypeOK, InOrderOnce, Occ, Latch, Bubble
  <2>5. Dist = 0
    BY <2>2, <2>3, <2>4, DistZero
  <2>6. Drains + Dist = 4
    BY <2>1, <2>2, <2>3, <2>4 DEF DrainInv
  <2>. QED  BY <2>2, <2>4, <2>5, <2>6 DEF Drains, Occ, TypeOK
<1>. QED  BY <1>1, CycleInit, CycleStep, PTL DEF Spec

-----------------------------------------------------------------------------
(* The safety net *)

\* How often the instruction in ID may still have to wait.
Waits == IF sID = Bubble THEN 0 ELSE IF sEX # Bubble THEN 2 ELSE Occ(sMEM)

\* What each instruction can cost at most: two data stalls, one miss in each
\* cache and one redirect.
StallBound ==
    data_stalls + Waits <= 2 * (retired + Occ(sMEM) + Occ(sEX) + Occ(sID))
DcBound == dc_misses <= retired + Occ(sMEM)
IcBound == ic_misses <= count
RedirectBound == redirects + Occ(pending_fetch) <= count

\* A latch holds at most one instruction.
LEMMA OccType == \A l : Occ(l) \in 0..1
  BY DEF Occ

\* No instruction waits for more than two data stalls.
LEMMA StallBoundStep ==
    ASSUME TypeOK, TypeOK', StallBound, [Next]_vars
    PROVE  StallBound'
<1>. DEFINE m == Occ(sMEM)
            e == Occ(sEX)
            d == Occ(sID)
            f == Occ(sIF)
<1>1. /\ retired \in Nat /\ data_stalls \in Nat /\ retired' \in Nat /\ data_stalls' \in Nat
      /\ m \in 0..1 /\ e \in 0..1 /\ d \in 0..1 /\ f \in 0..1
  BY OccType DEF TypeOK
<1>2. data_stalls + Waits <= 2 * (retired + m + e + d)
  BY DEF StallBound
<1>3. Waits = IF d = 0 THEN 0 ELSE IF e = 1 THEN 2 ELSE m
  BY DEF Waits, Occ
<1>4. CASE UNCHANGED <<data_stalls, retired, sMEM, sEX, sID>>
  BY <1>4 DEF StallBound, Waits, Occ
<1>5. ASSUME sMEM' = sEX, sEX' = sID, sID' = sIF, data_stalls' = data_stalls,
             retired' = (IF sMEM # Bubble THEN retired + 1 ELSE retired)
      PROVE  StallBound'
  <2>1. retired' = retired + m
    BY <1>1, <1>5 DEF Occ
  <2>2. Waits' = IF f = 0 THEN 0 ELSE IF d = 1 THEN 2 ELSE e
    BY <1>5 DEF Waits, Occ
  <2>3. StallBound' <=> data_stalls + Waits' <= 2 * (retired + m + e + d + f)
    BY <1>1, <1>5, <2>1 DEF StallBound, Occ
  <2>. HIDE DEF m, e, d, f
  <2>. QED  BY <1>1, <1>2, <1>3, <2>2, <2>3
<1>6. ASSUME NEW dc \in DcAnswers, DataStall(dc) PROVE StallBound'
  <2>1. /\ sID # Bubble /\ (sEX # Bubble \/ sMEM # Bubble)
        /\ sMEM' = sEX /\ sEX' = Bubble /\ sID' = sID
        /\ data_stalls' = data_stalls + 1
        /\ retired' = (IF sMEM # Bubble THEN retired + 1 ELSE retired)
    BY <1>6 DEF DataStall, needs_stall, BackEnd
  <2>2. retired' = retired + m /\ d = 1 /\ (e = 1 \/ m = 1)
    BY <1>1, <2>1 DEF Occ
  <2>3. Waits' = e
    BY <2>1 DEF Waits, Occ
  <2>4. StallBound' <=> data_stalls + 1 + Waits' <= 2 * (retired + m + e + d)
    BY <1>1, <2>1, <2>2 DEF StallBound, Occ
  <2>. HIDE DEF m, e, d, f
  <2>. QED  BY <1>1, <1>2, <1>3, <2>2, <2>3, <2>4
<1>7. ASSUME NEW dc \in DcAnswers, NEW s,
             \/ ControlBubble(dc) \/ FetchWait(dc) \/ FetchResume(dc)
             \/ Fetch(dc, s) \/ FetchMiss(dc, s) \/ Drain(dc)
      PROVE  StallBound'
  BY <1>5, <1>7
  DEF ControlBubble, FetchWait, FetchResume, Fetch, FetchMiss, Drain, Advance, BackEnd
<1>. QED
  BY <1>4, <1>6, <1>7
  DEF Next, Iterate, FrontEnd, Returned, Hold, MemoryFault, vars

\* Data misses are bounded by the instructions that reached MEM,
LEMMA DcBoundStep ==
    ASSUME TypeOK, DcBound, [Next]_vars
    PROVE  DcBound'
<1>1. CASE UNCHANGED <<dc_misses, retired, sMEM>>
  BY <1>1 DEF DcBound, Occ
<1>2. ASSUME NEW dc \in DcAnswers, NEW ic, BackEnd(dc, ic)
      PROVE  DcBound'
  <2>1. /\ dc_misses' = dc_misses + dc.miss /\ sMEM' = sEX
        /\ retired' = (IF sMEM # Bubble THEN retired + 1 ELSE retired)
    BY <1>2 DEF BackEnd
  <2>2. dc.miss \in 0..1
    BY AnswersType DEF Answer
  <2>3. sEX = Bubble => dc.miss = 0
    BY HitFields DEF DcAnswers
  <2>4. retired \in Nat /\ dc_misses \in Nat
    BY DEF TypeOK
  <2>. QED  BY <2>1, <2>2, <2>3, <2>4 DEF DcBound, Occ
<1>. QED
  BY <1>1, <1>2
  DEF Next, Iterate, FrontEnd, Returned, Hold, DataStall, ControlBubble, FetchWait,
      FetchResume, Fetch, FetchMiss, Drain, MemoryFault, vars

\* fetch misses and redirects by those produced.
LEMMA FetchBoundStep ==
    ASSUME TypeOK, IcBound, RedirectBound, [Next]_vars
    PROVE  IcBound' /\ RedirectBound'
<1>1. /\ ic_misses \in Nat /\ count \in Nat /\ redirects \in Nat /\ pending_fetch \in Latch
  BY DEF TypeOK
<1>2. CASE UNCHANGED <<ic_misses, count, redirects, pending_fetch>>
  BY <1>2 DEF IcBound, RedirectBound, Occ
<1>3. ASSUME NEW x, Redirect(x) PROVE redirects' \in {redirects, redirects + 1}
  BY <1>1, <1>3 DEF Redirect, redirectVars
<1>4. ASSUME NEW dc, FetchResume(dc) PROVE IcBound' /\ RedirectBound'
  <2>1. /\ UNCHANGED <<ic_misses, count>> /\ pending_fetch # Bubble
        /\ pending_fetch' = Bubble /\ redirects' \in {redirects, redirects + 1}
    BY <1>3, <1>4 DEF FetchResume, icVars, genVars
  <2>2. Occ(pending_fetch) = 1 /\ Occ(pending_fetch') = 0
    BY <2>1 DEF Occ
  <2>3. RedirectBound' <=> redirects' + Occ(pending_fetch') <= count'
    BY DEF RedirectBound, Occ
  <2>4. redirects + 1 <= count
    BY <2>2 DEF RedirectBound
  <2>5. redirects' + 0 <= count
    <3>1. /\ redirects \in Nat /\ count \in Nat
          /\ redirects' = redirects \/ redirects' = redirects + 1
      BY <1>1, <2>1
    <3>. QED  BY <2>4, <3>1
  <2>. QED  BY <2>1, <2>2, <2>3, <2>5 DEF IcBound
<1>5. ASSUME NEW dc, NEW s, Fetch(dc, s) PROVE IcBound' /\ RedirectBound'
  <2>1. /\ UNCHANGED <<ic_misses, pending_fetch>> /\ count' = count + 1
        /\ redirects' \in {redirects, redirects + 1}
    BY <1>3, <1>5 DEF Fetch, gen_one
  <2>2. Occ(pending_fetch') = Occ(pending_fetch) /\ Occ(pending_fetch) \in 0..1
    BY <2>1 DEF Occ
  <2>3. RedirectBound' <=> redirects' + Occ(pending_fetch') <= count'
    BY DEF RedirectBound, Occ
  <2>4. redirects' + Occ(pending_fetch) <= count + 1
    BY <1>1, <2>1, <2>2 DEF RedirectBound
  <2>5. ic_misses <= count + 1
    BY <1>1 DEF IcBound
  <2>. QED  BY <2>1, <2>2, <2>3, <2>4, <2>5 DEF IcBound
<1>6. ASSUME NEW dc, NEW s, FetchMiss(dc, s) PROVE IcBound' /\ RedirectBound'
  <2>1. /\ ic_misses' = ic_misses + 1 /\ count' = count + 1
        /\ redirects' = redirects /\ pending_fetch = Bubble
    BY <1>6 DEF FetchMiss, gen_one, redirectVars, MayGenerate
  <2>2. Occ(pending_fetch) = 0 /\ Occ(pending_fetch') \in 0..1
    BY <2>1, OccType DEF Occ
  <2>3. RedirectBound' <=> redirects' + Occ(pending_fetch') <= count'
    BY DEF RedirectBound, Occ
  <2>. QED  BY <1>1, <2>1, <2>2, <2>3 DEF IcBound, RedirectBound
<1>. QED
  BY <1>2, <1>4, <1>5, <1>6
  DEF Next, Iterate, FrontEnd, Returned, Hold, DataStall, ControlBubble,
      FetchWait, Drain, MemoryFault, vars, icVars, genVars, redirectVars

\* The arithmetic of the safety net: cy cycles, of which dr drain, ds, cs and
\* ms stall, for n instructions of which c were produced before this cycle.
LEMMA WithinBound ==
    ASSUME NEW c \in Nat, NEW n \in Nat, n <= c + 1,
           NEW ic \in Nat, NEW dc \in Nat, NEW i1 \in Nat, i1 <= ic + 1,
           NEW im \in Nat, im <= n, NEW dm \in Nat, dm <= n,
           NEW ms \in Nat, ms <= dm * dc + im * i1,
           NEW ds \in Nat, ds <= 2 * n, NEW cs \in Nat, cs <= 2 * n,
           NEW dr \in Int, dr <= 4, NEW cy \in Nat,
           cy <= dr + n + ds + cs + ms
    PROVE  cy <= (c + 16) * (20 + ic + dc) + 64
<1>1. ASSUME NEW a \in Nat, NEW b \in Nat, NEW x \in Nat, a <= b
      PROVE  a * x <= b * x /\ a * x \in Int /\ b * x \in Int /\ x * a <= x * b
  <2>1. (b - a) * x >= 0
    BY <1>1
  <2>. QED  BY <1>1, <2>1
<1>2. dm * dc <= n * dc /\ dm * dc \in Int /\ n * dc \in Int
  BY <1>1
<1>3. im * i1 <= n * i1 /\ im * i1 \in Int /\ n * i1 \in Int
  BY <1>1
<1>4. n * i1 <= n * (ic + 1) /\ n * (ic + 1) \in Int
  <2>1. ic + 1 \in Nat
    OBVIOUS
  <2>. QED  BY <1>1, <2>1
<1>5. cy <= 4 + 5 * n + n * dc + n * (ic + 1)
  BY <1>2, <1>3, <1>4
<1>6. 4 + 5 * n + n * dc + n * (ic + 1) = 4 + n * (6 + ic + dc)
  OBVIOUS
<1>7. n * (6 + ic + dc) <= (c + 1) * (6 + ic + dc)
  <2>1. 6 + ic + dc \in Nat /\ c + 1 \in Nat
    OBVIOUS
  <2>. QED  BY <1>1, <2>1
<1>8. (c + 1) * (6 + ic + dc) <= (c + 1) * (20 + ic + dc)
  <2>1. 6 + ic + dc \in Nat /\ c + 1 \in Nat /\ 20 + ic + dc \in Nat
        /\ 6 + ic + dc <= 20 + ic + dc
    OBVIOUS
  <2>. QED  BY <1>1, <2>1
<1>9. (c + 1) * (20 + ic + dc) <= (c + 16) * (20 + ic + dc)
  <2>1. 20 + ic + dc \in Nat /\ c + 1 \in Nat /\ c + 16 \in Nat /\ c + 1 <= c + 16
    OBVIOUS
  <2>. QED  BY <1>1, <2>1
<1>10. /\ n * (6 + ic + dc) \in Int /\ (c + 1) * (6 + ic + dc) \in Int
       /\ (c + 1) * (20 + ic + dc) \in Int /\ (c + 16) * (20 + ic + dc) \in Int
  OBVIOUS
<1>. QED  BY <1>5, <1>6, <1>7, <1>8, <1>9, <1>10

\* The invariant of the safety net.
NetInv ==
    /\ CycleInv /\ MissInv /\ RedirectAccounting
    /\ StallBound /\ DcBound /\ IcBound /\ RedirectBound

\* NetInv is kept by every step.
LEMMA NetStep == ASSUME NetInv, [Next]_vars PROVE NetInv'
<1>1. /\ CycleInv /\ MissInv /\ RedirectAccounting /\ TypeOK
      /\ StallBound /\ DcBound /\ IcBound /\ RedirectBound
  BY DEF NetInv, CycleInv, FlowInv
<1>2. TypeOK'
  BY <1>1, TypeStep
<1>. QED
  BY <1>1, <1>2, CycleStep, MissStep, RedirectStep, StallBoundStep, DcBoundStep,
     FetchBoundStep
  DEF NetInv

\* NetInv holds initially.
LEMMA NetInit == ASSUME Init PROVE NetInv
<1>1. RedirectAccounting /\ StallBound /\ DcBound /\ IcBound /\ RedirectBound
  BY DEF Init, RedirectAccounting, StallBound, Waits, DcBound, IcBound,
         RedirectBound, Occ, CONTROL_PENALTY
<1>. QED  BY <1>1, CycleInit, MissInit DEF NetInv

\* A cycle stays within the bound computed before it.
LEMMA NetHolds ==
    ASSUME NetInv, NetInv', Tick, NearL2, count' <= count + 1
    PROVE  cycles' <= bound
<1>1. /\ TypeOK /\ TypeOK' /\ InOrderOnce' /\ DrainInv' /\ MissInv'
      /\ RedirectAccounting' /\ StallBound' /\ DcBound' /\ IcBound' /\ RedirectBound'
      /\ PendingAlone'
  BY DEF NetInv, CycleInv, FlowInv
<1>. DEFINE n == count'
            ms == mem_stalls'
            ds == data_stalls'
            cs == control_stalls'
            dm == dc_misses'
            im == ic_misses'
            dr == Drains'
            i1 == AtLeast(1, cfg.ic_miss)
<1>2. UNCHANGED cfg /\ NearL2'
  BY DEF Tick, NearL2
<1>3. /\ count \in Nat /\ n \in Nat /\ ms \in Nat /\ ds \in Nat /\ cs \in Nat
      /\ dm \in Nat /\ im \in Nat /\ cycles' \in Nat /\ retired' \in Nat
      /\ redirects' \in Nat /\ ctrl_pending' \in Nat /\ mem_stall' \in Nat
      /\ fetch_stall' \in Int /\ done' \in BOOLEAN
  <2>1. count \in Nat
    BY <1>1 DEF TypeOK
  <2>2. TypeOK'
    BY <1>1
  <2>3. ctrl_pending' \in 0..2
    BY <2>2 DEF TypeOK, CONTROL_PENALTY
  <2>4. ctrl_pending' \in Nat
    BY <2>3
  <2>5. done' \in BOOLEAN
    BY <2>2 DEF TypeOK
  <2>6. fetch_stall' \in Int
    <3>1. fetch_stall' \in Nat \cup {-1}
      BY <2>2 DEF TypeOK
    <3>. QED  BY <3>1
  <2>7. /\ n \in Nat /\ ms \in Nat /\ ds \in Nat /\ cs \in Nat
        /\ dm \in Nat /\ im \in Nat /\ cycles' \in Nat /\ retired' \in Nat
        /\ redirects' \in Nat /\ mem_stall' \in Nat
    BY <2>2 DEF TypeOK
  <2>. QED  BY <2>1, <2>4, <2>5, <2>6, <2>7
<1>4. cfg.ic_miss \in Nat /\ cfg.dc_miss \in Nat /\ i1 \in Nat /\ i1 <= cfg.ic_miss + 1
  BY <1>1, CfgNat DEF AtLeast
<1>5. ms <= dm * cfg.dc_miss + im * i1
  <2>1. Outstanding' <= L1Bill'
    BY <1>1, <1>2 DEF MissInv, MissBound
  <2>2. L1Bill' = dm * cfg.dc_miss + im * i1
    BY <1>2 DEF L1Bill, AtLeast
  <2>3. Outstanding' = ms + mem_stall' + AtLeast(0, fetch_stall')
    BY DEF Outstanding, AtLeast
  <2>4. AtLeast(0, fetch_stall') \in Nat
    BY <1>3 DEF AtLeast
  <2>5. dm * cfg.dc_miss + im * i1 \in Int
    BY <1>3, <1>4
  <2>. HIDE DEF i1
  <2>. QED  BY <1>3, <2>1, <2>2, <2>3, <2>4, <2>5
<1>6. /\ Occ(sMEM') \in 0..1 /\ Occ(sEX') \in 0..1 /\ Occ(sID') \in 0..1
      /\ Occ(sIF') \in 0..1 /\ Occ(pending_fetch') \in 0..1
      /\ n = retired' + Occ(sMEM') + Occ(sEX') + Occ(sID') + Occ(sIF')
               + Occ(pending_fetch')
  BY <1>1, OccType DEF InOrderOnce, Occ
<1>7. im <= n /\ dm <= n
  <2>1. im <= n
    BY <1>1 DEF IcBound
  <2>2. dm <= retired' + Occ(sMEM')
    BY <1>1 DEF DcBound, Occ
  <2>. QED  BY <1>3, <1>6, <2>1, <2>2
<1>8. ds <= 2 * n
  <2>1. ds + Waits' <= 2 * (retired' + Occ(sMEM') + Occ(sEX') + Occ(sID'))
    BY <1>1 DEF StallBound, Occ
  <2>2. Waits' \in 0..2
    BY DEF Waits, Occ
  <2>. QED  BY <1>3, <1>6, <2>1, <2>2
<1>9. cs <= 2 * n
  <2>1. cs + ctrl_pending' = 2 * redirects'
    BY <1>1 DEF RedirectAccounting, CONTROL_PENALTY
  <2>2. redirects' + Occ(pending_fetch') <= n
    BY <1>1 DEF RedirectBound, Occ
  <2>. QED  BY <1>3, <1>6, <2>1, <2>2
<1>10. cycles' = dr + n + ds + cs + ms - Occ(pending_fetch') /\ dr \in Int
  <2>1. dr = cycles' + Occ(pending_fetch') - n - ds - cs - ms
    BY DEF Drains, Occ
  <2>. HIDE DEF dr, n, ds, cs, ms
  <2>. QED  BY <1>3, <1>6, <2>1
<1>11. dr <= 4
  <2>. DEFINE x == Dist'
  <2>1. x \in 0..4
    BY DEF Dist, Occ
  <2>2. CASE ~done' \/ pending_fetch' # Bubble
    BY <1>1, <2>2 DEF DrainInv
  <2>3. CASE done' /\ pending_fetch' = Bubble
    <3>1. dr + x <= 4
      BY <1>1, <2>3 DEF DrainInv
    <3>2. dr \in Int
      BY <1>10
    <3>. HIDE DEF dr, x
    <3>. QED  BY <2>1, <3>1, <3>2
  <2>. QED  BY <1>3, <2>2, <2>3
<1>12. bound = (count + 16) * (20 + cfg.ic_miss + cfg.dc_miss) + 64
  BY DEF bound, per_inst
<1>. HIDE DEF n, ms, ds, cs, dm, im, dr, i1
<1>13. cycles' <= dr + n + ds + cs + ms
  BY <1>3, <1>6, <1>10
<1>. QED
  BY <1>3, <1>4, <1>5, <1>7, <1>8, <1>9, <1>10, <1>11, <1>12, <1>13, WithinBound DEF n

\* The safety net fires on no healthy run: with an L2 no slower than the L1
\* penalties, or none, no run is cut short by the cycle bound.
THEOREM SafetyNetNeverFires == Spec => []SafetyNetQuiet
<1>. DEFINE I == NetInv /\ SafetyNetQuiet
<1>1. Init => I
  <2>1. ASSUME Init PROVE SafetyNetQuiet
    BY <2>1 DEF Init, SafetyNetQuiet
  <2>. QED  BY <2>1, NetInit
<1>2. I /\ [Next]_vars => I'
  <2>1. SUFFICES ASSUME I, [Next]_vars PROVE I'
    OBVIOUS
  <2>2. NetInv'
    BY <2>1, NetStep
  <2>3. CASE UNCHANGED <<status, cfg>>
    BY <2>1, <2>2, <2>3 DEF SafetyNetQuiet
  <2>4. CASE MemoryFault
    BY <2>2, <2>4 DEF MemoryFault, SafetyNetQuiet
  <2>5. CASE Iterate
    <3>1. Tick
      BY <2>5 DEF Iterate, FrontEnd, Hold, DataStall, ControlBubble, FetchWait,
          FetchResume, Fetch, FetchMiss, Drain
    <3>2. count' \in {count, count + 1}
      BY <2>5 DEF Iterate, FrontEnd, Hold, DataStall, ControlBubble, FetchWait,
          FetchResume, Fetch, FetchMiss, Drain, genVars, gen_one
    <3>3. count \in Nat
      BY <2>1 DEF NetInv, CycleInv, FlowInv, TypeOK
    <3>4. count' <= count + 1
      BY <3>2, <3>3
    <3>5. NearL2 => cycles + 1 <= bound
      <4>1. NearL2 => cycles' <= bound
        BY <2>1, <2>2, <3>1, <3>4, NetHolds
      <4>. QED  BY <3>1, <4>1 DEF Tick
    <3>6. cycles \in Nat /\ bound \in Int
      <4>1. TypeOK
        BY <2>1 DEF NetInv, CycleInv, FlowInv
      <4>. QED  BY <3>3, <4>1, CfgNat DEF TypeOK, bound, per_inst
    <3>7. NearL2 => status' # "aborted"
      BY <3>1, <3>5, <3>6 DEF Tick
    <3>8. SafetyNetQuiet'
      BY <3>1, <3>7 DEF Tick, NearL2, SafetyNetQuiet
    <3>. QED  BY <2>2, <3>8
  <2>. QED  BY <2>1, <2>3, <2>4, <2>5 DEF Next, Returned, vars
<1>3. I => SafetyNetQuiet
  OBVIOUS
<1>. QED  BY <1>1, <1>2, <1>3, PTL DEF Spec

-----------------------------------------------------------------------------
(* pipe_run and pipe_run_ss with width 1 *)

\* The instruction in a latch, as a set of at most one.
Inst(l) == IF l = Bubble THEN {} ELSE {gen_at(l)}

\* Does an instruction of v produce something that is read?
Feeds(v, read) == \E p \in v : \E s \in read : produces(p, s)

\* Cycles from the EX of the instruction in v to the first EX that can use its
\* result, with forwarding (f) or without.
Latency(f, v) == IF ~f THEN 3 ELSE IF \E p \in v : p.is_load THEN 2 ELSE 1

\* How long v makes a reader wait, counted from the EX of v.
Wait(f, v, read) == IF Feeds(v, read) THEN Latency(f, v) ELSE 0

ReadsOf(v) == UNION {p.reads : p \in v}

\* Cycles until the instruction in ID is in EX, given the latches before it ...
DelayID(f, id, ex, mem) ==
    AtLeast(AtLeast(1, Wait(f, ex, ReadsOf(id))), Wait(f, mem, ReadsOf(id)) - 1)

\* ... and the one in IF.
DelayIF(f, fet, id, ex, mem) ==
    AtLeast(AtLeast(AtLeast(DelayID(f, id, ex, mem) + 1,
                            DelayID(f, id, ex, mem) + Wait(f, id, ReadsOf(fet))),
                    Wait(f, ex, ReadsOf(fet))),
            Wait(f, mem, ReadsOf(fet)) - 1)

\* Without forwarding every result takes three cycles, with it one or two.
LEMMA WaitFacts ==
    ASSUME NEW f \in BOOLEAN, NEW v, NEW read
    PROVE  /\ Wait(f, v, read) \in 0..3
           /\ ~f => Wait(f, v, read) \in {0, 3}
           /\ f => Wait(f, v, read) \in {0, 1, 2}
           /\ Wait(f, {}, read) = 0 /\ Wait(f, v, {}) = 0
  BY DEF Wait, Latency, Feeds

\* An empty latch reads nothing.
LEMMA ReadsOfNone == ReadsOf({}) = {}
  BY DEF ReadsOf

\* A step in which nothing stalls brings every instruction one cycle nearer.
LEMMA DelayAdvance ==
    ASSUME NEW f \in BOOLEAN, NEW fet, NEW id, NEW ex, NEW mem,
           DelayID(f, id, ex, mem) = 1
    PROVE  DelayID(f, fet, id, ex) = DelayIF(f, fet, id, ex, mem) - 1
<1>1. /\ Wait(f, id, ReadsOf(fet)) \in 0..3 /\ Wait(f, ex, ReadsOf(fet)) \in 0..3
      /\ Wait(f, mem, ReadsOf(fet)) \in 0..3
  BY WaitFacts
<1>. QED  BY <1>1 DEF DelayID, DelayIF, AtLeast

\* So does a stall, for the instruction in ID ...
LEMMA DelayStallID ==
    ASSUME NEW f \in BOOLEAN, NEW id, NEW ex, NEW mem,
           DelayID(f, id, ex, mem) > 1
    PROVE  DelayID(f, id, {}, ex) = DelayID(f, id, ex, mem) - 1
<1>1. /\ Wait(f, ex, ReadsOf(id)) \in 0..3 /\ Wait(f, mem, ReadsOf(id)) \in 0..3
      /\ Wait(f, {}, ReadsOf(id)) = 0
      /\ ~f => Wait(f, ex, ReadsOf(id)) \in {0, 3}
      /\ f => Wait(f, ex, ReadsOf(id)) \in {0, 1, 2}
      /\ f => Wait(f, mem, ReadsOf(id)) \in {0, 1, 2}
  BY WaitFacts
<1>. QED  BY <1>1 DEF DelayID, AtLeast

\* ... and for the one in IF.
LEMMA DelayStallIF ==
    ASSUME NEW f \in BOOLEAN, NEW fet, NEW id, NEW ex, NEW mem,
           DelayID(f, id, ex, mem) > 1
    PROVE  DelayIF(f, fet, id, {}, ex) = DelayIF(f, fet, id, ex, mem) - 1
<1>1. /\ Wait(f, id, ReadsOf(fet)) \in 0..3 /\ Wait(f, ex, ReadsOf(fet)) \in 0..3
      /\ Wait(f, mem, ReadsOf(fet)) \in 0..3 /\ Wait(f, {}, ReadsOf(fet)) = 0
  BY WaitFacts
<1>2. DelayID(f, id, {}, ex) = DelayID(f, id, ex, mem) - 1
  BY DelayStallID
<1>3. DelayID(f, id, ex, mem) \in Int
  <2>1. /\ Wait(f, ex, ReadsOf(id)) \in 0..3 /\ Wait(f, mem, ReadsOf(id)) \in 0..3
    BY WaitFacts
  <2>. QED  BY <2>1 DEF DelayID, AtLeast
<1>. QED  BY <1>1, <1>2, <1>3 DEF DelayIF, AtLeast

\* The delays are positive.
LEMMA DelayType ==
    ASSUME NEW f \in BOOLEAN, NEW fet, NEW id, NEW ex, NEW mem
    PROVE  /\ DelayID(f, id, ex, mem) \in 1..3
           /\ DelayIF(f, fet, id, ex, mem) \in 2..6
<1>1. /\ Wait(f, id, ReadsOf(fet)) \in 0..3 /\ Wait(f, ex, ReadsOf(fet)) \in 0..3
      /\ Wait(f, mem, ReadsOf(fet)) \in 0..3
      /\ Wait(f, ex, ReadsOf(id)) \in 0..3 /\ Wait(f, mem, ReadsOf(id)) \in 0..3
  BY WaitFacts
<1>2. DelayID(f, id, ex, mem) \in 1..3
  BY <1>1 DEF DelayID, AtLeast
<1>. QED  BY <1>1, <1>2 DEF DelayIF, AtLeast

\* An empty ID delays nothing.
LEMMA DelayNone ==
    ASSUME NEW f \in BOOLEAN, NEW ex, NEW mem
    PROVE  DelayID(f, {}, ex, mem) = 1
<1>1. Wait(f, ex, {}) = 0 /\ Wait(f, mem, {}) = 0
  BY WaitFacts
<1>. QED  BY <1>1, ReadsOfNone DEF DelayID, AtLeast

\* Nothing in IF: one cycle behind ID.
LEMMA DelayFetchNone ==
    ASSUME NEW f \in BOOLEAN, NEW id, NEW ex, NEW mem
    PROVE  DelayIF(f, {}, id, ex, mem) = DelayID(f, id, ex, mem) + 1
<1>1. Wait(f, ex, {}) = 0 /\ Wait(f, mem, {}) = 0 /\ Wait(f, id, {}) = 0
  BY WaitFacts
<1>2. DelayID(f, id, ex, mem) \in 1..3
  BY DelayType
<1>. QED  BY <1>1, <1>2, ReadsOfNone DEF DelayIF, AtLeast

-----------------------------------------------------------------------------
\* How far the instruction in ID, and the one in IF, is from EX.
DelayNow == DelayID(cfg.forwarding, Inst(sID), Inst(sEX), Inst(sMEM))
FetchDelayNow == DelayIF(cfg.forwarding, Inst(sIF), Inst(sID), Inst(sEX), Inst(sMEM))

\* needs_stall is that ID is more than one cycle from EX.
LEMMA StallIsDelay ==
    ASSUME cfg.forwarding \in BOOLEAN
    PROVE  needs_stall <=> DelayNow > 1
<1>. DEFINE f == cfg.forwarding
            R == ReadsOf(Inst(sID))
            a == Wait(f, Inst(sEX), R)
            b == Wait(f, Inst(sMEM), R)
<1>1. /\ a \in 0..3 /\ b \in 0..3
      /\ ~f => a \in {0, 3} /\ b \in {0, 3}
      /\ f => a \in {0, 1, 2} /\ b \in {0, 1, 2}
  BY WaitFacts
<1>2. DelayNow > 1 <=> a > 1 \/ b > 2
  <2>. HIDE DEF a, b, R
  <2>1. DelayNow = AtLeast(AtLeast(1, a), b - 1)
    BY DEF DelayNow, DelayID, a, b, R
  <2>. QED  BY <1>1, <2>1 DEF AtLeast
<1>3. CASE sID = Bubble
  <2>1. R = {}
    BY <1>3 DEF Inst, ReadsOf
  <2>2. a = 0 /\ b = 0
    BY <2>1, WaitFacts
  <2>. QED  BY <1>2, <1>3, <2>2 DEF needs_stall
<1>4. CASE sID # Bubble
  <2>1. R = gen_at(sID).reads
    BY <1>4 DEF Inst, ReadsOf
  <2>2. Feeds(Inst(sEX), R) <=> sEX # Bubble /\ \E s \in R : produces(gen_at(sEX), s)
    BY DEF Feeds, Inst
  <2>3. Feeds(Inst(sMEM), R) <=> sMEM # Bubble /\ \E s \in R : produces(gen_at(sMEM), s)
    BY DEF Feeds, Inst
  <2>. HIDE DEF R
  <2>4. CASE f
    <3>1. needs_stall <=> sEX # Bubble /\ gen_at(sEX).is_load
                              /\ \E s \in R : produces(gen_at(sEX), s)
      BY <1>4, <2>1, <2>4 DEF needs_stall
    <3>2. a > 1 <=> Feeds(Inst(sEX), R) /\ \E p \in Inst(sEX) : p.is_load
      BY <2>4 DEF Wait, Latency
    <3>3. (\E p \in Inst(sEX) : p.is_load) <=> sEX # Bubble /\ gen_at(sEX).is_load
      BY DEF Inst
    <3>4. b \in {0, 1, 2}
      BY <1>1, <2>4
    <3>5. ~(b > 2)
      <4>. HIDE DEF b
      <4>. QED  BY <3>4
    <3>. QED  BY <1>2, <2>2, <3>1, <3>2, <3>3, <3>5
  <2>5. CASE ~f
    <3>1. needs_stall <=> \/ sEX # Bubble /\ \E s \in R : produces(gen_at(sEX), s)
                          \/ sMEM # Bubble /\ \E s \in R : produces(gen_at(sMEM), s)
      BY <1>4, <2>1, <2>5 DEF needs_stall
    <3>2. /\ a > 1 <=> Feeds(Inst(sEX), R)
          /\ b > 2 <=> Feeds(Inst(sMEM), R)
      BY <2>5 DEF Wait, Latency
    <3>. QED  BY <1>2, <2>2, <2>3, <3>1, <3>2
  <2>. QED  BY <2>4, <2>5
<1>. QED  BY <1>3, <1>4

\* Without caches nothing waits for memory.
NeverWaits ==
    /\ cfg \in NoCacheConfigs
    /\ pending_fetch = Bubble /\ fetch_stall = 0 /\ mem_stall = 0

\* Both simulators have produced the same instructions, and a bundle of one is
\* full at once.
SameStream ==
    /\ ss_count = count /\ ss_done = done
    /\ ss_cur_if = ss_last_if /\ ss_cur_count = (IF count = 0 THEN 0 ELSE 1)
    /\ ss_last_if \in Int /\ ss_fetch_block \in Int
    /\ ss_ready \in [Slot -> Int]

\* The EX of the youngest instruction, two cycles after the fetch cycle it was
\* given, is as far ahead as the latches say.
ToEX ==
    IF sIF # Bubble THEN FetchDelayNow ELSE IF sID # Bubble THEN DelayNow
    ELSE IF sEX # Bubble THEN 0 ELSE IF sMEM # Bubble THEN -1 ELSE -2

LastPlaced == count > 0 => ss_last_if + 2 = cycles + ToEX

\* Fetch never falls behind: an empty IF is the start or a bubble of a
\* redirect, which the fetch block stands for.
NothingYet ==
    /\ count = 0 /\ cycles = 0 /\ ctrl_pending = 0 /\ ss_fetch_block = 0
    /\ sIF = Bubble /\ sID = Bubble /\ sEX = Bubble /\ sMEM = Bubble
    /\ \A s \in Slot : ss_ready[s] = 0

Redirected == ss_fetch_block = ss_last_if + 3

Fetching ==
    /\ count > 0
    /\ \/ sIF # Bubble /\ ctrl_pending = 0 /\ ss_fetch_block <= ss_last_if
       \/ sIF # Bubble /\ ctrl_pending = 2 /\ Redirected
       \/ sIF = Bubble /\ sID # Bubble /\ ctrl_pending = 1 /\ Redirected
       \/ /\ sIF = Bubble /\ sID = Bubble /\ sEX # Bubble
          /\ ctrl_pending = 0 /\ Redirected

FetchInTime == ~done => NothingYet \/ Fetching

\* The cycle from which slot s can be used is that of its youngest producer in
\* the pipe, and past if there is none.
SlotTime(s, f, fet, id, ex, mem, now, at) ==
    IF Wait(f, fet, {s}) > 0 THEN at = now + DelayIF(f, fet, id, ex, mem) + Wait(f, fet, {s})
    ELSE IF Wait(f, id, {s}) > 0 THEN at = now + DelayID(f, id, ex, mem) + Wait(f, id, {s})
    ELSE IF Wait(f, ex, {s}) > 0 THEN at = now + Wait(f, ex, {s})
    ELSE IF Wait(f, mem, {s}) > 0 THEN at = now - 1 + Wait(f, mem, {s})
    ELSE at <= now + 1

SlotsTimed ==
    \A s \in Slot : SlotTime(s, cfg.forwarding, Inst(sIF), Inst(sID), Inst(sEX),
                            Inst(sMEM), cycles, ss_ready[s])

\* The inductive invariant: to agree on the cycle of the last instruction, both
\* must agree on every slot and every redirect an instruction may still wait for.
EqInv ==
    /\ FlowInv /\ EndInv /\ NeverWaits /\ SameStream
    /\ LastPlaced /\ FetchInTime /\ SlotsTimed

-----------------------------------------------------------------------------
\* SlotTime through an advance without a fetch, ...
LEMMA SlotAdvance ==
    ASSUME NEW f \in BOOLEAN, NEW fet, NEW id, NEW ex, NEW mem, NEW s,
           NEW now \in Int, NEW at \in Int, DelayID(f, id, ex, mem) = 1,
           SlotTime(s, f, fet, id, ex, mem, now, at)
    PROVE  SlotTime(s, f, {}, fet, id, ex, now + 1, at)
<1>1. /\ Wait(f, fet, {s}) \in 0..3 /\ Wait(f, id, {s}) \in 0..3
      /\ Wait(f, ex, {s}) \in 0..3 /\ Wait(f, mem, {s}) \in 0..3
      /\ Wait(f, {}, {s}) = 0
  BY WaitFacts
<1>2. DelayID(f, fet, id, ex) = DelayIF(f, fet, id, ex, mem) - 1
  BY DelayAdvance
<1>3. DelayIF(f, fet, id, ex, mem) \in Int
  BY DelayType
<1>. QED  BY <1>1, <1>2, <1>3 DEF SlotTime

\* ... a stall ...
LEMMA SlotStall ==
    ASSUME NEW f \in BOOLEAN, NEW fet, NEW id, NEW ex, NEW mem, NEW s,
           NEW now \in Int, NEW at \in Int, DelayID(f, id, ex, mem) > 1,
           SlotTime(s, f, fet, id, ex, mem, now, at)
    PROVE  SlotTime(s, f, fet, id, {}, ex, now + 1, at)
<1>1. /\ Wait(f, fet, {s}) \in 0..3 /\ Wait(f, id, {s}) \in 0..3
      /\ Wait(f, ex, {s}) \in 0..3 /\ Wait(f, mem, {s}) \in 0..3
      /\ Wait(f, {}, {s}) = 0
  BY WaitFacts
<1>2. /\ DelayID(f, id, {}, ex) = DelayID(f, id, ex, mem) - 1
      /\ DelayIF(f, fet, id, {}, ex) = DelayIF(f, fet, id, ex, mem) - 1
  BY DelayStallID, DelayStallIF
<1>3. DelayIF(f, fet, id, ex, mem) \in Int /\ DelayID(f, id, ex, mem) \in Int
  BY DelayType
<1>. QED  BY <1>1, <1>2, <1>3 DEF SlotTime

\* ... and a fetch, of an instruction that does not produce s ...
LEMMA SlotFetched ==
    ASSUME NEW f \in BOOLEAN, NEW new, NEW fet, NEW id, NEW ex, NEW mem, NEW s,
           NEW now \in Int, NEW at \in Int, DelayID(f, id, ex, mem) = 1,
           SlotTime(s, f, fet, id, ex, mem, now, at), Wait(f, new, {s}) = 0
    PROVE  SlotTime(s, f, new, fet, id, ex, now + 1, at)
<1>1. /\ Wait(f, fet, {s}) \in 0..3 /\ Wait(f, id, {s}) \in 0..3
      /\ Wait(f, ex, {s}) \in 0..3 /\ Wait(f, mem, {s}) \in 0..3
  BY WaitFacts
<1>2. DelayID(f, fet, id, ex) = DelayIF(f, fet, id, ex, mem) - 1
  BY DelayAdvance
<1>3. DelayIF(f, fet, id, ex, mem) \in Int
  BY DelayType
<1>. QED  BY <1>1, <1>2, <1>3 DEF SlotTime

\* ... or does.
LEMMA SlotProduced ==
    ASSUME NEW f \in BOOLEAN, NEW new, NEW fet, NEW id, NEW ex, NEW s,
           NEW now \in Int, NEW at \in Int, Wait(f, new, {s}) > 0,
           at = now + DelayIF(f, new, fet, id, ex) + Wait(f, new, {s})
    PROVE  SlotTime(s, f, new, fet, id, ex, now, at)
  BY DEF SlotTime

\* A reader of several slots waits for each of them that is produced, and as
\* long.
LEMMA WaitOfSlots ==
    ASSUME NEW f, NEW v, NEW read, NEW s \in read
    PROVE  Wait(f, v, {s}) \in {0, Wait(f, v, read)}
<1>1. Feeds(v, {s}) => Feeds(v, read)
  BY DEF Feeds
<1>. QED  BY <1>1 DEF Wait

\* The EX of a fetched instruction by the latches is the latest of the slots it
\* reads and the cycle after the instruction before it.
LEMMA FetchTime ==
    ASSUME NEW f \in BOOLEAN, NEW new, NEW fet, NEW id, NEW ex, NEW mem,
           NEW now \in Int, NEW ready, DelayID(f, id, ex, mem) = 1,
           \A s \in ReadsOf(new) :
              ready[s] \in Int /\ SlotTime(s, f, fet, id, ex, mem, now, ready[s])
    PROVE  /\ \A s \in ReadsOf(new) :
                ready[s] <= now + 1 + DelayIF(f, new, fet, id, ex)
           /\ \/ DelayIF(f, new, fet, id, ex) = DelayIF(f, fet, id, ex, mem)
              \/ \E s \in ReadsOf(new) :
                    ready[s] = now + 1 + DelayIF(f, new, fet, id, ex)
           /\ DelayIF(f, new, fet, id, ex) >= DelayIF(f, fet, id, ex, mem)
<1>. DEFINE R == ReadsOf(new)
            x == DelayIF(f, fet, id, ex, mem)
            a == Wait(f, fet, R)
            b == Wait(f, id, R)
            c == Wait(f, ex, R)
            y == DelayIF(f, new, fet, id, ex)
<1>1. DelayID(f, fet, id, ex) = x - 1
  BY DelayAdvance
<1>2. x \in 2..6
  BY DelayType
<1>3. /\ a \in 0..3 /\ b \in 0..3 /\ c \in 0..3
      /\ ~f => a \in {0, 3} /\ b \in {0, 3} /\ c \in {0, 3}
      /\ f => a \in {0, 1, 2} /\ b \in {0, 1, 2} /\ c \in {0, 1, 2}
  BY WaitFacts
<1>4. y = AtLeast(AtLeast(AtLeast(x, x - 1 + a), b), c - 1)
  <2>. HIDE DEF x
  <2>. QED  BY <1>1, <1>2 DEF DelayIF
<1>5. ASSUME NEW s \in R
      PROVE  /\ Wait(f, fet, {s}) \in {0, a} /\ Wait(f, id, {s}) \in {0, b}
             /\ Wait(f, ex, {s}) \in {0, c} /\ Wait(f, mem, {s}) \in 0..3
             /\ ready[s] \in Int /\ SlotTime(s, f, fet, id, ex, mem, now, ready[s])
  BY WaitOfSlots, WaitFacts
<1>6. /\ a > 0 => \E s \in R : Wait(f, fet, {s}) = a
      /\ b > 0 => \E s \in R : Wait(f, id, {s}) = b
      /\ c > 0 => \E s \in R : Wait(f, ex, {s}) = c
  <2>1. ASSUME NEW v
        PROVE  Wait(f, v, R) > 0 => \E s \in R : Wait(f, v, {s}) = Wait(f, v, R)
    <3>1. Wait(f, v, R) > 0 => Feeds(v, R)
      BY DEF Wait
    <3>2. Feeds(v, R) => \E s \in R : Feeds(v, {s})
      BY DEF Feeds
    <3>3. \A s : Feeds(v, R) /\ Feeds(v, {s}) => Wait(f, v, {s}) = Wait(f, v, R)
      BY DEF Wait
    <3>. QED  BY <3>1, <3>2, <3>3
  <2>. QED  BY <2>1
<1>. HIDE DEF R, x, a, b, c, y
<1>7. y >= x /\ y \in Int
  BY <1>2, <1>3, <1>4 DEF AtLeast
<1>8. ASSUME NEW s \in R PROVE ready[s] <= now + 1 + y
  <2>1. y >= x - 1 + a /\ y >= b /\ y >= c - 1
    BY <1>2, <1>3, <1>4 DEF AtLeast
  <2>2. ready[s] \in Int
    BY <1>5
  <2>3. CASE Wait(f, fet, {s}) > 0
    BY <1>2, <1>3, <1>5, <1>7, <2>1, <2>2, <2>3 DEF SlotTime, x
  <2>4. CASE ~(Wait(f, fet, {s}) > 0) /\ Wait(f, id, {s}) > 0
    BY <1>2, <1>3, <1>5, <1>7, <2>1, <2>2, <2>4 DEF SlotTime
  <2>5. CASE ~(Wait(f, fet, {s}) > 0) /\ ~(Wait(f, id, {s}) > 0) /\ Wait(f, ex, {s}) > 0
    BY <1>2, <1>3, <1>5, <1>7, <2>1, <2>2, <2>5 DEF SlotTime
  <2>6. CASE ~(Wait(f, fet, {s}) > 0) /\ ~(Wait(f, id, {s}) > 0) /\ ~(Wait(f, ex, {s}) > 0)
    BY <1>2, <1>3, <1>5, <1>7, <2>1, <2>2, <2>6 DEF SlotTime
  <2>. QED  BY <2>3, <2>4, <2>5, <2>6
<1>9. CASE a > 1
  <2>1. y = x - 1 + a
    BY <1>2, <1>3, <1>4, <1>9 DEF AtLeast
  <2>2. PICK s \in R : Wait(f, fet, {s}) = a
    BY <1>3, <1>6, <1>9
  <2>3. ready[s] = now + x + a
    BY <1>3, <1>5, <1>9, <2>2 DEF SlotTime, x
  <2>. QED  BY <1>2, <1>3, <1>7, <1>8, <2>1, <2>3 DEF R, x, y
<1>10. CASE ~(a > 1) /\ b > x
  <2>1. y = b /\ x = 2 /\ b = 3 /\ a = 0
    BY <1>2, <1>3, <1>4, <1>10 DEF AtLeast
  <2>2. PICK s \in R : Wait(f, id, {s}) = b
    BY <1>3, <1>6, <2>1
  <2>3. ready[s] = now + 1 + b
    BY <1>3, <1>5, <2>1, <2>2 DEF SlotTime
  <2>. QED  BY <1>2, <1>3, <1>7, <1>8, <2>1, <2>3 DEF R, x, y
<1>11. CASE ~(a > 1) /\ ~(b > x)
  <2>1. y = x
    BY <1>2, <1>3, <1>4, <1>11 DEF AtLeast
  <2>. QED  BY <1>7, <1>8, <2>1 DEF R, x, y
<1>. QED  BY <1>9, <1>10, <1>11

-----------------------------------------------------------------------------
(* What a step does *)

\* A step of both simulators is a step of pipe_run.
LEMMA EqIsStep == ASSUME [EqNext]_<<vars, ssVars>> PROVE [Next]_vars
  BY DEF EqNext, EqFrontEnd, FetchBoth, Next, Iterate, FrontEnd, Returned

\* The D-cache is not asked.
LEMMA NoDcAnswer ==
    ASSUME cfg \in NoCacheConfigs
    PROVE  /\ cfg.forwarding \in BOOLEAN /\ cfg.dcache = FALSE
           /\ DcAnswers = {NoAccess}
<1>1. cfg.forwarding \in BOOLEAN /\ cfg.dcache = FALSE
  BY DEF NoCacheConfigs
<1>. QED  BY <1>1 DEF DcAnswers

\* The three kinds of step, by what they do to the latches and the redirect: a
\* stall, a bubble (of a redirect or of the drain), a fetch.
Quietly == /\ cycles' = cycles + 1 /\ cfg' = cfg
           /\ UNCHANGED <<count, done, win, ssVars>>
Stalls == /\ Quietly /\ DelayNow > 1 /\ ctrl_pending' = ctrl_pending
          /\ sMEM' = sEX /\ sEX' = Bubble /\ UNCHANGED <<sID, sIF>>
Shifts == /\ DelayNow = 1 /\ sMEM' = sEX /\ sEX' = sID /\ sID' = sIF
Bubbles == /\ Quietly /\ Shifts /\ sIF' = Bubble
           /\ \/ ctrl_pending > 0 /\ ctrl_pending' = ctrl_pending - 1
              \/ done
Fetches(s) == /\ cycles' = cycles + 1 /\ cfg' = cfg /\ Shifts /\ sIF' = count
              /\ ctrl_pending = 0 /\ ctrl_pending' \in {0, 2}
              /\ gen_one(s) /\ SSIssue(s, ctrl_pending')

\* Every step is one of these and waits for no memory.
LEMMA EqCases ==
    ASSUME TypeOK, NeverWaits, EqNext, status = "running"
    PROVE  /\ Stalls \/ Bubbles \/ \E s \in CpuSteps : Fetches(s)
           /\ NeverWaits'
<1>1. /\ cfg.forwarding \in BOOLEAN /\ DcAnswers = {NoAccess}
      /\ pending_fetch = Bubble /\ fetch_stall = 0 /\ mem_stall = 0
      /\ cfg \in NoCacheConfigs
  BY NoDcAnswer DEF NeverWaits
<1>2. needs_stall <=> DelayNow > 1
  BY <1>1, StallIsDelay
<1>3. DelayNow \in 1..3
  BY <1>1, DelayType DEF DelayNow
<1>4. NoAccess.miss = 0
  BY DEF NoAccess
<1>5. EqFrontEnd(NoAccess)
  BY <1>1 DEF EqNext, Returned
<1>6. CASE DataStall(NoAccess) /\ UNCHANGED ssVars
  <2>1. Stalls
    BY <1>2, <1>6 DEF DataStall, BackEnd, Tick, Stalls, Quietly, genVars, redirectVars
  <2>2. NeverWaits'
    BY <1>1, <1>4, <1>6 DEF DataStall, BackEnd, Tick, NeverWaits
  <2>. QED  BY <2>1, <2>2
<1>7. CASE ControlBubble(NoAccess) /\ UNCHANGED ssVars
  <2>0. DelayNow = 1
    BY <1>2, <1>3, <1>7 DEF ControlBubble, Advance
  <2>1. Bubbles
    BY <2>0, <1>7 DEF ControlBubble, BackEnd, Advance, Tick, Bubbles, Shifts, Quietly, genVars
  <2>2. NeverWaits'
    BY <1>1, <1>4, <1>7 DEF ControlBubble, BackEnd, Tick, NeverWaits
  <2>. QED  BY <2>1, <2>2
<1>8. CASE Drain(NoAccess) /\ UNCHANGED ssVars
  <2>0. DelayNow = 1
    BY <1>2, <1>3, <1>8 DEF Drain, Advance
  <2>1. Bubbles
    BY <2>0, <1>8 DEF Drain, BackEnd, Advance, Tick, Bubbles, Shifts, Quietly, genVars
  <2>2. NeverWaits'
    BY <1>1, <1>4, <1>8 DEF Drain, BackEnd, Tick, NeverWaits
  <2>. QED  BY <2>1, <2>2
<1>9. ASSUME NEW s \in CpuSteps, FetchBoth(NoAccess, s)
      PROVE  Fetches(s) /\ NeverWaits'
  <2>0. DelayNow = 1
    BY <1>2, <1>3, <1>9 DEF FetchBoth, Fetch, Advance
  <2>1. PICK ic : BackEnd(NoAccess, ic)
    BY <1>9 DEF FetchBoth, Fetch
  <2>2. ctrl_pending = 0
    BY <1>9 DEF FetchBoth, Fetch, MayGenerate, TypeOK
  <2>3. ctrl_pending' \in {0, 2}
    BY <1>9, <2>2 DEF FetchBoth, Fetch, Redirect, redirectVars, control_penalty,
                      CONTROL_PENALTY
  <2>4. Fetches(s)
    BY <1>9, <2>0, <2>1, <2>2, <2>3
       DEF FetchBoth, Fetch, BackEnd, Advance, Tick, Fetches, Shifts
  <2>5. NeverWaits'
    BY <1>1, <1>4, <1>9, <2>1 DEF FetchBoth, Fetch, BackEnd, Tick, NeverWaits
  <2>. QED  BY <2>4, <2>5
<1>. QED  BY <1>5, <1>6, <1>7, <1>8, <1>9 DEF EqFrontEnd

\* The latches' instructions after a stall, ...
LEMMA InstStalls ==
    ASSUME Stalls
    PROVE  /\ Inst(sMEM)' = Inst(sEX) /\ Inst(sEX)' = {}
           /\ Inst(sID)' = Inst(sID) /\ Inst(sIF)' = Inst(sIF)
  BY DEF Stalls, Quietly, Inst, gen_at, RingSlot

\* ... a bubble ...
LEMMA InstBubbles ==
    ASSUME Bubbles
    PROVE  /\ Inst(sMEM)' = Inst(sEX) /\ Inst(sEX)' = Inst(sID)
           /\ Inst(sID)' = Inst(sIF) /\ Inst(sIF)' = {}
  BY DEF Bubbles, Shifts, Quietly, Inst, gen_at, RingSlot

\* ... and a fetch.
LEMMA InstFetches ==
    ASSUME FlowInv, NeverWaits, NEW s \in CpuSteps, Fetches(s)
    PROVE  /\ Inst(sMEM)' = Inst(sEX) /\ Inst(sEX)' = Inst(sID)
           /\ Inst(sID)' = Inst(sIF) /\ Inst(sIF)' = {s.info}
<1>1. gen_one(s) /\ pending_fetch = Bubble /\ TypeOK
  BY DEF Fetches, NeverWaits, FlowInv
<1>2. \A l \in {sIF, sID, sEX} : l # Bubble => win'[RingSlot(l)] = win[RingSlot(l)]
  BY <1>1, LatchKept
<1>3. win'[RingSlot(count)].d = s.info
  BY <1>1, LatchWritten
<1>4. count # Bubble
  BY <1>1 DEF TypeOK, Bubble
<1>. QED  BY <1>2, <1>3, <1>4 DEF Fetches, Shifts, Inst, gen_at, RingSlot

\* What the fetch cycle of d may not precede, and how pipe_run_ss places it.
Bounds(d) ==
    {IF ss_count = 0 THEN 1 ELSE IF ss_cur_count < 1 THEN ss_cur_if ELSE ss_cur_if + 1,
     ss_fetch_block} \cup {ss_ready[s] - 2 : s \in d.reads}

Placed(s, pen, iff) ==
    /\ iff \in Bounds(s.info) /\ \A b \in Bounds(s.info) : b <= iff
    /\ ss_count' = ss_count + 1
    /\ ss_done' = (s.halts \/ ss_count + 1 >= GenLimit)
    /\ IF iff = ss_cur_if /\ ss_cur_count < 1
       THEN ss_cur_if' = ss_cur_if /\ ss_cur_count' = ss_cur_count + 1
       ELSE ss_cur_if' = iff /\ ss_cur_count' = 1
    /\ ss_ready' = [q \in Slot |->
            IF produces(s.info, q) THEN iff + 2 + Latency(cfg.forwarding, {s.info})
            ELSE ss_ready[q]]
    /\ ss_fetch_block' = (IF pen > 0 THEN iff + 1 + pen ELSE ss_fetch_block)
    /\ ss_last_if' = iff

\* Issue places the instruction so, with forwarding or without.
LEMMA IssuePlaces ==
    ASSUME cfg.forwarding \in BOOLEAN, NEW s \in CpuSteps, NEW pen, SSIssue(s, pen),
           \A iff \in Bounds(s.info) : iff \in Int
    PROVE  \E iff : Placed(s, pen, iff)
<1>1. ~(s.info.is_load /\ s.info.sets_flags)
  BY LoadsSetNoFlags
<1>2. CASE cfg.forwarding
  <2>1. SSForward!Issue(s, pen)
    BY <1>2 DEF SSIssue
  <2>2. SSForward!lowerBounds(s.info) = Bounds(s.info)
    BY DEF SSForward!lowerBounds, SSForward!earliest, Bounds
  <2>3. PICK iff \in Bounds(s.info) : /\ \A b \in Bounds(s.info) : b <= iff
                                      /\ SSForward!Place(s.info, pen, iff)
    BY <2>1, <2>2 DEF SSForward!Issue, SSForward!Schedule
  <2>4. iff \in Int
    BY <2>3
  <2>5. ss_ready' = [q \in Slot |->
            IF produces(s.info, q) THEN iff + 2 + Latency(cfg.forwarding, {s.info})
            ELSE ss_ready[q]]
    <3>1. ss_ready' = [q \in Slot |->
            IF s.info.sets_flags /\ q = FLAG_REG THEN iff + 3
            ELSE IF q \in s.info.writes THEN IF s.info.is_load THEN iff + 4 ELSE iff + 3
            ELSE ss_ready[q]]
      BY <2>3 DEF SSForward!Place, SSForward!Slot, SSForward!FLAG_REG, Slot, FLAG_REG,
                  SSForward!flagsReady, SSForward!resultReady
    <3>2. Latency(cfg.forwarding, {s.info}) = (IF s.info.is_load THEN 2 ELSE 1)
      BY <1>2 DEF Latency
    <3>. QED  BY <1>1, <2>4, <3>1, <3>2 DEF produces
  <2>6. Placed(s, pen, iff)
    BY <2>1, <2>3, <2>5 DEF SSForward!Issue, SSForward!Place, Placed
  <2>. QED  BY <2>6
<1>3. CASE ~cfg.forwarding
  <2>1. SSPlain!Issue(s, pen)
    BY <1>3 DEF SSIssue
  <2>2. SSPlain!lowerBounds(s.info) = Bounds(s.info)
    BY DEF SSPlain!lowerBounds, SSPlain!earliest, Bounds
  <2>3. PICK iff \in Bounds(s.info) : /\ \A b \in Bounds(s.info) : b <= iff
                                      /\ SSPlain!Place(s.info, pen, iff)
    BY <2>1, <2>2 DEF SSPlain!Issue, SSPlain!Schedule
  <2>4. iff \in Int
    BY <2>3
  <2>5. ss_ready' = [q \in Slot |->
            IF produces(s.info, q) THEN iff + 2 + Latency(cfg.forwarding, {s.info})
            ELSE ss_ready[q]]
    <3>1. ss_ready' = [q \in Slot |->
            IF s.info.sets_flags /\ q = FLAG_REG THEN iff + 5
            ELSE IF q \in s.info.writes THEN iff + 5
            ELSE ss_ready[q]]
      BY <2>3 DEF SSPlain!Place, SSPlain!Slot, SSPlain!FLAG_REG, Slot, FLAG_REG,
                  SSPlain!flagsReady, SSPlain!resultReady
    <3>2. Latency(cfg.forwarding, {s.info}) = 3
      BY <1>3 DEF Latency
    <3>. QED  BY <2>4, <3>1, <3>2 DEF produces
  <2>6. Placed(s, pen, iff)
    BY <2>1, <2>3, <2>5 DEF SSPlain!Issue, SSPlain!Place, Placed
  <2>. QED  BY <2>6
<1>. QED  BY <1>2, <1>3

-----------------------------------------------------------------------------
(* The invariant *)

\* A stall keeps it, ...
LEMMA EqStall ==
    ASSUME EqInv, TypeOK', Stalls
    PROVE  SameStream' /\ LastPlaced' /\ FetchInTime' /\ SlotsTimed'
<1>1. /\ TypeOK /\ NeverWaits /\ SameStream /\ LastPlaced /\ FetchInTime /\ SlotsTimed
      /\ InOrderOnce
  BY DEF EqInv, FlowInv
<1>2. cfg.forwarding \in BOOLEAN /\ cfg' = cfg /\ cycles' = cycles + 1 /\ cycles \in Int
  BY <1>1, NoDcAnswer DEF NeverWaits, Stalls, Quietly, TypeOK
<1>3. /\ Inst(sMEM)' = Inst(sEX) /\ Inst(sEX)' = {}
      /\ Inst(sID)' = Inst(sID) /\ Inst(sIF)' = Inst(sIF)
  BY InstStalls
<1>4. DelayNow' = DelayNow - 1 /\ FetchDelayNow' = FetchDelayNow - 1 /\ DelayNow > 1
  BY <1>2, <1>3, DelayStallID, DelayStallIF DEF Stalls, DelayNow, FetchDelayNow
<1>5. DelayNow \in Int /\ FetchDelayNow \in Int
  BY <1>2, DelayType DEF DelayNow, FetchDelayNow
<1>6. sID # Bubble
  <2>1. sID = Bubble => DelayNow = 1
    BY <1>2, DelayNone DEF DelayNow, Inst
  <2>. QED  BY <1>4, <2>1
<1>7. SameStream'
  BY <1>1 DEF SameStream, Stalls, Quietly, ssVars
<1>8. LastPlaced'
  BY <1>1, <1>2, <1>4, <1>5, <1>6 DEF LastPlaced, ToEX, Stalls, Quietly, ssVars
<1>9. FetchInTime'
  <2>1. ~done => Fetching
    BY <1>1, <1>6 DEF FetchInTime, NothingYet
  <2>. QED  BY <1>6, <2>1 DEF FetchInTime, Fetching, Redirected, Stalls, Quietly, ssVars
<1>10. SlotsTimed'
  <2>1. SUFFICES ASSUME NEW s \in Slot
        PROVE SlotTime(s, cfg.forwarding, Inst(sIF), Inst(sID), {}, Inst(sEX),
                       cycles + 1, ss_ready[s])
    BY <1>2, <1>3 DEF SlotsTimed, Stalls, Quietly, ssVars
  <2>2. SlotTime(s, cfg.forwarding, Inst(sIF), Inst(sID), Inst(sEX),
                            Inst(sMEM), cycles, ss_ready[s])
    BY <1>1 DEF SlotsTimed
  <2>3. ss_ready[s] \in Int
    BY <1>1 DEF SameStream
  <2>. QED  BY <1>2, <1>4, <2>2, <2>3, SlotStall DEF DelayNow
<1>. QED  BY <1>7, <1>8, <1>9, <1>10

\* ... as does a bubble ...
LEMMA EqBubble ==
    ASSUME EqInv, TypeOK', status = "running", Bubbles
    PROVE  SameStream' /\ LastPlaced' /\ FetchInTime' /\ SlotsTimed'
<1>1. /\ TypeOK /\ NeverWaits /\ SameStream /\ LastPlaced /\ FetchInTime /\ SlotsTimed
      /\ InOrderOnce /\ EndInv
  BY DEF EqInv, FlowInv
<1>2. cfg.forwarding \in BOOLEAN /\ cfg' = cfg /\ cycles' = cycles + 1 /\ cycles \in Int
  BY <1>1, NoDcAnswer DEF NeverWaits, Bubbles, Quietly, TypeOK
<1>3. /\ Inst(sMEM)' = Inst(sEX) /\ Inst(sEX)' = Inst(sID)
      /\ Inst(sID)' = Inst(sIF) /\ Inst(sIF)' = {}
  BY InstBubbles
<1>4. DelayNow = 1 /\ DelayNow' = FetchDelayNow - 1
  BY <1>2, <1>3, DelayAdvance DEF Bubbles, Shifts, DelayNow, FetchDelayNow
<1>5. FetchDelayNow \in Int
  BY <1>2, DelayType DEF FetchDelayNow
<1>6. SameStream'
  BY <1>1 DEF SameStream, Bubbles, Quietly, ssVars
<1>7. ASSUME count > 0
      PROVE  sIF # Bubble \/ sID # Bubble \/ sEX # Bubble \/ sMEM # Bubble
  <2>1. CASE ~done
    BY <1>1, <1>7, <2>1 DEF FetchInTime, NothingYet, Fetching, TypeOK
  <2>2. CASE done
    <3>1. ~(retired >= count)
      BY <1>1, <2>2 DEF EndInv
    <3>. QED  BY <1>1, <3>1 DEF InOrderOnce, Occ, NeverWaits, TypeOK
  <2>. QED  BY <2>1, <2>2
<1>8. LastPlaced'
  <2>1. SUFFICES ASSUME count > 0 PROVE ss_last_if + 2 = cycles + 1 + ToEX'
    BY <1>2 DEF LastPlaced, Bubbles, Quietly, ssVars
  <2>2. ss_last_if + 2 = cycles + ToEX
    BY <1>1, <2>1 DEF LastPlaced
  <2>3. ToEX' = ToEX - 1
    BY <1>4, <1>5, <1>7, <2>1 DEF ToEX, Bubbles, Shifts
  <2>4. ToEX \in Int
    BY <1>4, <1>5 DEF ToEX
  <2>. QED  BY <1>2, <2>2, <2>3, <2>4
<1>9. FetchInTime'
  <2>1. SUFFICES ASSUME ~done PROVE Fetching'
    BY DEF FetchInTime, Bubbles, Quietly
  <2>2. ctrl_pending > 0 /\ ctrl_pending' = ctrl_pending - 1
    BY <2>1 DEF Bubbles
  <2>3. Fetching /\ ctrl_pending \in Nat
    BY <1>1, <2>1, <2>2 DEF FetchInTime, NothingYet, TypeOK
  <2>4. UNCHANGED <<count, ssVars>> /\ sEX' = sID /\ sID' = sIF /\ sIF' = Bubble
    BY DEF Bubbles, Quietly, Shifts
  <2>. QED  BY <2>2, <2>3, <2>4 DEF Fetching, Redirected, ssVars
<1>10. SlotsTimed'
  <2>1. SUFFICES ASSUME NEW s \in Slot
        PROVE SlotTime(s, cfg.forwarding, {}, Inst(sIF), Inst(sID), Inst(sEX),
                       cycles + 1, ss_ready[s])
    BY <1>2, <1>3 DEF SlotsTimed, Bubbles, Quietly, ssVars
  <2>2. SlotTime(s, cfg.forwarding, Inst(sIF), Inst(sID), Inst(sEX),
                            Inst(sMEM), cycles, ss_ready[s])
    BY <1>1 DEF SlotsTimed
  <2>3. ss_ready[s] \in Int
    BY <1>1 DEF SameStream
  <2>. QED  BY <1>2, <1>4, <2>2, <2>3, SlotAdvance DEF DelayNow
<1>. QED  BY <1>6, <1>8, <1>9, <1>10

\* ... and a fetch.
LEMMA EqFetch ==
    ASSUME EqInv, TypeOK', NEW s \in CpuSteps, Fetches(s)
    PROVE  SameStream' /\ LastPlaced' /\ FetchInTime' /\ SlotsTimed'
<1>. DEFINE f == cfg.forwarding
            y == DelayIF(f, {s.info}, Inst(sIF), Inst(sID), Inst(sEX))
<1>1. /\ TypeOK /\ NeverWaits /\ SameStream /\ LastPlaced /\ FetchInTime /\ SlotsTimed
      /\ FlowInv
  BY DEF EqInv, FlowInv
<1>2. /\ f \in BOOLEAN /\ cfg' = cfg /\ cycles' = cycles + 1 /\ cycles \in Int
      /\ count \in Nat
  BY <1>1, NoDcAnswer DEF NeverWaits, Fetches, TypeOK
<1>3. /\ Inst(sMEM)' = Inst(sEX) /\ Inst(sEX)' = Inst(sID)
      /\ Inst(sID)' = Inst(sIF) /\ Inst(sIF)' = {s.info}
  BY <1>1, InstFetches
<1>4. DelayNow = 1 /\ FetchDelayNow' = y
  BY <1>2, <1>3 DEF Fetches, Shifts, DelayNow, FetchDelayNow
<1>5. FetchDelayNow \in 2..6 /\ y \in 2..6
  BY <1>2, DelayType DEF FetchDelayNow
<1>6. ReadsOf({s.info}) = s.info.reads /\ s.info.reads \subseteq Slot
  BY CpuStepsType DEF ReadsOf, InstInfo
<1>7. ~done /\ count' = count + 1 /\ done' = (s.halts \/ count + 1 >= GenLimit)
  BY DEF Fetches, gen_one
<1>8. \A q \in Slot : ss_ready[q] \in Int
  BY <1>1 DEF SameStream
<1>9. PICK iff : Placed(s, ctrl_pending', iff)
  <2>1. \A b \in Bounds(s.info) : b \in Int
    BY <1>1, <1>6, <1>8 DEF Bounds, SameStream
  <2>. QED  BY <1>2, <2>1, IssuePlaces DEF Fetches
<1>10. iff + 2 = cycles + 1 + y /\ iff \in Int /\ ss_fetch_block <= iff
  <2>. DEFINE x == FetchDelayNow
              first == IF ss_count = 0 THEN 1
                       ELSE IF ss_cur_count < 1 THEN ss_cur_if ELSE ss_cur_if + 1
  <2>1. /\ \A q \in s.info.reads : ss_ready[q] <= cycles + 1 + y
        /\ y = x \/ \E q \in s.info.reads : ss_ready[q] = cycles + 1 + y
        /\ y >= x
    <3>1. PICK new, fet, id, ex, mem, now, ready :
            /\ new = {s.info} /\ fet = Inst(sIF) /\ id = Inst(sID)
            /\ ex = Inst(sEX) /\ mem = Inst(sMEM) /\ now = cycles /\ ready = ss_ready
      OBVIOUS
    <3>2. DelayID(f, id, ex, mem) = 1
      BY <1>4, <3>1 DEF DelayNow
    <3>3. \A q \in ReadsOf(new) :
            ready[q] \in Int /\ SlotTime(q, f, fet, id, ex, mem, now, ready[q])
      BY <1>1, <1>6, <1>8, <3>1 DEF SlotsTimed
    <3>4. /\ \A q \in ReadsOf(new) : ready[q] <= now + 1 + DelayIF(f, new, fet, id, ex)
          /\ \/ DelayIF(f, new, fet, id, ex) = DelayIF(f, fet, id, ex, mem)
             \/ \E q \in ReadsOf(new) : ready[q] = now + 1 + DelayIF(f, new, fet, id, ex)
          /\ DelayIF(f, new, fet, id, ex) >= DelayIF(f, fet, id, ex, mem)
      <4>1. now \in Int
        BY <1>2, <3>1
      <4>. HIDE DEF f
      <4>. QED  BY <1>2, <3>2, <3>3, <4>1, FetchTime
    <3>. QED  BY <1>6, <3>1, <3>4 DEF FetchDelayNow
  <2>2. sIF = Bubble => x = 2
    <3>1. Inst(sIF) = {} => DelayIF(f, Inst(sIF), Inst(sID), Inst(sEX), Inst(sMEM)) = 2
      BY <1>2, <1>4, DelayFetchNone DEF DelayNow
    <3>. QED  BY <3>1 DEF Inst, FetchDelayNow
  <2>3. /\ Bounds(s.info) = {first, ss_fetch_block} \cup {ss_ready[q] - 2 : q \in s.info.reads}
        /\ iff \in Bounds(s.info) /\ \A b \in Bounds(s.info) : b <= iff
    BY <1>9 DEF Bounds, Placed
  <2>4. /\ first \in Int /\ ss_fetch_block \in Int
        /\ \/ first + 2 = cycles + 1 + x /\ ss_fetch_block <= first
           \/ ss_fetch_block + 2 = cycles + 1 + x /\ first <= ss_fetch_block
    <3>1. /\ ss_fetch_block \in Int /\ ss_last_if \in Int
          /\ ss_count = count /\ ss_cur_if = ss_last_if
          /\ ss_cur_count = (IF count = 0 THEN 0 ELSE 1)
      BY <1>1 DEF SameStream
    <3>2. CASE NothingYet
      BY <2>2, <3>1, <3>2 DEF NothingYet
    <3>3. CASE Fetching
      <4>1. first = ss_last_if + 1 /\ count > 0
        BY <3>1, <3>3, <1>2 DEF Fetching
      <4>2. ss_last_if + 2 = cycles + ToEX
        BY <1>1, <4>1 DEF LastPlaced
      <4>. HIDE DEF first
      <4>3. CASE sIF # Bubble /\ ss_fetch_block <= ss_last_if
        BY <1>2, <1>5, <3>1, <4>1, <4>2, <4>3 DEF ToEX
      <4>4. CASE sIF = Bubble /\ sID = Bubble /\ sEX # Bubble /\ Redirected
        BY <1>2, <1>5, <2>2, <3>1, <4>1, <4>2, <4>4 DEF ToEX, Redirected
      <4>. QED  BY <3>3, <4>3, <4>4 DEF Fetching, Fetches
    <3>. QED  BY <1>1, <1>7, <3>2, <3>3 DEF FetchInTime
  <2>5. x \in Int /\ y \in Int /\ cycles \in Int
    BY <1>2, <1>5
  <2>6. \A q \in s.info.reads : ss_ready[q] \in Int
    BY <1>6, <1>8
  <2>. HIDE DEF x, y, first
  <2>7. iff \in Int /\ first <= iff /\ ss_fetch_block <= iff
    BY <2>3, <2>4, <2>6
  <2>8. \A q \in s.info.reads : ss_ready[q] <= iff + 2
    BY <2>3, <2>6, <2>7
  <2>9. iff + 2 <= cycles + 1 + y
    BY <2>1, <2>3, <2>4, <2>5, <2>6, <2>7
  <2>10. iff + 2 >= cycles + 1 + y
    BY <2>1, <2>4, <2>5, <2>7, <2>8
  <2>. QED  BY <2>5, <2>7, <2>9, <2>10
<1>11. SameStream'
  <2>1. Latency(f, {s.info}) \in Int
    BY DEF Latency
  <2>2. ss_ready' \in [Slot -> Int]
    BY <1>8, <1>9, <1>10, <2>1 DEF Placed
  <2>3. ss_cur_if' = iff /\ ss_cur_count' = 1 /\ ss_last_if' = iff
    BY <1>1, <1>9 DEF Placed, SameStream
  <2>4. ss_fetch_block' \in Int
    BY <1>1, <1>9, <1>10 DEF Placed, SameStream, Fetches
  <2>5. ss_count' = count' /\ ss_done' = done'
    BY <1>1, <1>7, <1>9 DEF Placed, SameStream
  <2>. QED  BY <1>2, <1>7, <1>10, <2>2, <2>3, <2>4, <2>5 DEF SameStream
<1>12. sIF' # Bubble
  BY <1>2 DEF Fetches, Bubble
<1>13. LastPlaced'
  <2>1. ToEX' = y
    BY <1>4, <1>12 DEF ToEX
  <2>2. ss_last_if' = iff
    BY <1>9 DEF Placed
  <2>. HIDE DEF y
  <2>. QED  BY <1>2, <1>10, <2>1, <2>2 DEF LastPlaced
<1>14. FetchInTime'
  <2>1. ss_last_if' = iff /\ count' > 0
    BY <1>2, <1>7, <1>9 DEF Placed
  <2>2. CASE ctrl_pending' = 0
    <3>1. ss_fetch_block' = ss_fetch_block
      BY <1>9, <2>2 DEF Placed
    <3>. QED  BY <1>10, <1>12, <2>1, <2>2, <3>1 DEF FetchInTime, Fetching
  <2>3. CASE ctrl_pending' = 2
    <3>1. ss_fetch_block' = iff + 3
      BY <1>9, <1>10, <2>3 DEF Placed
    <3>. QED  BY <1>12, <2>1, <2>3, <3>1 DEF FetchInTime, Fetching, Redirected
  <2>. QED  BY <2>2, <2>3 DEF Fetches
<1>15. SlotsTimed'
  <2>1. SUFFICES ASSUME NEW q \in Slot
        PROVE SlotTime(q, f, {s.info}, Inst(sIF), Inst(sID), Inst(sEX),
                       cycles + 1, ss_ready'[q])
    BY <1>2, <1>3 DEF SlotsTimed
  <2>2. ss_ready'[q] = IF produces(s.info, q) THEN iff + 2 + Latency(f, {s.info})
                       ELSE ss_ready[q]
    BY <1>9 DEF Placed
  <2>3. Wait(f, {s.info}, {q}) = IF produces(s.info, q) THEN Latency(f, {s.info}) ELSE 0
    BY DEF Wait, Feeds
  <2>4. Latency(f, {s.info}) \in 1..3
    BY DEF Latency
  <2>5. CASE produces(s.info, q)
    <3>1. Wait(f, {s.info}, {q}) = Latency(f, {s.info}) /\ Wait(f, {s.info}, {q}) > 0
      BY <2>3, <2>4, <2>5
    <3>2. ss_ready'[q] = cycles + 1 + y + Wait(f, {s.info}, {q})
      <4>. HIDE DEF y
      <4>. QED  BY <1>10, <2>2, <2>5, <3>1
    <3>3. ss_ready'[q] \in Int
      BY <1>10, <2>2, <2>4, <2>5
    <3>. QED  BY <1>2, <3>1, <3>2, <3>3, SlotProduced
  <2>6. CASE ~produces(s.info, q)
    <3>1. SlotTime(q, f, Inst(sIF), Inst(sID), Inst(sEX), Inst(sMEM), cycles, ss_ready[q])
      BY <1>1 DEF SlotsTimed
    <3>. QED  BY <1>2, <1>4, <1>8, <2>2, <2>3, <2>6, <3>1, SlotFetched DEF DelayNow
  <2>. QED  BY <2>5, <2>6
<1>. QED  BY <1>11, <1>13, <1>14, <1>15

\* EqInv is kept by every step ...
LEMMA EqStep == ASSUME EqInv, [EqNext]_<<vars, ssVars>> PROVE EqInv'
<1>1. FlowInv /\ EndInv /\ TypeOK /\ NeverWaits
  BY DEF EqInv, FlowInv
<1>2. FlowInv' /\ EndInv' /\ TypeOK'
  BY <1>1, EqIsStep, FlowStep, EndStep DEF FlowInv
<1>3. CASE EqNext /\ status = "running"
  <2>1. /\ Stalls \/ Bubbles \/ \E s \in CpuSteps : Fetches(s)
        /\ NeverWaits'
    BY <1>1, <1>3, EqCases
  <2>2. SameStream' /\ LastPlaced' /\ FetchInTime' /\ SlotsTimed'
    BY <1>2, <1>3, <2>1, EqStall, EqBubble, EqFetch
  <2>. QED  BY <1>2, <2>1, <2>2 DEF EqInv
<1>4. CASE UNCHANGED <<vars, ssVars>>
  BY <1>2, <1>4
  DEF EqInv, vars, genVars, redirectVars, ssVars, NeverWaits, SameStream, LastPlaced, ToEX,
      DelayNow, FetchDelayNow, Inst, gen_at, RingSlot, FetchInTime, NothingYet,
      Fetching, Redirected, SlotsTimed
<1>5. EqNext /\ status # "running" => UNCHANGED <<vars, ssVars>>
  BY DEF EqNext, EqFrontEnd, FetchBoth, Fetch, DataStall, ControlBubble, Drain, Tick,
         Returned
<1>. QED  BY <1>3, <1>4, <1>5

\* ... and holds initially.
LEMMA EqStart == ASSUME EqInit PROVE EqInv
<1>1. Init /\ SSForward!Init /\ cfg \in NoCacheConfigs
  BY DEF EqInit
<1>2. FlowInv /\ EndInv
  BY <1>1, FlowInit DEF Init, EndInv
<1>3. NeverWaits
  BY <1>1 DEF Init, NeverWaits
<1>4. SameStream
  <2>1. ss_ready = [s \in Slot |-> 0]
    BY <1>1 DEF SSForward!Init, SSForward!Slot, SSForward!FLAG_REG, Slot, FLAG_REG
  <2>2. ss_ready \in [Slot -> Int]
    BY <2>1
  <2>3. ss_done = done
    BY <1>1 DEF Init, SSForward!Init
  <2>4. /\ ss_count = count /\ ss_cur_if = ss_last_if /\ ss_cur_count = 0 /\ count = 0
        /\ ss_last_if \in Int /\ ss_fetch_block \in Int
    BY <1>1 DEF Init, SSForward!Init
  <2>. QED  BY <2>2, <2>3, <2>4 DEF SameStream
<1>5. LastPlaced /\ FetchInTime
  BY <1>1 DEF Init, SSForward!Init, SSForward!Slot, SSForward!FLAG_REG, Slot, FLAG_REG,
              LastPlaced, FetchInTime, NothingYet
<1>6. SlotsTimed
  <2>1. SUFFICES ASSUME NEW s \in Slot
        PROVE  SlotTime(s, cfg.forwarding, {}, {}, {}, {}, 0, 0)
    BY <1>1 DEF SlotsTimed, Init, SSForward!Init, SSForward!Slot,
                SSForward!FLAG_REG, Slot, FLAG_REG, Inst
  <2>2. cfg.forwarding \in BOOLEAN
    BY <1>1, NoDcAnswer
  <2>3. Wait(cfg.forwarding, {}, {s}) = 0
    BY <2>2, WaitFacts
  <2>. QED  BY <2>3 DEF SlotTime
<1>. QED  BY <1>2, <1>3, <1>4, <1>5, <1>6 DEF EqInv

\* pipe_run_ss with width 1 reports, without caches, exactly the cycles of
\* pipe_run, for every program, predictor answer and forwarding setting: the
\* closed-form schedule is what the latches discover stall by stall.
THEOREM SchedulersAgree == EqSpec => []WidthOneIsScalar
<1>1. EqInv => WidthOneIsScalar
  <2>1. SUFFICES ASSUME EqInv, status = "finished"
                 PROVE  cycles = SSForward!Cycles
    BY DEF WidthOneIsScalar
  <2>2. /\ TypeOK /\ InOrderOnce /\ EndInv /\ NeverWaits /\ LastPlaced /\ SameStream
    BY <2>1 DEF EqInv, FlowInv
  <2>3. done /\ retired >= count /\ count >= 1
    BY <2>1, <2>2 DEF EndInv
  <2>4. sIF = Bubble /\ sID = Bubble /\ sEX = Bubble /\ sMEM = Bubble
    BY <2>2, <2>3 DEF TypeOK, InOrderOnce, Occ, Latch, Bubble
  <2>5. ss_last_if + 2 = cycles - 2 /\ ss_count > 0 /\ cycles \in Int /\ ss_last_if \in Int
    BY <2>2, <2>3, <2>4 DEF LastPlaced, ToEX, SameStream, TypeOK
  <2>. QED  BY <2>5 DEF SSForward!Cycles
<1>. QED  BY <1>1, EqStart, EqStep, PTL DEF EqSpec
=============================================================================
