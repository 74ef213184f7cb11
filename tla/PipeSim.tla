------------------------------ MODULE PipeSim ------------------------------
(***************************************************************************)
(* pipe_run (pipe_sim.c): the five-stage pipeline advanced one cycle at a  *)
(* time over the instruction stream of the reference CPU.                  *)
(*                                                                         *)
(* One step is one iteration of the while loop, and there is one action    *)
(* for each path through its body.  The instruction stream, the answers of *)
(* the caches and those of the branch predictor are chosen                 *)
(* nondeterministically: every theorem and invariant below therefore holds *)
(* for every program, cache organisation and predictor.  Modules Cache and *)
(* BranchPred model the two components that give the answers.              *)
(*                                                                         *)
(* The local `next' of pipe_run is left out: gen_ensure(&g, next) produces *)
(* exactly instruction `next', so next = g.count at the head of the loop.  *)
(* WB is local to an iteration: the old contents of MEM.                   *)
(***************************************************************************)
EXTENDS Isa, Naturals

CONSTANTS
    Configs,             \* the configurations cfg is taken from
    WinCap,              \* WIN_CAP, 32 in the code
    GenLimit             \* GEN_LIMIT, 50000000 in the code

\* PipeConfig: bp is cfg.bp # BP_NONE; the caches are their enabled flags and
\* latencies.
PipeConfig == [forwarding: BOOLEAN, bp: BOOLEAN,
               icache: BOOLEAN, dcache: BOOLEAN, l2: BOOLEAN,
               ic_miss: Nat, dc_miss: Nat, l2_hit: Nat, l2_miss: Nat]

ASSUME ConfigsAssumption == Configs \subseteq PipeConfig
\* Three latches behind fetch plus the instruction being fetched.
ASSUME WinCapAssumption == WinCap \in Nat /\ WinCap >= 4
ASSUME GenLimitAssumption == GenLimit \in Nat /\ GenLimit >= 1

\* An empty latch; -1 in the code.
Bubble == -1

VARIABLES
    cfg,                       \* the argument of pipe_run
    count, done, win,          \* Gen: instructions produced, end, ring buffer
    sIF, sID, sEX, sMEM,       \* the latches: an instruction index or Bubble
    retired,
    pending_fetch,             \* instruction waiting for its I-cache miss
    ctrl_pending,              \* redirect bubbles still to insert
    fetch_stall,               \* cycles of I-cache miss left; may be -1
    mem_stall,                 \* cycles of D-cache miss left
    cycles, data_stalls, control_stalls, mem_stalls, cond_branches,
    ic_accesses, ic_misses, dc_accesses, dc_misses, l2_accesses, l2_misses,
    status,                    \* how the loop stands, or ended
    gen_mem, gen_cond,         \* history: memory and conditional instructions
    redirects                  \* history: penalties control_penalty returned

genVars == <<count, done, win, gen_mem, gen_cond>>
icVars == <<ic_accesses, ic_misses>>
redirectVars == <<ctrl_pending, control_stalls, cond_branches, redirects>>
vars == <<cfg, genVars, sIF, sID, sEX, sMEM, retired, pending_fetch,
          fetch_stall, mem_stall, cycles, data_stalls, mem_stalls, icVars, redirectVars,
          dc_accesses, dc_misses, l2_accesses, l2_misses, status>>

-----------------------------------------------------------------------------
(* The generator's ring buffer *)

\* Mutant: a mask one entry short.
RingSlotShort(k) == k % (WinCap - 1)

\* win[k & WIN_MASK].  The idx field is history: which instruction was
\* written there last, so that a stale slot is visible.
RingSlot(k) == k % WinCap

gen_at(k) == win[RingSlot(k)].d

NoInst == decode_meta("NOP", 0, 0, FALSE)

\* gen_one: one step of the reference CPU, recorded in the ring.
gen_one(s) ==
    /\ ~done
    /\ win' = [win EXCEPT ![RingSlot(count)] = [idx |-> count, d |-> s.info]]
    /\ count' = count + 1
    /\ done' = (s.halts \/ count + 1 >= GenLimit)
    /\ gen_mem' = gen_mem + (IF s.info.accesses_mem THEN 1 ELSE 0)
    /\ gen_cond' = gen_cond + (IF s.info.is_conditional THEN 1 ELSE 0)

-----------------------------------------------------------------------------
(* Hazard detection *)

\* Mutant: without forwarding, only EX is compared.
needs_stallExOnly ==
    /\ sID # Bubble /\ sEX # Bubble
    /\ cfg.forwarding => gen_at(sEX).is_load
    /\ \E s \in gen_at(sID).reads : produces(gen_at(sEX), s)

\* Must the instruction in ID wait for EX or MEM?
needs_stall ==
    /\ sID # Bubble
    /\ \E s \in gen_at(sID).reads :
         IF cfg.forwarding
         THEN /\ sEX # Bubble
              /\ gen_at(sEX).is_load
              /\ produces(gen_at(sEX), s)
         ELSE \/ sEX # Bubble /\ produces(gen_at(sEX), s)
              \/ sMEM # Bubble /\ produces(gen_at(sMEM), s)

-----------------------------------------------------------------------------
(* Caches: an answer says which counters an access moves and what it costs *)

Answer == [acc: 0..1, miss: 0..1, pen: Nat, l2acc: 0..1, l2miss: 0..1]

NoAccess == [acc |-> 0, miss |-> 0, pen |-> 0, l2acc |-> 0, l2miss |-> 0]
CacheHit == [NoAccess EXCEPT !.acc = 1]
L1Miss(pen) == [acc |-> 1, miss |-> 1, pen |-> pen, l2acc |-> 0, l2miss |-> 0]

\* An L1 miss costs the L1's penalty, or what the unified L2 answers.
Misses(l1pen) ==
    IF cfg.l2
    THEN { [L1Miss(cfg.l2_hit) EXCEPT !.l2acc = 1],
           [L1Miss(cfg.l2_miss) EXCEPT !.l2acc = 1, !.l2miss = 1] }
    ELSE { L1Miss(l1pen) }

\* Mutant: a stalled cycle skips the access of the instruction entering MEM.
DcAnswersSkipOnStall ==
    IF cfg.dcache /\ sEX # Bubble /\ ~needs_stall /\ gen_at(sEX).accesses_mem
    THEN {CacheHit} \cup Misses(cfg.dc_miss) ELSE {NoAccess}

\* The D-cache is accessed when a memory instruction enters MEM.
DcAnswers ==
    IF cfg.dcache /\ sEX # Bubble /\ gen_at(sEX).accesses_mem
    THEN {CacheHit} \cup Misses(cfg.dc_miss) ELSE {NoAccess}

\* The I-cache is accessed when an instruction is first fetched.
IcHits == IF cfg.icache THEN {CacheHit} ELSE {NoAccess}
IcMisses == IF cfg.icache THEN Misses(cfg.ic_miss) ELSE {}

-----------------------------------------------------------------------------
(* Control penalty *)

\* The tail of both fetch paths: an instruction entering IF pays its control
\* penalty, and a conditional one is predicted and counted.
Redirect(d) ==
    IF d.is_control \/ d.taken_control
    THEN \E pen \in control_penalty(cfg.bp, d) :
           /\ ctrl_pending' = pen
           /\ redirects' = redirects + (IF pen > 0 THEN 1 ELSE 0)
           /\ cond_branches' = cond_branches +
                (IF cfg.bp /\ d.is_conditional THEN 1 ELSE 0)
           /\ UNCHANGED control_stalls
    ELSE UNCHANGED redirectVars

-----------------------------------------------------------------------------
(* One iteration of the loop *)

\* Mutant: the bound forgets the D-cache.
per_inst_icache_only == 20 + cfg.ic_miss

per_inst == 20 + cfg.ic_miss + cfg.dc_miss

\* Mutant: a bound without slack for the pipe to fill.
boundNoSlack == count * per_inst

bound == (count + 16) * per_inst + 64

\* The loop's head and its safety net: count a cycle, then leave the loop when
\* everything produced has retired or the cycle bound is exceeded.
Tick ==
    /\ status = "running"
    /\ UNCHANGED cfg
    /\ cycles' = cycles + 1
    /\ status' = IF done' /\ retired' >= count' THEN "finished"
                 ELSE IF cycles + 1 > bound THEN "aborted" ELSE "running"

\* Lines common to every iteration that does not hold: EX moves to MEM, where
\* it may miss in the D-cache; the old MEM is written back and retires.
BackEnd(dc, ic) ==
    /\ mem_stall <= 0
    /\ sMEM' = sEX
    /\ retired' = IF sMEM # Bubble THEN retired + 1 ELSE retired
    /\ dc_accesses' = dc_accesses + dc.acc
    /\ dc_misses' = dc_misses + dc.miss
    /\ mem_stall' = IF dc.miss = 1 THEN dc.pen ELSE mem_stall
    /\ l2_accesses' = l2_accesses + dc.l2acc + ic.l2acc
    /\ l2_misses' = l2_misses + dc.l2miss + ic.l2miss

\* ID moves to EX and IF to ID, with what enters IF.
Advance(fetched) ==
    /\ ~needs_stall
    /\ sEX' = sID
    /\ sID' = sIF
    /\ sIF' = fetched
    /\ UNCHANGED data_stalls

\* Mutant: holds one cycle too long, running the counter below zero.
HoldOneMore ==
    /\ mem_stall >= 0
    /\ mem_stall' = mem_stall - 1
    /\ mem_stalls' = mem_stalls + 1
    /\ UNCHANGED <<genVars, sIF, sID, sEX, sMEM, retired, pending_fetch,
                   fetch_stall, data_stalls, icVars, redirectVars,
                   dc_accesses, dc_misses, l2_accesses, l2_misses>>
    /\ Tick

\* A D-cache miss holds the whole pipe.
Hold ==
    /\ mem_stall > 0
    /\ mem_stall' = mem_stall - 1
    /\ mem_stalls' = mem_stalls + 1
    /\ UNCHANGED <<genVars, sIF, sID, sEX, sMEM, retired, pending_fetch,
                   fetch_stall, data_stalls, icVars, redirectVars,
                   dc_accesses, dc_misses, l2_accesses, l2_misses>>
    /\ Tick

\* Mutant: a stall does not clear EX.
DataStallNoBubble(dc) ==
    /\ needs_stall
    /\ BackEnd(dc, NoAccess)
    /\ data_stalls' = data_stalls + 1
    /\ UNCHANGED <<genVars, sIF, sID, sEX, pending_fetch, fetch_stall,
                   mem_stalls, icVars, redirectVars>>
    /\ Tick

\* Mutant: a stall in the cycle of a D-cache miss is charged to the miss only.
DataStallUncounted(dc) ==
    /\ needs_stall
    /\ BackEnd(dc, NoAccess)
    /\ sEX' = Bubble
    /\ data_stalls' = IF dc.miss = 1 THEN data_stalls ELSE data_stalls + 1
    /\ UNCHANGED <<genVars, sIF, sID, pending_fetch, fetch_stall, mem_stalls,
                   icVars, redirectVars>>
    /\ Tick

DataStall(dc) ==
    /\ needs_stall
    /\ BackEnd(dc, NoAccess)
    /\ sEX' = Bubble
    /\ data_stalls' = data_stalls + 1
    /\ UNCHANGED <<genVars, sIF, sID, pending_fetch, fetch_stall, mem_stalls,
                   icVars, redirectVars>>
    /\ Tick

\* Mutant: one bubble clears the whole redirect.
ControlBubbleClears(dc) ==
    /\ ctrl_pending > 0
    /\ BackEnd(dc, NoAccess)
    /\ Advance(Bubble)
    /\ ctrl_pending' = 0
    /\ control_stalls' = control_stalls + 1
    /\ UNCHANGED <<genVars, pending_fetch, fetch_stall, mem_stalls, icVars,
                   cond_branches, redirects>>
    /\ Tick

ControlBubble(dc) ==
    /\ ctrl_pending > 0
    /\ BackEnd(dc, NoAccess)
    /\ Advance(Bubble)
    /\ ctrl_pending' = ctrl_pending - 1
    /\ control_stalls' = control_stalls + 1
    /\ UNCHANGED <<genVars, pending_fetch, fetch_stall, mem_stalls, icVars,
                   cond_branches, redirects>>
    /\ Tick

\* The I-cache miss of the pending instruction is still being served.
FetchWait(dc) ==
    /\ ctrl_pending <= 0 /\ fetch_stall > 0
    /\ BackEnd(dc, NoAccess)
    /\ Advance(Bubble)
    /\ fetch_stall' = fetch_stall - 1
    /\ mem_stalls' = mem_stalls + 1
    /\ UNCHANGED <<genVars, pending_fetch, icVars, redirectVars>>
    /\ Tick

\* The instruction whose I-cache miss has been served enters IF.
FetchResume(dc) ==
    /\ ctrl_pending <= 0 /\ fetch_stall <= 0 /\ pending_fetch # Bubble
    /\ BackEnd(dc, NoAccess)
    /\ Advance(pending_fetch)
    /\ pending_fetch' = Bubble
    /\ Redirect(gen_at(pending_fetch))
    /\ UNCHANGED <<genVars, fetch_stall, mem_stalls, icVars>>
    /\ Tick

MayGenerate == ctrl_pending <= 0 /\ fetch_stall <= 0 /\ pending_fetch = Bubble

\* The next instruction is produced and enters IF at once.
Fetch(dc, s) ==
    /\ MayGenerate
    /\ gen_one(s)
    /\ \E ic \in IcHits :
         /\ BackEnd(dc, ic)
         /\ ic_accesses' = ic_accesses + ic.acc
    /\ Advance(count)
    /\ Redirect(s.info)
    /\ UNCHANGED <<pending_fetch, fetch_stall, mem_stalls, ic_misses>>
    /\ Tick

\* Mutant: the cycle that discovers the miss is not part of its penalty.
FetchMissOneMore(dc, s) ==
    /\ MayGenerate
    /\ gen_one(s)
    /\ \E ic \in IcMisses :
         /\ BackEnd(dc, ic)
         /\ ic_accesses' = ic_accesses + ic.acc
         /\ fetch_stall' = ic.pen
    /\ ic_misses' = ic_misses + 1
    /\ Advance(Bubble)
    /\ pending_fetch' = count
    /\ mem_stalls' = mem_stalls + 1
    /\ UNCHANGED redirectVars
    /\ Tick

\* The next instruction is produced and misses in the I-cache.
FetchMiss(dc, s) ==
    /\ MayGenerate
    /\ gen_one(s)
    /\ \E ic \in IcMisses :
         /\ BackEnd(dc, ic)
         /\ ic_accesses' = ic_accesses + ic.acc
         /\ fetch_stall' = ic.pen - 1
    /\ ic_misses' = ic_misses + 1
    /\ Advance(Bubble)
    /\ pending_fetch' = count
    /\ mem_stalls' = mem_stalls + 1
    /\ UNCHANGED redirectVars
    /\ Tick

\* Nothing left to produce: the pipe drains.
Drain(dc) ==
    /\ MayGenerate /\ done
    /\ BackEnd(dc, NoAccess)
    /\ Advance(Bubble)
    /\ UNCHANGED <<genVars, pending_fetch, fetch_stall, mem_stalls, icVars,
                   redirectVars>>
    /\ Tick

\* Producing an instruction may touch an address outside memory: check_bounds
\* then ends the process, with no statistics reported.
MemoryFault ==
    /\ status = "running" /\ mem_stall <= 0 /\ ~needs_stall
    /\ MayGenerate /\ ~done
    /\ status' = "exited"
    /\ UNCHANGED <<cfg, genVars, sIF, sID, sEX, sMEM, retired, pending_fetch,
                   fetch_stall, mem_stall, cycles, data_stalls, mem_stalls,
                   icVars, redirectVars, dc_accesses, dc_misses, l2_accesses,
                   l2_misses>>

\* pipe_run has returned.
Returned == status # "running" /\ UNCHANGED vars

Init ==
    /\ cfg \in Configs
    /\ count = 0 /\ done = FALSE
    /\ win = [k \in 0..WinCap-1 |-> [idx |-> -1, d |-> NoInst]]
    /\ sIF = Bubble /\ sID = Bubble /\ sEX = Bubble /\ sMEM = Bubble
    /\ retired = 0 /\ pending_fetch = Bubble
    /\ ctrl_pending = 0 /\ fetch_stall = 0 /\ mem_stall = 0
    /\ cycles = 0 /\ data_stalls = 0 /\ control_stalls = 0 /\ mem_stalls = 0
    /\ cond_branches = 0
    /\ ic_accesses = 0 /\ ic_misses = 0 /\ dc_accesses = 0 /\ dc_misses = 0
    /\ l2_accesses = 0 /\ l2_misses = 0
    /\ status = "running"
    /\ gen_mem = 0 /\ gen_cond = 0 /\ redirects = 0

FrontEnd(dc) ==
    \/ DataStall(dc)
    \/ ControlBubble(dc)
    \/ FetchWait(dc)
    \/ FetchResume(dc)
    \/ \E s \in CpuSteps : Fetch(dc, s) \/ FetchMiss(dc, s)
    \/ Drain(dc)

Iterate == Hold \/ \E dc \in DcAnswers : FrontEnd(dc)

Next == Iterate \/ MemoryFault \/ Returned

Spec == Init /\ [][Next]_vars

\* The loop is sequential code: it keeps iterating.
FairSpec == Spec /\ WF_vars(Iterate)

-----------------------------------------------------------------------------
(* Properties *)

Entry == [idx: Int, d: InstInfo]
Latch == Nat \cup {Bubble}

\* Counters are naturals, latches are indices or bubbles, the redirect counter
\* never exceeds the penalty, the D-cache counter never goes below 0 and the
\* I-cache counter of pipe_run never below -1.
TypeOK ==
    /\ cfg \in PipeConfig
    /\ count \in Nat /\ done \in BOOLEAN
    /\ win \in [0..WinCap-1 -> Entry]
    /\ sIF \in Latch /\ sID \in Latch /\ sEX \in Latch /\ sMEM \in Latch
    /\ retired \in Nat /\ pending_fetch \in Latch
    /\ ctrl_pending \in 0..CONTROL_PENALTY
    /\ fetch_stall \in Nat \cup {-1} /\ mem_stall \in Nat
    /\ cycles \in Nat /\ data_stalls \in Nat /\ control_stalls \in Nat
    /\ mem_stalls \in Nat /\ cond_branches \in Nat
    /\ ic_accesses \in Nat /\ ic_misses \in Nat
    /\ dc_accesses \in Nat /\ dc_misses \in Nat
    /\ l2_accesses \in Nat /\ l2_misses \in Nat
    /\ status \in {"running", "finished", "aborted", "exited"}
    /\ gen_mem \in Nat /\ gen_cond \in Nat /\ redirects \in Nat

\* 1 for an occupied latch, 0 for a bubble.
Occ(latch) == IF latch # Bubble THEN 1 ELSE 0

\* Across bubbles, stalls, holds and I-cache misses, the instructions in
\* flight are exactly those produced and not retired, each in one place and in
\* program order from MEM back to IF and the pending fetch: pipe_run loses,
\* repeats and reorders none.
InOrderOnce ==
    LET behindMEM == retired + Occ(sMEM)
        behindEX == behindMEM + Occ(sEX)
        behindID == behindEX + Occ(sID)
        behindIF == behindID + Occ(sIF)
    IN  /\ sMEM \in {Bubble, retired}
        /\ sEX \in {Bubble, behindMEM}
        /\ sID \in {Bubble, behindEX}
        /\ sIF \in {Bubble, behindID}
        /\ pending_fetch \in {Bubble, behindIF}
        /\ count = behindIF + Occ(pending_fetch)

\* The ring buffer still holds every instruction in flight: whatever
\* needs_stall, the cache accesses and control_penalty read through gen_at is
\* the instruction they ask for, never one that overwrote it nor an
\* uninitialised entry ("WIN_CAP >> max instructions in flight").
RingLive == \A k \in retired..count-1 : win[RingSlot(k)].idx = k

\* Every cycle of a finished run is accounted for: one per instruction, four
\* to drain the pipe, and the three stall counters pipe_run reports, with
\* overlapping stalls counted once.  (When GEN_LIMIT cuts the program off at a
\* redirecting instruction its bubbles overlap the drain instead.)
CycleBreakdown ==
    status = "finished" /\ ~gen_at(count - 1).is_control =>
        cycles = count + 4 + data_stalls + control_stalls + mem_stalls

AtLeast(n, m) == IF m > n THEN m ELSE n

\* No cycle of a miss is lost or charged twice when a D-cache hold, an I-cache
\* wait, data stalls and redirect bubbles overlap: mem_stalls plus what is
\* still outstanding is what the misses counted so far cost.  An I-cache miss
\* costs at least the cycle that discovers it, so behind an L2 the statement
\* is about latencies of at least one cycle.
MissAccounting ==
    (cfg.l2 => cfg.l2_hit >= 1 /\ cfg.l2_miss >= 1) =>
    mem_stalls + mem_stall + AtLeast(0, fetch_stall) =
        IF cfg.l2
        THEN (l2_accesses - l2_misses) * cfg.l2_hit + l2_misses * cfg.l2_miss
        ELSE dc_misses * cfg.dc_miss + ic_misses * AtLeast(1, cfg.ic_miss)

\* Every redirect inserts exactly its two bubbles, however data stalls, holds
\* and fetch waits delay them.
RedirectAccounting ==
    control_stalls + ctrl_pending = CONTROL_PENALTY * redirects

MemOp(latch) == latch # Bubble /\ gen_at(latch).accesses_mem
CondOp(latch) == latch # Bubble /\ gen_at(latch).is_conditional
Ind(b) == IF b THEN 1 ELSE 0

\* An instruction that stalls in a latch, holds behind a miss or comes back
\* from an I-cache miss is presented once to the D-cache and once to the
\* predictor: the accesses made and those still ahead of the instructions in
\* flight are the memory (conditional) instructions produced.
OncePerInstruction ==
    /\ cfg.dcache => dc_accesses + Ind(MemOp(pending_fetch)) + Ind(MemOp(sIF))
                   + Ind(MemOp(sID)) + Ind(MemOp(sEX)) = gen_mem
    /\ cfg.bp => cond_branches + Ind(CondOp(pending_fetch)) = gen_cond

\* The safety net fires on no healthy run: as long as the L2, if there is one,
\* is no slower than the L1 penalties the cycle bound is computed from, no run
\* is cut short by it.
SafetyNetQuiet ==
    (cfg.l2 => \A lat \in {cfg.l2_hit, cfg.l2_miss} :
                   lat <= cfg.ic_miss /\ lat <= cfg.dc_miss)
        => status # "aborted"

\* When pipe_run returns, the reference CPU has run to its end (a halt, or the
\* generator's limit) and every instruction has retired, so the architectural
\* state reported is that of a plain run of cpu.c.
RunsToHalt ==
    status \in {"finished", "aborted"} => done /\ retired = count

\* pipe_run returns with every produced instruction retired, unless the
\* program itself faults.
Termination == <>(status \in {"finished", "exited"})
=============================================================================
