--------------------------- MODULE DebuggerProofs ---------------------------
(***************************************************************************)
(* Proofs about the debugger, for every program, machine, table size and   *)
(* sequence of commands: do_continue stops where it should and says why    *)
(* (StopsAtBreakpoints), and the program cannot tell that it is debugged   *)
(* (SameRun).                                                              *)
(***************************************************************************)
EXTENDS Debugger, FiniteSetTheorems, TLAPS

-----------------------------------------------------------------------------
(* Breakpoints.                                                            *)

\* What a sequence holds, and that it holds nothing twice.
Entries(s) == {s[k] : k \in DOMAIN s}
Distinct(s) == \A j, k \in DOMAIN s : s[j] = s[k] => j = k

\* The inductive invariant: the table holds the breakpoints asked for and not
\* cleared, each once, so that its length is their number and a clear, which
\* removes one entry, removes the breakpoint.
Armed ==
    /\ bps \in Seq(Word) /\ Distinct(bps) /\ armed = Entries(bps)
    /\ IsFiniteSet(armed) /\ Cardinality(armed) = Len(bps)
    /\ blank \in BOOLEAN

\* Words are not empty.
LEMMA ZeroIsWord == 0 \in Word
BY PowersOfTwoAssumption, MachineAssumption DEF Word, WordMod, WordBits

\* What is_bp looks for.
LEMMA IsBp == ASSUME NEW a PROVE is_bp(a) <=> a \in Entries(bps)
BY DEF is_bp, Entries

\* A breakpoint that is set: refused by a full table, and never doubled.
LEMMA AddKeeps ==
    ASSUME Armed, NEW a \in Word, add_bp(a)
    PROVE  /\ bps' \in Seq(Word) /\ Distinct(bps') /\ armed' = Entries(bps')
           /\ IsFiniteSet(armed') /\ Cardinality(armed') = Len(bps')
<1>0. MAX_BP \in Nat BY DebuggerAssumption
<1>1. CASE Len(bps) >= MAX_BP
  <2>1. bps' = bps /\ armed' = armed BY <1>1 DEF add_bp, Armed
  <2> QED BY <2>1 DEF Armed
<1>2. CASE Len(bps) < MAX_BP /\ is_bp(a)
  <2>1. a \in armed BY <1>2, IsBp DEF Armed
  <2>2. bps' = bps /\ armed' = armed BY <1>0, <1>2, <2>1 DEF add_bp, Armed
  <2> QED BY <2>2 DEF Armed
<1>3. CASE Len(bps) < MAX_BP /\ ~is_bp(a)
  <2>1. a \notin armed BY <1>3, IsBp DEF Armed
  <2>2. bps' = Append(bps, a) /\ armed' = armed \cup {a}
    BY <1>0, <1>3 DEF add_bp, Armed
  <2>3. bps' \in Seq(Word) /\ Len(bps') = Len(bps) + 1 /\ bps'[Len(bps) + 1] = a
        /\ (\A k \in DOMAIN bps : bps'[k] = bps[k])
        /\ DOMAIN bps' = DOMAIN bps \cup {Len(bps) + 1}
    BY <2>2 DEF Armed
  <2>4. Entries(bps') = armed' BY <2>2, <2>3 DEF Entries, Armed
  <2>5. Distinct(bps')
    <3> SUFFICES ASSUME NEW j \in DOMAIN bps', NEW k \in DOMAIN bps', bps'[j] = bps'[k]
                 PROVE  j = k BY DEF Distinct
    <3>1. \A m \in DOMAIN bps : bps[m] # a BY <1>3 DEF is_bp
    <3> QED BY <2>3, <3>1 DEF Distinct, Armed
  <2>6. IsFiniteSet(armed') /\ Cardinality(armed') = Cardinality(armed) + 1
    BY <2>1, <2>2, FS_AddElement DEF Armed
  <2> QED BY <2>3, <2>4, <2>5, <2>6 DEF Armed
<1> QED BY <1>0, <1>1, <1>2, <1>3 DEF Armed

\* A position that is not the last.
LEMMA BelowLast == ASSUME NEW n \in Nat, NEW j \in 1..n, j # n PROVE j \in 1..n-1
OBVIOUS

\* One that is cleared: the entry moved into its place is still there once.
LEMMA DelKeeps ==
    ASSUME Armed, NEW a, del_bp(a)
    PROVE  /\ bps' \in Seq(Word) /\ Distinct(bps') /\ armed' = Entries(bps')
           /\ IsFiniteSet(armed') /\ Cardinality(armed') = Len(bps')
<1>1. CASE ~is_bp(a)
  <2>1. a \notin armed BY <1>1, IsBp DEF Armed
  <2>2. bps' = bps /\ armed' = armed BY <1>1, <2>1 DEF del_bp
  <2> QED BY <2>2 DEF Armed
<1>2. CASE is_bp(a)
  <2> DEFINE i == CHOOSE i \in DOMAIN bps : bps[i] = a
             n == Len(bps)
             moved == [bps EXCEPT ![i] = bps[n]]
  <2>1. i \in DOMAIN bps /\ bps[i] = a BY <1>2 DEF is_bp
  <2>2. bps' = SubSeq(moved, 1, n - 1) /\ armed' = armed \ {a}
    BY <1>2 DEF del_bp
  <2> HIDE DEF i
  <2>3. n \in Nat \ {0} /\ DOMAIN bps = 1..n /\ bps \in Seq(Word) BY <2>1 DEF Armed
  <2>4. moved \in Seq(Word) /\ Len(moved) = n BY <2>1, <2>3
  <2>5. \A k \in 1..n : moved[k] = IF k = i THEN bps[n] ELSE bps[k] BY <2>1, <2>3
  <2> HIDE DEF moved
  <2>6. bps' \in Seq(Word) /\ Len(bps') = n - 1 /\ DOMAIN bps' = 1..n-1
        /\ (\A k \in 1..n-1 : bps'[k] = moved[k])
    BY <2>2, <2>3, <2>4
  <2>7. \A k \in 1..n-1 : bps'[k] = IF k = i THEN bps[n] ELSE bps[k]
    BY <2>3, <2>5, <2>6
  <2>8. Distinct(bps')
    BY <2>1, <2>3, <2>6, <2>7 DEF Distinct, Armed
  <2>9. Entries(bps') = armed'
    <3>1. ASSUME NEW x \in Entries(bps') PROVE x \in armed'
      <4>1. PICK k \in 1..n-1 : x = bps'[k] BY <3>1, <2>6 DEF Entries
      <4>2. PICK j \in 1..n : x = bps[j] /\ j # i BY <4>1, <2>1, <2>3, <2>7
      <4>3. x # a BY <4>2, <2>1, <2>3 DEF Armed, Distinct
      <4> QED BY <4>2, <4>3, <2>2, <2>3 DEF Armed, Entries
    <3>2. ASSUME NEW x \in armed' PROVE x \in Entries(bps')
      <4>1. PICK j \in 1..n : x = bps[j] /\ j # i
        BY <3>2, <2>1, <2>2, <2>3 DEF Armed, Entries
      <4>2. CASE j = n BY <4>1, <4>2, <2>1, <2>3, <2>6, <2>7 DEF Entries
      <4>3. CASE j # n
        <5>1. j \in 1..n-1 BY <4>3, <2>3, BelowLast
        <5> QED BY <4>1, <5>1, <2>6, <2>7 DEF Entries
      <4> QED BY <4>2, <4>3
    <3> QED BY <3>1, <3>2
  <2>10. a \in armed BY <1>2, IsBp DEF Armed
  <2>11. IsFiniteSet(armed') /\ Cardinality(armed') = Cardinality(armed) - 1
    BY <2>2, <2>10, FS_RemoveElement DEF Armed
  <2> QED BY <2>3, <2>6, <2>8, <2>9, <2>11 DEF Armed
<1> QED BY <1>1, <1>2


\* The table is empty at first,
LEMMA ArmedStarts == Init => Armed
<1> SUFFICES ASSUME Init PROVE Armed OBVIOUS
<1>1. bps = <<>> /\ armed = {} /\ blank = FALSE BY DEF Init
<1>2. DOMAIN bps = {} /\ bps \in Seq(Word) /\ Len(bps) = 0 BY <1>1
<1>3. Entries(bps) = {} BY <1>2 DEF Entries
<1>4. IsFiniteSet(armed) /\ Cardinality(armed) = 0 BY <1>1, FS_EmptySet
<1> QED BY <1>1, <1>2, <1>3, <1>4 DEF Armed, Distinct

\* and no other command or loop touches it.
LEMMA ArmedSteps == Armed /\ [Next]_dbgVars => Armed'
<1> SUFFICES ASSUME Armed, [Next]_dbgVars PROVE Armed' OBVIOUS
<1>0. BpAddrs \subseteq Word /\ 0 \in Word
  BY DebuggerAssumption, ZeroIsWord
<1>1. ASSUME UNCHANGED <<bps, armed>>, blank' \in BOOLEAN PROVE Armed'
  BY <1>1 DEF Armed
<1>2. ASSUME Exec PROVE Armed'
  <2>1. blank' \in BOOLEAN /\ UNCHANGED <<bps, armed>> BY <1>2 DEF Exec, Armed
  <2> QED BY <2>1, <1>1
<1>3. CASE Loops
  BY <1>1, <1>2, <1>3 DEF Loops, StepOnce, StepDone, Continue, Finish, Armed
<1>4. CASE Commands
  <2>1. CASE BreakKey
    <3>1. PICK a \in Answer : IF is_bp(a) THEN del_bp(a) ELSE add_bp(a)
      BY <2>1 DEF BreakKey
    <3>2. a \in Word BY <1>0 DEF Answer
    <3> QED BY <2>1, <3>1, <3>2, AddKeeps, DelKeeps DEF BreakKey, Armed
  <2>2. CASE BreakLine
    <3>1. PICK a \in BpAddrs : add_bp(a) \/ del_bp(a) BY <2>2 DEF BreakLine
    <3>2. a \in Word BY <1>0
    <3>3. blank' \in BOOLEAN BY <2>2 DEF BreakLine, Armed
    <3> QED BY <3>1, <3>2, <3>3, AddKeeps, DelKeeps DEF Armed
  <2>3. CASE StepKey \/ StepCount \/ EmptyLine
    BY <2>3, <1>1 DEF StepKey, StepCount, EmptyLine, do_step, Armed
  <2>4. CASE do_continue \/ FinishKey \/ WatchKey \/ Quit
    BY <2>4, <1>1 DEF do_continue, FinishKey, WatchKey, Quit, Armed
  <2>5. CASE \E opened \in BOOLEAN : Reset(opened)
    BY <2>5, <1>1 DEF Reset, Armed
  <2> QED BY <1>4, <2>1, <2>2, <2>3, <2>4, <2>5 DEF Commands
<1>5. CASE UNCHANGED dbgVars BY <1>5, <1>1 DEF dbgVars, Armed
<1> QED BY <1>3, <1>4, <1>5 DEF Next

\* The step of StopsAtBreakpoints.
ContinueStops ==
    mode = "continue" /\ mode' # "dead" =>
        /\ mode' = "continue" => cpu'.pc \notin armed /\ ~Halted(cpu')
        /\ mode' = "prompt" =>
             \/ msg' = "halted" /\ Halted(cpu')
             \/ msg' = "breakpoint" /\ cpu'.pc \in armed
             \/ msg' = "limit" /\ ~Halted(cpu') /\ cpu'.pc \notin armed

\* do_continue's tests look at the table, which holds what was asked for.
LEMMA ContinueRight == Armed /\ Next => ContinueStops
<1> SUFFICES ASSUME Armed, Next, mode = "continue", mode' # "dead" PROVE ContinueStops
  BY DEF ContinueStops
<1>1. Continue
  BY DEF Next, Loops, Commands, StepOnce, StepDone, Finish, StepKey, StepCount,
         EmptyLine, do_continue, FinishKey, Reset, BreakKey, BreakLine, WatchKey,
         Quit, Typed, AtPrompt
<1>2. is_bp(cpu'.pc) <=> cpu'.pc \in armed BY IsBp DEF Armed
<1>3. CASE Halted(cpu')
   <2>1. mode' = "prompt" /\ msg' = "halted" BY <1>1, <1>3 DEF Continue, After
   <2> QED BY <2>1, <1>3 DEF ContinueStops
<1>4. CASE ~Halted(cpu') /\ is_bp(cpu'.pc)
   <2>1. mode' = "prompt" /\ msg' = "breakpoint" BY <1>1, <1>4 DEF Continue, After
   <2> QED BY <2>1, <1>2, <1>4 DEF ContinueStops
<1>5. CASE ~Halted(cpu') /\ ~is_bp(cpu'.pc)
   <2>1. \/ mode' = "continue"
         \/ mode' = "prompt" /\ msg' = "limit" BY <1>1, <1>5 DEF Continue, After
   <2> QED BY <2>1, <1>2, <1>5 DEF ContinueStops
<1> QED BY <1>3, <1>4, <1>5

\* StopsAtBreakpoints: after every sequence of sets and clears, do_continue goes
\* on only from an address without a breakpoint, and says truly whether a halt,
\* a breakpoint or its limit stopped it.
THEOREM BreakpointsStop == Spec => StopsAtBreakpoints
<1>1. Armed /\ [Next]_dbgVars => [ContinueStops]_dbgVars
  BY ContinueRight
<1> QED BY <1>1, ArmedStarts, ArmedSteps, PTL DEF Spec, StopsAtBreakpoints, ContinueStops

-----------------------------------------------------------------------------
(* cpu_step.                                                               *)

\* What is proved of cpu_step; it says nothing of the variables, which stand for
\* a run with no program to follow.
Steps == INSTANCE CpuProofs WITH
             Mixes <- {}, mix <- {}, ins <- NOP, before <- cpu, cmp <- <<>>,
             stack <- <<>>, clobbered <- FALSE, silent <- cpu, asked <- FALSE

\* It is the cpu_step of the debugger: with every definition written out the two
\* sides are one expression (Cardinality is that of two copies of FiniteSets),
LEMMA SameStep ==
    ASSUME NEW quiet, NEW c, NEW i, NEW inp, NEW ub
    PROVE  Steps!cpu_step(quiet, c, i, inp, ub) = cpu_step(quiet, c, i, inp, ub)
BY DEF cpu_step, Steps!cpu_step, Access, Steps!Access, check_bounds,
       Steps!check_bounds, InArray, Steps!InArray, Execute, Steps!Execute, AluOps,
       Steps!AluOps, CondOps, Steps!CondOps, AluResult, Steps!AluResult, AluFlags,
       Steps!AluFlags, Condition, Steps!Condition, Wrap, Steps!Wrap, WordMod,
       Steps!WordMod, WordBits, Steps!WordBits, ByteMod, Steps!ByteMod, Bitwise2,
       Steps!Bitwise2, AndTable, Steps!AndTable, OrTable, Steps!OrTable, XorTable,
       Steps!XorTable, Bit, Steps!Bit, Shl, Steps!Shl, Shr, Steps!Shr,
       exec_add_flags, Steps!exec_add_flags, exec_sub_flags, Steps!exec_sub_flags,
       set_zn, Steps!set_zn, Neg, Steps!Neg, mem_read32, Steps!mem_read32,
       mem_write32, Steps!mem_write32, cpu_emit, Steps!cpu_emit, DecimalLine,
       Steps!DecimalLine, Cardinality, Steps!Cardinality, mmio_is_device,
       Steps!mmio_is_device, mmio_load, Steps!mmio_load, mmio_store,
       Steps!mmio_store, MMIO_OUT, Steps!MMIO_OUT, MMIO_OUTC, Steps!MMIO_OUTC,
       MMIO_IN, Steps!MMIO_IN, MMIO_HALT, Steps!MMIO_HALT, MMIO_END, Steps!MMIO_END

\* under the assumptions made here.
LEMMA StepsAssumptions ==
    /\ Steps!CpuAssumption /\ Steps!MachineAssumption /\ Steps!PowersOfTwoAssumption
    /\ Steps!RegsAssumption /\ Steps!OpsAssumption
<1>1. Steps!Word = Word /\ Steps!WordBits = WordBits
  BY DEF Steps!Word, Word, Steps!WordMod, WordMod, Steps!WordBits, WordBits
<1>2. Steps!Opcode = Opcode
  BY DEF Steps!Opcode, Opcode, Steps!AluOps, AluOps, Steps!CondOps, CondOps
<1> QED BY <1>1, <1>2, DebuggerAssumption, MachineAssumption, PowersOfTwoAssumption,
           RegsAssumption, OpsAssumption
        DEF Steps!CpuAssumption, Steps!MachineAssumption, Steps!PowersOfTwoAssumption,
            Steps!RegsAssumption, Steps!OpsAssumption

\* A machine, two that differ at most in the capture buffer, an instruction.
IsCpu(c) == Steps!IsCpu(c)
Agree(c, d) == Steps!Agree(c, d)
IsIns(i) == i \in [op: Opcode, rd: Regs, rs: Regs, imm: Word]

\* The instructions of a file are ones cpu_step can decode.
LEMMA InsIs == ASSUME NEW i, IsIns(i) PROVE Steps!IsIns(i)
BY DEF IsIns, Steps!IsIns, Steps!Opcode, Opcode, Steps!AluOps, AluOps,
       Steps!CondOps, CondOps

\* cpu_step as the debugger calls it.
Stepped(c, i, inp) == cpu_step(FALSE, c, i, inp, TRUE)

\* What is in the capture buffer changes nothing else.
LEMMA SteppedAgrees ==
    ASSUME NEW c, NEW d, NEW i, NEW inp, Agree(c, d), IsIns(i)
    PROVE  Agree(Stepped(c, i, inp), Stepped(d, i, inp))
<1>1. PICK quiet, ub : quiet = FALSE /\ ub = TRUE OBVIOUS
<1>2. Steps!Modes(quiet, quiet) /\ Steps!SameInput(quiet, c, i, inp)
  BY <1>1 DEF Steps!Modes, Steps!SameInput
<1>3. Steps!Agree(Steps!cpu_step(quiet, c, i, inp, ub),
                  Steps!cpu_step(quiet, d, i, inp, ub))
  BY <1>2, InsIs, Steps!StepAgrees, StepsAssumptions DEF Agree
<1>4. Agree(cpu_step(quiet, c, i, inp, ub), cpu_step(quiet, d, i, inp, ub))
  BY <1>3, SameStep DEF Agree
<1> QED BY <1>1, <1>4 DEF Stepped

\* An instruction that does not end the process is counted, once.
LEMMA SteppedCounts ==
    ASSUME NEW c, NEW i, NEW inp, IsCpu(c), IsIns(i),
           Stepped(c, i, inp).status \notin {"exited", "undefined"}
    PROVE  IsCpu(Stepped(c, i, inp)) /\ Stepped(c, i, inp).icount = c.icount + 1
<1>1. PICK quiet, ub : quiet = FALSE /\ ub = TRUE OBVIOUS
<1>2. PICK x : x = Steps!cpu_step(quiet, c, i, inp, ub) OBVIOUS
<1>3. x = Stepped(c, i, inp) BY <1>1, <1>2, SameStep DEF Stepped
<1>4. x.status \notin {"exited", "undefined"} /\ Steps!IsCpu(c) BY <1>3 DEF IsCpu
<1>5. Steps!IsCpu(x) /\ x.icount = c.icount + 1
  BY <1>2, <1>4, InsIs, Steps!StepIsCounted, StepsAssumptions
<1> QED BY <1>3, <1>5 DEF IsCpu

\* cpu_init makes a machine; the capture buffer survives it.
LEMMA InitIs ==
    ASSUME NEW m, NEW k
    PROVE  /\ Agree(cpu_init(m, k), cpu_init(m, 0)) /\ cpu_init(m, k).icount = 0
BY DEF cpu_init, Agree, Steps!Agree, Steps!IsCpu, Steps!Fields

\* Such machines are at the same instruction and equal but for the buffer.
LEMMA AgreeIs ==
    ASSUME NEW c, NEW d, Agree(c, d)
    PROVE  /\ IsCpu(c) /\ c.pc = d.pc /\ c.icount = d.icount
           /\ c.status = d.status /\ c.regs = d.regs
           /\ [c EXCEPT !.cap_len = 0] = [d EXCEPT !.cap_len = 0]
BY DEF Agree, IsCpu, Steps!Agree, Steps!IsCpu, Steps!Fields

\* A set of naturals that is not empty has a least element.
LEMMA LeastNat ==
  ASSUME NEW T, T \subseteq Nat, T # {}
  PROVE  \E n \in T : \A m \in T : n <= m
BY Steps!LeastNat, StepsAssumptions

-----------------------------------------------------------------------------
(* Runs: what PlainRun computes.                                           *)

\* A state of a run: the machine, and the number on stdin that is read next.
Start == [c |-> cpu_init(mem_init, 0), at |-> 1]
At(prog, c) == IF c.pc \div 4 \in DOMAIN prog THEN prog[c.pc \div 4] ELSE NOP
Reads(prog, c) == ReadsInput(c, At(prog, c))

RunStep(prog, nums, s) ==
    IF Halted(s.c) THEN s ELSE
    [c |-> Stepped(s.c, At(prog, s.c), IF Reads(prog, s.c) THEN nums[s.at] ELSE 0),
     at |-> IF Reads(prog, s.c) THEN s.at + 1 ELSE s.at]

\* The first n steps of a run of prog that reads nums.
IsRun(r, prog, nums, n) ==
    r = [k \in 0..n |-> IF k = 0 THEN Start ELSE RunStep(prog, nums, r[k - 1])]

\* There is one such run: consider the first step at which two differ.
LEMMA RunIsUnique ==
    ASSUME NEW prog, NEW nums, NEW n \in Nat, NEW r, NEW s,
           IsRun(r, prog, nums, n), IsRun(s, prog, nums, n)
    PROVE  r = s
<1> DEFINE T == {k \in 0..n : r[k] # s[k]}
<1>0. /\ \A k \in 0..n : r[k] = IF k = 0 THEN Start ELSE RunStep(prog, nums, r[k - 1])
      /\ \A k \in 0..n : s[k] = IF k = 0 THEN Start ELSE RunStep(prog, nums, s[k - 1])
  BY DEF IsRun
<1>1. T = {}
  <2>1. SUFFICES ASSUME T # {} PROVE FALSE OBVIOUS
  <2>2. T \subseteq Nat OBVIOUS
  <2>3. PICK k \in T : \A m \in T : k <= m BY <2>1, <2>2, LeastNat
  <2>4. k \in 0..n /\ r[k] # s[k] BY <2>3
  <2>5. k # 0 BY <2>4, <1>0
  <2>6. k - 1 \in 0..n /\ ~(k <= k - 1) BY <2>4, <2>5
  <2>7. r[k - 1] = s[k - 1] BY <2>3, <2>6
  <2> QED BY <2>4, <2>5, <2>7, <1>0
<1>2. \A k \in 0..n : r[k] = s[k] BY <1>1
<1>3. r = [k \in 0..n |-> r[k]] /\ s = [k \in 0..n |-> s[k]] BY DEF IsRun
<1> QED BY <1>2, <1>3

\* PlainRun is what the run ends in.
LEMMA PlainRunIs ==
    ASSUME NEW prog, NEW nums, NEW n \in Nat, NEW r, IsRun(r, prog, nums, n)
    PROVE  PlainRun(prog, nums, n) = r[n].c
<1> DEFINE s == CHOOSE s : IsRun(s, prog, nums, n)
<1>1. IsRun(s, prog, nums, n) OBVIOUS
<1>2. PlainRun(prog, nums, n) = s[n].c
  BY DEF PlainRun, IsRun, RunStep, At, Reads, Stepped, Start
<1> HIDE DEF s
<1>3. s = r BY <1>1, RunIsUnique
<1> QED BY <1>2, <1>3

-----------------------------------------------------------------------------
(* The debugged run.                                                       *)

\* No more numbers are read than there are.
InRange(r, nums, n) == \A k \in 0..n : r[k].at \in 1..Len(nums) + 1

\* c is where a run of prog is that has read nums and executed as much.
Follows(c, prog, nums) ==
    \E r : /\ IsRun(r, prog, nums, c.icount) /\ InRange(r, nums, c.icount)
           /\ Agree(c, r[c.icount].c) /\ r[c.icount].at = Len(nums) + 1

\* Memory decodes to instructions.
AllIns(prog) == \A w \in DOMAIN prog : IsIns(prog[w])

\* What is fetched is an instruction, also where nothing was loaded.
LEMMA AtIsIns == ASSUME NEW prog, NEW c, AllIns(prog) PROVE IsIns(At(prog, c))
<1>1. IsIns(NOP) BY ZeroIsWord, DebuggerAssumption DEF IsIns, NOP, Opcode
<1> QED BY <1>1 DEF At, AllIns

\* The last step of a run of n + 1.
LEMMA OneAfter == ASSUME NEW n \in Nat, NEW k, k = n + 1 PROVE k - 1 = n /\ k # 0
OBVIOUS

\* What stdin gave: only an instruction that reads it takes a number.
Taken(prog, c, nums, inp, more) ==
    /\ more = IF Reads(prog, c) THEN Append(nums, inp) ELSE nums
    /\ ~Reads(prog, c) => inp = 0

\* One instruction more on both sides: the run grows by a step, and the number
\* it reads there is the one the debugged program read.  The earlier steps read
\* the same numbers as before.
LEMMA FollowsOn ==
    ASSUME NEW c, NEW prog, NEW nums \in Seq(Word), NEW more \in Seq(Word),
           NEW inp, NEW x,
           c.icount \in Nat, AllIns(prog), Follows(c, prog, nums),
           Taken(prog, c, nums, inp, more),
           ~Halted(c), x = Stepped(c, At(prog, c), inp),
           x.status \notin {"exited", "undefined"}
    PROVE  Follows(x, prog, more) /\ x.icount \in Nat
<1>1. PICK n : n = c.icount /\ n \in Nat OBVIOUS
<1>2. PICK r : /\ IsRun(r, prog, nums, n) /\ InRange(r, nums, n)
               /\ Agree(c, r[n].c) /\ r[n].at = Len(nums) + 1
  BY <1>1 DEF Follows
<1>3. PICK d : d = r[n].c OBVIOUS
<1>4. /\ IsCpu(c) /\ At(prog, d) = At(prog, c) /\ ~Halted(d)
      /\ (Reads(prog, d) <=> Reads(prog, c))
  BY <1>2, <1>3, AgreeIs DEF At, Reads, ReadsInput, Halted
<1>5. IsIns(At(prog, c)) BY AtIsIns
<1>6. IsCpu(x) /\ x.icount = n + 1 BY <1>1, <1>4, <1>5, SteppedCounts
<1> DEFINE last == RunStep(prog, more, r[n])
           q == [k \in 0..n+1 |-> IF k = n + 1 THEN last ELSE r[k]]
<1>7. last = [c |-> Stepped(d, At(prog, c),
                            IF Reads(prog, c) THEN more[Len(nums) + 1] ELSE 0),
              at |-> IF Reads(prog, c) THEN Len(nums) + 2 ELSE Len(nums) + 1]
  BY <1>2, <1>3, <1>4 DEF RunStep
<1>8. (IF Reads(prog, c) THEN more[Len(nums) + 1] ELSE 0) = inp
  BY DEF Taken
<1>9. last.c = Stepped(d, At(prog, c), inp) BY <1>7, <1>8
<1>10. last.at = Len(more) + 1 /\ Len(more) >= Len(nums) BY <1>7 DEF Taken
<1>11. Agree(x, last.c) BY <1>2, <1>3, <1>5, <1>9, SteppedAgrees
<1>12. ASSUME NEW k \in 0..n, k # 0
       PROVE  RunStep(prog, nums, r[k - 1]) = RunStep(prog, more, r[k - 1])
  <2>1. k - 1 \in 0..n /\ k \in 0..n BY <1>1, <1>12
  <2>2. r[k - 1].at \in 1..Len(nums) + 1 /\ r[k].at \in 1..Len(nums) + 1
    BY <1>2, <2>1 DEF InRange
  <2>3. r[k] = RunStep(prog, nums, r[k - 1]) BY <1>2, <1>12 DEF IsRun
  <2>4. CASE ~Halted(r[k - 1].c) /\ Reads(prog, r[k - 1].c)
    <3>1. r[k].at = r[k - 1].at + 1 BY <2>3, <2>4 DEF RunStep
    <3>2. r[k - 1].at \in 1..Len(nums) BY <2>2, <3>1
    <3>3. more[r[k - 1].at] = nums[r[k - 1].at] BY <3>2 DEF Taken
    <3> QED BY <3>3 DEF RunStep
  <2>5. CASE ~Reads(prog, r[k - 1].c) BY <2>5 DEF RunStep
  <2>6. CASE Halted(r[k - 1].c) BY <2>6 DEF RunStep
  <2> QED BY <2>4, <2>5, <2>6
<1>13. \A k \in 0..n : r[k] = IF k = 0 THEN Start ELSE RunStep(prog, more, r[k - 1])
  <2>1. \A k \in 0..n : r[k] = IF k = 0 THEN Start ELSE RunStep(prog, nums, r[k - 1])
    BY <1>2 DEF IsRun
  <2> QED BY <2>1, <1>12
<1> HIDE DEF last
<1>14. /\ \A k \in 0..n : q[k] = r[k]
       /\ q[n + 1] = last
       /\ \A k \in 0..n+1 : k \in 0..n \/ k = n + 1
       /\ \A k \in 0..n+1 : k # 0 => k - 1 \in 0..n
  BY <1>1
<1>15. IsRun(q, prog, more, n + 1)
  <2>1. ASSUME NEW k \in 0..n+1
        PROVE  q[k] = IF k = 0 THEN Start ELSE RunStep(prog, more, q[k - 1])
    <3>1. CASE k = n + 1
      <4>1. k - 1 = n /\ k # 0 BY <1>1, <3>1, OneAfter
      <4>2. q[k - 1] = r[n] BY <1>1, <1>14, <4>1
      <4> QED BY <1>14, <3>1, <4>1, <4>2 DEF last
    <3>2. CASE k \in 0..n
      <4>1. k # 0 => q[k - 1] = r[k - 1] BY <1>14
      <4> QED BY <1>13, <1>14, <3>2, <4>1
    <3> QED BY <1>14, <3>1, <3>2
  <2> QED BY <2>1 DEF IsRun
<1>16. InRange(q, more, n + 1)
  <2>1. \A k \in 0..n : q[k].at \in 1..Len(more) + 1
    BY <1>2, <1>10, <1>14 DEF InRange
  <2>2. q[n + 1].at \in 1..Len(more) + 1 BY <1>10, <1>14
  <2> QED BY <1>14, <2>1, <2>2 DEF InRange
<1>17. Agree(x, q[n + 1].c) /\ q[n + 1].at = Len(more) + 1 BY <1>10, <1>11, <1>14
<1> HIDE DEF q
<1>18. Follows(x, prog, more) BY <1>6, <1>15, <1>16, <1>17 DEF Follows
<1> QED BY <1>1, <1>6, <1>18

\* A machine just initialised, whatever its capture buffer holds.
LEMMA FollowsFromStart ==
    ASSUME NEW k, NEW prog, NEW c, c = cpu_init(mem_init, k)
    PROVE  Follows(c, prog, <<>>) /\ c.icount \in Nat
<1>1. c.icount = 0 /\ Agree(c, Start.c) BY InitIs DEF Start
<1> DEFINE r == [j \in 0..0 |-> Start]
<1>2. IsRun(r, prog, <<>>, 0) BY DEF IsRun
<1>3. r[0] = Start /\ Start.at = 1 BY DEF Start
<1>4. InRange(r, <<>>, 0) BY <1>3 DEF InRange
<1> HIDE DEF r
<1> QED BY <1>1, <1>2, <1>3, <1>4 DEF Follows

\* A machine that follows a run is in PlainRun's state.
LEMMA FollowsIsSame ==
    ASSUME NEW c, NEW prog, NEW nums, c.icount \in Nat, Follows(c, prog, nums)
    PROVE  [c EXCEPT !.cap_len = 0]
             = [PlainRun(prog, nums, c.icount) EXCEPT !.cap_len = 0]
<1>1. PICK r : IsRun(r, prog, nums, c.icount) /\ Agree(c, r[c.icount].c) BY DEF Follows
<1>2. PlainRun(prog, nums, c.icount) = r[c.icount].c BY <1>1, PlainRunIs
<1> QED BY <1>1, <1>2, AgreeIs

\* The inductive invariant: SameRun says where a run ends, which does not tell
\* what one more instruction reads; that the whole run exists, and has read all
\* of the numbers and no others, does.  do_continue's loop tests for a halt only
\* after an instruction, so it must not be entered with the machine halted.
RunInv ==
    /\ file \in Programs /\ AllIns(code) /\ reads \in Seq(Word)
    /\ mode = "continue" => ~Halted(cpu)
    /\ mode # "dead" => cpu.icount \in Nat /\ Follows(cpu, code, reads)

\* The elements of a sequence.
LEMMA ElementsAre == ASSUME NEW S, NEW p \in Seq(S) PROVE \A w \in DOMAIN p : p[w] \in S
OBVIOUS

\* What load leaves in memory, of a file that opens or not.
LEMMA LoadedIns ==
    ASSUME NEW p, p \in Programs \/ p = <<>>
    PROVE  AllIns(CodeOf(p))
<1>1. IsIns(NOP) BY ZeroIsWord, DebuggerAssumption DEF IsIns, NOP, Opcode
<1>2. \A w \in DOMAIN p : IsIns(p[w])
  <2>1. CASE p \in Programs
    <3>1. p \in Seq([op: Opcode, rd: Regs, rs: Regs, imm: Word])
      BY <2>1, DebuggerAssumption
    <3> QED BY <3>1, ElementsAre DEF IsIns
  <2>2. CASE p = <<>> BY <2>2
  <2> QED BY <2>1, <2>2
<1> QED BY <1>1, <1>2 DEF AllIns, CodeOf

\* The instruction each of the loops executes.
LEMMA ExecFollows ==
    ASSUME RunInv, mode # "dead", ~Halted(cpu), Exec,
           mode' = "continue" => ~Halted(cpu'),
           mode' # "dead" => cpu'.status \notin {"exited", "undefined"}
    PROVE  RunInv'
<1>1. PICK inp \in IF ReadsInput(cpu, Fetched) THEN Inputs \cup {0} ELSE {0} :
          /\ cpu' = cpu_step(FALSE, cpu, Fetched, inp, TRUE)
          /\ reads' = IF ReadsInput(cpu, Fetched) THEN Append(reads, inp) ELSE reads
  BY DEF Exec
<1>2. Fetched = At(code, cpu) /\ (ReadsInput(cpu, Fetched) <=> Reads(code, cpu))
  BY DEF Fetched, At, Reads
<1>3. UNCHANGED <<file, code>> BY DEF Exec
<1>4. inp \in Word
  BY <1>1, DebuggerAssumption, ZeroIsWord
<1>5. reads' \in Seq(Word) BY <1>1, <1>4 DEF RunInv
<1>6. /\ cpu' = Stepped(cpu, At(code, cpu), inp)
      /\ Taken(code, cpu, reads, inp, reads')
  BY <1>1, <1>2 DEF Stepped, Taken
<1>7. ASSUME mode' # "dead"
      PROVE  cpu'.icount \in Nat /\ Follows(cpu', code, reads')
  <2>1. PICK nums, more, x : nums = reads /\ more = reads' /\ x = cpu' OBVIOUS
  <2>2. nums \in Seq(Word) /\ more \in Seq(Word) BY <1>5, <2>1 DEF RunInv
  <2>3. cpu.icount \in Nat /\ AllIns(code) /\ Follows(cpu, code, nums) BY <2>1 DEF RunInv
  <2>4. x.status \notin {"exited", "undefined"} BY <1>7, <2>1
  <2>5. Follows(x, code, more) /\ x.icount \in Nat
    BY <1>6, <2>1, <2>2, <2>3, <2>4, FollowsOn
  <2> QED BY <2>1, <2>5
<1> QED BY <1>3, <1>5, <1>7 DEF RunInv

\* RunInv holds at first,
LEMMA RunStarts == Init => RunInv
<1> SUFFICES ASSUME Init PROVE RunInv OBVIOUS
<1>1. /\ file \in Programs /\ code = CodeOf(file) /\ cpu = cpu_init(mem_init, 0)
      /\ reads = <<>> /\ mode = "prompt"
  BY DEF Init
<1>2. AllIns(code) BY <1>1, LoadedIns
<1>3. Follows(cpu, code, <<>>) /\ cpu.icount \in Nat BY <1>1, FollowsFromStart
<1> QED BY <1>1, <1>2, <1>3 DEF RunInv

\* and after every loop iteration and every command.
LEMMA RunSteps == RunInv /\ [Next]_dbgVars => RunInv'
<1> SUFFICES ASSUME RunInv, [Next]_dbgVars PROVE RunInv' OBVIOUS
<1>1. ASSUME UNCHANGED <<file, code, cpu, reads>>, mode' = "dead" \/ mode # "dead",
             mode' = "continue" => ~Halted(cpu)
      PROVE  RunInv'
  BY <1>1 DEF RunInv
<1>2. CASE Loops
  <2>1. CASE StepOnce BY <2>1, ExecFollows DEF StepOnce, After
  <2>2. CASE Continue
    <3>1. ~Halted(cpu) BY <2>2 DEF Continue, RunInv
    <3>2. mode' = "continue" => ~Halted(cpu') BY <2>2 DEF Continue, After
    <3> QED BY <2>2, <3>1, <3>2, ExecFollows DEF Continue, After
  <2>3. CASE Finish
    <3>1. CASE Halted(cpu) BY <2>3, <3>1, <1>1 DEF Finish
    <3>2. CASE ~Halted(cpu) BY <2>3, <3>2, ExecFollows DEF Finish, After
    <3> QED BY <3>1, <3>2
  <2>4. CASE StepDone BY <2>4, <1>1 DEF StepDone
  <2> QED BY <1>2, <2>1, <2>2, <2>3, <2>4 DEF Loops
<1>3. CASE Commands
  <2>1. ASSUME NEW opened \in BOOLEAN, Reset(opened) PROVE RunInv'
    <3>1. PICK p : p = (IF opened THEN file ELSE <<>>) OBVIOUS
    <3>2. PICK k : k = (IF tui THEN 0 ELSE cpu.cap_len) OBVIOUS
    <3>3. /\ code' = CodeOf(p) /\ cpu' = cpu_init(mem_init, k)
          /\ reads' = <<>> /\ file' = file /\ mode' = "prompt"
      BY <2>1, <3>1, <3>2 DEF Reset, load, Typed, AtPrompt
    <3>4. AllIns(code') BY <3>1, <3>3, LoadedIns DEF RunInv
    <3>5. PICK x : x = cpu' OBVIOUS
    <3>6. Follows(x, code', <<>>) /\ x.icount \in Nat BY <3>3, <3>5, FollowsFromStart
    <3> QED BY <3>3, <3>4, <3>5, <3>6 DEF RunInv
  <2>2. CASE StepKey \/ StepCount \/ EmptyLine
    BY <2>2, <1>1 DEF StepKey, StepCount, EmptyLine, do_step, Typed, AtPrompt
  <2>3. CASE do_continue \/ FinishKey \/ WatchKey \/ Quit
    BY <2>3, <1>1 DEF do_continue, FinishKey, WatchKey, Quit, Typed, AtPrompt
  <2>4. CASE BreakKey \/ BreakLine
    BY <2>4, <1>1 DEF BreakKey, BreakLine, Typed, AtPrompt
  <2> QED BY <1>3, <2>1, <2>2, <2>3, <2>4 DEF Commands
<1>4. CASE UNCHANGED dbgVars BY <1>4 DEF dbgVars, RunInv
<1> QED BY <1>2, <1>3, <1>4 DEF Next

\* SameRun: whatever commands are given, the machine is where an uninterrupted
\* run of the same code is that has read the same numbers and executed as many
\* instructions.
THEOREM DebuggerInvisible == Spec => []SameRun
<1>1. RunInv => SameRun BY FollowsIsSame DEF RunInv, SameRun
<1> QED BY <1>1, RunStarts, RunSteps, PTL DEF Spec
=============================================================================
