----------------------------- MODULE CpuProofs -----------------------------
(***************************************************************************)
(* Proofs about the reference CPU, for every word size, memory, register   *)
(* set, program and input: the metadata the timing models trust is true of *)
(* every instruction (MetaCovers), suppressing I/O changes nothing a       *)
(* program that reads only zeros can see (SilentAgrees), nothing leaves    *)
(* its C type (TypeOK), branches after a SUB compare signed words          *)
(* (SignedCompare) and the stack holds what was pushed (StackDiscipline).  *)
(***************************************************************************)
EXTENDS SilentOracle, FiniteSetTheorems, WellFoundedInduction, TLAPS

-----------------------------------------------------------------------------
(* The state of a machine, and what cpu_step makes of it, arm by arm of    *)
(* its switch.                                                             *)

\* The fields of a machine, a machine, and an instruction cpu_step can decode.
Fields == {"regs", "pc", "sp", "flags", "mem", "status", "icount", "cap_len"}

IsCpu(c) ==
    /\ c = [f \in Fields |-> c[f]]
    /\ c.regs = [r \in Regs |-> c.regs[r]]

IsIns(i) == i.op \in Opcode /\ i.rd \in Regs /\ i.rs \in Regs

\* The results of the arms, given the machine c they start from.
Halt(c) == [c EXCEPT !.status = "halted"]
SetReg(c, i, v) == [c EXCEPT !.regs[i.rd] = v]
Jump(c, t) == [c EXCEPT !.pc = t]

Alu(c, i, ub) ==
    LET r == AluResult(i.op, c.regs[i.rd], c.regs[i.rs], ub)
    IN  [SetReg(c, i, r) EXCEPT
            !.flags = AluFlags(i.op, c.flags, c.regs[i.rd], c.regs[i.rs], r)]

\* v is pushed and execution goes on at t.
Pushed(c, v, t) ==
    [c EXCEPT !.pc = t, !.sp = Wrap(c.sp - 4),
              !.mem = mem_write32(c.mem, Wrap(c.sp - 4), v)]
Popped(c) == [c EXCEPT !.sp = Wrap(c.sp + 4)]
Stored(c, addr, v) == [c EXCEPT !.mem = mem_write32(c.mem, addr, v)]

\* An access that does not leave the array, and what becomes of the others.
Passes(addr) == check_bounds(addr, 4) /\ InArray(addr, 4)
Died(c, addr) ==
    [c EXCEPT !.status = IF check_bounds(addr, 4) THEN "undefined" ELSE "exited"]

\* An access either passes or ends the run.
LEMMA AccessIs ==
    ASSUME NEW c, NEW addr, NEW next
    PROVE  Access(c, addr, next) = IF Passes(addr) THEN next ELSE Died(c, addr)
BY DEF Access, Passes, Died

\* The addresses of LOAD, STORE and PUSH.
LdAddr(c, i) == Wrap(c.regs[i.rs] + i.imm)
StAddr(c, i) == Wrap(c.regs[i.rd] + i.imm)
Top(c) == Wrap(c.sp - 4)

\* The arms without an access to memory ...
LEMMA ArmsPlain ==
    ASSUME NEW quiet, NEW c, NEW i, NEW inp, NEW ub
    PROVE  /\ i.op = "NOP" => Execute(quiet, c, i, inp, ub) = c
           /\ i.op \in {"HALT", "ILLEGAL"} => Execute(quiet, c, i, inp, ub) = Halt(c)
           /\ i.op = "MOV" =>
                  Execute(quiet, c, i, inp, ub) = SetReg(c, i, c.regs[i.rs])
           /\ i.op = "LOADI" => Execute(quiet, c, i, inp, ub) = SetReg(c, i, i.imm)
           /\ i.op = "JMP" => Execute(quiet, c, i, inp, ub) = Jump(c, i.imm)
           /\ i.op \in CondOps =>
                  Execute(quiet, c, i, inp, ub) =
                      IF Condition(i.op, c.flags) THEN Jump(c, i.imm) ELSE c
           /\ i.op = "IN" =>
                  Execute(quiet, c, i, inp, ub) = SetReg(c, i, IF quiet THEN 0 ELSE inp)
           /\ i.op = "OUT" =>
                  Execute(quiet, c, i, inp, ub) =
                      IF quiet THEN c ELSE cpu_emit(c, DecimalLine(c.regs[i.rd]))
BY DEF Execute, Halt, SetReg, Jump, AluOps, CondOps

\* ... the arithmetic ones ...
LEMMA ArmAlu ==
    ASSUME NEW quiet, NEW c, NEW i, NEW inp, NEW ub, i.op \in AluOps \cup {"NOT"}
    PROVE  Execute(quiet, c, i, inp, ub) =
               IF i.op = "DIV" /\ c.regs[i.rs] = 0 THEN Halt(c) ELSE Alu(c, i, ub)
BY DEF Execute, Halt, SetReg, Alu, AluOps, CondOps

\* ... and those with one.
LEMMA ArmLoad ==
    ASSUME NEW quiet, NEW c, NEW i, NEW inp, NEW ub, i.op = "LOAD"
    PROVE  Execute(quiet, c, i, inp, ub) =
               IF mmio_is_device(LdAddr(c, i))
               THEN SetReg(c, i, mmio_load(quiet, LdAddr(c, i), inp))
               ELSE IF Passes(LdAddr(c, i))
               THEN SetReg(c, i, mem_read32(c.mem, LdAddr(c, i)))
               ELSE Died(c, LdAddr(c, i))
BY AccessIs DEF Execute, SetReg, LdAddr, AluOps, CondOps

\* STORE, to a device or to memory.
LEMMA ArmStore ==
    ASSUME NEW quiet, NEW c, NEW i, NEW inp, NEW ub, i.op = "STORE"
    PROVE  Execute(quiet, c, i, inp, ub) =
               IF mmio_is_device(StAddr(c, i))
               THEN mmio_store(quiet, c, StAddr(c, i), c.regs[i.rs])
               ELSE IF Passes(StAddr(c, i))
               THEN Stored(c, StAddr(c, i), c.regs[i.rs])
               ELSE Died(c, StAddr(c, i))
BY AccessIs DEF Execute, Stored, StAddr, AluOps, CondOps

\* PUSH.
LEMMA ArmPush ==
    ASSUME NEW quiet, NEW c, NEW i, NEW inp, NEW ub, i.op = "PUSH", IsCpu(c)
    PROVE  Execute(quiet, c, i, inp, ub) =
               IF Passes(Top(c)) THEN Pushed(c, c.regs[i.rd], c.pc) ELSE Died(c, Top(c))
<1>1. Execute(quiet, c, i, inp, ub) =
          Access(c, Top(c), [c EXCEPT !.sp = Wrap(c.sp - 4),
                                      !.mem = mem_write32(c.mem, Wrap(c.sp - 4), c.regs[i.rd])])
  BY DEF Execute, Top, AluOps, CondOps
<1>2. [c EXCEPT !.sp = Wrap(c.sp - 4),
                !.mem = mem_write32(c.mem, Wrap(c.sp - 4), c.regs[i.rd])]
        = Pushed(c, c.regs[i.rd], c.pc)
  BY DEF Pushed, IsCpu, Fields
<1> QED BY <1>1, <1>2, AccessIs

\* CALL pushes the address of the next instruction.
LEMMA ArmCall ==
    ASSUME NEW quiet, NEW c, NEW i, NEW inp, NEW ub, i.op = "CALL", IsCpu(c)
    PROVE  Execute(quiet, c, i, inp, ub) =
               IF Passes(Top(c)) THEN Pushed(c, c.pc, i.imm) ELSE Died(c, Top(c))
<1>1. Execute(quiet, c, i, inp, ub) =
          Access(c, Top(c), [[c EXCEPT !.pc = i.imm] EXCEPT
                                !.sp = Wrap(c.sp - 4),
                                !.mem = mem_write32(c.mem, Wrap(c.sp - 4), c.pc)])
  BY DEF Execute, Top, AluOps, CondOps
<1>2. [[c EXCEPT !.pc = i.imm] EXCEPT
           !.sp = Wrap(c.sp - 4), !.mem = mem_write32(c.mem, Wrap(c.sp - 4), c.pc)]
        = Pushed(c, c.pc, i.imm)
  BY DEF Pushed, IsCpu, Fields
<1> QED BY <1>1, <1>2, AccessIs

\* POP.
LEMMA ArmPop ==
    ASSUME NEW quiet, NEW c, NEW i, NEW inp, NEW ub, i.op = "POP", IsCpu(c), IsIns(i)
    PROVE  Execute(quiet, c, i, inp, ub) =
               IF Passes(c.sp) THEN SetReg(Popped(c), i, mem_read32(c.mem, c.sp))
               ELSE Died(c, c.sp)
<1>1. Execute(quiet, c, i, inp, ub) =
          Access(c, c.sp, [[c EXCEPT !.regs[i.rd] = mem_read32(c.mem, c.sp)] EXCEPT
                              !.sp = Wrap(c.sp + 4)])
  BY DEF Execute, AluOps, CondOps
<1>2. [[c EXCEPT !.regs[i.rd] = mem_read32(c.mem, c.sp)] EXCEPT !.sp = Wrap(c.sp + 4)]
        = SetReg(Popped(c), i, mem_read32(c.mem, c.sp))
  BY DEF Popped, SetReg, IsCpu, IsIns, Fields
<1> QED BY <1>1, <1>2, AccessIs

\* RET.
LEMMA ArmRet ==
    ASSUME NEW quiet, NEW c, NEW i, NEW inp, NEW ub, i.op = "RET", IsCpu(c)
    PROVE  Execute(quiet, c, i, inp, ub) =
               IF Passes(c.sp) THEN Jump(Popped(c), mem_read32(c.mem, c.sp))
               ELSE Died(c, c.sp)
<1>1. Execute(quiet, c, i, inp, ub) =
          Access(c, c.sp, [[c EXCEPT !.pc = mem_read32(c.mem, c.sp)] EXCEPT
                              !.sp = Wrap(c.sp + 4)])
  BY DEF Execute, AluOps, CondOps
<1>2. [[c EXCEPT !.pc = mem_read32(c.mem, c.sp)] EXCEPT !.sp = Wrap(c.sp + 4)]
        = Jump(Popped(c), mem_read32(c.mem, c.sp))
  BY DEF Popped, Jump, IsCpu, Fields
<1> QED BY <1>1, <1>2, AccessIs

-----------------------------------------------------------------------------
(* What an instruction may change.                                         *)

\* x, made from c by instruction i, differs from c only where decode_meta says.
Effects(c, x, i) ==
    /\ IsCpu(x) /\ x.icount = c.icount
    /\ \A r \in Regs \ op_writes(i.op, i.rd) : x.regs[r] = c.regs[r]
    /\ ~op_sets_flags(i.op) => x.flags = c.flags
    /\ ~op_is_control(i.op) => x.pc = c.pc
    /\ ~op_accesses_mem(i.op) =>
           x.mem = c.mem /\ x.sp = c.sp /\ x.status \in {c.status, "halted"}

\* What each result leaves alone.
LEMMA NoEffect ==
    ASSUME NEW c, NEW i, IsCpu(c)
    PROVE  Effects(c, c, i)
BY DEF Effects

\* Halting.
LEMMA HaltEffects ==
    ASSUME NEW c, NEW i, IsCpu(c)
    PROVE  Effects(c, Halt(c), i)
BY DEF Effects, Halt, IsCpu, Fields

\* Writing a register that is listed.
LEMMA SetRegEffects ==
    ASSUME NEW c, NEW i, NEW v, IsCpu(c), IsIns(i), i.rd \in op_writes(i.op, i.rd)
    PROVE  Effects(c, SetReg(c, i, v), i)
BY DEF Effects, SetReg, IsCpu, IsIns, Fields

\* Jumping, by a control instruction.
LEMMA JumpEffects ==
    ASSUME NEW c, NEW i, NEW t, IsCpu(c), op_is_control(i.op)
    PROVE  Effects(c, Jump(c, t), i)
BY DEF Effects, Jump, IsCpu, Fields

\* Writing a register and the flags.
LEMMA AluEffects ==
    ASSUME NEW c, NEW i, NEW ub, IsCpu(c), IsIns(i), op_sets_flags(i.op),
           i.rd \in op_writes(i.op, i.rd)
    PROVE  Effects(c, Alu(c, i, ub), i)
<1> DEFINE r == AluResult(i.op, c.regs[i.rd], c.regs[i.rs], ub)
           f == AluFlags(i.op, c.flags, c.regs[i.rd], c.regs[i.rs], r)
<1>1. Alu(c, i, ub) = [SetReg(c, i, r) EXCEPT !.flags = f] BY DEF Alu
<1> HIDE DEF r, f
<1> QED BY <1>1 DEF Effects, SetReg, IsCpu, IsIns, Fields

\* Pushing; a call jumps too.
LEMMA PushEffects ==
    ASSUME NEW c, NEW i, NEW v, NEW t, IsCpu(c), op_accesses_mem(i.op),
           t = c.pc \/ op_is_control(i.op)
    PROVE  Effects(c, Pushed(c, v, t), i)
BY DEF Effects, Pushed, IsCpu, Fields

\* Popping into a register or into pc.
LEMMA PopEffects ==
    ASSUME NEW c, NEW i, NEW v, IsCpu(c), IsIns(i), op_accesses_mem(i.op)
    PROVE  /\ i.rd \in op_writes(i.op, i.rd) => Effects(c, SetReg(Popped(c), i, v), i)
           /\ op_is_control(i.op) => Effects(c, Jump(Popped(c), v), i)
<1>1. i.rd \in op_writes(i.op, i.rd) => Effects(c, SetReg(Popped(c), i, v), i)
  BY DEF Effects, SetReg, Popped, IsCpu, IsIns, Fields
<1>2. op_is_control(i.op) => Effects(c, Jump(Popped(c), v), i)
  BY DEF Effects, Jump, Popped, IsCpu, Fields
<1> QED BY <1>1, <1>2

\* Storing, and an access that ends the run.
LEMMA MemEffects ==
    ASSUME NEW c, NEW i, NEW addr, NEW v, IsCpu(c), op_accesses_mem(i.op)
    PROVE  Effects(c, Stored(c, addr, v), i) /\ Effects(c, Died(c, addr), i)
<1>1. Effects(c, Stored(c, addr, v), i) BY DEF Effects, Stored, IsCpu, Fields
<1>2. Effects(c, Died(c, addr), i)
  <2> DEFINE s == IF check_bounds(addr, 4) THEN "undefined" ELSE "exited"
  <2>1. Died(c, addr) = [c EXCEPT !.status = s] BY DEF Died
  <2> HIDE DEF s
  <2> QED BY <2>1 DEF Effects, IsCpu, Fields
<1> QED BY <1>1, <1>2

\* Output.
LEMMA EmitEffects ==
    ASSUME NEW c, NEW i, NEW n, IsCpu(c)
    PROVE  Effects(c, cpu_emit(c, n), i)
<1> DEFINE k == IF c.cap_len + n >= CapSize THEN n ELSE c.cap_len + n
<1>1. cpu_emit(c, n) = [c EXCEPT !.cap_len = k] BY DEF cpu_emit, IsCpu, Fields
<1> HIDE DEF k
<1> QED BY <1>1 DEF Effects, IsCpu, Fields

\* A store to a device.
LEMMA DeviceEffects ==
    ASSUME NEW c, NEW i, NEW quiet, NEW addr, NEW v, IsCpu(c)
    PROVE  Effects(c, mmio_store(quiet, c, addr, v), i)
<1>1. \/ mmio_store(quiet, c, addr, v) = Halt(c)
      \/ mmio_store(quiet, c, addr, v) = c
      \/ mmio_store(quiet, c, addr, v) = cpu_emit(c, DecimalLine(v))
      \/ mmio_store(quiet, c, addr, v) = cpu_emit(c, IF v % ByteMod = 0 THEN 0 ELSE 1)
  BY DEF mmio_store, Halt
<1> QED BY <1>1, NoEffect, HaltEffects, EmitEffects

\* decode_meta overlooks no effect of the switch.
LEMMA ExecuteEffects ==
    ASSUME NEW quiet, NEW c, NEW i, NEW inp, NEW ub, IsCpu(c), IsIns(i)
    PROVE  Effects(c, Execute(quiet, c, i, inp, ub), i)
<1> DEFINE x == Execute(quiet, c, i, inp, ub)
<1>1. CASE i.op = "NOP" BY <1>1, ArmsPlain, NoEffect
<1>2. CASE i.op \in {"HALT", "ILLEGAL"} BY <1>2, ArmsPlain, HaltEffects
<1>3. CASE i.op \in {"MOV", "LOADI", "IN"}
  <2>1. i.rd \in op_writes(i.op, i.rd) BY <1>3 DEF op_writes
  <2>2. \E v : x = SetReg(c, i, v) BY <1>3, ArmsPlain
  <2> QED BY <2>1, <2>2, SetRegEffects
<1>4. CASE i.op \in CondOps \cup {"JMP"}
  <2>1. op_is_control(i.op) BY <1>4 DEF op_is_control, op_is_conditional
  <2>2. x = c \/ x = Jump(c, i.imm) BY <1>4, ArmsPlain
  <2> QED BY <2>1, <2>2, NoEffect, JumpEffects
<1>5. CASE i.op = "OUT"
  <2>1. x = c \/ x = cpu_emit(c, DecimalLine(c.regs[i.rd])) BY <1>5, ArmsPlain
  <2> QED BY <2>1, NoEffect, EmitEffects
<1>6. CASE i.op \in AluOps \cup {"NOT"}
  <2>1. i.rd \in op_writes(i.op, i.rd) /\ op_sets_flags(i.op)
    BY <1>6 DEF op_writes, op_sets_flags
  <2>2. x = Halt(c) \/ x = Alu(c, i, ub) BY <1>6, ArmAlu
  <2> QED BY <2>1, <2>2, HaltEffects, AluEffects
<1>7. CASE i.op = "LOAD"
  <2>1. i.rd \in op_writes(i.op, i.rd) /\ op_accesses_mem(i.op)
    BY <1>7 DEF op_writes, op_accesses_mem
  <2>2. (\E v : x = SetReg(c, i, v)) \/ x = Died(c, LdAddr(c, i)) BY <1>7, ArmLoad
  <2> QED BY <2>1, <2>2, SetRegEffects, MemEffects
<1>8. CASE i.op = "STORE"
  <2>1. op_accesses_mem(i.op) BY <1>8 DEF op_accesses_mem
  <2>2. \/ x = mmio_store(quiet, c, StAddr(c, i), c.regs[i.rs])
        \/ x = Stored(c, StAddr(c, i), c.regs[i.rs])
        \/ x = Died(c, StAddr(c, i))
    BY <1>8, ArmStore
  <2> QED BY <2>1, <2>2, DeviceEffects, MemEffects
<1>9. CASE i.op = "PUSH"
  <2>1. op_accesses_mem(i.op) BY <1>9 DEF op_accesses_mem
  <2>2. x = Pushed(c, c.regs[i.rd], c.pc) \/ x = Died(c, Top(c)) BY <1>9, ArmPush
  <2> QED BY <2>1, <2>2, PushEffects, MemEffects
<1>10. CASE i.op = "CALL"
  <2>1. op_accesses_mem(i.op) /\ op_is_control(i.op)
    BY <1>10 DEF op_accesses_mem, op_is_control
  <2>2. x = Pushed(c, c.pc, i.imm) \/ x = Died(c, Top(c)) BY <1>10, ArmCall
  <2> QED BY <2>1, <2>2, PushEffects, MemEffects
<1>11. CASE i.op = "POP"
  <2>1. op_accesses_mem(i.op) /\ i.rd \in op_writes(i.op, i.rd)
    BY <1>11 DEF op_accesses_mem, op_writes
  <2>2. x = SetReg(Popped(c), i, mem_read32(c.mem, c.sp)) \/ x = Died(c, c.sp)
    BY <1>11, ArmPop
  <2> QED BY <2>1, <2>2, PopEffects, MemEffects
<1>12. CASE i.op = "RET"
  <2>1. op_accesses_mem(i.op) /\ op_is_control(i.op)
    BY <1>12 DEF op_accesses_mem, op_is_control
  <2>2. x = Jump(Popped(c), mem_read32(c.mem, c.sp)) \/ x = Died(c, c.sp)
    BY <1>12, ArmRet
  <2> QED BY <2>1, <2>2, PopEffects, MemEffects
<1> QED BY <1>1, <1>2, <1>3, <1>4, <1>5, <1>6, <1>7, <1>8, <1>9, <1>10, <1>11, <1>12
        DEF IsIns, Opcode

-----------------------------------------------------------------------------
(* What an instruction may depend on.                                      *)

\* Two machines that differ at most in register r.
Twins(p, q, r) ==
    /\ IsCpu(p) /\ IsCpu(q)
    /\ p.pc = q.pc /\ p.sp = q.sp /\ p.flags = q.flags /\ p.mem = q.mem
    /\ p.status = q.status /\ p.icount = q.icount
    /\ \A k \in Regs : k # r => p.regs[k] = q.regs[k]

\* The results of i agree, apart from registers it does not write.
SameResult(x, y, i) ==
    /\ \A w \in op_writes(i.op, i.rd) : x.regs[w] = y.regs[w]
    /\ x.flags = y.flags /\ x.mem = y.mem
    /\ x.pc = y.pc /\ x.sp = y.sp /\ x.status = y.status

\* The run goes on or has halted.
Completes(x) == x.status \in {"running", "halted"}

\* A failed access does not complete and counts no instruction.
LEMMA DiedIs ==
    ASSUME NEW c, NEW addr, IsCpu(c)
    PROVE  /\ ~Completes(Died(c, addr)) /\ Died(c, addr).icount = c.icount
           /\ Died(c, addr).status \in {"exited", "undefined"}
<1> DEFINE s == IF check_bounds(addr, 4) THEN "undefined" ELSE "exited"
<1>1. Died(c, addr) = [c EXCEPT !.status = s] BY DEF Died
<1>2. s \in {"exited", "undefined"} /\ s \notin {"running", "halted"} OBVIOUS
<1> HIDE DEF s
<1> QED BY <1>1, <1>2 DEF IsCpu, Fields, Completes

\* The machine with a register replaced.
LEMMA SetRegIs ==
    ASSUME NEW c, NEW i, NEW v, NEW x, x = SetReg(c, i, v), IsCpu(c), IsIns(i)
    PROVE  /\ IsCpu(x) /\ x.regs[i.rd] = v
           /\ x.pc = c.pc /\ x.sp = c.sp /\ x.flags = c.flags /\ x.mem = c.mem
           /\ x.status = c.status /\ x.icount = c.icount
BY DEF SetReg, IsCpu, IsIns, Fields

\* The same for the flags.
LEMMA SetFlagsIs ==
    ASSUME NEW c, NEW f, NEW x, x = [c EXCEPT !.flags = f], IsCpu(c)
    PROVE  /\ IsCpu(x) /\ x.regs = c.regs /\ x.flags = f
           /\ x.pc = c.pc /\ x.sp = c.sp /\ x.mem = c.mem
           /\ x.status = c.status /\ x.icount = c.icount
BY DEF IsCpu, Fields

\* Equal values into equal registers.
LEMMA SameSetReg ==
    ASSUME NEW p, NEW q, NEW r, NEW i, NEW v, Twins(p, q, r), IsIns(i)
    PROVE  SameResult(SetReg(p, i, v), SetReg(q, i, v), i)
<1>1. \A w \in op_writes(i.op, i.rd) : w = i.rd BY DEF op_writes
<1>2. SetReg(p, i, v).regs[i.rd] = v /\ SetReg(q, i, v).regs[i.rd] = v
  BY DEF Twins, SetReg, IsCpu, IsIns, Fields
<1>3. /\ SetReg(p, i, v).flags = SetReg(q, i, v).flags
      /\ SetReg(p, i, v).mem = SetReg(q, i, v).mem
      /\ SetReg(p, i, v).pc = SetReg(q, i, v).pc
      /\ SetReg(p, i, v).sp = SetReg(q, i, v).sp
      /\ SetReg(p, i, v).status = SetReg(q, i, v).status
  BY DEF Twins, SetReg, IsCpu, Fields
<1> QED BY <1>1, <1>2, <1>3 DEF SameResult

\* Arithmetic on equal operands.
LEMMA SameAlu ==
    ASSUME NEW p, NEW q, NEW r, NEW i, NEW ub, Twins(p, q, r), IsIns(i),
           i.op \in AluOps \cup {"NOT"}, r \notin op_reads(i.op, i.rd, i.rs)
    PROVE  SameResult(Alu(p, i, ub), Alu(q, i, ub), i)
<1> DEFINE a == p.regs[i.rd]
           b == p.regs[i.rs]
           e == q.regs[i.rs]
           v == AluResult(i.op, a, b, ub)
           f == AluFlags(i.op, p.flags, a, b, v)
<1>1. i.rd # r BY DEF op_reads, AluOps, CondOps
<1>2. q.regs[i.rd] = a /\ q.flags = p.flags BY <1>1 DEF Twins, IsIns
<1>3. AluResult(i.op, a, e, ub) = v /\ AluFlags(i.op, p.flags, a, e, v) = f
  <2>1. CASE i.op \in AluOps
    <3>1. i.rs # r BY <2>1 DEF op_reads, AluOps, CondOps
    <3>2. e = b BY <3>1 DEF Twins, IsIns
    <3> QED BY <3>2
  <2>2. CASE i.op = "NOT"
    <3>1. AluResult(i.op, a, e, ub) = v BY <2>2 DEF AluResult
    <3> HIDE DEF v
    <3>2. AluFlags(i.op, p.flags, a, e, v) = f BY <2>2 DEF AluFlags
    <3> QED BY <3>1, <3>2
  <2> QED BY <2>1, <2>2
<1>4. Alu(p, i, ub) = [SetReg(p, i, v) EXCEPT !.flags = f] BY DEF Alu
<1>5. Alu(q, i, ub) = [SetReg(q, i, v) EXCEPT !.flags = f] BY <1>2, <1>3 DEF Alu
<1> HIDE DEF a, b, e, v, f
<1>6. \A w \in op_writes(i.op, i.rd) : w = i.rd BY DEF op_writes
<1>7. /\ Alu(p, i, ub).regs[i.rd] = v /\ Alu(p, i, ub).flags = f
      /\ Alu(p, i, ub).mem = p.mem /\ Alu(p, i, ub).pc = p.pc
      /\ Alu(p, i, ub).sp = p.sp /\ Alu(p, i, ub).status = p.status
  <2>1. IsCpu(p) BY DEF Twins
  <2>2. PICK x : x = SetReg(p, i, v) OBVIOUS
  <2>3. /\ IsCpu(x) /\ x.regs[i.rd] = v /\ x.mem = p.mem /\ x.pc = p.pc
        /\ x.sp = p.sp /\ x.status = p.status
    BY <2>1, <2>2, SetRegIs
  <2>4. Alu(p, i, ub) = [x EXCEPT !.flags = f] BY <1>4, <2>2
  <2> QED BY <2>3, <2>4, SetFlagsIs
<1>8. /\ Alu(q, i, ub).regs[i.rd] = v /\ Alu(q, i, ub).flags = f
      /\ Alu(q, i, ub).mem = q.mem /\ Alu(q, i, ub).pc = q.pc
      /\ Alu(q, i, ub).sp = q.sp /\ Alu(q, i, ub).status = q.status
  <2>1. IsCpu(q) BY DEF Twins
  <2>2. PICK x : x = SetReg(q, i, v) OBVIOUS
  <2>3. /\ IsCpu(x) /\ x.regs[i.rd] = v /\ x.mem = q.mem /\ x.pc = q.pc
        /\ x.sp = q.sp /\ x.status = q.status
    BY <2>1, <2>2, SetRegIs
  <2>4. Alu(q, i, ub) = [x EXCEPT !.flags = f] BY <1>5, <2>2
  <2> QED BY <2>3, <2>4, SetFlagsIs
<1> QED BY <1>6, <1>7, <1>8 DEF SameResult, Twins

\* What does not write a register and depends on none.
LEMMA SameRest ==
    ASSUME NEW p, NEW q, NEW r, NEW i, Twins(p, q, r),
           \A w \in op_writes(i.op, i.rd) : w \in Regs /\ w # r
    PROVE  /\ SameResult(p, q, i)
           /\ SameResult(Halt(p), Halt(q), i)
           /\ \A t : SameResult(Jump(p, t), Jump(q, t), i)
           /\ \A v, t : SameResult(Pushed(p, v, t), Pushed(q, v, t), i)
           /\ \A t : SameResult(Jump(Popped(p), t), Jump(Popped(q), t), i)
           /\ \A a, v : SameResult(Stored(p, a, v), Stored(q, a, v), i)
           /\ \A n, m : SameResult(cpu_emit(p, n), cpu_emit(q, m), i)
<1>1. SameResult(p, q, i) BY DEF Twins, SameResult
<1>2. SameResult(Halt(p), Halt(q), i)
  BY DEF Twins, SameResult, Halt, IsCpu, Fields
<1>3. \A t : SameResult(Jump(p, t), Jump(q, t), i)
  BY DEF Twins, SameResult, Jump, IsCpu, Fields
<1>4. \A v, t : SameResult(Pushed(p, v, t), Pushed(q, v, t), i)
  BY DEF Twins, SameResult, Pushed, IsCpu, Fields
<1>5. \A t : SameResult(Jump(Popped(p), t), Jump(Popped(q), t), i)
  BY DEF Twins, SameResult, Jump, Popped, IsCpu, Fields
<1>6. \A a, v : SameResult(Stored(p, a, v), Stored(q, a, v), i)
  BY DEF Twins, SameResult, Stored, IsCpu, Fields
<1>7. ASSUME NEW n, NEW m PROVE SameResult(cpu_emit(p, n), cpu_emit(q, m), i)
  <2> DEFINE k == IF p.cap_len + n >= CapSize THEN n ELSE p.cap_len + n
             l == IF q.cap_len + m >= CapSize THEN m ELSE q.cap_len + m
  <2>1. cpu_emit(p, n) = [p EXCEPT !.cap_len = k] BY DEF cpu_emit, Twins, IsCpu, Fields
  <2>2. cpu_emit(q, m) = [q EXCEPT !.cap_len = l] BY DEF cpu_emit, Twins, IsCpu, Fields
  <2> HIDE DEF k, l
  <2> QED BY <2>1, <2>2 DEF Twins, SameResult, IsCpu, Fields
<1> QED BY <1>1, <1>2, <1>3, <1>4, <1>5, <1>6, <1>7

\* decode_meta overlooks no operand: a register it does not list among the reads
\* makes no difference.
LEMMA ExecuteReads ==
    ASSUME NEW p, NEW q, NEW r, NEW i, NEW quiet, NEW inp, NEW ub, Twins(p, q, r), IsIns(i),
           r \notin op_reads(i.op, i.rd, i.rs),
           Completes(Execute(quiet, q, i, inp, ub))
    PROVE  SameResult(Execute(quiet, p, i, inp, ub), Execute(quiet, q, i, inp, ub), i)
<1> DEFINE x == Execute(quiet, p, i, inp, ub)
           y == Execute(quiet, q, i, inp, ub)
<1>0. IsCpu(p) /\ IsCpu(q) BY DEF Twins
<1>a. p.mem = q.mem /\ p.pc = q.pc /\ p.sp = q.sp /\ p.flags = q.flags BY DEF Twins
<1>b. i.rd # r => p.regs[i.rd] = q.regs[i.rd] BY DEF Twins, IsIns
<1>c. i.rs # r => p.regs[i.rs] = q.regs[i.rs] BY DEF Twins, IsIns
<1>1. CASE i.op \in {"NOP", "HALT", "ILLEGAL"}
  <2>1. op_writes(i.op, i.rd) = {} BY <1>1 DEF op_writes, AluOps
  <2>2. (x = p /\ y = q) \/ (x = Halt(p) /\ y = Halt(q)) BY <1>1, ArmsPlain
  <2> QED BY <2>1, <2>2, SameRest
<1>2. CASE i.op \in {"LOADI", "IN"}
  <2> DEFINE v == IF i.op = "LOADI" THEN i.imm ELSE IF quiet THEN 0 ELSE inp
  <2>1. x = SetReg(p, i, v) /\ y = SetReg(q, i, v) BY <1>2, ArmsPlain
  <2> HIDE DEF v
  <2> QED BY <2>1, SameSetReg
<1>3. CASE i.op = "MOV"
  <2>1. i.rs # r BY <1>3 DEF op_reads, AluOps, CondOps
  <2> DEFINE v == p.regs[i.rs]
  <2>2. x = SetReg(p, i, v) /\ y = SetReg(q, i, v) BY <1>3, <1>c, <2>1, ArmsPlain
  <2> QED BY <2>2, SameSetReg
<1>4. CASE i.op \in CondOps \cup {"JMP"}
  <2>1. op_writes(i.op, i.rd) = {} BY <1>4 DEF op_writes, AluOps, CondOps
  <2>2. (x = p /\ y = q) \/ (x = Jump(p, i.imm) /\ y = Jump(q, i.imm))
    BY <1>4, <1>a, ArmsPlain
  <2> QED BY <2>1, <2>2, SameRest
<1>5. CASE i.op = "OUT"
  <2>1. op_writes(i.op, i.rd) = {} BY <1>5 DEF op_writes, AluOps
  <2>2. \/ x = p /\ y = q
        \/ /\ x = cpu_emit(p, DecimalLine(p.regs[i.rd]))
           /\ y = cpu_emit(q, DecimalLine(q.regs[i.rd]))
    BY <1>5, ArmsPlain
  <2> QED BY <2>1, <2>2, SameRest
<1>6. CASE i.op \in AluOps \cup {"NOT"}
  <2>1. i.rd # r /\ (i.op \in AluOps => i.rs # r) BY <1>6 DEF op_reads, AluOps, CondOps
  <2>2. i.op = "DIV" => p.regs[i.rs] = q.regs[i.rs] BY <1>c, <2>1 DEF AluOps
  <2>3. \A w \in op_writes(i.op, i.rd) : w \in Regs /\ w # r
    BY <2>1 DEF op_writes, IsIns
  <2>4. (x = Halt(p) /\ y = Halt(q)) \/ (x = Alu(p, i, ub) /\ y = Alu(q, i, ub))
    BY <1>6, <2>2, ArmAlu
  <2> QED BY <1>6, <2>3, <2>4, SameRest, SameAlu
<1>7. CASE i.op = "LOAD"
  <2>1. i.rs # r BY <1>7 DEF op_reads, AluOps, CondOps
  <2>2. LdAddr(p, i) = LdAddr(q, i) BY <2>1, <1>c DEF LdAddr
  <2>3. y # Died(q, LdAddr(q, i)) BY <1>0, DiedIs
  <2>4. \E v : x = SetReg(p, i, v) /\ y = SetReg(q, i, v)
    BY <1>7, <1>a, <2>2, <2>3, ArmLoad
  <2> QED BY <2>4, SameSetReg
<1>8. CASE i.op = "STORE"
  <2>1. i.rd # r /\ i.rs # r BY <1>8 DEF op_reads, AluOps, CondOps
  <2>2. op_writes(i.op, i.rd) = {} BY <1>8 DEF op_writes, AluOps
  <2>3. StAddr(p, i) = StAddr(q, i) /\ p.regs[i.rs] = q.regs[i.rs]
    BY <2>1, <1>b, <1>c DEF StAddr
  <2>4. y # Died(q, StAddr(q, i)) BY <1>0, DiedIs
  <2> DEFINE a == StAddr(q, i)
             v == q.regs[i.rs]
  <2>5. \/ x = mmio_store(quiet, p, a, v) /\ y = mmio_store(quiet, q, a, v)
        \/ x = Stored(p, a, v) /\ y = Stored(q, a, v)
    BY <1>8, <2>3, <2>4, ArmStore
  <2>6. \/ mmio_store(quiet, p, a, v) = p /\ mmio_store(quiet, q, a, v) = q
        \/ mmio_store(quiet, p, a, v) = Halt(p) /\ mmio_store(quiet, q, a, v) = Halt(q)
        \/ \E n : mmio_store(quiet, p, a, v) = cpu_emit(p, n)
                  /\ mmio_store(quiet, q, a, v) = cpu_emit(q, n)
    BY DEF mmio_store, Halt
  <2> HIDE DEF a, v
  <2> QED BY <2>2, <2>5, <2>6, SameRest
<1>9. CASE i.op \in {"PUSH", "CALL"}
  <2>1. op_writes(i.op, i.rd) = {} BY <1>9 DEF op_writes, AluOps
  <2>2. Top(p) = Top(q) BY <1>a DEF Top
  <2>3. y # Died(q, Top(q)) BY <1>0, DiedIs
  <2>4. CASE i.op = "PUSH"
    <3>1. i.rd # r BY <2>4 DEF op_reads, AluOps, CondOps
    <3>2. \E v, t : x = Pushed(p, v, t) /\ y = Pushed(q, v, t)
      BY <2>2, <2>3, <2>4, <3>1, <1>0, <1>a, <1>b, ArmPush
    <3> QED BY <3>2, <2>1, SameRest
  <2>5. CASE i.op = "CALL"
    <3>1. \E v, t : x = Pushed(p, v, t) /\ y = Pushed(q, v, t)
      BY <2>2, <2>3, <2>5, <1>0, <1>a, ArmCall
    <3> QED BY <3>1, <2>1, SameRest
  <2> QED BY <1>9, <2>4, <2>5
<1>10. CASE i.op = "POP"
  <2>1. Twins(Popped(p), Popped(q), r)
    BY <1>a DEF Twins, Popped, IsCpu, Fields
  <2>2. y # Died(q, q.sp) BY <1>0, DiedIs
  <2>3. \E v : x = SetReg(Popped(p), i, v) /\ y = SetReg(Popped(q), i, v)
    BY <1>10, <1>0, <1>a, <2>2, ArmPop
  <2> QED BY <2>1, <2>3, SameSetReg
<1>11. CASE i.op = "RET"
  <2>1. op_writes(i.op, i.rd) = {} BY <1>11 DEF op_writes, AluOps
  <2>2. y # Died(q, q.sp) BY <1>0, DiedIs
  <2>3. \E t : x = Jump(Popped(p), t) /\ y = Jump(Popped(q), t)
    BY <1>11, <1>0, <1>a, <2>2, ArmRet
  <2> QED BY <2>1, <2>3, SameRest
<1> QED BY <1>1, <1>2, <1>3, <1>4, <1>5, <1>6, <1>7, <1>8, <1>9, <1>10, <1>11
        DEF IsIns, Opcode

\* Whether an instruction completes depends neither on what it reads from stdin
\* nor on the outcome of an undefined shift.
LEMMA StatusAlone ==
    ASSUME NEW quiet, NEW c, NEW i, NEW inp, NEW ub, NEW inp2, NEW ub2,
           IsCpu(c), IsIns(i)
    PROVE  Execute(quiet, c, i, inp, ub).status = Execute(quiet, c, i, inp2, ub2).status
<1> DEFINE x == Execute(quiet, c, i, inp, ub)
           y == Execute(quiet, c, i, inp2, ub2)
<1>1. \A v : SetReg(c, i, v).status = c.status
  BY DEF SetReg, IsCpu, Fields
<1>2. \A u : Alu(c, i, u).status = c.status
  <2> SUFFICES ASSUME NEW u PROVE Alu(c, i, u).status = c.status
    OBVIOUS
  <2> DEFINE r == AluResult(i.op, c.regs[i.rd], c.regs[i.rs], u)
             f == AluFlags(i.op, c.flags, c.regs[i.rd], c.regs[i.rs], r)
  <2>1. Alu(c, i, u) = [SetReg(c, i, r) EXCEPT !.flags = f] BY DEF Alu
  <2> HIDE DEF r, f
  <2> QED BY <2>1 DEF SetReg, IsCpu, Fields
<1>3. CASE i.op \in {"NOP", "HALT", "ILLEGAL", "MOV", "LOADI", "JMP", "OUT"} \cup CondOps
  <2>1. x = y BY <1>3, ArmsPlain
  <2> QED BY <2>1
<1>4. CASE i.op = "IN"
  <2>1. /\ x = SetReg(c, i, IF quiet THEN 0 ELSE inp)
        /\ y = SetReg(c, i, IF quiet THEN 0 ELSE inp2)
    BY <1>4, ArmsPlain
  <2> QED BY <2>1, <1>1
<1>5. CASE i.op \in AluOps \cup {"NOT"}
  <2>1. \/ x = Halt(c) /\ y = Halt(c)
        \/ x = Alu(c, i, ub) /\ y = Alu(c, i, ub2)
    BY <1>5, ArmAlu
  <2> QED BY <2>1, <1>2
<1>6. CASE i.op = "LOAD"
  <2>1. \/ x = y
        \/ /\ x = SetReg(c, i, mmio_load(quiet, LdAddr(c, i), inp))
           /\ y = SetReg(c, i, mmio_load(quiet, LdAddr(c, i), inp2))
    BY <1>6, ArmLoad
  <2> QED BY <2>1, <1>1
<1>7. CASE i.op = "STORE"
  <2>1. x = y BY <1>7, ArmStore
  <2> QED BY <2>1
<1>8. CASE i.op = "PUSH"
  <2>1. x = y BY <1>8, ArmPush
  <2> QED BY <2>1
<1>9. CASE i.op = "CALL"
  <2>1. x = y BY <1>9, ArmCall
  <2> QED BY <2>1
<1>10. CASE i.op = "POP"
  <2>1. x = y BY <1>10, ArmPop
  <2> QED BY <2>1
<1>11. CASE i.op = "RET"
  <2>1. x = y BY <1>11, ArmRet
  <2> QED BY <2>1
<1> QED BY <1>3, <1>4, <1>5, <1>6, <1>7, <1>8, <1>9, <1>10, <1>11 DEF IsIns, Opcode

-----------------------------------------------------------------------------
(* cpu_step: the fetch in front of the switch.                             *)

\* The machine after the fetch.
Advanced(c) == [c EXCEPT !.pc = Wrap(@ + 4), !.icount = @ + 1]

\* The fetch moves pc and icount.
LEMMA AdvancedIs ==
    ASSUME NEW c, IsCpu(c)
    PROVE  /\ IsCpu(Advanced(c))
           /\ Advanced(c).regs = c.regs /\ Advanced(c).sp = c.sp
           /\ Advanced(c).flags = c.flags /\ Advanced(c).mem = c.mem
           /\ Advanced(c).status = c.status /\ Advanced(c).cap_len = c.cap_len
           /\ Advanced(c).pc = Wrap(c.pc + 4) /\ Advanced(c).icount = c.icount + 1
<1> DEFINE t == Wrap(c.pc + 4)
           k == c.icount + 1
<1>1. Advanced(c) = [c EXCEPT !.pc = t, !.icount = k]
  BY DEF Advanced, IsCpu, Fields
<1> HIDE DEF t, k
<1>2. /\ IsCpu(Advanced(c))
      /\ Advanced(c).regs = c.regs /\ Advanced(c).sp = c.sp
      /\ Advanced(c).flags = c.flags /\ Advanced(c).mem = c.mem
      /\ Advanced(c).status = c.status /\ Advanced(c).cap_len = c.cap_len
      /\ Advanced(c).pc = t /\ Advanced(c).icount = k
  BY <1>1 DEF IsCpu, Fields
<1> QED BY <1>2 DEF t, k

\* A fetch outside the memory ends the run.
LEMMA StepIs ==
    ASSUME NEW quiet, NEW c, NEW i, NEW inp, NEW ub
    PROVE  cpu_step(quiet, c, i, inp, ub) =
               IF Passes(c.pc) THEN Execute(quiet, Advanced(c), i, inp, ub)
               ELSE Died(c, c.pc)
BY AccessIs DEF cpu_step, Advanced

\* EffectsListed of the state c in which i was executed and its result x.
StepEffects(c, x, i) ==
    /\ \A r \in Regs \ op_writes(i.op, i.rd) : x.regs[r] = c.regs[r]
    /\ ~op_sets_flags(i.op) => x.flags = c.flags
    /\ ~op_is_control(i.op) => x.pc = Wrap(c.pc + 4)
    /\ ~op_accesses_mem(i.op) =>
         x.mem = c.mem /\ x.sp = c.sp /\ x.status \in {"running", "halted"}

\* A step makes a machine of a machine, and EffectsListed is true of it.
LEMMA StepKeeps ==
    ASSUME NEW quiet, NEW c, NEW i, NEW inp, NEW ub, IsCpu(c), IsIns(i),
           c.status = "running", c.icount \in Nat,
           NEW x, x = cpu_step(quiet, c, i, inp, ub)
    PROVE  /\ IsCpu(x) /\ x.icount \in Nat
           /\ x.icount > c.icount => Passes(c.pc) /\ StepEffects(c, x, i)
<1>1. CASE Passes(c.pc)
  <2>1. x = Execute(quiet, Advanced(c), i, inp, ub) BY <1>1, StepIs
  <2>2. Effects(Advanced(c), x, i) BY <2>1, AdvancedIs, ExecuteEffects
  <2>3. IsCpu(x) /\ x.icount = c.icount + 1 BY <2>2, AdvancedIs DEF Effects
  <2>4. StepEffects(c, x, i) BY <2>2, AdvancedIs DEF Effects, StepEffects
  <2> QED BY <1>1, <2>3, <2>4
<1>2. CASE ~Passes(c.pc)
  <2>1. x = Died(c, c.pc) BY <1>2, StepIs
  <2>2. x.icount = c.icount BY <2>1, DiedIs
  <2>3. IsCpu(x)
    <3> DEFINE s == IF check_bounds(c.pc, 4) THEN "undefined" ELSE "exited"
    <3>1. x = [c EXCEPT !.status = s] BY <2>1 DEF Died
    <3> HIDE DEF s
    <3> QED BY <3>1 DEF IsCpu, Fields
  <2> QED BY <2>2, <2>3
<1> QED BY <1>1, <1>2

\* An instruction that does not end the process is counted, once.
LEMMA StepIsCounted ==
    ASSUME NEW quiet, NEW c, NEW i, NEW inp, NEW ub, IsCpu(c), IsIns(i),
           NEW x, x = cpu_step(quiet, c, i, inp, ub),
           x.status \notin {"exited", "undefined"}
    PROVE  IsCpu(x) /\ x.icount = c.icount + 1
<1>1. Passes(c.pc)
  <2>1. SUFFICES ASSUME ~Passes(c.pc) PROVE FALSE OBVIOUS
  <2>2. x = Died(c, c.pc) BY <2>1, StepIs
  <2> QED BY <2>2, DiedIs
<1>2. x = Execute(quiet, Advanced(c), i, inp, ub) BY <1>1, StepIs
<1>3. Effects(Advanced(c), x, i) BY <1>2, AdvancedIs, ExecuteEffects
<1> QED BY <1>3, AdvancedIs DEF Effects

\* ReadsListed of c and i, for two values of a register.
LEMMA StepReads ==
    ASSUME NEW quiet, NEW c, NEW i, NEW inp, NEW ub, NEW inp2, NEW ub2,
           IsCpu(c), IsIns(i), Passes(c.pc),
           Completes(cpu_step(quiet, c, i, inp, ub)),
           NEW r \in Regs, r \notin op_reads(i.op, i.rd, i.rs), NEW v
    PROVE  SameResult(cpu_step(quiet, [c EXCEPT !.regs[r] = v], i, inp2, ub2),
                      cpu_step(quiet, [c EXCEPT !.regs[r] = c.regs[r]], i, inp2, ub2), i)
<1> DEFINE p == [c EXCEPT !.regs[r] = v]
           q == [c EXCEPT !.regs[r] = c.regs[r]]
<1>1. q = c BY DEF IsCpu, Fields
<1>2. Twins(p, c, r) /\ p.pc = c.pc BY DEF Twins, IsCpu, Fields
<1> HIDE DEF p
<1>3. Twins(Advanced(p), Advanced(c), r)
  <2>1. IsCpu(p) /\ IsCpu(c) /\ p.icount = c.icount BY <1>2 DEF Twins
  <2>2. /\ IsCpu(Advanced(p)) /\ Advanced(p).regs = p.regs /\ Advanced(p).sp = p.sp
        /\ Advanced(p).flags = p.flags /\ Advanced(p).mem = p.mem
        /\ Advanced(p).status = p.status
        /\ Advanced(p).pc = Wrap(p.pc + 4) /\ Advanced(p).icount = p.icount + 1
    BY <2>1, AdvancedIs
  <2>3. /\ IsCpu(Advanced(c)) /\ Advanced(c).regs = c.regs /\ Advanced(c).sp = c.sp
        /\ Advanced(c).flags = c.flags /\ Advanced(c).mem = c.mem
        /\ Advanced(c).status = c.status
        /\ Advanced(c).pc = Wrap(c.pc + 4) /\ Advanced(c).icount = c.icount + 1
    BY <2>1, AdvancedIs
  <2> QED BY <2>1, <2>2, <2>3, <1>2 DEF Twins
<1>4. cpu_step(quiet, c, i, inp, ub) = Execute(quiet, Advanced(c), i, inp, ub)
  BY StepIs
<1>5. IsCpu(Advanced(c)) BY AdvancedIs
<1>6. Completes(Execute(quiet, Advanced(c), i, inp2, ub2))
  BY <1>4, <1>5, StatusAlone DEF Completes
<1>7. SameResult(Execute(quiet, Advanced(p), i, inp2, ub2),
                 Execute(quiet, Advanced(c), i, inp2, ub2), i)
  BY <1>3, <1>6, ExecuteReads
<1>8. /\ cpu_step(quiet, p, i, inp2, ub2) = Execute(quiet, Advanced(p), i, inp2, ub2)
      /\ cpu_step(quiet, c, i, inp2, ub2) = Execute(quiet, Advanced(c), i, inp2, ub2)
  BY <1>2, StepIs
<1> QED BY <1>1, <1>7, <1>8 DEF p

-----------------------------------------------------------------------------
(* The metadata.                                                           *)

\* The instructions of a program are ones cpu_step can decode.
LEMMA InstructionsAre ==
    ASSUME mix \in Mixes, NEW i \in Instructions
    PROVE  IsIns(i)
<1>1. i.op \in mix.ops /\ i.rd \in Regs /\ i.rs \in Regs BY DEF Instructions
<1>2. mix.ops \subseteq Opcode BY CpuAssumption, OpsAssumption
<1> QED BY <1>1, <1>2 DEF IsIns

\* What the proofs need to know of the machine.
Running ==
    /\ mix \in Mixes
    /\ IsCpu(cpu) /\ cpu.icount \in Nat

\* The machine starts as a machine.
LEMMA StartsRunning ==
    ASSUME Init
    PROVE  Running /\ cpu.icount = before.icount
<1>1. PICK regs \in [Regs -> mix.words] :
          cpu = [cpu_init(mem_init, 0) EXCEPT !.regs = regs]
  BY DEF Init
<1>2. cpu = [regs |-> regs, pc |-> 0, sp |-> MEM_SIZE,
             flags |-> [z |-> FALSE, c |-> FALSE, o |-> FALSE, n |-> FALSE],
             mem |-> mem_init, status |-> "running", icount |-> 0, cap_len |-> 0]
  BY <1>1 DEF cpu_init
<1>3. IsCpu(cpu) /\ cpu.icount = 0 BY <1>2 DEF IsCpu, Fields
<1> QED BY <1>3 DEF Init, Running

\* One step, whatever the state, is as decode_meta says.
LEMMA StepMeta ==
    ASSUME Running, NEW i \in Instructions, NEW inp, NEW ub, Step(i, inp, ub)
    PROVE  Running' /\ MetaCovers'
<1>1. IsIns(i) BY InstructionsAre DEF Running
<1>2. PICK quiet : quiet = FALSE OBVIOUS
<1>3. /\ cpu.status = "running" /\ mix' = mix
      /\ ins' = i /\ before' = cpu
      /\ cpu' = cpu_step(quiet, cpu, i, inp, ub)
  BY <1>2 DEF Step
<1>4. IsCpu(cpu) /\ cpu.icount \in Nat BY DEF Running
<1>5. /\ IsCpu(cpu') /\ cpu'.icount \in Nat
      /\ cpu'.icount > cpu.icount => Passes(cpu.pc) /\ StepEffects(cpu, cpu', i)
  BY <1>1, <1>3, <1>4, StepKeeps
<1>6. Running' BY <1>3, <1>5 DEF Running, IsCpu, Fields
<1>7. EffectsListed'
  BY <1>3, <1>5 DEF EffectsListed, Executed, StepEffects, op_writes, op_sets_flags,
      op_is_control, op_is_conditional, op_accesses_mem, AluOps, CondOps, Wrap
<1>8. ReadsListed'
  <2>a. PICK ub2 : ub2 = TRUE OBVIOUS
  <2>b. \A r, v : Vary(r, v)' = cpu_step(quiet, [cpu EXCEPT !.regs[r] = v], i, 0, ub2)
    BY <2>a, <1>2, <1>3 DEF Vary
  <2>c. \A r : Vary(r, before.regs[r])'
                 = cpu_step(quiet, [cpu EXCEPT !.regs[r] = cpu.regs[r]], i, 0, ub2)
    BY <2>a, <1>2, <1>3 DEF Vary
  <2>1. ASSUME Completed',
               NEW r \in Regs, r \notin op_reads(i.op, i.rd, i.rs), NEW v
        PROVE  SameResult(cpu_step(quiet, [cpu EXCEPT !.regs[r] = v], i, 0, ub2),
                   cpu_step(quiet, [cpu EXCEPT !.regs[r] = cpu.regs[r]], i, 0, ub2), i)
    <3>1. Passes(cpu.pc) BY <1>3, <1>5, <2>1 DEF Completed, Executed
    <3>2. Completes(cpu_step(quiet, cpu, i, inp, ub))
      BY <1>3, <2>1 DEF Completed, Completes
    <3> QED BY <1>1, <1>4, <2>1, <3>1, <3>2, StepReads
  <2>2. ASSUME Completed',
               NEW r \in Regs, r \notin op_reads(i.op, i.rd, i.rs), NEW v
        PROVE  SameResult(Vary(r, v)', Vary(r, before.regs[r])', i)
    BY <2>b, <2>c, <2>1, <2>2
  <2> QED BY <1>3, <2>2 DEF ReadsListed, SameResult, op_reads, op_writes
<1> QED BY <1>6, <1>7, <1>8 DEF MetaCovers

\* decode_meta tells the truth about cpu_step for all 27 opcodes and the illegal
\* ones, in every state a program can reach: whatever an instruction changes is
\* listed, and whatever is not listed as read makes no difference to it.
THEOREM MetadataTrue == Spec => []MetaCovers
<1>1. Init => Running /\ MetaCovers
  <2> SUFFICES ASSUME Init PROVE Running /\ MetaCovers
    OBVIOUS
  <2>1. Running /\ cpu.icount = before.icount BY StartsRunning
  <2>2. ~Executed BY <2>1 DEF Running, Executed
  <2> QED BY <2>1, <2>2 DEF MetaCovers, EffectsListed, ReadsListed, Completed
<1>2. Running /\ MetaCovers /\ [Next]_vars => Running' /\ MetaCovers'
  <2>1. CASE Running /\ Next BY <2>1, StepMeta DEF Next
  <2>2. CASE Running /\ MetaCovers /\ UNCHANGED vars
    <3>1. cpu' = cpu /\ before' = before /\ ins' = ins /\ mix' = mix BY <2>2 DEF vars
    <3>2. Running' BY <2>2, <3>1 DEF Running, IsCpu, Fields
    <3>3. EffectsListed'
      BY <2>2, <3>1 DEF MetaCovers, EffectsListed, Executed, op_writes, op_sets_flags,
          op_is_control, op_is_conditional, op_accesses_mem, Wrap
    <3>4. \A r, v : Vary(r, v)' = Vary(r, v) BY <3>1 DEF Vary
    <3>5. ReadsListed'
      BY <2>2, <3>1, <3>4 DEF MetaCovers, ReadsListed, Executed, Completed, op_reads, op_writes
    <3> QED BY <3>2, <3>3, <3>5 DEF MetaCovers
  <2> QED BY <2>1, <2>2
<1> QED BY <1>1, <1>2, PTL DEF Spec

-----------------------------------------------------------------------------
(* The silent run.                                                         *)

\* Two machines that differ at most in what the capture buffer holds.
Agree(c, d) ==
    /\ IsCpu(c) /\ IsCpu(d)
    /\ d.regs = c.regs /\ d.pc = c.pc /\ d.sp = c.sp /\ d.flags = c.flags
    /\ d.mem = c.mem /\ d.status = c.status /\ d.icount = c.icount

\* What the arms of the switch do keeps machines in agreement ...
LEMMA AgreeSetReg ==
    ASSUME NEW c, NEW d, NEW i, NEW v, Agree(c, d), IsIns(i)
    PROVE  Agree(SetReg(c, i, v), SetReg(d, i, v))
BY DEF Agree, SetReg, IsCpu, Fields, IsIns

\* Arithmetic reads registers and flags only.
LEMMA AgreeAlu ==
    ASSUME NEW c, NEW d, NEW i, NEW ub, Agree(c, d), IsIns(i)
    PROVE  Agree(Alu(c, i, ub), Alu(d, i, ub))
<1> DEFINE r == AluResult(i.op, c.regs[i.rd], c.regs[i.rs], ub)
           f == AluFlags(i.op, c.flags, c.regs[i.rd], c.regs[i.rs], r)
<1>1. d.regs = c.regs /\ d.flags = c.flags BY DEF Agree
<1>2. /\ Alu(c, i, ub) = [SetReg(c, i, r) EXCEPT !.flags = f]
      /\ Alu(d, i, ub) = [SetReg(d, i, r) EXCEPT !.flags = f]
  BY <1>1 DEF Alu
<1> HIDE DEF r, f
<1>3. Agree(SetReg(c, i, r), SetReg(d, i, r)) BY AgreeSetReg
<1>4. IsCpu(SetReg(c, i, r)) /\ IsCpu(SetReg(d, i, r)) BY <1>3 DEF Agree
<1> QED BY <1>2, <1>3, <1>4, SetFlagsIs DEF Agree

\* Halting, jumping, the stack, memory and failing accesses.
LEMMA AgreeRest ==
    ASSUME NEW c, NEW d, NEW t, NEW v, Agree(c, d)
    PROVE  /\ Agree(Halt(c), Halt(d)) /\ Agree(Jump(c, t), Jump(d, t))
           /\ Agree(Popped(c), Popped(d)) /\ Agree(Pushed(c, v, t), Pushed(d, v, t))
           /\ Agree(Stored(c, t, v), Stored(d, t, v)) /\ Agree(Died(c, t), Died(d, t))
<1>1. Agree(Halt(c), Halt(d)) /\ Agree(Jump(c, t), Jump(d, t))
  BY DEF Agree, Halt, Jump, IsCpu, Fields
<1>2. Agree(Popped(c), Popped(d))
  <2> DEFINE s == Wrap(c.sp + 4)
  <2>1. Popped(c) = [c EXCEPT !.sp = s] /\ Popped(d) = [d EXCEPT !.sp = s]
    BY DEF Popped, Agree
  <2> HIDE DEF s
  <2> QED BY <2>1 DEF Agree, IsCpu, Fields
<1>3. Agree(Pushed(c, v, t), Pushed(d, v, t))
  <2> DEFINE s == Wrap(c.sp - 4)
             m == mem_write32(c.mem, Wrap(c.sp - 4), v)
  <2>1. /\ Pushed(c, v, t) = [c EXCEPT !.pc = t, !.sp = s, !.mem = m]
        /\ Pushed(d, v, t) = [d EXCEPT !.pc = t, !.sp = s, !.mem = m]
    BY DEF Pushed, Agree
  <2> HIDE DEF s, m
  <2>2. IsCpu(c) /\ IsCpu(d) BY DEF Agree
  <2>3. /\ IsCpu(Pushed(c, v, t)) /\ Pushed(c, v, t).regs = c.regs
        /\ Pushed(c, v, t).pc = t /\ Pushed(c, v, t).sp = s
        /\ Pushed(c, v, t).flags = c.flags /\ Pushed(c, v, t).mem = m
        /\ Pushed(c, v, t).status = c.status /\ Pushed(c, v, t).icount = c.icount
    BY <2>1, <2>2 DEF IsCpu, Fields
  <2>4. /\ IsCpu(Pushed(d, v, t)) /\ Pushed(d, v, t).regs = d.regs
        /\ Pushed(d, v, t).pc = t /\ Pushed(d, v, t).sp = s
        /\ Pushed(d, v, t).flags = d.flags /\ Pushed(d, v, t).mem = m
        /\ Pushed(d, v, t).status = d.status /\ Pushed(d, v, t).icount = d.icount
    BY <2>1, <2>2 DEF IsCpu, Fields
  <2> QED BY <2>3, <2>4 DEF Agree
<1>4. Agree(Stored(c, t, v), Stored(d, t, v))
  <2> DEFINE m == mem_write32(c.mem, t, v)
  <2>1. Stored(c, t, v) = [c EXCEPT !.mem = m] /\ Stored(d, t, v) = [d EXCEPT !.mem = m]
    BY DEF Stored, Agree
  <2> HIDE DEF m
  <2> QED BY <2>1 DEF Agree, IsCpu, Fields
<1>5. Agree(Died(c, t), Died(d, t))
  <2> DEFINE s == IF check_bounds(t, 4) THEN "undefined" ELSE "exited"
  <2>1. Died(c, t) = [c EXCEPT !.status = s] /\ Died(d, t) = [d EXCEPT !.status = s]
    BY DEF Died
  <2> HIDE DEF s
  <2> QED BY <2>1 DEF Agree, IsCpu, Fields
<1> QED BY <1>1, <1>2, <1>3, <1>4, <1>5

\* ... and so does output, of one of them or of both.
LEMMA AgreeEmit ==
    ASSUME NEW c, NEW d, NEW n, Agree(c, d)
    PROVE  Agree(cpu_emit(c, n), d) /\ Agree(c, cpu_emit(d, n))
<1> DEFINE k == IF c.cap_len + n >= CapSize THEN n ELSE c.cap_len + n
           l == IF d.cap_len + n >= CapSize THEN n ELSE d.cap_len + n
<1>1. /\ cpu_emit(c, n) = [c EXCEPT !.cap_len = k]
      /\ cpu_emit(d, n) = [d EXCEPT !.cap_len = l]
  BY DEF cpu_emit, Agree, IsCpu, Fields
<1> HIDE DEF k, l
<1> QED BY <1>1 DEF Agree, IsCpu, Fields

\* cpu_silent in emu, and in the simulator's generator or in emu again.
Modes(loud, quiet) == loud = FALSE /\ quiet \in BOOLEAN

\* Input that is not suppressed in only one of the runs, or is zero anyway.
SameInput(quiet, c, i, inp) == ~quiet \/ inp = 0 \/ ~ReadsInput(c, i)

\* The device registers: the halt register works with I/O suppressed.
LEMMA AgreeDevice ==
    ASSUME NEW c, NEW d, NEW addr, NEW v, NEW loud, NEW quiet,
           Modes(loud, quiet), Agree(c, d)
    PROVE  Agree(mmio_store(loud, c, addr, v), mmio_store(quiet, d, addr, v))
<1>1. CASE addr = MMIO_HALT
  <2>1. /\ mmio_store(loud, c, addr, v) = Halt(c)
        /\ mmio_store(quiet, d, addr, v) = Halt(d)
    BY <1>1 DEF Modes, mmio_store, Halt
  <2> QED BY <2>1, AgreeRest
<1>2. CASE addr # MMIO_HALT
  <2>1. \/ mmio_store(loud, c, addr, v) = c
        \/ \E n : mmio_store(loud, c, addr, v) = cpu_emit(c, n)
    BY <1>2 DEF Modes, mmio_store
  <2>2. \/ mmio_store(quiet, d, addr, v) = d
        \/ \E n : mmio_store(quiet, d, addr, v) = cpu_emit(d, n)
    BY <1>2 DEF Modes, mmio_store
  <2>3. Agree(mmio_store(loud, c, addr, v), d) BY <2>1, AgreeEmit
  <2> QED BY <2>2, <2>3, AgreeEmit
<1> QED BY <1>1, <1>2

\* The switch, in both runs on the same input.
LEMMA ExecuteAgrees ==
    ASSUME NEW c, NEW d, NEW i, NEW inp, NEW ub, NEW loud, NEW quiet,
           Modes(loud, quiet), Agree(c, d), IsIns(i),
           SameInput(quiet, c, i, inp)
    PROVE  Agree(Execute(loud, c, i, inp, ub), Execute(quiet, d, i, inp, ub))
<1> DEFINE x == Execute(loud, c, i, inp, ub)
           y == Execute(quiet, d, i, inp, ub)
<1>0. IsCpu(c) /\ IsCpu(d) BY DEF Agree
<1>a. /\ d.regs = c.regs /\ d.pc = c.pc /\ d.sp = c.sp /\ d.flags = c.flags
      /\ d.mem = c.mem
  BY DEF Agree
<1>1. CASE i.op \in {"NOP", "HALT", "ILLEGAL"}
  <2>1. (x = c /\ y = d) \/ (x = Halt(c) /\ y = Halt(d)) BY <1>1, ArmsPlain
  <2> QED BY <2>1, AgreeRest
<1>2. CASE i.op \in {"MOV", "LOADI", "IN"}
  <2> DEFINE v == IF i.op = "MOV" THEN c.regs[i.rs] ELSE IF i.op = "LOADI" THEN i.imm ELSE inp
  <2>1. (IF loud THEN 0 ELSE inp) = inp BY DEF Modes
  <2>2. i.op = "IN" => (IF quiet THEN 0 ELSE inp) = inp BY DEF Modes, SameInput, ReadsInput
  <2>3. x = SetReg(c, i, v) BY <1>2, <2>1, ArmsPlain
  <2>4. y = SetReg(d, i, v) BY <1>2, <1>a, <2>2, ArmsPlain
  <2> HIDE DEF v
  <2> QED BY <2>3, <2>4, AgreeSetReg
<1>3. CASE i.op \in CondOps \cup {"JMP"}
  <2>1. (x = c /\ y = d) \/ (x = Jump(c, i.imm) /\ y = Jump(d, i.imm))
    BY <1>3, <1>a, ArmsPlain
  <2> QED BY <2>1, AgreeRest
<1>4. CASE i.op = "OUT"
  <2>1. /\ x = IF loud THEN c ELSE cpu_emit(c, DecimalLine(c.regs[i.rd]))
        /\ y = IF quiet THEN d ELSE cpu_emit(d, DecimalLine(d.regs[i.rd]))
    BY <1>4, ArmsPlain
  <2>2. /\ x = cpu_emit(c, DecimalLine(c.regs[i.rd]))
        /\ y = d \/ y = cpu_emit(d, DecimalLine(d.regs[i.rd]))
    BY <2>1 DEF Modes
  <2>3. Agree(x, d) BY <2>2, AgreeEmit
  <2> QED BY <2>2, <2>3, AgreeEmit
<1>5. CASE i.op \in AluOps \cup {"NOT"}
  <2>1. (x = Halt(c) /\ y = Halt(d)) \/ (x = Alu(c, i, ub) /\ y = Alu(d, i, ub))
    BY <1>5, <1>a, ArmAlu
  <2> QED BY <2>1, AgreeRest, AgreeAlu
<1>6. CASE i.op = "LOAD"
  <2>1. LdAddr(d, i) = LdAddr(c, i) BY <1>a DEF LdAddr
  <2>2. mmio_load(loud, LdAddr(c, i), inp) = mmio_load(quiet, LdAddr(c, i), inp)
    BY <1>6 DEF Modes, mmio_load, SameInput, ReadsInput, LdAddr
  <2>3. \/ \E v : x = SetReg(c, i, v) /\ y = SetReg(d, i, v)
        \/ x = Died(c, LdAddr(c, i)) /\ y = Died(d, LdAddr(c, i))
    BY <1>6, <1>a, <2>1, <2>2, ArmLoad
  <2> QED BY <2>3, AgreeSetReg, AgreeRest
<1>7. CASE i.op = "STORE"
  <2>1. StAddr(d, i) = StAddr(c, i) BY <1>a DEF StAddr
  <2>2. \/ /\ x = mmio_store(loud, c, StAddr(c, i), c.regs[i.rs])
           /\ y = mmio_store(quiet, d, StAddr(c, i), c.regs[i.rs])
        \/ /\ x = Stored(c, StAddr(c, i), c.regs[i.rs])
           /\ y = Stored(d, StAddr(c, i), c.regs[i.rs])
        \/ x = Died(c, StAddr(c, i)) /\ y = Died(d, StAddr(c, i))
    BY <1>7, <1>a, <2>1, ArmStore
  <2> QED BY <2>2, AgreeDevice, AgreeRest
<1>8. CASE i.op \in {"PUSH", "CALL"}
  <2>1. Top(d) = Top(c) BY <1>a DEF Top
  <2>2. \/ /\ x = Pushed(c, c.regs[i.rd], c.pc) /\ y = Pushed(d, c.regs[i.rd], c.pc)
        \/ x = Pushed(c, c.pc, i.imm) /\ y = Pushed(d, c.pc, i.imm)
        \/ x = Died(c, Top(c)) /\ y = Died(d, Top(c))
    BY <1>8, <1>0, <1>a, <2>1, ArmPush, ArmCall
  <2> QED BY <2>2, AgreeRest
<1>9. CASE i.op = "POP"
  <2>1. \/ /\ x = SetReg(Popped(c), i, mem_read32(c.mem, c.sp))
           /\ y = SetReg(Popped(d), i, mem_read32(c.mem, c.sp))
        \/ x = Died(c, c.sp) /\ y = Died(d, c.sp)
    BY <1>9, <1>0, <1>a, ArmPop
  <2> QED BY <2>1, AgreeSetReg, AgreeRest
<1>10. CASE i.op = "RET"
  <2>1. \/ /\ x = Jump(Popped(c), mem_read32(c.mem, c.sp))
           /\ y = Jump(Popped(d), mem_read32(c.mem, c.sp))
        \/ x = Died(c, c.sp) /\ y = Died(d, c.sp)
    BY <1>10, <1>0, <1>a, ArmRet
  <2> QED BY <2>1, AgreeRest
<1> QED BY <1>1, <1>2, <1>3, <1>4, <1>5, <1>6, <1>7, <1>8, <1>9, <1>10 DEF IsIns, Opcode

\* ... and with the fetch in front of it.
LEMMA StepAgrees ==
    ASSUME NEW c, NEW d, NEW i, NEW inp, NEW ub, NEW loud, NEW quiet,
           Modes(loud, quiet), Agree(c, d), IsIns(i),
           SameInput(quiet, c, i, inp)
    PROVE  Agree(cpu_step(loud, c, i, inp, ub), cpu_step(quiet, d, i, inp, ub))
<1>1. IsCpu(c) /\ IsCpu(d) /\ d.pc = c.pc BY DEF Agree
<1>2. CASE Passes(c.pc)
  <2>1. /\ cpu_step(loud, c, i, inp, ub) = Execute(loud, Advanced(c), i, inp, ub)
        /\ cpu_step(quiet, d, i, inp, ub) = Execute(quiet, Advanced(d), i, inp, ub)
    BY <1>1, <1>2, StepIs
  <2>2. /\ IsCpu(Advanced(c)) /\ Advanced(c).regs = c.regs /\ Advanced(c).sp = c.sp
        /\ Advanced(c).flags = c.flags /\ Advanced(c).mem = c.mem
        /\ Advanced(c).status = c.status
        /\ Advanced(c).pc = Wrap(c.pc + 4) /\ Advanced(c).icount = c.icount + 1
    BY <1>1, AdvancedIs
  <2>3. /\ IsCpu(Advanced(d)) /\ Advanced(d).regs = d.regs /\ Advanced(d).sp = d.sp
        /\ Advanced(d).flags = d.flags /\ Advanced(d).mem = d.mem
        /\ Advanced(d).status = d.status
        /\ Advanced(d).pc = Wrap(d.pc + 4) /\ Advanced(d).icount = d.icount + 1
    BY <1>1, AdvancedIs
  <2>4. Agree(Advanced(c), Advanced(d)) BY <2>2, <2>3 DEF Agree
  <2>5. SameInput(quiet, Advanced(c), i, inp) BY <2>2 DEF SameInput, ReadsInput
  <2> QED BY <2>1, <2>4, <2>5, ExecuteAgrees
<1>3. CASE ~Passes(c.pc)
  <2>1. /\ cpu_step(loud, c, i, inp, ub) = Died(c, c.pc)
        /\ cpu_step(quiet, d, i, inp, ub) = Died(d, c.pc)
    BY <1>1, <1>3, StepIs
  <2> QED BY <2>1, AgreeRest
<1> QED BY <1>2, <1>3

\* The inductive invariant: as long as nothing but zeros was read, the runs
\* differ in the capture buffer only.
SilentInv == Running /\ (~asked => Agree(cpu, silent))

\* A program that has read nothing but zeros cannot tell whether its I/O is
\* suppressed: the simulator's oracle, which runs it so, ends where emu does.
THEOREM SilentIsFaithful == OSpec => []SilentAgrees
<1>1. OInit => SilentInv
  <2> SUFFICES ASSUME OInit PROVE SilentInv
    OBVIOUS
  <2>1. Running /\ silent = cpu BY StartsRunning DEF OInit
  <2> QED BY <2>1 DEF SilentInv, Running, Agree
<1>2. SilentInv /\ [ONext]_ovars => SilentInv'
  <2> SUFFICES ASSUME SilentInv, [ONext]_ovars PROVE SilentInv'
    OBVIOUS
  <2>1. CASE ONext
    <3>1. PICK i \in Instructions : \E inp \in InputsFor(i), ub \in ShiftsFor(i) :
                                        StepBoth(i, inp, ub)
      BY <2>1 DEF ONext
    <3>2. PICK inp \in InputsFor(i), ub \in ShiftsFor(i) : StepBoth(i, inp, ub)
      BY <3>1
    <3>3. Step(i, inp, ub) BY <3>2 DEF StepBoth
    <3>4. Running' BY <3>3, StepMeta DEF SilentInv
    <3>5. ASSUME ~asked' PROVE Agree(cpu', silent')
      <4>1. ~asked /\ (inp = 0 \/ ~ReadsInput(cpu, i)) BY <3>2, <3>5 DEF StepBoth
      <4>2. PICK loud, quiet : loud = FALSE /\ quiet = TRUE OBVIOUS
      <4>3. /\ cpu' = cpu_step(loud, cpu, i, inp, ub)
            /\ silent' = cpu_step(quiet, silent, i, inp, ub)
        BY <3>2, <3>3, <4>2 DEF StepBoth, Step
      <4>4. Agree(cpu, silent) BY <4>1 DEF SilentInv
      <4>5. IsIns(i) BY InstructionsAre DEF SilentInv, Running
      <4>6. Modes(loud, quiet) /\ SameInput(quiet, cpu, i, inp)
        BY <4>1, <4>2 DEF Modes, SameInput
      <4> QED BY <4>3, <4>4, <4>5, <4>6, StepAgrees
    <3> QED BY <3>4, <3>5 DEF SilentInv
  <2>2. CASE UNCHANGED ovars
    <3>1. cpu' = cpu /\ silent' = silent /\ asked' = asked /\ mix' = mix
      BY <2>2 DEF ovars, vars
    <3> QED BY <3>1 DEF SilentInv, Running, Agree, IsCpu, Fields
  <2> QED BY <2>1, <2>2
<1>3. SilentInv => SilentAgrees BY DEF SilentInv, SilentAgrees, Agree, Arch
<1> QED BY <1>1, <1>2, <1>3, PTL DEF OSpec

\* Following the second machine takes nothing from the first: what holds of the
\* reference CPU alone holds of the pair, in which the runs check it.
THEOREM PairRunsReference == OSpec => Spec
<1>1. OInit => Init BY DEF OInit
<1>2. [ONext]_ovars => [Next]_vars BY DEF ONext, StepBoth, Next, ovars
<1> QED BY <1>1, <1>2, PTL DEF OSpec, Spec

\* The metadata is true of the instructions of both runs' common program.
THEOREM PairMetadataTrue == OSpec => []MetaCovers
BY PairRunsReference, MetadataTrue, PTL

-----------------------------------------------------------------------------
(* Numbers: induction, powers of two, bits.                                *)

\* Induction over the naturals, as the least counterexample: a set of
\* naturals that is not empty has a least element.
LEMMA LeastNat ==
  ASSUME NEW T, T \subseteq Nat, T # {}
  PROVE  \E n \in T : \A m \in T : n <= m
<1> DEFINE R == OpToRel(<, Nat)
<1>1. IsWellFoundedOn(R, Nat) BY NatLessThanWellFounded
<1>2. \A m, n \in Nat : m < n => <<m, n>> \in R BY DEF OpToRel
<1> HIDE DEF R
<1>3. PICK n \in T : \A m \in T : ~(<<m, n>> \in R) BY <1>1, WFMin
<1>4. ASSUME NEW m \in T PROVE n <= m
  <2>1. m \in Nat /\ n \in Nat OBVIOUS
  <2>2. ~(m < n) BY <2>1, <1>2, <1>3
  <2> QED BY <2>1, <2>2
<1> QED BY <1>4

\* The bits of a word.
LEMMA WordBitsIs == ByteBits \in Nat \ {0} /\ WordBits = 4 * ByteBits /\ WordBits \in Nat
BY MachineAssumption DEF WordBits

\* A power of two, opaque to the provers.
Pow(n) == 2^n

\* The equations of the powers.
LEMMA PowIs ==
    /\ Pow(0) = 1
    /\ \A n \in 0..WordBits : Pow(n) \in Nat \ {0}
    /\ \A n \in 0..WordBits-1 : Pow(n + 1) = 2 * Pow(n)
BY PowersOfTwoAssumption DEF Pow

\* Powers of two add up in the exponent.
LEMMA PowersAdd ==
    ASSUME NEW m \in Nat, NEW n \in Nat, m + n <= WordBits
    PROVE  Pow(m + n) = Pow(m) * Pow(n)
<1> DEFINE T == {k \in Nat : k <= n /\ Pow(m + k) # Pow(m) * Pow(k)}
<1>1. T = {}
  <2> SUFFICES ASSUME T # {} PROVE FALSE OBVIOUS
  <2>1. PICK k \in T : \A l \in T : k <= l BY LeastNat
  <2>2. k \in Nat /\ k <= n /\ Pow(m + k) # Pow(m) * Pow(k) BY <2>1
  <2>3. m \in 0..WordBits BY WordBitsIs
  <2>4. Pow(m) \in Nat BY <2>3, PowIs
  <2>5. k # 0
    <3>1. m + 0 = m BY <2>3
    <3> QED BY <2>2, <2>4, <3>1, PowIs
  <2>6. k - 1 \in Nat /\ k - 1 \notin T BY <2>1, <2>2, <2>5
  <2>7. Pow(m + (k - 1)) = Pow(m) * Pow(k - 1) BY <2>2, <2>6
  <2>8. (m + (k - 1)) + 1 = m + k /\ (k - 1) + 1 = k
        /\ m + (k - 1) \in 0..WordBits-1 /\ k - 1 \in 0..WordBits-1 /\ k - 1 \in 0..WordBits
    BY <2>2, <2>6, WordBitsIs
  <2>9. Pow(m + k) = 2 * Pow(m + (k - 1)) /\ Pow(k) = 2 * Pow(k - 1) /\ Pow(k - 1) \in Nat
    BY <2>8, PowIs
  <2>10. 2 * (Pow(m) * Pow(k - 1)) = Pow(m) * (2 * Pow(k - 1)) BY <2>4, <2>9
  <2> QED BY <2>2, <2>7, <2>9, <2>10
<1> QED BY <1>1

\* A word is four bytes.
LEMMA WordIsFourBytes ==
    /\ ByteMod \in Nat \ {0} /\ WordMod \in Nat \ {0}
    /\ 2^(2 * ByteBits) = ByteMod * ByteMod
    /\ 2^(3 * ByteBits) = ByteMod * (ByteMod * ByteMod)
    /\ WordMod = ByteMod * (ByteMod * (ByteMod * ByteMod))
<1>1. ByteMod \in Nat \ {0} /\ WordMod \in Nat \ {0}
  BY WordBitsIs, PowersOfTwoAssumption DEF ByteMod, WordMod
<1>2. /\ 2 * ByteBits = ByteBits + ByteBits
      /\ 3 * ByteBits = ByteBits + (2 * ByteBits)
      /\ WordBits = ByteBits + (3 * ByteBits)
      /\ 2 * ByteBits \in Nat /\ 3 * ByteBits \in Nat /\ ByteBits \in Nat
      /\ 3 * ByteBits <= WordBits /\ 2 * ByteBits <= WordBits
  BY WordBitsIs
<1>3. 2^(2 * ByteBits) = ByteMod * ByteMod BY <1>2, PowersAdd DEF ByteMod, Pow
<1>4. 2^(3 * ByteBits) = ByteMod * (ByteMod * ByteMod) BY <1>2, <1>3, PowersAdd DEF ByteMod, Pow
<1>5. WordMod = ByteMod * (ByteMod * (ByteMod * ByteMod))
  BY <1>2, <1>4, PowersAdd DEF ByteMod, WordMod, Pow
<1> QED BY <1>1, <1>3, <1>4, <1>5

\* Half of them are negative.
LEMMA WordIsEven == \E h \in Nat \ {0} : WordMod = 2 * h /\ WordMod \div 2 = h
<1>1. WordBits - 1 \in 0..WordBits-1 /\ (WordBits - 1) + 1 = WordBits /\ WordBits - 1 \in 0..WordBits
  BY WordBitsIs
<1>2. 2^(WordBits - 1) \in Nat \ {0} /\ WordMod = 2 * 2^(WordBits - 1)
  BY <1>1, PowersOfTwoAssumption DEF WordMod
<1> QED BY <1>2

\* The recursion of Bitwise2 is well founded.
LEMMA SumExists ==
  ASSUME NEW N \in Nat, NEW d
  PROVE  \E g : g = [k \in 0..N |-> IF k = 0 THEN 0 ELSE g[k - 1] + d[k - 1]]
<1> DEFINE IsSum(g, n) == g = [k \in 0..n |-> IF k = 0 THEN 0 ELSE g[k - 1] + d[k - 1]]
           T == {n \in Nat : ~\E g : IsSum(g, n)}
<1>1. T = {}
  <2> SUFFICES ASSUME T # {} PROVE FALSE OBVIOUS
  <2>1. PICK n \in T : \A m \in T : n <= m BY LeastNat
  <2>2. n # 0
    <3>1. IsSum([k \in 0..0 |-> 0], 0) OBVIOUS
    <3> QED BY <3>1, <2>1
  <2>3. n - 1 \in Nat /\ n - 1 \notin T BY <2>1, <2>2
  <2>4. PICK g : IsSum(g, n - 1) BY <2>3
  <2> DEFINE h == [k \in 0..n |-> IF k = n THEN g[n - 1] + d[n - 1] ELSE g[k]]
  <2>5. \A k \in 0..n-1 : h[k] = g[k] BY <2>3
  <2>6. ASSUME NEW k \in 0..n
        PROVE  h[k] = IF k = 0 THEN 0 ELSE h[k - 1] + d[k - 1]
    BY <2>2, <2>3, <2>4, <2>5
  <2>7. IsSum(h, n) BY <2>6
  <2> QED BY <2>1, <2>7
<1> QED BY <1>1

\* A bit, a table of bits.
LEMMA BitIs == ASSUME NEW a \in Nat, NEW k \in 0..WordBits PROVE Bit(a, k) \in {0, 1}
<1>1. 2^k \in Nat \ {0} BY PowersOfTwoAssumption
<1>2. a \div 2^k \in Int BY <1>1
<1> QED BY <1>2 DEF Bit

\* The result of a bitwise operation is a word.
LEMMA BitwiseIsWord ==
    ASSUME NEW t \in [{0, 1} -> [{0, 1} -> {0, 1}]], NEW a \in Nat, NEW b \in Nat
    PROVE  Bitwise2(t, a, b) \in Word
<1> DEFINE d == [k \in 0..WordBits |-> t[Bit(a, k)][Bit(b, k)] * Pow(k)]
           Body(g) == [k \in 0..WordBits |->
                         IF k = 0 THEN 0
                         ELSE g[k - 1] + t[Bit(a, k - 1)][Bit(b, k - 1)] * Pow(k - 1)]
           Low == CHOOSE g : g = Body(g)
<1>1. Bitwise2(t, a, b) = Low[WordBits] BY DEF Bitwise2, Pow
<1>2. PICK g : g = [k \in 0..WordBits |-> IF k = 0 THEN 0 ELSE g[k - 1] + d[k - 1]]
  BY WordBitsIs, SumExists
<1>3. g = Body(g)
  <2>1. \A k \in 0..WordBits : k # 0 =>
            k - 1 \in 0..WordBits /\ d[k - 1] = t[Bit(a, k - 1)][Bit(b, k - 1)] * Pow(k - 1)
    BY WordBitsIs
  <2> HIDE DEF d
  <2> QED BY <1>2, <2>1
<1>4. Low = Body(Low) BY <1>3
<1> HIDE DEF Low
<1>5. /\ Low[0] = 0
      /\ \A k \in 0..WordBits : k # 0 =>
             Low[k] = Low[k - 1] + t[Bit(a, k - 1)][Bit(b, k - 1)] * Pow(k - 1)
  BY <1>4, WordBitsIs
<1> DEFINE T == {k \in Nat : k <= WordBits /\ Low[k] \notin 0..Pow(k)-1}
<1>6. T = {}
  <2> SUFFICES ASSUME T # {} PROVE FALSE OBVIOUS
  <2>1. PICK k \in T : \A l \in T : k <= l BY LeastNat
  <2>2. k # 0
    <3>1. Low[0] \in 0..Pow(0)-1 BY <1>5, PowIs
    <3> QED BY <2>1, <3>1
  <2>3. k - 1 \in Nat /\ k - 1 \notin T /\ k <= WordBits BY <2>1, <2>2
  <2>4. k \in 0..WordBits /\ k - 1 \in 0..WordBits /\ k - 1 \in 0..WordBits-1 /\ (k - 1) + 1 = k
    BY <2>3, WordBitsIs
  <2>5. Low[k - 1] \in 0..Pow(k - 1)-1 BY <2>3, <2>4, WordBitsIs
  <2>6. Bit(a, k - 1) \in {0, 1} /\ Bit(b, k - 1) \in {0, 1} BY <2>4, BitIs
  <2>7. PICK e \in {0, 1} : e = t[Bit(a, k - 1)][Bit(b, k - 1)] BY <2>6
  <2>8. Low[k] = Low[k - 1] + e * Pow(k - 1) BY <1>5, <2>2, <2>4, <2>7
  <2>9. Pow(k) = 2 * Pow(k - 1) /\ Pow(k - 1) \in Nat \ {0} BY <2>4, PowIs
  <2>10. Low[k] \in 0..Pow(k)-1 BY <2>5, <2>8, <2>9
  <2> QED BY <2>1, <2>10
<1>7. Low[WordBits] \in 0..Pow(WordBits)-1 BY <1>6, WordBitsIs
<1> QED BY <1>1, <1>7 DEF Word, WordMod, Pow

-----------------------------------------------------------------------------
(* Words and bytes.                                                        *)

\* Division of naturals.
LEMMA DivBelow ==
    ASSUME NEW a \in Nat, NEW n \in Nat \ {0}
    PROVE  a \div n \in 0..a
OBVIOUS

\* Dividing twice.
LEMMA DivDiv ==
    ASSUME NEW b \in Nat \ {0}, NEW c \in Nat \ {0}, NEW v \in Nat
    PROVE  v \div (b * c) = (v \div b) \div c
OBVIOUS

\* Conversion to uint32_t gives a word.
LEMMA WrapIsWord ==
    ASSUME NEW v \in Int
    PROVE  Wrap(v) \in Word
BY WordIsFourBytes DEF Wrap, Word

\* A word is a natural number below WordMod.
LEMMA WordIs ==
    ASSUME NEW v \in Word
    PROVE  v \in Nat /\ v < WordMod
BY WordIsFourBytes DEF Word

\* The tables of the bitwise operations.
LEMMA TablesAre ==
    /\ AndTable \in [{0, 1} -> [{0, 1} -> {0, 1}]]
    /\ OrTable \in [{0, 1} -> [{0, 1} -> {0, 1}]]
    /\ XorTable \in [{0, 1} -> [{0, 1} -> {0, 1}]]
<1>1. \A x, y \in {0, 1} : x * y \in {0, 1} /\ x + y - x * y \in {0, 1} /\ (x + y) % 2 \in {0, 1}
  OBVIOUS
<1> QED BY <1>1 DEF AndTable, OrTable, XorTable

\* Shifts.
LEMMA ShiftsAreWords ==
    ASSUME NEW a \in Word, NEW n \in Word, NEW ub
    PROVE  Shl(a, n, ub) \in Word /\ Shr(a, n, ub) \in Word
<1>1. a \in Nat /\ n \in Nat /\ a < WordMod /\ 0 \in Word BY WordIs, WordIsFourBytes DEF Word
<1>2. WordBits \in Nat \ {0} BY WordBitsIs
<1>3. n % WordBits \in 0..WordBits-1 BY <1>1, <1>2
<1>4. \A k \in 0..WordBits-1 : Wrap(a * 2^k) \in Word /\ a \div 2^k \in Word
  <2> TAKE k \in 0..WordBits-1
  <2>1. PICK p \in Nat \ {0} : p = 2^k BY <1>2, PowersOfTwoAssumption
  <2>2. a * p \in Int /\ a \div p \in 0..a BY <1>1, DivBelow
  <2>3. Wrap(a * p) \in Word BY <2>2, WrapIsWord
  <2>4. a \div p \in Word BY <1>1, <2>2, WordIsFourBytes DEF Word
  <2> QED BY <2>1, <2>3, <2>4
<1>5. n < WordBits => n \in 0..WordBits-1 BY <1>1, <1>2
<1> QED BY <1>1, <1>3, <1>4, <1>5 DEF Shl, Shr

\* Whatever the ALU computes from words is a word.
LEMMA AluIsWord ==
    ASSUME NEW op \in AluOps \cup {"NOT"}, NEW a \in Word, NEW b \in Word, NEW ub,
           ~(op = "DIV" /\ b = 0)
    PROVE  AluResult(op, a, b, ub) \in Word
<1>1. a \in Nat /\ b \in Nat /\ a < WordMod /\ b < WordMod BY WordIs
<1>2. a + b \in Int /\ a - b \in Int /\ a * b \in Int BY <1>1
<1>3. Wrap(a + b) \in Word /\ Wrap(a - b) \in Word /\ Wrap(a * b) \in Word
  BY <1>2, WrapIsWord
<1>4. b # 0 => a \div b \in Word
  <2> SUFFICES ASSUME b # 0 PROVE a \div b \in Word OBVIOUS
  <2>1. a \div b \in 0..a BY <1>1, DivBelow
  <2> QED BY <1>1, <2>1, WordIsFourBytes DEF Word
<1>5. /\ Bitwise2(AndTable, a, b) \in Word /\ Bitwise2(OrTable, a, b) \in Word
      /\ Bitwise2(XorTable, a, b) \in Word
  BY <1>1, TablesAre, BitwiseIsWord
<1>6. WordMod - 1 - a \in Word BY <1>1, WordIsFourBytes DEF Word
<1>7. Shl(a, b, ub) \in Word /\ Shr(a, b, ub) \in Word BY ShiftsAreWords
<1> QED BY <1>3, <1>4, <1>5, <1>6, <1>7 DEF AluResult, AluOps

\* A digit in front of a number.
LEMMA Digit ==
    ASSUME NEW b \in Nat \ {0}, NEW m \in Nat \ {0}, NEW d \in 0..b-1, NEW x \in 0..m-1
    PROVE  d + b * x \in 0..(b * m)-1
OBVIOUS

\* A byte, and the memory of them.
Byte == 0..ByteMod-1
Memory == [0..MEM_SIZE-1 -> Byte]

\* Four bytes of memory are a word.
LEMMA ReadIsWord ==
    ASSUME NEW m \in Memory, NEW addr \in Nat, InArray(addr, 4)
    PROVE  mem_read32(m, addr) \in Word
<1>1. MEM_SIZE \in Nat BY MachineAssumption, WordIs
<1>2. /\ addr \in 0..MEM_SIZE-1 /\ addr + 1 \in 0..MEM_SIZE-1
      /\ addr + 2 \in 0..MEM_SIZE-1 /\ addr + 3 \in 0..MEM_SIZE-1
  BY <1>1 DEF InArray
<1>3. PICK B \in Nat \ {0} : B = ByteMod BY WordIsFourBytes
<1>4. /\ m[addr] \in 0..B-1 /\ m[addr + 1] \in 0..B-1
      /\ m[addr + 2] \in 0..B-1 /\ m[addr + 3] \in 0..B-1
  BY <1>2, <1>3 DEF Memory, Byte
<1>5. m[addr + 2] + B * m[addr + 3] \in 0..(B * B)-1 BY <1>4, Digit
<1>6. B * B \in Nat \ {0} /\ B * (B * B) \in Nat \ {0} OBVIOUS
<1>7. m[addr + 1] + B * (m[addr + 2] + B * m[addr + 3]) \in 0..(B * (B * B))-1
  BY <1>4, <1>5, <1>6, Digit
<1>8. m[addr] + B * (m[addr + 1] + B * (m[addr + 2] + B * m[addr + 3]))
        \in 0..(B * (B * (B * B)))-1
  BY <1>4, <1>6, <1>7, Digit
<1> QED BY <1>3, <1>8, WordIsFourBytes DEF mem_read32, Word

\* A byte of a word.
LEMMA ByteOf ==
    ASSUME NEW v \in Nat
    PROVE  /\ v % ByteMod \in Byte /\ (v \div ByteMod) % ByteMod \in Byte
           /\ (v \div 2^(2 * ByteBits)) % ByteMod \in Byte
           /\ (v \div 2^(3 * ByteBits)) % ByteMod \in Byte
<1>1. PICK B \in Nat \ {0} : B = ByteMod BY WordIsFourBytes
<1>2. PICK C \in Nat \ {0} : C = 2^(2 * ByteBits) BY WordIsFourBytes
<1>3. PICK D \in Nat \ {0} : D = 2^(3 * ByteBits) BY WordIsFourBytes
<1>4. v \div B \in Nat /\ v \div C \in Nat /\ v \div D \in Nat BY DivBelow
<1>5. v % B \in 0..B-1 /\ (v \div B) % B \in 0..B-1 /\ (v \div C) % B \in 0..B-1
      /\ (v \div D) % B \in 0..B-1
  BY <1>4
<1> QED BY <1>1, <1>2, <1>3, <1>5 DEF Byte

\* A store leaves bytes in memory.
LEMMA WriteKeepsBytes ==
    ASSUME NEW m \in Memory, NEW addr, NEW v \in Word
    PROVE  mem_write32(m, addr, v) \in Memory
<1>1. v \in Nat BY WordIs
<1> DEFINE b0 == v % ByteMod
           b1 == (v \div ByteMod) % ByteMod
           b2 == (v \div 2^(2 * ByteBits)) % ByteMod
           b3 == (v \div 2^(3 * ByteBits)) % ByteMod
<1>2. b0 \in Byte /\ b1 \in Byte /\ b2 \in Byte /\ b3 \in Byte BY <1>1, ByteOf
<1>3. mem_write32(m, addr, v) =
        [m EXCEPT ![addr] = b0, ![addr + 1] = b1, ![addr + 2] = b2, ![addr + 3] = b3]
  BY DEF mem_write32
<1> HIDE DEF b0, b1, b2, b3
<1> QED BY <1>2, <1>3 DEF Memory

\* The length of a line cpu_emit prints.
LEMMA LineIs ==
    ASSUME NEW v
    PROVE  DecimalLine(v) \in 2..11
<1> DEFINE S == {k \in 1..9 : v >= 10^k}
<1>1. IsFiniteSet(1..9) /\ Cardinality(1..9) = 9
  <2>1. PICK lo \in Int, hi \in Int : lo = 1 /\ hi = 9 OBVIOUS
  <2>2. IsFiniteSet(lo..hi) /\ Cardinality(lo..hi) = IF lo > hi THEN 0 ELSE hi - lo + 1
    BY FS_Interval
  <2> QED BY <2>1, <2>2
<1>2. S \subseteq 1..9 OBVIOUS
<1>3. DecimalLine(v) = 2 + Cardinality(S) BY DEF DecimalLine
<1> HIDE DEF S
<1>4. IsFiniteSet(S) /\ Cardinality(S) <= 9 BY <1>1, <1>2, FS_Subset
<1>5. Cardinality(S) \in Nat BY <1>4, FS_CardinalityType
<1> QED BY <1>3, <1>4, <1>5

-----------------------------------------------------------------------------
(* Every instruction keeps the types of the machine.                       *)

\* A machine whose fields hold what the code's types hold.
Typed(c) ==
    /\ IsCpu(c)
    /\ c.regs \in [Regs -> Word]
    /\ c.pc \in Word /\ c.sp \in Word
    /\ c.flags \in [z: BOOLEAN, c: BOOLEAN, o: BOOLEAN, n: BOOLEAN]
    /\ c.mem \in Memory
    /\ c.status \in {"running", "halted", "exited", "undefined"}
    /\ c.cap_len \in 0..CapSize-1

\* What the arms of the switch leave is typed: a halt ...
LEMMA TypedHalt == ASSUME NEW c, Typed(c) PROVE Typed(Halt(c))
BY DEF Typed, Halt, IsCpu, Fields

\* ... a failed access ...
LEMMA TypedDied == ASSUME NEW c, NEW addr, Typed(c) PROVE Typed(Died(c, addr))
<1> DEFINE s == IF check_bounds(addr, 4) THEN "undefined" ELSE "exited"
<1>1. Died(c, addr) = [c EXCEPT !.status = s] BY DEF Died
<1>2. s \in {"exited", "undefined"} OBVIOUS
<1> HIDE DEF s
<1> QED BY <1>1, <1>2 DEF Typed, IsCpu, Fields

\* ... a register that gets a word ...
LEMMA TypedSetReg ==
    ASSUME NEW c, Typed(c), NEW i, IsIns(i), NEW v \in Word
    PROVE  Typed(SetReg(c, i, v))
BY DEF Typed, SetReg, IsCpu, IsIns, Fields

\* ... flags ...
LEMMA TypedFlags ==
    ASSUME NEW c, Typed(c), NEW f \in [z: BOOLEAN, c: BOOLEAN, o: BOOLEAN, n: BOOLEAN]
    PROVE  Typed([c EXCEPT !.flags = f])
BY DEF Typed, IsCpu, Fields

\* ... a jump to a word ...
LEMMA TypedJump ==
    ASSUME NEW c, Typed(c), NEW t \in Word
    PROVE  Typed(Jump(c, t))
BY DEF Typed, Jump, IsCpu, Fields

\* ... a word stored, wherever it goes ...
LEMMA TypedStored ==
    ASSUME NEW c, Typed(c), NEW addr, NEW v \in Word
    PROVE  Typed(Stored(c, addr, v))
<1> DEFINE m == mem_write32(c.mem, addr, v)
<1>1. Stored(c, addr, v) = [c EXCEPT !.mem = m] BY DEF Stored
<1>2. m \in Memory BY WriteKeepsBytes DEF Typed
<1> HIDE DEF m
<1> QED BY <1>1, <1>2 DEF Typed, IsCpu, Fields

\* ... a push ...
LEMMA TypedPushed ==
    ASSUME NEW c, Typed(c), NEW t \in Word, NEW v \in Word
    PROVE  Typed(Pushed(c, v, t))
<1> DEFINE a == Wrap(c.sp - 4)
           m == mem_write32(c.mem, a, v)
<1>1. Pushed(c, v, t) = [c EXCEPT !.pc = t, !.sp = a, !.mem = m] BY DEF Pushed
<1>2. m \in Memory BY WriteKeepsBytes DEF Typed
<1>3. a \in Word
  <2>1. c.sp - 4 \in Int BY WordIs DEF Typed
  <2> QED BY <2>1, WrapIsWord
<1> HIDE DEF m, a
<1> QED BY <1>1, <1>2, <1>3 DEF Typed, IsCpu, Fields

\* ... a pop ...
LEMMA TypedPopped == ASSUME NEW c, Typed(c) PROVE Typed(Popped(c))
<1> DEFINE a == Wrap(c.sp + 4)
<1>1. Popped(c) = [c EXCEPT !.sp = a] BY DEF Popped
<1>2. a \in Word
  <2>1. c.sp + 4 \in Int BY WordIs DEF Typed
  <2> QED BY <2>1, WrapIsWord
<1> HIDE DEF a
<1> QED BY <1>1, <1>2 DEF Typed, IsCpu, Fields

\* ... and the fetch.
LEMMA TypedAdvanced == ASSUME NEW c, Typed(c) PROVE Typed(Advanced(c))
<1>1. IsCpu(c) BY DEF Typed
<1>2. Wrap(c.pc + 4) \in Word
  <2>1. c.pc + 4 \in Int BY WordIs DEF Typed
  <2> QED BY <2>1, WrapIsWord
<1> QED BY <1>1, <1>2, AdvancedIs DEF Typed

\* Emitting at most a line leaves room for the NUL.
LEMMA TypedEmit ==
    ASSUME NEW c, Typed(c), NEW n \in 0..11
    PROVE  Typed(cpu_emit(c, n))
<1> DEFINE l == IF c.cap_len + n >= CapSize THEN n ELSE c.cap_len + n
<1>1. cpu_emit(c, n) = [c EXCEPT !.cap_len = l] BY DEF cpu_emit, Typed, IsCpu, Fields
<1>2. l \in 0..CapSize-1 BY MachineAssumption DEF Typed
<1> HIDE DEF l
<1> QED BY <1>1, <1>2 DEF Typed, IsCpu, Fields

\* The flags of the ALU.
LEMMA FlagsAre ==
    ASSUME NEW op, NEW f \in [z: BOOLEAN, c: BOOLEAN, o: BOOLEAN, n: BOOLEAN],
           NEW a, NEW b, NEW r
    PROVE  AluFlags(op, f, a, b, r) \in [z: BOOLEAN, c: BOOLEAN, o: BOOLEAN, n: BOOLEAN]
<1>1. exec_add_flags(f, a, b, r) \in [z: BOOLEAN, c: BOOLEAN, o: BOOLEAN, n: BOOLEAN]
  BY DEF exec_add_flags, Neg
<1>2. exec_sub_flags(f, a, b, r) \in [z: BOOLEAN, c: BOOLEAN, o: BOOLEAN, n: BOOLEAN]
  BY DEF exec_sub_flags, Neg
<1>3. set_zn(f, r) \in [z: BOOLEAN, c: BOOLEAN, o: BOOLEAN, n: BOOLEAN]
  <2> DEFINE zero == (r = 0)
             neg == Neg(r)
  <2>1. zero \in BOOLEAN /\ neg \in BOOLEAN BY DEF Neg
  <2>2. set_zn(f, r) = [f EXCEPT !.z = zero, !.n = neg] BY DEF set_zn
  <2> HIDE DEF zero, neg
  <2> QED BY <2>1, <2>2
<1> QED BY <1>1, <1>2, <1>3 DEF AluFlags

\* An ALU instruction writes a word and flags.
LEMMA TypedAlu ==
    ASSUME NEW c, Typed(c), NEW i, IsIns(i), i.op \in AluOps \cup {"NOT"}, NEW ub,
           ~(i.op = "DIV" /\ c.regs[i.rs] = 0)
    PROVE  Typed(Alu(c, i, ub))
<1> DEFINE r == AluResult(i.op, c.regs[i.rd], c.regs[i.rs], ub)
           f == AluFlags(i.op, c.flags, c.regs[i.rd], c.regs[i.rs], r)
<1>1. c.regs[i.rd] \in Word /\ c.regs[i.rs] \in Word BY DEF Typed, IsIns
<1>2. r \in Word BY <1>1, AluIsWord
<1>3. f \in [z: BOOLEAN, c: BOOLEAN, o: BOOLEAN, n: BOOLEAN] BY FlagsAre DEF Typed
<1>4. Alu(c, i, ub) = [SetReg(c, i, r) EXCEPT !.flags = f] BY DEF Alu
<1> HIDE DEF r, f
<1>5. Typed(SetReg(c, i, r)) BY <1>2, TypedSetReg
<1> QED BY <1>3, <1>4, <1>5, TypedFlags

\* A store to a device.
LEMMA TypedDevice ==
    ASSUME NEW quiet, NEW c, Typed(c), NEW addr, NEW v
    PROVE  Typed(mmio_store(quiet, c, addr, v))
<1> DEFINE k == IF v % ByteMod = 0 THEN 0 ELSE 1
           n == DecimalLine(v)
<1>1. k \in 0..11 OBVIOUS
<1>2. n \in 0..11 BY LineIs
<1>3. mmio_store(quiet, c, addr, v) \in {Halt(c), c, cpu_emit(c, n), cpu_emit(c, k)}
  BY DEF mmio_store, Halt
<1> HIDE DEF k, n
<1>4. Typed(cpu_emit(c, n)) /\ Typed(cpu_emit(c, k)) /\ Typed(Halt(c))
  BY <1>1, <1>2, TypedEmit, TypedHalt
<1> QED BY <1>3, <1>4

\* A word may be fetched, loaded or popped.
LEMMA PassedIsWord ==
    ASSUME NEW c, Typed(c), NEW addr \in Word, Passes(addr)
    PROVE  mem_read32(c.mem, addr) \in Word
BY WordIs, ReadIsWord DEF Typed, Passes

\* The switch keeps a machine's types.
LEMMA TypedExecute ==
    ASSUME NEW quiet, NEW c, Typed(c), NEW i, IsIns(i), i.imm \in Word, NEW inp \in Word,
           NEW ub
    PROVE  Typed(Execute(quiet, c, i, inp, ub))
<1> DEFINE x == Execute(quiet, c, i, inp, ub)
<1>0. /\ IsCpu(c) /\ c.regs[i.rd] \in Word /\ c.regs[i.rs] \in Word /\ 0 \in Word
      /\ c.pc \in Word /\ c.sp \in Word
  BY WordIsFourBytes DEF Typed, IsIns, Word
<1>1. /\ LdAddr(c, i) \in Word /\ StAddr(c, i) \in Word
  <2>1. c.regs[i.rs] + i.imm \in Int /\ c.regs[i.rd] + i.imm \in Int BY <1>0, WordIs
  <2> QED BY <2>1, WrapIsWord DEF LdAddr, StAddr
<1>2. CASE i.op \in {"NOP", "HALT", "ILLEGAL"} BY <1>2, ArmsPlain, TypedHalt
<1>3. CASE i.op = "MOV" BY <1>0, <1>3, ArmsPlain, TypedSetReg
<1>4. CASE i.op = "LOADI" BY <1>4, ArmsPlain, TypedSetReg
<1>5. CASE i.op = "JMP" BY <1>5, ArmsPlain, TypedJump
<1>6. CASE i.op \in CondOps
  <2>1. x \in {Jump(c, i.imm), c} BY <1>6, ArmsPlain
  <2> QED BY <2>1, TypedJump
<1>7. CASE i.op = "IN"
  <2>1. PICK w \in Word : x = SetReg(c, i, w) BY <1>0, <1>7, ArmsPlain
  <2> QED BY <2>1, TypedSetReg
<1>8. CASE i.op = "OUT"
  <2>1. x \in {c, cpu_emit(c, DecimalLine(c.regs[i.rd]))} BY <1>8, ArmsPlain
  <2>2. DecimalLine(c.regs[i.rd]) \in 0..11 BY LineIs
  <2> QED BY <2>1, <2>2, TypedEmit
<1>9. CASE i.op \in AluOps \cup {"NOT"}
  <2>1. x = IF i.op = "DIV" /\ c.regs[i.rs] = 0 THEN Halt(c) ELSE Alu(c, i, ub)
    BY <1>9, ArmAlu
  <2> QED BY <1>9, <2>1, TypedHalt, TypedAlu
<1>10. CASE i.op = "LOAD"
  <2>1. mmio_load(quiet, LdAddr(c, i), inp) \in Word BY <1>0 DEF mmio_load
  <2>2. Passes(LdAddr(c, i)) => mem_read32(c.mem, LdAddr(c, i)) \in Word
    BY <1>1, PassedIsWord
  <2> QED BY <1>10, <2>1, <2>2, ArmLoad, TypedSetReg, TypedDied
<1>11. CASE i.op = "STORE"
  BY <1>0, <1>11, ArmStore, TypedDevice, TypedStored, TypedDied
<1>12. CASE i.op = "PUSH" BY <1>0, <1>12, ArmPush, TypedPushed, TypedDied
<1>13. CASE i.op = "CALL" BY <1>0, <1>13, ArmCall, TypedPushed, TypedDied
<1>14. CASE i.op = "POP"
  <2>1. Passes(c.sp) => mem_read32(c.mem, c.sp) \in Word BY <1>0, PassedIsWord
  <2> QED BY <1>0, <1>14, <2>1, ArmPop, TypedSetReg, TypedPopped, TypedDied
<1>15. CASE i.op = "RET"
  <2>1. Passes(c.sp) => mem_read32(c.mem, c.sp) \in Word BY <1>0, PassedIsWord
  <2> QED BY <1>0, <1>15, <2>1, ArmRet, TypedJump, TypedPopped, TypedDied
<1> QED BY <1>2, <1>3, <1>4, <1>5, <1>6, <1>7, <1>8, <1>9, <1>10, <1>11, <1>12, <1>13,
          <1>14, <1>15 DEF IsIns, Opcode

\* So does a step.
LEMMA TypedStep ==
    ASSUME NEW quiet, NEW c, Typed(c), NEW i, IsIns(i), i.imm \in Word, NEW inp \in Word,
           NEW ub
    PROVE  Typed(cpu_step(quiet, c, i, inp, ub))
<1>1. Typed(Advanced(c)) BY TypedAdvanced
<1> QED BY <1>1, StepIs, TypedExecute, TypedDied

\* The program's instructions carry words, and so does stdin.
LEMMA OperandsAreWords ==
    ASSUME mix \in Mixes, NEW i \in Instructions, NEW inp \in InputsFor(i)
    PROVE  i.imm \in Word /\ inp \in Word
<1>1. 0 \in Word BY WordIsFourBytes DEF Word
<1>2. i.imm \in mix.imms \/ i.imm = 0 BY DEF Instructions
<1> QED BY <1>1, <1>2, CpuAssumption DEF InputsFor

\* The machine the program starts on.
LEMMA StartsTyped ==
    ASSUME Init
    PROVE  Typed(cpu) /\ cpu.sp = MEM_SIZE
<1>1. PICK regs \in [Regs -> mix.words] :
          cpu = [cpu_init(mem_init, 0) EXCEPT !.regs = regs]
  BY DEF Init
<1>2. cpu = [regs |-> regs, pc |-> 0, sp |-> MEM_SIZE,
             flags |-> [z |-> FALSE, c |-> FALSE, o |-> FALSE, n |-> FALSE],
             mem |-> mem_init, status |-> "running", icount |-> 0, cap_len |-> 0]
  BY <1>1 DEF cpu_init
<1>3. regs \in [Regs -> Word] BY CpuAssumption DEF Init
<1>4. 0 \in Word /\ 0 \in Byte /\ 0 \in 0..CapSize-1 /\ MEM_SIZE \in Word
  BY WordIsFourBytes, MachineAssumption DEF Word, Byte
<1>5. mem_init \in Memory BY <1>4 DEF mem_init, Memory
<1>6. IsCpu(cpu) BY <1>2 DEF IsCpu, Fields
<1> QED BY <1>2, <1>3, <1>4, <1>5, <1>6 DEF Typed

\* Running, on a machine of words and bytes.
Machine == Running /\ Typed(cpu)

\* The invariant holds at the start ...
LEMMA MachineStarts == ASSUME Init PROVE Machine
BY StartsRunning, StartsTyped DEF Machine

\* ... is kept by every step ...
LEMMA MachineSteps ==
    ASSUME Machine, NEW i \in Instructions, NEW inp \in InputsFor(i), NEW ub,
           Step(i, inp, ub)
    PROVE  Machine'
<1>1. IsIns(i) /\ i.imm \in Word /\ inp \in Word
  BY InstructionsAre, OperandsAreWords DEF Machine, Running
<1>2. PICK quiet : quiet = FALSE OBVIOUS
<1>3. cpu' = cpu_step(quiet, cpu, i, inp, ub) BY <1>2 DEF Step
<1>4. Typed(cpu_step(quiet, cpu, i, inp, ub)) BY <1>1, TypedStep DEF Machine
<1>5. Typed(cpu)' BY <1>3, <1>4 DEF Typed, IsCpu, Fields
<1> QED BY <1>5, StepMeta DEF Machine

\* ... and by stuttering.
LEMMA MachineStutters ==
    ASSUME Machine, UNCHANGED vars
    PROVE  Machine'
BY DEF Machine, Running, vars, Typed, IsCpu, Fields

\* For every word size, memory, program and input: no instruction takes a
\* register, pc, sp, a flag or a byte of memory out of its C type, and cpu_emit
\* never fills the last place of its buffer.
THEOREM MachineTyped == Spec => []TypeOK
<1>1. Init => Machine BY MachineStarts
<1>2. Machine /\ [Next]_vars => Machine'
  <2>1. CASE Machine /\ Next BY <2>1, MachineSteps DEF Next
  <2>2. CASE Machine /\ UNCHANGED vars BY <2>2, MachineStutters
  <2> QED BY <2>1, <2>2
<1>3. Machine => TypeOK BY DEF Machine, Typed, TypeOK, Memory, Byte
<1> QED BY <1>1, <1>2, <1>3, PTL DEF Spec

-----------------------------------------------------------------------------
(* Comparison.                                                             *)

\* The flags f of a comparison of a and b.
Compared(f, a, b) ==
    /\ f.z <=> a = b
    /\ (f.n # f.o) <=> Signed(a) < Signed(b)
    /\ f.c <=> a < b

\* Flags of a subtraction modulo an even number of words.
LEMMA SubCompares ==
    ASSUME NEW f, NEW a \in Word, NEW b \in Word
    PROVE  Compared(exec_sub_flags(f, a, b, Wrap(a - b)), a, b)
<1>1. PICK h \in Nat \ {0} : WordMod = 2 * h /\ WordMod \div 2 = h BY WordIsEven
<1>2. a \in 0..(2*h)-1 /\ b \in 0..(2*h)-1 BY <1>1 DEF Word
<1>3. PICK r : r = Wrap(a - b) OBVIOUS
<1>4. r = IF a >= b THEN a - b ELSE a - b + 2 * h
  <2>1. r = (a - b) % (2 * h) BY <1>1, <1>3 DEF Wrap
  <2> QED BY <1>2, <2>1
<1>5. PICK g : g = exec_sub_flags(f, a, b, r) OBVIOUS
<1>6. /\ g.z = (r = 0) /\ g.n = (r >= h) /\ g.c = (a < b)
      /\ g.o = (((a >= h) # (b >= h)) /\ ((a >= h) # (r >= h)))
  BY <1>1, <1>5 DEF exec_sub_flags, Neg
<1>7. /\ Signed(a) = IF a >= h THEN a - 2 * h ELSE a
      /\ Signed(b) = IF b >= h THEN b - 2 * h ELSE b
  BY <1>1 DEF Signed, Neg
<1>8. (r = 0) <=> (a = b) BY <1>2, <1>4
<1>9. ((r >= h) # (((a >= h) # (b >= h)) /\ ((a >= h) # (r >= h)))) <=> Signed(a) < Signed(b)
  BY <1>2, <1>4, <1>7
<1> QED BY <1>3, <1>5, <1>6, <1>8, <1>9 DEF Compared

\* What was compared last is what the flags say.
Comparison ==
    cmp # <<>> => \E a, b \in Word : cmp = <<a, b>> /\ Compared(cpu.flags, a, b)

\* A step on a machine that is running: it gets past its fetch or not.
LEMMA StepFlags ==
    ASSUME NEW quiet, NEW c, NEW i, NEW inp, NEW ub, IsCpu(c), IsIns(i),
           c.status = "running", c.icount \in Nat,
           NEW x, x = cpu_step(quiet, c, i, inp, ub)
    PROVE  /\ x.icount = c.icount \/ ~op_sets_flags(i.op) => x.flags = c.flags
           /\ x.icount # c.icount /\ i.op = "SUB" =>
                x.flags = exec_sub_flags(c.flags, c.regs[i.rd], c.regs[i.rs],
                                         Wrap(c.regs[i.rd] - c.regs[i.rs]))
<1>1. CASE Passes(c.pc)
  <2> DEFINE d == Advanced(c)
  <2>1. x = Execute(quiet, d, i, inp, ub) BY <1>1, StepIs
  <2>2. IsCpu(d) /\ d.regs = c.regs /\ d.flags = c.flags /\ d.icount = c.icount + 1
    BY AdvancedIs
  <2> HIDE DEF d
  <2>3. Effects(d, x, i) BY <2>1, <2>2, ExecuteEffects
  <2>4. x.icount # c.icount /\ (~op_sets_flags(i.op) => x.flags = c.flags)
    BY <2>2, <2>3 DEF Effects
  <2>5. ASSUME i.op = "SUB"
        PROVE  x.flags = exec_sub_flags(c.flags, c.regs[i.rd], c.regs[i.rs],
                                        Wrap(c.regs[i.rd] - c.regs[i.rs]))
    <3>1. x = Alu(d, i, ub) BY <2>1, <2>5, ArmAlu DEF AluOps
    <3> DEFINE r == AluResult(i.op, d.regs[i.rd], d.regs[i.rs], ub)
               f == AluFlags(i.op, d.flags, d.regs[i.rd], d.regs[i.rs], r)
    <3>2. r = Wrap(d.regs[i.rd] - d.regs[i.rs]) BY <2>5 DEF AluResult
    <3>3. f = exec_sub_flags(d.flags, d.regs[i.rd], d.regs[i.rs], r) BY <2>5 DEF AluFlags
    <3>4. x = [SetReg(d, i, r) EXCEPT !.flags = f] BY <3>1 DEF Alu
    <3> HIDE DEF r, f
    <3>5. IsCpu(SetReg(d, i, r)) BY <2>2, SetRegIs
    <3>6. x.flags = f BY <3>4, <3>5, SetFlagsIs
    <3> QED BY <2>2, <3>2, <3>3, <3>6
  <2> QED BY <2>4, <2>5
<1>2. CASE ~Passes(c.pc)
  <2>1. x = Died(c, c.pc) BY <1>2, StepIs
  <2> DEFINE s == IF check_bounds(c.pc, 4) THEN "undefined" ELSE "exited"
  <2>2. x = [c EXCEPT !.status = s] BY <2>1 DEF Died
  <2> HIDE DEF s
  <2> QED BY <2>2 DEF IsCpu, Fields
<1> QED BY <1>1, <1>2

\* Flags and comparison move together.
LEMMA ComparisonSteps ==
    ASSUME Machine, Comparison, NEW i \in Instructions, NEW inp \in InputsFor(i), NEW ub,
           Step(i, inp, ub)
    PROVE  Comparison'
<1>1. IsIns(i) BY InstructionsAre DEF Machine, Running
<1>2. PICK quiet : quiet = FALSE OBVIOUS
<1>3. /\ cpu.status = "running" /\ cpu' = cpu_step(quiet, cpu, i, inp, ub)
      /\ cmp' = IF cpu'.icount = cpu.icount \/ ~op_sets_flags(i.op) THEN cmp
                ELSE IF i.op = "SUB" THEN <<cpu.regs[i.rd], cpu.regs[i.rs]>>
                ELSE <<>>
  BY <1>2 DEF Step
<1>4. IsCpu(cpu) /\ cpu.icount \in Nat BY DEF Machine, Running
<1>5. /\ cpu'.icount = cpu.icount \/ ~op_sets_flags(i.op) => cpu'.flags = cpu.flags
      /\ cpu'.icount # cpu.icount /\ i.op = "SUB" =>
           cpu'.flags = exec_sub_flags(cpu.flags, cpu.regs[i.rd], cpu.regs[i.rs],
                                       Wrap(cpu.regs[i.rd] - cpu.regs[i.rs]))
  BY <1>1, <1>3, <1>4, StepFlags
<1>6. CASE cpu'.icount = cpu.icount \/ ~op_sets_flags(i.op)
  <2>1. cpu'.flags = cpu.flags /\ cmp' = cmp BY <1>3, <1>5, <1>6
  <2> QED BY <2>1 DEF Comparison, Compared, Signed, Neg, Word
<1>7. CASE ~(cpu'.icount = cpu.icount \/ ~op_sets_flags(i.op)) /\ i.op = "SUB"
  <2>1. PICK a \in Word, b \in Word : a = cpu.regs[i.rd] /\ b = cpu.regs[i.rs]
    BY <1>1 DEF Machine, Typed, IsIns
  <2>2. cmp' = <<a, b>> BY <1>3, <1>7, <2>1
  <2>3. cpu'.flags = exec_sub_flags(cpu.flags, a, b, Wrap(a - b)) BY <1>5, <1>7, <2>1
  <2>4. Compared(cpu'.flags, a, b) BY <2>3, SubCompares
  <2> QED BY <2>2, <2>4 DEF Comparison, Compared, Signed, Neg, Word
<1>8. CASE ~(cpu'.icount = cpu.icount \/ ~op_sets_flags(i.op)) /\ i.op # "SUB"
  <2>1. cmp' = <<>> BY <1>3, <1>8
  <2> QED BY <2>1 DEF Comparison
<1> QED BY <1>6, <1>7, <1>8

\* For every word size: after a SUB, JL, JG and JZ decide as the signed
\* comparison of its operands does and carry is the unsigned borrow, overflow
\* included, until the next instruction that sets the flags.
THEOREM ComparesSigned == Spec => []SignedCompare
<1>1. Init => Machine /\ Comparison BY MachineStarts DEF Init, Comparison
<1>2. Machine /\ Comparison /\ [Next]_vars => Machine' /\ Comparison'
  <2>1. CASE Machine /\ Comparison /\ Next BY <2>1, MachineSteps, ComparisonSteps DEF Next
  <2>2. CASE Machine /\ Comparison /\ UNCHANGED vars
    BY <2>2, MachineStutters DEF vars, Comparison
  <2> QED BY <2>1, <2>2
<1>3. Machine /\ Comparison => SignedCompare
  <2> SUFFICES ASSUME Machine, Comparison, cmp # <<>>
               PROVE  SignedCompare
    BY DEF SignedCompare
  <2>1. PICK a \in Word, b \in Word : cmp = <<a, b>> /\ Compared(cpu.flags, a, b)
    BY DEF Comparison
  <2>2. cmp[1] = a /\ cmp[2] = b BY <2>1
  <2>3. cpu.flags \in [z: BOOLEAN, c: BOOLEAN, o: BOOLEAN, n: BOOLEAN] BY DEF Machine, Typed
  <2>4. Signed(a) \in Int /\ Signed(b) \in Int /\ (Signed(a) = Signed(b) <=> a = b)
    BY WordIsFourBytes, WordIsEven DEF Signed, Neg, Word
  <2>5. /\ Condition("JL", cpu.flags) = (cpu.flags.n # cpu.flags.o)
        /\ Condition("JG", cpu.flags) = (~cpu.flags.z /\ cpu.flags.n = cpu.flags.o)
        /\ Condition("JZ", cpu.flags) = cpu.flags.z
    BY DEF Condition
  <2>6. /\ cpu.flags.z <=> a = b
        /\ (cpu.flags.n # cpu.flags.o) <=> Signed(a) < Signed(b)
        /\ cpu.flags.c <=> a < b
    BY <2>1 DEF Compared
  <2>7. Signed(a) > Signed(b) <=> ~(a = b) /\ ~(Signed(a) < Signed(b)) BY <2>4
  <2> QED BY <2>2, <2>3, <2>4, <2>5, <2>6, <2>7 DEF SignedCompare
<1> QED BY <1>1, <1>2, <1>3, PTL DEF Spec

-----------------------------------------------------------------------------
(* The stack.                                                              *)

\* A number below b^4 and its four digits.
LEMMA FourDigits ==
    ASSUME NEW b \in Nat \ {0}, NEW v \in 0..(b * (b * (b * b)))-1
    PROVE  v = (v % b) + b * (((v \div b) % b) + b * (((v \div (b * b)) % b)
                 + b * ((v \div (b * (b * b))) % b)))
<1>1. PICK q1 \in Nat, r1 \in 0..b-1 : q1 = v \div b /\ r1 = v % b /\ v = r1 + b * q1
  OBVIOUS
<1>2. PICK q2 \in Nat, r2 \in 0..b-1 : q2 = q1 \div b /\ r2 = q1 % b /\ q1 = r2 + b * q2
  OBVIOUS
<1>3. PICK q3 \in Nat, r3 \in 0..b-1 : q3 = q2 \div b /\ r3 = q2 % b /\ q2 = r3 + b * q3
  OBVIOUS
<1>4. v \div (b * b) = q2 BY <1>1, <1>2, DivDiv
<1>5. v \div (b * (b * b)) = q3
  <2>1. b * b \in Nat \ {0} OBVIOUS
  <2>2. v \div (b * (b * b)) = (v \div b) \div (b * b) BY <2>1, DivDiv
  <2>3. q1 \div (b * b) = (q1 \div b) \div b BY DivDiv
  <2> QED BY <1>1, <1>2, <1>3, <2>2, <2>3
<1>6. q3 < b
  <2> SUFFICES ASSUME q3 >= b PROVE FALSE OBVIOUS
  <2>1. q2 >= b * b BY <1>3
  <2>2. q1 >= b * (b * b)
    <3>1. b * q2 >= b * (b * b) BY <2>1
    <3> QED BY <1>2, <3>1
  <2>3. v >= b * (b * (b * b))
    <3>1. b * q1 >= b * (b * (b * b)) BY <2>2
    <3> QED BY <1>1, <3>1
  <2> QED BY <2>3
<1>7. q3 % b = q3 BY <1>6
<1>8. v = r1 + b * (r2 + b * (r3 + b * q3)) BY <1>1, <1>2, <1>3
<1> QED BY <1>1, <1>2, <1>3, <1>4, <1>5, <1>7, <1>8

\* What is stored is what is loaded back ...
LEMMA ReadsBack ==
    ASSUME NEW m \in Memory, NEW addr \in Nat, addr + 4 <= MEM_SIZE, NEW v \in Word
    PROVE  mem_read32(mem_write32(m, addr, v), addr) = v
<1> DEFINE b0 == v % ByteMod
           b1 == (v \div ByteMod) % ByteMod
           b2 == (v \div 2^(2 * ByteBits)) % ByteMod
           b3 == (v \div 2^(3 * ByteBits)) % ByteMod
<1>1. MEM_SIZE \in Nat BY MachineAssumption, WordIs
<1>2. PICK w : w = mem_write32(m, addr, v) OBVIOUS
<1>3. w = [m EXCEPT ![addr] = b0, ![addr + 1] = b1, ![addr + 2] = b2, ![addr + 3] = b3]
  BY <1>2 DEF mem_write32
<1>4. v = b0 + ByteMod * (b1 + ByteMod * (b2 + ByteMod * b3))
  <2>1. PICK b \in Nat \ {0} : b = ByteMod BY WordIsFourBytes
  <2>2. v \in 0..(b * (b * (b * b)))-1 BY <2>1, WordIsFourBytes DEF Word
  <2>3. /\ b1 = (v \div b) % b /\ b0 = v % b
        /\ b2 = (v \div (b * b)) % b /\ b3 = (v \div (b * (b * b))) % b
    BY <2>1, WordIsFourBytes
  <2>4. v = (v % b) + b * (((v \div b) % b) + b * (((v \div (b * b)) % b)
                 + b * ((v \div (b * (b * b))) % b)))
    BY <2>2, FourDigits
  <2> HIDE DEF b0, b1, b2, b3
  <2> QED BY <2>1, <2>3, <2>4
<1> HIDE DEF b0, b1, b2, b3
<1>5. w[addr] = b0 /\ w[addr + 1] = b1 /\ w[addr + 2] = b2 /\ w[addr + 3] = b3
  BY <1>1, <1>3 DEF Memory
<1> QED BY <1>2, <1>4, <1>5 DEF mem_read32

\* ... and words that do not overlap it stay.
LEMMA ReadsBeside ==
    ASSUME NEW m \in Memory, NEW addr \in Nat, NEW at \in Nat, NEW v,
           addr + 4 <= at \/ at + 4 <= addr, at + 4 <= MEM_SIZE
    PROVE  mem_read32(mem_write32(m, addr, v), at) = mem_read32(m, at)
<1> DEFINE b0 == v % ByteMod
           b1 == (v \div ByteMod) % ByteMod
           b2 == (v \div 2^(2 * ByteBits)) % ByteMod
           b3 == (v \div 2^(3 * ByteBits)) % ByteMod
<1>1. MEM_SIZE \in Nat BY MachineAssumption, WordIs
<1>2. PICK w : w = mem_write32(m, addr, v) OBVIOUS
<1>3. w = [m EXCEPT ![addr] = b0, ![addr + 1] = b1, ![addr + 2] = b2, ![addr + 3] = b3]
  BY <1>2 DEF mem_write32
<1> HIDE DEF b0, b1, b2, b3
<1>5. /\ w[at] = m[at] /\ w[at + 1] = m[at + 1]
      /\ w[at + 2] = m[at + 2] /\ w[at + 3] = m[at + 3]
  BY <1>1, <1>3 DEF Memory
<1> QED BY <1>2, <1>5 DEF mem_read32

\* The words from sp up, in a machine of sp and memory m.
Holds(sp, m, s) ==
    /\ sp = MEM_SIZE - 4 * Len(s)
    /\ \A k \in DOMAIN s : mem_read32(m, sp + 4 * (k - 1)) = s[k]

\* Room below sp.
LEMMA PushesBelow ==
    ASSUME NEW sp \in Word, Passes(Wrap(sp - 4))
    PROVE  Wrap(sp - 4) = sp - 4 /\ sp >= 4
<1>1. sp \in Nat /\ sp < WordMod /\ WordMod \in Nat \ {0} BY WordIs, WordIsFourBytes
<1>2. Wrap(sp - 4) + 4 <= MEM_SIZE BY DEF Passes, InArray
<1>3. MEM_SIZE \in Nat /\ MEM_SIZE < WordMod BY MachineAssumption, WordIs
<1>4. PICK w \in Int : w = Wrap(sp - 4) /\ w \in 0..WordMod-1
  <2>1. sp - 4 \in Int BY <1>1
  <2> QED BY <2>1, WrapIsWord DEF Word
<1>5. PICK q \in Int : sp - 4 = WordMod * q + w
  <2>1. (sp - 4) \div WordMod \in Int
        /\ sp - 4 = WordMod * ((sp - 4) \div WordMod) + ((sp - 4) % WordMod)
    BY <1>1
  <2> QED BY <1>4, <2>1 DEF Wrap
<1>6. w <= WordMod - 5 BY <1>1, <1>2, <1>3, <1>4
<1>7. q = 0
  <2>1. CASE q >= 1
    <3>1. WordMod * q >= WordMod BY <1>1, <2>1
    <3> QED BY <1>1, <1>4, <1>5, <3>1
  <2>2. CASE q <= -1
    <3>1. WordMod * q <= -WordMod BY <1>1, <2>2
    <3> QED BY <1>1, <1>4, <1>5, <1>6, <3>1
  <2> QED BY <2>1, <2>2
<1> QED BY <1>1, <1>4, <1>5, <1>7

\* A push puts its word in front of the stack ...
LEMMA HoldsPush ==
    ASSUME NEW sp \in Word, NEW m \in Memory, NEW s \in Seq(Word), Holds(sp, m, s),
           NEW v \in Word, Passes(Wrap(sp - 4))
    PROVE  Holds(Wrap(sp - 4), mem_write32(m, Wrap(sp - 4), v), <<v>> \o s)
<1>1. Wrap(sp - 4) = sp - 4 /\ sp >= 4 BY PushesBelow
<1>2. PICK d \in Nat : d = sp - 4 BY <1>1, WordIs
<1>3. MEM_SIZE \in Nat BY MachineAssumption, WordIs
<1>4. sp \in Nat /\ sp <= MEM_SIZE /\ d + 4 <= MEM_SIZE /\ sp = d + 4
  BY <1>2, <1>3, WordIs DEF Holds
<1> DEFINE t == <<v>> \o s
           w == mem_write32(m, d, v)
<1>5. /\ Len(t) = Len(s) + 1 /\ DOMAIN t = 1..(Len(s) + 1) /\ t[1] = v
      /\ \A k \in 2..(Len(s) + 1) : t[k] = s[k - 1]
  OBVIOUS
<1> HIDE DEF t
<1>6. d = MEM_SIZE - 4 * Len(t) BY <1>2, <1>3, <1>5 DEF Holds
<1>7. mem_read32(w, d) = v BY <1>4, ReadsBack
<1>8. ASSUME NEW k \in 2..(Len(s) + 1)
      PROVE  mem_read32(w, d + 4 * (k - 1)) = t[k]
  <2>1. k - 1 \in DOMAIN s /\ Len(s) \in Nat /\ k \in Nat OBVIOUS
  <2>2. PICK at \in Nat : at = d + 4 * (k - 1) BY <2>1
  <2>3. at = sp + 4 * ((k - 1) - 1) /\ d + 4 <= at BY <1>4, <2>1, <2>2
  <2>4. at + 4 <= MEM_SIZE BY <1>3, <1>4, <2>1, <2>2, <1>6, <1>5
  <2>5. mem_read32(w, at) = mem_read32(m, at) BY <2>3, <2>4, ReadsBeside
  <2>6. mem_read32(m, at) = s[k - 1] BY <2>1, <2>3 DEF Holds
  <2> QED BY <1>5, <2>2, <2>5, <2>6
<1> HIDE DEF w
<1>9. ASSUME NEW k \in DOMAIN t
      PROVE  mem_read32(w, d + 4 * (k - 1)) = t[k]
  <2>1. CASE k = 1
    <3>1. d + 4 * (k - 1) = d BY <2>1
    <3> QED BY <1>5, <1>7, <2>1, <3>1
  <2>2. CASE k # 1
    <3>1. k \in 2..(Len(s) + 1) BY <1>5, <2>2
    <3> QED BY <1>8, <3>1
  <2> QED BY <2>1, <2>2
<1>10. Holds(d, w, t) BY <1>6, <1>9 DEF Holds
<1> QED BY <1>1, <1>2, <1>10 DEF w, t

\* ... a pop takes the first one, and there is one ...
LEMMA HoldsPop ==
    ASSUME NEW sp \in Word, NEW m \in Memory, NEW s \in Seq(Word), Holds(sp, m, s),
           Passes(sp)
    PROVE  s # <<>> /\ Tail(s) \in Seq(Word) /\ Holds(Wrap(sp + 4), m, Tail(s))
<1>1. MEM_SIZE \in Nat /\ MEM_SIZE < WordMod /\ sp \in Nat /\ WordMod \in Nat \ {0}
  BY MachineAssumption, WordIs, WordIsFourBytes
<1>2. sp + 4 <= MEM_SIZE BY DEF Passes, InArray
<1>3. Wrap(sp + 4) = sp + 4 BY <1>1, <1>2 DEF Wrap
<1>4. Len(s) # 0 /\ Len(s) \in Nat BY <1>1, <1>2 DEF Holds
<1>5. s # <<>> BY <1>4
<1> DEFINE t == Tail(s)
<1>6. /\ t \in Seq(Word) /\ Len(t) = Len(s) - 1 /\ DOMAIN t = 1..(Len(s) - 1)
      /\ \A k \in 1..(Len(s) - 1) : t[k] = s[k + 1]
  BY <1>5
<1> HIDE DEF t
<1>7. sp + 4 = MEM_SIZE - 4 * Len(t) BY <1>1, <1>4, <1>6 DEF Holds
<1>8. ASSUME NEW k \in DOMAIN t
      PROVE  mem_read32(m, (sp + 4) + 4 * (k - 1)) = t[k]
  <2>1. k + 1 \in DOMAIN s BY <1>4, <1>6
  <2>2. (sp + 4) + 4 * (k - 1) = sp + 4 * ((k + 1) - 1) BY <1>1, <1>6, <2>1
  <2> QED BY <1>6, <2>1, <2>2 DEF Holds
<1> QED BY <1>3, <1>5, <1>6, <1>7, <1>8 DEF Holds, t

\* ... and a store below sp touches none.
LEMMA HoldsStore ==
    ASSUME NEW sp \in Word, NEW m \in Memory, NEW s \in Seq(Word), Holds(sp, m, s),
           NEW addr \in Word, NEW v, ~(addr + 4 > sp)
    PROVE  Holds(sp, mem_write32(m, addr, v), s)
<1>1. MEM_SIZE \in Nat /\ sp \in Nat /\ addr \in Nat BY MachineAssumption, WordIs
<1>2. ASSUME NEW k \in DOMAIN s
      PROVE  mem_read32(mem_write32(m, addr, v), sp + 4 * (k - 1)) = s[k]
  <2>1. k \in 1..Len(s) /\ Len(s) \in Nat OBVIOUS
  <2>2. PICK at \in Nat : at = sp + 4 * (k - 1) BY <1>1, <2>1
  <2>3. addr + 4 <= at /\ at + 4 <= MEM_SIZE BY <1>1, <2>1, <2>2 DEF Holds
  <2>4. mem_read32(mem_write32(m, addr, v), at) = mem_read32(m, at) BY <1>1, <2>3, ReadsBeside
  <2> QED BY <2>2, <2>4 DEF Holds
<1> QED BY <1>2 DEF Holds

\* The state of the stack: StackDiscipline, on a stack of words.
StackInv ==
    /\ stack \in Seq(Word)
    /\ cpu.status = "running" /\ ~clobbered => Holds(cpu.sp, cpu.mem, stack)

\* The history of the stack after i, executed on the fetched machine c.
NextStack(c, i, s) ==
    CASE i.op = "PUSH" -> <<c.regs[i.rd]>> \o s
      [] i.op = "CALL" -> <<c.pc>> \o s
      [] i.op \in {"POP", "RET"} /\ s # <<>> -> Tail(s)
      [] OTHER -> s

\* What an instruction that runs on does to sp, to memory and to the stack.
LEMMA StackExecute ==
    ASSUME NEW quiet, NEW c, Typed(c), NEW i, IsIns(i), i.imm \in Word, NEW inp, NEW ub,
           NEW x, x = Execute(quiet, c, i, inp, ub), c.status = "running",
           x.status = "running", NEW s \in Seq(Word), Holds(c.sp, c.mem, s),
           i.op = "STORE" => ~(StAddr(c, i) + 4 > c.sp),
           NEW t, t = NextStack(c, i, s)
    PROVE  Holds(x.sp, x.mem, t)
<1>0. /\ IsCpu(c) /\ c.regs[i.rd] \in Word /\ c.pc \in Word /\ c.sp \in Word
      /\ c.mem \in Memory
  BY DEF Typed, IsIns
<1>1. \A addr : x # Died(c, addr)
  BY <1>0, DiedIs DEF Completes
<1>2. CASE ~op_accesses_mem(i.op)
  <2>1. x.mem = c.mem /\ x.sp = c.sp BY <1>0, <1>2, ExecuteEffects DEF Effects
  <2>2. t = s BY <1>2 DEF op_accesses_mem, NextStack
  <2> QED BY <2>1, <2>2
<1>3. CASE i.op = "LOAD"
  <2>1. PICK v : x = SetReg(c, i, v) BY <1>1, <1>3, ArmLoad
  <2>2. x.mem = c.mem /\ x.sp = c.sp BY <1>0, <2>1, SetRegIs
  <2>3. t = s BY <1>3 DEF NextStack
  <2> QED BY <2>2, <2>3
<1>4. CASE i.op = "STORE"
  <2>1. t = s BY <1>4 DEF NextStack
  <2>2. CASE x = Stored(c, StAddr(c, i), c.regs[i.rs])
    <3> DEFINE m == mem_write32(c.mem, StAddr(c, i), c.regs[i.rs])
    <3>1. StAddr(c, i) \in Word
      <4>1. c.regs[i.rd] + i.imm \in Int BY <1>0, WordIs
      <4> QED BY <4>1, WrapIsWord DEF StAddr
    <3>2. Holds(c.sp, m, s) BY <1>0, <1>4, <3>1, HoldsStore
    <3>3. x = [c EXCEPT !.mem = m] BY <2>2 DEF Stored
    <3> HIDE DEF m
    <3>4. x.mem = m /\ x.sp = c.sp BY <1>0, <3>3 DEF IsCpu, Fields
    <3> QED BY <2>1, <3>2, <3>4
  <2>3. CASE x = mmio_store(quiet, c, StAddr(c, i), c.regs[i.rs])
    <3>1. x.mem = c.mem /\ x.sp = c.sp
      <4> DEFINE k == IF c.regs[i.rs] % ByteMod = 0 THEN 0 ELSE 1
                 n == DecimalLine(c.regs[i.rs])
      <4>1. x \in {Halt(c), c, cpu_emit(c, n), cpu_emit(c, k)}
        BY <2>3 DEF mmio_store, Halt
      <4> HIDE DEF k, n
      <4>2. \A j : cpu_emit(c, j).mem = c.mem /\ cpu_emit(c, j).sp = c.sp
        <5> TAKE j
        <5> DEFINE l == IF c.cap_len + j >= CapSize THEN j ELSE c.cap_len + j
        <5>1. cpu_emit(c, j) = [c EXCEPT !.cap_len = l] BY <1>0 DEF cpu_emit, IsCpu, Fields
        <5> HIDE DEF l
        <5> QED BY <1>0, <5>1 DEF IsCpu, Fields
      <4>3. Halt(c).mem = c.mem /\ Halt(c).sp = c.sp BY <1>0 DEF Halt, IsCpu, Fields
      <4> QED BY <4>1, <4>2, <4>3
    <3> QED BY <2>1, <3>1
  <2> QED BY <1>1, <1>4, <2>2, <2>3, ArmStore
<1>5. ASSUME NEW v \in Word, NEW pc, Passes(Top(c)), x = Pushed(c, v, pc), t = <<v>> \o s
      PROVE  Holds(x.sp, x.mem, t)
  <2> DEFINE a == Wrap(c.sp - 4)
             m == mem_write32(c.mem, a, v)
  <2>1. Holds(a, m, t) BY <1>0, <1>5, HoldsPush DEF Top
  <2>2. x = [c EXCEPT !.pc = pc, !.sp = a, !.mem = m] BY <1>5 DEF Pushed
  <2> HIDE DEF a, m
  <2>3. x.sp = a /\ x.mem = m BY <1>0, <2>2 DEF IsCpu, Fields
  <2> QED BY <2>1, <2>3
<1>6. CASE i.op = "PUSH"
  <2>1. Passes(Top(c)) /\ x = Pushed(c, c.regs[i.rd], c.pc) BY <1>0, <1>1, <1>6, ArmPush
  <2>2. t = <<c.regs[i.rd]>> \o s BY <1>6 DEF NextStack
  <2> QED BY <1>0, <1>5, <2>1, <2>2
<1>7. CASE i.op = "CALL"
  <2>1. Passes(Top(c)) /\ x = Pushed(c, c.pc, i.imm) BY <1>0, <1>1, <1>7, ArmCall
  <2>2. t = <<c.pc>> \o s BY <1>7 DEF NextStack
  <2> QED BY <1>0, <1>5, <2>1, <2>2
<1>8. CASE i.op \in {"POP", "RET"}
  <2>1. Passes(c.sp) BY <1>0, <1>1, <1>8, ArmPop, ArmRet
  <2>2. s # <<>> /\ Holds(Wrap(c.sp + 4), c.mem, Tail(s)) BY <1>0, <2>1, HoldsPop
  <2>3. t = Tail(s) BY <1>8, <2>2 DEF NextStack
  <2>4. x.sp = Wrap(c.sp + 4) /\ x.mem = c.mem
    <3> DEFINE a == Wrap(c.sp + 4)
               v == mem_read32(c.mem, c.sp)
    <3>1. Popped(c) = [c EXCEPT !.sp = a] BY DEF Popped
    <3>2. x = SetReg(Popped(c), i, v) \/ x = Jump(Popped(c), v)
      BY <1>0, <1>1, <1>8, ArmPop, ArmRet
    <3> HIDE DEF a, v
    <3>3. IsCpu(Popped(c)) /\ Popped(c).sp = a /\ Popped(c).mem = c.mem
      BY <1>0, <3>1 DEF IsCpu, Fields
    <3>4. x.sp = a /\ x.mem = c.mem
      <4>1. CASE x = SetReg(Popped(c), i, v) BY <3>3, <4>1, SetRegIs
      <4>2. CASE x = Jump(Popped(c), v) BY <3>3, <4>2 DEF Jump, IsCpu, Fields
      <4> QED BY <3>2, <4>1, <4>2
    <3> QED BY <3>4 DEF a
  <2> QED BY <2>2, <2>3, <2>4
<1> QED BY <1>2, <1>3, <1>4, <1>6, <1>7, <1>8 DEF op_accesses_mem

\* Every step keeps the stack.
LEMMA StackSteps ==
    ASSUME Machine, StackInv, NEW i \in Instructions, NEW inp \in InputsFor(i), NEW ub,
           Step(i, inp, ub)
    PROVE  StackInv'
<1>1. IsIns(i) /\ i.imm \in Word BY InstructionsAre, OperandsAreWords DEF Machine, Running
<1>2. PICK quiet : quiet = FALSE OBVIOUS
<1>3. /\ cpu.status = "running" /\ cpu' = cpu_step(quiet, cpu, i, inp, ub)
      /\ stack' = CASE i.op = "PUSH" -> <<cpu.regs[i.rd]>> \o stack
                    [] i.op = "CALL" -> <<Wrap(cpu.pc + 4)>> \o stack
                    [] i.op \in {"POP", "RET"} /\ stack # <<>> -> Tail(stack)
                    [] OTHER -> stack
      /\ clobbered' = (clobbered \/ (i.op = "STORE" /\ Wrap(cpu.regs[i.rd] + i.imm) + 4 > cpu.sp))
  BY <1>2 DEF Step
<1>4. IsCpu(cpu) /\ Typed(cpu) /\ stack \in Seq(Word) /\ cpu.regs[i.rd] \in Word
  BY <1>1 DEF Machine, Running, StackInv, Typed, IsIns
<1>5. Wrap(cpu.pc + 4) \in Word
  <2>1. cpu.pc + 4 \in Int BY <1>4, WordIs DEF Typed
  <2> QED BY <2>1, WrapIsWord
<1>6. stack' \in Seq(Word)
  <2>1. <<cpu.regs[i.rd]>> \o stack \in Seq(Word) BY <1>4
  <2>2. <<Wrap(cpu.pc + 4)>> \o stack \in Seq(Word) BY <1>4, <1>5
  <2>3. stack # <<>> => Tail(stack) \in Seq(Word) BY <1>4
  <2> QED BY <1>3, <1>4, <2>1, <2>2, <2>3
<1>7. ASSUME cpu'.status = "running", ~clobbered'
      PROVE  Holds(cpu'.sp, cpu'.mem, stack')
  <2> DEFINE c == Advanced(cpu)
  <2>1. Passes(cpu.pc)
    <3>1. ~Passes(cpu.pc) => cpu' = Died(cpu, cpu.pc) BY <1>3, StepIs
    <3> QED BY <1>4, <1>7, <3>1, DiedIs DEF Completes
  <2>2. cpu' = Execute(quiet, c, i, inp, ub) BY <1>3, <2>1, StepIs
  <2>3. /\ Typed(c) /\ c.regs = cpu.regs /\ c.sp = cpu.sp /\ c.mem = cpu.mem
        /\ c.status = "running" /\ c.pc = Wrap(cpu.pc + 4)
    BY <1>3, <1>4, AdvancedIs, TypedAdvanced
  <2> HIDE DEF c
  <2>4. Holds(c.sp, c.mem, stack) BY <1>3, <1>7, <2>3 DEF StackInv
  <2>5. i.op = "STORE" => ~(StAddr(c, i) + 4 > c.sp) BY <1>3, <1>7, <2>3 DEF StAddr
  <2>6. stack' = NextStack(c, i, stack) BY <1>3, <2>3 DEF NextStack
  <2> QED BY <1>1, <1>4, <1>7, <2>2, <2>3, <2>4, <2>5, <2>6, StackExecute
<1> QED BY <1>6, <1>7 DEF StackInv, Holds, mem_read32

\* For every word size, memory and program: as long as no STORE writes into the
\* stack, the memory from sp up holds exactly the words pushed and not popped,
\* return addresses included, and no wrap of sp goes unnoticed.
THEOREM StackIsStack == Spec => []StackDiscipline
<1>1. Init => Machine /\ StackInv
  <2> SUFFICES ASSUME Init PROVE StackInv BY MachineStarts
  <2>1. stack = <<>> /\ cpu.sp = MEM_SIZE BY StartsTyped DEF Init
  <2>2. MEM_SIZE \in Nat BY MachineAssumption, WordIs
  <2> QED BY <2>1, <2>2 DEF StackInv, Holds
<1>2. Machine /\ StackInv /\ [Next]_vars => Machine' /\ StackInv'
  <2>1. CASE Machine /\ StackInv /\ Next BY <2>1, MachineSteps, StackSteps DEF Next
  <2>2. CASE Machine /\ StackInv /\ UNCHANGED vars
    BY <2>2, MachineStutters DEF vars, StackInv, Holds
  <2> QED BY <2>1, <2>2
<1>3. StackInv => StackDiscipline BY DEF StackInv, Holds, StackDiscipline
<1> QED BY <1>1, <1>2, <1>3, PTL DEF Spec

\* The pair of machines that the simulator's results are compared on runs the
\* reference CPU, and so has all of this.
THEOREM PairSafe == OSpec => [](TypeOK /\ SignedCompare /\ StackDiscipline)
BY PairRunsReference, MachineTyped, ComparesSigned, StackIsStack, PTL
=============================================================================
