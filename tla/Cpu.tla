-------------------------------- MODULE Cpu --------------------------------
(***************************************************************************)
(* The reference CPU (cpu.c) running an arbitrary program: what the word   *)
(* at pc decodes to is any instruction of Instructions, since memory may   *)
(* hold any program and a program may overwrite itself.  The fetch itself, *)
(* with its bounds check, is modelled.                                     *)
(***************************************************************************)
EXTENDS CpuStep

CONSTANTS
    Inputs,         \* numbers that may be read from stdin
    Mixes           \* kinds of programs to follow: the operations they are
                    \* made of, the immediates in them (sign-extended to
                    \* words), the register contents they start from, and a
                    \* bound on the instructions followed

ASSUME CpuAssumption ==
    /\ Inputs \subseteq Word
    /\ \A m \in Mixes :
         /\ m.ops \subseteq Ops /\ m.imms \subseteq Word
         /\ m.words \subseteq Word /\ m.steps \in Nat

VARIABLES
    mix,        \* the kind of program
    cpu,        \* registers, pc, sp, flags, memory, how execution stands
    ins,        \* history: the instruction executed last
    before,     \* history: the state it was executed in
    cmp,        \* history: operands of the SUB that set the flags, or <<>>
    stack,      \* history: the words pushed and not popped, newest first
    clobbered   \* history: a STORE has written into the stack

vars == <<mix, cpu, ins, before, cmp, stack, clobbered>>

-----------------------------------------------------------------------------
(* cpu_run, over an arbitrary program *)

\* The operations whose result depends on the immediate, on stdin, and on the
\* outcome of an undefined shift; for the others one value stands for all.
ImmOps == CondOps \cup {"LOAD", "STORE", "LOADI", "JMP", "CALL"}

Instructions ==
    [op: mix.ops \cap ImmOps, rd: Regs, rs: Regs, imm: mix.imms]
    \cup [op: mix.ops \ ImmOps, rd: Regs, rs: Regs, imm: {0}]

InputsFor(i) == IF i.op \in {"IN", "LOAD"} THEN Inputs ELSE {0}
ShiftsFor(i) == IF i.op \in {"SHL", "SHR"} THEN BOOLEAN ELSE {TRUE}

NoIns == [op |-> "NOP", rd |-> 0, rs |-> 0, imm |-> 0]

Step(i, inp, ub) ==
    /\ cpu.status = "running" /\ cpu.icount < mix.steps
    /\ UNCHANGED mix
    /\ cpu' = cpu_step(FALSE, cpu, i, inp, ub)
    /\ ins' = i
    /\ before' = cpu
    /\ cmp' = IF cpu'.icount = cpu.icount \/ ~op_sets_flags(i.op) THEN cmp
              ELSE IF i.op = "SUB" THEN <<cpu.regs[i.rd], cpu.regs[i.rs]>>
              ELSE <<>>
    /\ stack' = CASE i.op = "PUSH" -> <<cpu.regs[i.rd]>> \o stack
                  [] i.op = "CALL" -> <<Wrap(cpu.pc + 4)>> \o stack
                  [] i.op \in {"POP", "RET"} /\ stack # <<>> -> Tail(stack)
                  [] OTHER -> stack
    /\ clobbered' = \/ clobbered
                    \/ /\ i.op = "STORE"
                       /\ Wrap(cpu.regs[i.rd] + i.imm) + 4 > cpu.sp

\* Execution is followed from the end of a prologue of LOADI instructions and
\* a jump back to 0, which may leave any words in the registers and changes
\* nothing else of what cpu_init set up; icount counts from there.
Init ==
    /\ mix \in Mixes
    /\ \E regs \in [Regs -> mix.words] : cpu = [cpu_init(mem_init, 0) EXCEPT !.regs = regs]
    /\ ins = NoIns /\ before = cpu /\ cmp = <<>>
    /\ stack = <<>> /\ clobbered = FALSE

Next == \E i \in Instructions :
            \E inp \in InputsFor(i), ub \in ShiftsFor(i) : Step(i, inp, ub)

Spec == Init /\ [][Next]_vars

-----------------------------------------------------------------------------
(* Properties *)

\* Registers, pc and sp stay uint32_t and memory bytes stay bytes, whatever
\* cpu_step computes from them, and the capture buffer of cpu_emit always has
\* room for its terminating NUL.
TypeOK ==
    /\ cpu.regs \in [Regs -> Word]
    /\ cpu.pc \in Word /\ cpu.sp \in Word
    /\ cpu.flags \in [z: BOOLEAN, c: BOOLEAN, o: BOOLEAN, n: BOOLEAN]
    /\ cpu.mem \in [0..MEM_SIZE-1 -> 0..ByteMod-1]
    /\ cpu.status \in {"running", "halted", "exited", "undefined"}
    /\ cpu.cap_len \in 0..CapSize-1

\* After a SUB, and however many instructions that leave the flags alone, JL
\* and JG compare the operands as signed numbers, JZ tests their equality and
\* the carry flag is the unsigned borrow, over the whole range of words.
SignedCompare ==
    cmp # <<>> =>
        LET a == Signed(cmp[1])
            b == Signed(cmp[2])
        IN  /\ Condition("JL", cpu.flags) <=> a < b
            /\ Condition("JG", cpu.flags) <=> a > b
            /\ Condition("JZ", cpu.flags) <=> a = b
            /\ cpu.flags.c <=> cmp[1] < cmp[2]

\* The last step got past its fetch; it got past its data access too.
Executed == cpu.icount > before.icount
Completed == Executed /\ cpu.status \in {"running", "halted"}

\* The metadata of decode_meta, which every timing model trusts, is true of
\* what cpu_step did: registers outside op_writes keep their value, flags move
\* only under op_sets_flags, fetch is redirected only by op_is_control,
\* memory and the stack are touched only under op_accesses_mem ...
EffectsListed ==
    Executed =>
        /\ \A r \in Regs \ op_writes(ins.op, ins.rd) : cpu.regs[r] = before.regs[r]
        /\ ~op_sets_flags(ins.op) => cpu.flags = before.flags
        /\ ~op_is_control(ins.op) => cpu.pc = Wrap(before.pc + 4)
        /\ ~op_accesses_mem(ins.op) =>
             cpu.mem = before.mem /\ cpu.sp = before.sp
             /\ cpu.status \in {"running", "halted"}

\* Two executions of ins that differ in register r only.
Vary(r, v) ==
    cpu_step(FALSE, [before EXCEPT !.regs[r] = v], ins, 0, TRUE)

\* ... and so are its reads: a register that op_reads does not list has no
\* influence on what the instruction writes, on the flags, on the memory or on
\* where execution goes.
ReadsListed ==
    Completed =>
        \A r \in Regs \ op_reads(ins.op, ins.rd, ins.rs) : \A v \in mix.words :
            LET x == Vary(r, v)
                y == Vary(r, before.regs[r])
            IN  /\ \A w \in op_writes(ins.op, ins.rd) : x.regs[w] = y.regs[w]
                /\ x.flags = y.flags /\ x.mem = y.mem
                /\ x.pc = y.pc /\ x.sp = y.sp /\ x.status = y.status

\* decode_meta, which repeats in a table what cpu_step does, overlooks no effect
\* and no operand of any instruction, whatever the machine holds: no timing
\* model misses a dependence.
MetaCovers == EffectsListed /\ ReadsListed

\* The hardware stack is a stack: however PUSH, POP, CALL, RET and stores
\* below it alternate, the words from sp to the top of memory are those pushed
\* and not yet popped, return addresses included, byte for byte.
StackDiscipline ==
    cpu.status = "running" /\ ~clobbered =>
        /\ cpu.sp = MEM_SIZE - 4 * Len(stack)
        /\ \A k \in DOMAIN stack :
             mem_read32(cpu.mem, cpu.sp + 4 * (k - 1)) = stack[k]
=============================================================================
