---------------------------- MODULE SilentOracle ----------------------------
(***************************************************************************)
(* The reference CPU twice on one program: as emu runs it and as the       *)
(* timing simulator's generator runs it, with cpu_silent set.  The         *)
(* simulator's results are those of the silent run.                        *)
(*                                                                         *)
(* Both fetch the same instruction while their pc and memory agree; the    *)
(* pair is followed no further.                                            *)
(***************************************************************************)
EXTENDS Cpu

VARIABLES
    silent,     \* the CPU of the generator
    asked       \* history: the program has read a number other than 0

ovars == <<vars, silent, asked>>

SameCode == silent.pc = cpu.pc /\ silent.mem = cpu.mem

StepBoth(i, inp, ub) ==
    /\ SameCode
    /\ Step(i, inp, ub)
    /\ silent' = cpu_step(TRUE, silent, i, inp, ub)
    /\ asked' = (asked \/ (inp # 0 /\ ReadsInput(cpu, i)))

OInit == Init /\ silent = cpu /\ asked = FALSE

ONext == \E i \in Instructions :
             \E inp \in InputsFor(i), ub \in ShiftsFor(i) : StepBoth(i, inp, ub)

OSpec == OInit /\ [][ONext]_ovars

Arch(c) == <<c.regs, c.pc, c.sp, c.flags, c.mem, c.status, c.icount>>

\* A program that reads nothing but zeros computes the same registers, flags
\* and memory, halts at the same instruction and counts the same instructions
\* with its I/O suppressed: output and the MMIO halt register included.
SilentAgrees == ~asked => Arch(silent) = Arch(cpu)

\* README.md:124: in the simulator "architectural results are correct by
\* construction", that is, those of the CPU that steps through the same program.
OracleEquality == Arch(silent) = Arch(cpu)
=============================================================================
