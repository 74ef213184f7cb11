-------------------------------- MODULE Isa --------------------------------
(***************************************************************************)
(* The instruction set as the timing models see it: the opcodes of isa.h,  *)
(* the metadata decode_meta derives from an instruction (pipe_sim.c), and  *)
(* the set of steps that gen_one can report.  Data (addresses, register    *)
(* contents, program counters) is abstracted: what a timing model can tell *)
(* apart is which slots an instruction reads and writes, whether it loads, *)
(* touches memory, sets the flags or redirects fetch, and whether the      *)
(* reference CPU halted on it.  The values themselves are in module Cpu.   *)
(***************************************************************************)
EXTENDS Integers

CONSTANTS
    Regs,   \* the registers the modelled programs name (all 8 in the code)
    Ops     \* the opcodes the modelled programs use

\* The scoreboard slot of the flags, one past the last register.
FLAG_REG == 8

ASSUME RegsAssumption == Regs \subseteq 0..7 /\ Regs # {}

Slot == Regs \cup {FLAG_REG}

AluOps == {"ADD", "SUB", "MUL", "DIV", "AND", "OR", "XOR", "SHL", "SHR"}

CondOps == {"JZ", "JNZ", "JG", "JL"}

\* ILLEGAL stands for every opcode value isa.h does not name.
Opcode == AluOps \cup CondOps \cup
    {"NOP", "HALT", "NOT", "MOV", "LOAD", "STORE", "LOADI", "PUSH", "POP",
     "JMP", "CALL", "RET", "IN", "OUT", "ILLEGAL"}

ASSUME OpsAssumption == Ops \subseteq Opcode

op_latency(op) ==
    CASE op = "DIV" -> 20
      [] op = "MUL" -> 3
      [] op \in {"LOAD", "POP"} -> 2
      [] OTHER -> 1

op_is_conditional(op) == op \in CondOps

op_is_control(op) == op_is_conditional(op) \/ op \in {"JMP", "CALL", "RET"}

op_sets_flags(op) == op \in AluOps \cup {"NOT"}

\* Mutant: a store waits for its address only.
op_readsStoreAddress(op, rd, rs) ==
    CASE op \in AluOps -> {rd, rs}
      [] op \in {"NOT", "PUSH", "OUT", "STORE"} -> {rd}
      [] op \in {"MOV", "LOAD"} -> {rs}
      [] op \in CondOps -> {FLAG_REG}
      [] OTHER -> {}

\* The slots an instruction reads; a two-operand instruction naming one
\* register twice reads one slot, which no consumer can tell from two reads.
op_reads(op, rd, rs) ==
    CASE op \in AluOps \cup {"STORE"} -> {rd, rs}
      [] op \in {"NOT", "PUSH", "OUT"} -> {rd}
      [] op \in {"MOV", "LOAD"} -> {rs}
      [] op \in CondOps -> {FLAG_REG}
      [] OTHER -> {}

\* has_write and write_reg together: the set of registers written.
op_writes(op, rd) ==
    IF op \in AluOps \cup {"NOT", "MOV", "LOAD", "LOADI", "IN", "POP"}
    THEN {rd} ELSE {}

op_accesses_mem(op) == op \in {"LOAD", "STORE", "PUSH", "CALL", "POP", "RET"}

InstInfo ==
    [reads: SUBSET Slot, writes: SUBSET Slot, is_load: BOOLEAN,
     sets_flags: BOOLEAN, is_control: BOOLEAN, is_conditional: BOOLEAN,
     taken_control: BOOLEAN, accesses_mem: BOOLEAN, latency: 1..20]

\* decode_meta, plus the two fields gen_one itself fills in.
decode_meta(op, rd, rs, taken) ==
    [reads |-> op_reads(op, rd, rs),
     writes |-> op_writes(op, rd),
     is_load |-> op \in {"LOAD", "POP"},
     sets_flags |-> op_sets_flags(op),
     is_control |-> op_is_control(op),
     is_conditional |-> op_is_conditional(op),
     taken_control |-> taken,
     accesses_mem |-> op_accesses_mem(op),
     latency |-> op_latency(op)]

\* Only a control instruction leaves pc different from pc + 4.  It need not:
\* a jump to the next instruction is not "taken" in gen_one's sense.
Outcomes(op) == IF op_is_control(op) THEN BOOLEAN ELSE {FALSE}

\* HALT and an unknown opcode halt the CPU; DIV halts it on a zero divisor,
\* STORE when it writes the MMIO halt register.
Halts(op) ==
    CASE op \in {"HALT", "ILLEGAL"} -> {TRUE}
      [] op \in {"DIV", "STORE"} -> BOOLEAN
      [] OTHER -> {FALSE}

\* What one call of gen_one can produce: an InstInfo and whether the CPU
\* halted on that instruction.
CpuSteps ==
    UNION { [info: {decode_meta(op, rd, rs, t) :
                        rd \in Regs, rs \in Regs, t \in Outcomes(op)},
             halts: Halts(op)] : op \in Ops }

\* Does p produce the value of a slot?
produces(p, slot) ==
    \/ slot \in p.writes
    \/ p.sets_flags /\ slot = FLAG_REG

CONTROL_PENALTY == 2

\* What control_penalty can return for d, whatever the predictor and the BTB
\* hold.  Without a predictor a taken control instruction pays; with one, an
\* unconditional instruction counts as predicted taken, so one that is not
\* taken is always mispredicted.  Module BranchPred computes the answer.
control_penalty(predictor, d) ==
    IF ~predictor THEN {IF d.taken_control THEN CONTROL_PENALTY ELSE 0}
    ELSE IF ~d.is_conditional /\ ~d.taken_control THEN {CONTROL_PENALTY}
    ELSE {0, CONTROL_PENALTY}

\* The guard all three timing models put in front of control_penalty.
Penalties(predictor, d) ==
    IF d.is_control \/ d.taken_control THEN control_penalty(predictor, d)
    ELSE {0}
=============================================================================
