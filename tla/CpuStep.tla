------------------------------ MODULE CpuStep ------------------------------
(***************************************************************************)
(* One instruction of the reference CPU (cpu.c) with its memory (memory.c) *)
(* and memory-mapped devices (device.c), as an operator on the state of    *)
(* the machine.  A word is four bytes of ByteBits bits, little endian;     *)
(* every register, address and sum keeps that width.  The code has         *)
(* ByteBits = 8; the configurations use smaller bytes so that every value  *)
(* of a register occurs.                                                   *)
(*                                                                         *)
(* Undefined behaviour of the C code is either a set of outcomes (a shift  *)
(* by the word size or more, which compilers make zero or a shift by the   *)
(* count modulo the word size) or the status "undefined" from which        *)
(* nothing is promised (an access outside the array).                      *)
(***************************************************************************)
EXTENDS Isa, FiniteSets, FiniteSetsExt, Sequences

CONSTANTS
    ByteBits,       \* bits of a byte
    MEM_SIZE,
    MMIO_BASE,      \* first device register; four words, as in device.h
    CapSize         \* sizeof cap_buf

WordBits == 4 * ByteBits
ByteMod == 2^ByteBits
WordMod == 2^WordBits
Word == 0..WordMod-1

ASSUME MachineAssumption ==
    /\ ByteBits \in Nat \ {0}
    /\ MEM_SIZE \in Word /\ MMIO_BASE \in Nat
    /\ CapSize \in Nat /\ CapSize > 11

\* The defining equations of the powers of two up to the word: the provers
\* take ^ as given.
ASSUME PowersOfTwoAssumption ==
    /\ \A n \in 0..WordBits : 2^n \in Nat \ {0}
    /\ \A n \in 0..WordBits-1 : 2^(n + 1) = 2 * 2^n

MMIO_OUT == MMIO_BASE
MMIO_OUTC == MMIO_BASE + 4
MMIO_IN == MMIO_BASE + 8
MMIO_HALT == MMIO_BASE + 12
MMIO_END == MMIO_BASE + 16

-----------------------------------------------------------------------------
(* Words *)

Neg(v) == v >= WordMod \div 2
Signed(v) == IF Neg(v) THEN v - WordMod ELSE v

\* Conversion to uint32_t.
Wrap(v) == v % WordMod
Bit(v, i) == (v \div 2^i) % 2

\* A bitwise operation, given its truth table on single bits.
Bitwise2(table, a, b) ==
    LET Low[k \in 0..WordBits] ==      \* the number the lowest k bits make
            IF k = 0 THEN 0
            ELSE Low[k - 1] + table[Bit(a, k - 1)][Bit(b, k - 1)] * 2^(k - 1)
    IN  Low[WordBits]

AndTable == [x \in {0, 1} |-> [y \in {0, 1} |-> x * y]]
OrTable == [x \in {0, 1} |-> [y \in {0, 1} |-> x + y - x * y]]
XorTable == [x \in {0, 1} |-> [y \in {0, 1} |-> (x + y) % 2]]

\* Length of snprintf's "%u\n".
DecimalLine(v) == 2 + Cardinality({k \in 1..9 : v >= 10^k})

-----------------------------------------------------------------------------
(* memory.c *)

\* The sum is a uint32_t.
check_bounds(addr, span) == Wrap(addr + span) <= MEM_SIZE

\* What the bytes array really spans.
InArray(addr, span) == addr + span <= MEM_SIZE

\* next, unless the access exits the process or leaves the array.
Access(c, addr, next) ==
    IF ~check_bounds(addr, 4) THEN [c EXCEPT !.status = "exited"]
    ELSE IF ~InArray(addr, 4) THEN [c EXCEPT !.status = "undefined"]
    ELSE next

mem_init == [a \in 0..MEM_SIZE-1 |-> 0]

mem_read32(m, addr) ==
    m[addr] + ByteMod * (m[addr + 1] + ByteMod * (m[addr + 2] + ByteMod * m[addr + 3]))

\* Mutant: the second byte is not shifted down.
mem_write32Unshifted(m, addr, v) ==
    [m EXCEPT ![addr] = v % ByteMod,
              ![addr + 1] = v % ByteMod,
              ![addr + 2] = (v \div 2^(2 * ByteBits)) % ByteMod,
              ![addr + 3] = (v \div 2^(3 * ByteBits)) % ByteMod]

mem_write32(m, addr, v) ==
    [m EXCEPT ![addr] = v % ByteMod,
              ![addr + 1] = (v \div ByteMod) % ByteMod,
              ![addr + 2] = (v \div 2^(2 * ByteBits)) % ByteMod,
              ![addr + 3] = (v \div 2^(3 * ByteBits)) % ByteMod]

-----------------------------------------------------------------------------
(* Output: cpu_emit into the capture buffer, n characters *)

\* Mutant: forgets the terminating NUL.
cpu_emitNoNul(c, n) ==
    [c EXCEPT !.cap_len = IF @ + n > CapSize THEN n ELSE @ + n]

\* A line that does not fit with its NUL starts the buffer over.
cpu_emit(c, n) ==
    [c EXCEPT !.cap_len = IF @ + n >= CapSize THEN n ELSE @ + n]

-----------------------------------------------------------------------------
(* device.c *)

mmio_is_device(addr) == addr >= MMIO_BASE /\ addr < MMIO_END

mmio_load(silent, addr, inp) == IF addr = MMIO_IN /\ ~silent THEN inp ELSE 0

\* Mutant: the halt register is suppressed with the rest of the I/O.
mmio_storeSilentHalt(silent, c, addr, v) ==
    IF silent THEN c
    ELSE IF addr = MMIO_HALT THEN [c EXCEPT !.status = "halted"]
    ELSE IF addr = MMIO_OUT THEN cpu_emit(c, DecimalLine(v))
    ELSE IF addr = MMIO_OUTC THEN cpu_emit(c, IF v % ByteMod = 0 THEN 0 ELSE 1)
    ELSE c

mmio_store(silent, c, addr, v) ==
    IF addr = MMIO_HALT THEN [c EXCEPT !.status = "halted"]
    ELSE IF silent THEN c
    ELSE IF addr = MMIO_OUT THEN cpu_emit(c, DecimalLine(v))
    ELSE IF addr = MMIO_OUTC THEN cpu_emit(c, IF v % ByteMod = 0 THEN 0 ELSE 1)
    ELSE c

-----------------------------------------------------------------------------
(* cpu.c *)

\* Over the memory m as it is; the capture buffer is not the CPU's.
cpu_init(m, cap_len) ==
    [regs |-> [r \in Regs |-> 0], pc |-> 0, sp |-> MEM_SIZE,
     flags |-> [z |-> FALSE, c |-> FALSE, o |-> FALSE, n |-> FALSE],
     mem |-> m, status |-> "running", icount |-> 0, cap_len |-> cap_len]

\* Mutant: the overflow of a subtraction tested with the addition's formula.
exec_sub_flagsAdd(f, a, b, r) ==
    [z |-> r = 0, n |-> Neg(r), c |-> a < b,
     o |-> (Neg(a) = Neg(b)) /\ (Neg(a) # Neg(r))]

exec_sub_flags(f, a, b, r) ==
    [z |-> r = 0, n |-> Neg(r), c |-> a < b,
     o |-> (Neg(a) # Neg(b)) /\ (Neg(a) # Neg(r))]

exec_add_flags(f, a, b, r) ==
    [z |-> r = 0, n |-> Neg(r), c |-> a + b >= WordMod,
     o |-> (Neg(a) = Neg(b)) /\ (Neg(a) # Neg(r))]

\* The other operations set Z and N and leave C and O as they were.
set_zn(f, r) == [f EXCEPT !.z = (r = 0), !.n = Neg(r)]

\* The shift, by ub for counts where C leaves it undefined.
Shl(a, n, ub) == IF n < WordBits THEN Wrap(a * 2^n)
                 ELSE IF ub THEN 0 ELSE Wrap(a * 2^(n % WordBits))
Shr(a, n, ub) == IF n < WordBits THEN a \div 2^n
                 ELSE IF ub THEN 0 ELSE a \div 2^(n % WordBits)

AluResult(op, a, b, ub) ==
    CASE op = "ADD" -> Wrap(a + b)
      [] op = "SUB" -> Wrap(a - b)
      [] op = "MUL" -> Wrap(a * b)
      [] op = "DIV" -> a \div b
      [] op = "AND" -> Bitwise2(AndTable, a, b)
      [] op = "OR"  -> Bitwise2(OrTable, a, b)
      [] op = "XOR" -> Bitwise2(XorTable, a, b)
      [] op = "NOT" -> WordMod - 1 - a
      [] op = "SHL" -> Shl(a, b, ub)
      [] op = "SHR" -> Shr(a, b, ub)

AluFlags(op, f, a, b, r) ==
    CASE op = "ADD" -> exec_add_flags(f, a, b, r)
      [] op = "SUB" -> exec_sub_flags(f, a, b, r)
      [] OTHER -> set_zn(f, r)

\* Is the branch taken?
Condition(op, f) ==
    CASE op = "JZ" -> f.z
      [] op = "JNZ" -> ~f.z
      [] op = "JG" -> ~f.z /\ f.n = f.o
      [] op = "JL" -> f.n # f.o

\* The switch of cpu_step, after the fetch: c already has pc + 4.  silent,
\* inp and ub are cpu_silent, the number scanf would read and the choice for
\* an undefined shift.
Execute(silent, c, i, inp, ub) ==
    LET a == c.regs[i.rd]
        b == c.regs[i.rs]
        Jump(t) == [c EXCEPT !.pc = t]
        SetReg(v) == [c EXCEPT !.regs[i.rd] = v]
        ldAddr == Wrap(b + i.imm)
        stAddr == Wrap(a + i.imm)
        down == Wrap(c.sp - 4)
        up == Wrap(c.sp + 4)
    IN  CASE i.op = "NOP" -> c
          [] i.op \in {"HALT", "ILLEGAL"} -> [c EXCEPT !.status = "halted"]
          [] i.op = "DIV" /\ b = 0 -> [c EXCEPT !.status = "halted"]
          [] i.op \in AluOps \cup {"NOT"} /\ ~(i.op = "DIV" /\ b = 0) ->
                LET r == AluResult(i.op, a, b, ub)
                IN  [SetReg(r) EXCEPT !.flags = AluFlags(i.op, c.flags, a, b, r)]
          [] i.op = "MOV" -> SetReg(b)
          [] i.op = "LOADI" -> SetReg(i.imm)
          [] i.op = "LOAD" ->
                IF mmio_is_device(ldAddr) THEN SetReg(mmio_load(silent, ldAddr, inp))
                ELSE Access(c, ldAddr, SetReg(mem_read32(c.mem, ldAddr)))
          [] i.op = "STORE" ->
                IF mmio_is_device(stAddr) THEN mmio_store(silent, c, stAddr, b)
                ELSE Access(c, stAddr,
                            [c EXCEPT !.mem = mem_write32(c.mem, stAddr, b)])
          [] i.op = "PUSH" ->
                Access(c, down, [c EXCEPT !.sp = down,
                                          !.mem = mem_write32(c.mem, down, a)])
          [] i.op = "POP" ->
                Access(c, c.sp, [SetReg(mem_read32(c.mem, c.sp)) EXCEPT !.sp = up])
          [] i.op = "JMP" -> Jump(i.imm)
          [] i.op \in CondOps -> IF Condition(i.op, c.flags) THEN Jump(i.imm) ELSE c
          [] i.op = "CALL" ->
                Access(c, down, [Jump(i.imm) EXCEPT
                                    !.sp = down,
                                    !.mem = mem_write32(c.mem, down, c.pc)])
          [] i.op = "RET" ->
                Access(c, c.sp, [Jump(mem_read32(c.mem, c.sp)) EXCEPT !.sp = up])
          [] i.op = "IN" -> SetReg(IF silent THEN 0 ELSE inp)
          [] i.op = "OUT" -> IF silent THEN c ELSE cpu_emit(c, DecimalLine(a))

\* Does i read from stdin in state c?
ReadsInput(c, i) ==
    \/ i.op = "IN"
    \/ i.op = "LOAD" /\ Wrap(c.regs[i.rs] + i.imm) = MMIO_IN

\* cpu_step: fetch, count, execute.
cpu_step(silent, c, i, inp, ub) ==
    Access(c, c.pc,
           Execute(silent, [c EXCEPT !.pc = Wrap(@ + 4), !.icount = @ + 1],
                   i, inp, ub))
=============================================================================
