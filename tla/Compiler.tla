----------------------------- MODULE Compiler ------------------------------
(***************************************************************************)
(* From a C source to its output, as tests/cc_test.sh goes: mcc -o         *)
(* (main_cc.c), asm, emu (main_emu.c), each only after the one before      *)
(* returned 0.  The instructions of the binary are kept as the assembler   *)
(* was given them (module Assembler shows that encoding loses nothing), in *)
(* a word array beside the memory, where their bytes read as 0.            *)
(***************************************************************************)
EXTENDS CMeaning

CONSTANTS
    Sources,    \* [prog, text, legal, stdin]: a tree, a text, whether the text
                \* is one of that tree or none at all, and the numbers typed
    MaxSteps    \* bound: programs must halt within this many instructions

VARIABLES
    source,     \* prog and legal
    text,       \* the file mcc is given
    stage,      \* the tool that runs next, or how things ended
    ast,        \* the tree parse_source returned
    asm,        \* the lines of out.asm
    code,       \* the words of the binary: instructions and data
    cpu,
    stdin,      \* what the program has not read yet
    outs,       \* what it printed
    expected,   \* history: what the source means
    frames,     \* history: the state at every call not returned from
    levels      \* history: how deep both stacks were where

vars == <<source, text, stage, ast, asm, code, cpu, stdin, outs, expected, frames, levels>>
build == <<text, ast, asm, code, expected>>
machine == <<cpu, stdin, outs, frames, levels>>

\* What stands at out.asm before mcc runs.
OldAsm == << LabelLine(<<"old">>) >>

ASSUME CompilerAssumption == MaxSteps \in Nat /\ IMM_MAX < WordMod /\ STACK_BASE <= MEM_SIZE

Init ==
    /\ \E s \in Sources :
         /\ source = [prog |-> s.prog, legal |-> s.legal]
         /\ text = s.text /\ stdin = s.stdin
         /\ expected = IF s.legal /\ WellFormed(s.prog) THEN Meaning(s.prog, s.stdin)
                       ELSE [out |-> <<>>, v |-> 0]
    /\ stage = "mcc"
    /\ ast = <<>> /\ asm = OldAsm /\ code = <<>>
    /\ cpu = cpu_init(<<>>, 0) /\ outs = <<>>
    /\ frames = <<>> /\ levels = <<>>

-----------------------------------------------------------------------------
\* main of mcc up to parse_source; when that fails out.asm is not opened.
MccParse ==
    /\ stage = "mcc"
    /\ LET root == parse_source(text)
       IN  /\ ast' = IF root.ok THEN root.n ELSE ast
           /\ stage' = IF root.ok THEN "codegen" ELSE "syntax error"
    /\ text' = <<>>
    /\ UNCHANGED <<source, asm, code, expected, machine>>

\* out.asm is opened, which empties it, and filled by codegen unless that fails.
MccCodegen ==
    /\ stage = "codegen"
    /\ LET g == codegen(ast)
       IN  /\ asm' = g.lines
           /\ stage' = IF g.err THEN "semantic error" ELSE "asm"
    /\ UNCHANGED <<source, text, ast, code, expected, machine>>

\* mcc cannot open its source or out.asm, asm or emu what it reads.
CannotOpen ==
    /\ stage \in {"mcc", "codegen", "asm", "emu"}
    /\ stage' = "no file"
    /\ UNCHANGED <<source, build, machine>>

\* The words of the assembly, and the address of a label: its first definition.
Words == SelectSeq(asm, LAMBDA l : l.kind # "label")
LabelAddress(label) ==
    LET def == Min({k \in DOMAIN asm : asm[k].kind = "label" /\ asm[k].label = label})
    IN  4 * Cardinality({k \in 1..def : asm[k].kind # "label"})

\* A line with its label resolved.
Resolved(w) == IF w.label = <<>> THEN w ELSE [w EXCEPT !.imm = LabelAddress(w.label)]

\* Both passes of assemble on the compiler's output.  Only the immediates of
\* instructions have a range.
Assemble ==
    /\ stage = "asm"
    /\ LET words == [k \in DOMAIN Words |-> Resolved(Words[k])]
       IN  IF \A w \in Range(words) : w.kind = "ins" => w.imm \in IMM_MIN..IMM_MAX
           THEN code' = words /\ stage' = "emu"
           ELSE UNCHANGED code /\ stage' = "asm error"
    /\ UNCHANGED <<source, text, ast, asm, expected, machine>>

\* The data of the binary; an instruction's bytes are not modelled.
Image ==
    [a \in 0..MEM_SIZE-1 |->
        LET w == a \div 4 + 1
        IN  IF w \in DOMAIN code /\ code[w].kind = "word"
            THEN (Wrap(code[w].imm) \div ByteMod^(a % 4)) % ByteMod ELSE 0]

\* main of emu up to cpu_run: mem_init, load_binary, cpu_init.
EmuLoad ==
    /\ stage = "emu"
    /\ cpu' = cpu_init(Image, 0)
    /\ frames' = << [pc |-> 0, sp |-> MEM_SIZE, r6 |-> 0, r7 |-> 0] >>
    /\ stage' = "run"
    /\ UNCHANGED <<source, build, stdin, outs, levels>>

\* No program runs into its data or past its end.
Fetched ==
    LET w == cpu.pc \div 4 + 1
    IN  IF w \in DOMAIN code /\ code[w].kind = "ins" THEN code[w] ELSE Op("ILLEGAL", 0)

\* How deep both stacks are, from the call of the current function.
Level == << Last(frames).sp - cpu.sp, Last(frames).r7 - cpu.regs[7] >>

Running == stage = "run" /\ cpu.status = "running"

\* One turn of cpu_run's loop.  IN reads the next number of stdin.
EmuStep ==
    /\ Running /\ cpu.icount < MaxSteps
    /\ LET i == [Fetched EXCEPT !.imm = Wrap(@)]
           read == i.op = "IN" /\ stdin # <<>>
       IN  /\ cpu' = cpu_step(FALSE, cpu, i, IF read THEN Head(stdin) ELSE 0, TRUE)
           /\ stdin' = IF read THEN Tail(stdin) ELSE stdin
           /\ outs' = IF i.op = "OUT" THEN Append(outs, cpu.regs[i.rd]) ELSE outs
           /\ frames' = CASE i.op = "CALL" ->
                               Append(frames, [pc |-> cpu.pc + 4, sp |-> cpu.sp,
                                               r6 |-> cpu.regs[6], r7 |-> cpu.regs[7]])
                          [] i.op = "RET" /\ Len(frames) > 1 -> Front(frames)
                          [] OTHER -> frames
           /\ levels' = levels @@ (cpu.pc :> Level)
    /\ UNCHANGED <<source, stage, build>>

\* The loop ends: dump_state prints the registers.
EmuDump ==
    /\ stage = "run" /\ cpu.status # "running"
    /\ stage' = IF cpu.status = "halted" THEN "done" ELSE "crashed"
    /\ UNCHANGED <<source, build, machine>>

Next ==
    \/ MccParse \/ MccCodegen \/ Assemble \/ CannotOpen
    \/ EmuLoad \/ EmuStep \/ EmuDump

Spec == Init /\ [][Next]_vars

-----------------------------------------------------------------------------
\* mcc takes a source for the tree it was written from: spaces between
\* operators and parentheses that C's precedences make superfluous are not
\* needed, an else goes with the nearest if, and assignments group to the
\* right.  It writes assembly exactly for the programs all of whose functions
\* are well formed, wherever in the tree the one mistake is; a text of no
\* program is refused before out.asm is touched, and after any other refusal
\* out.asm holds nothing (clexer.c 28-94, cparser.c 59-250, cgen.c 106-434,
\* main_cc.c 33-48).
FrontEndExact ==
    /\ stage = "syntax error" => ~source.legal /\ asm = OldAsm
    /\ ast # <<>> => source.legal /\ ast = source.prog
    /\ stage = "semantic error" => ~WellFormed(source.prog) /\ asm = <<>>
    /\ stage \in {"asm", "asm error", "emu", "run", "done", "crashed"} => WellFormed(source.prog)

\* What mcc, asm and emu make of a source prints what the source means,
\* number by number, halts within MaxSteps instructions and leaves the value
\* main returns in R0 (cgen.c 106-434).  The flags a comparison jumps on
\* survive the instructions in between, short circuits skip what they must,
\* a variable's slot is its own through calls and recursion, and no load is
\* dropped that could be reached with another value in R0.
ComputesMeaning ==
    /\ stage # "crashed"
    /\ stage = "run" => /\ IsPrefix(outs, expected.out)
                        /\ cpu.icount < MaxSteps \/ cpu.status = "halted"
    /\ stage = "done" => outs = expected.out /\ cpu.regs[0] = expected.v

\* Every function returns to its caller with both stack pointers and the
\* frame pointer as they were before the call, and every time control is at
\* an instruction both stacks are as deep, counted from the call of the
\* function, as they were before: no path through an expression, a loop body
\* or a short circuit leaves a temporary or an argument behind (cgen.c 106-222,
\* 337-359).
FramesBalanced ==
    [][/\ Running /\ Fetched.op = "RET" =>
            LET f == Last(frames)
            IN  << cpu'.pc, cpu'.sp, cpu'.regs[6], cpu'.regs[7] >> = << f.pc, f.sp, f.r6, f.r7 >>
       /\ Running /\ cpu.pc \in DOMAIN levels => levels[cpu.pc] = Level
      ]_vars
=============================================================================
