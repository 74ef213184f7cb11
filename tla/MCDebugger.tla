----------------------------- MODULE MCDebugger -----------------------------
(***************************************************************************)
(* Programs for the debugger, in a memory of eight words of eight bits.    *)
(***************************************************************************)
EXTENDS Debugger

I(op, rd, rs, imm) == [op |-> op, rd |-> rd, rs |-> rs, imm |-> imm]

\* Counts down with a word on the stack, then halts.
Countdown == << I("LOADI", 0, 0, 2), I("LOADI", 1, 0, 1), I("PUSH", 0, 0, 0),
                I("SUB", 0, 1, 0), I("JNZ", 0, 0, 12), I("HALT", 0, 0, 0) >>

\* Adds what it reads to a word of memory, for ever.
Accumulate == << I("IN", 0, 0, 0), I("LOAD", 1, 1, 24), I("ADD", 0, 1, 0),
                 I("LOADI", 1, 0, 0), I("STORE", 1, 0, 24), I("JMP", 0, 0, 0) >>

\* Reads from the input device and jumps out of memory.
Astray == << I("LOAD", 0, 1, 208), I("JMP", 0, 0, 40) >>

Files == {Countdown, Accumulate, Astray}
=============================================================================
