------------------------------ MODULE Debugger ------------------------------
(***************************************************************************)
(* The debugger (main_dbg.c): the commands of the full-screen TUI and of   *)
(* the line REPL over the reference CPU.  The loops of do_step,            *)
(* do_continue and cpu_run take one step of this specification per         *)
(* instruction; everything else a command does is one step.                *)
(*                                                                         *)
(* A program is the instruction each word of its file decodes to.  The     *)
(* programs given jump to whole words and do not read or write their own   *)
(* code, so what memory decodes to changes only when load fills it; words  *)
(* the file does not reach, and all of them after a load that cannot open  *)
(* the file, are zero and decode to NOP.                                   *)
(*                                                                         *)
(* The program and the debugger read the same stdin.  scanf leaves the     *)
(* newline after the number it read in the stdio buffer, where the next    *)
(* fgets finds an empty line: blank.                                       *)
(***************************************************************************)
EXTENDS CpuStep

CONSTANTS
    Programs,       \* files that may be debugged: sequences of instructions
    BpAddrs,        \* addresses breakpoints are asked for
    WatchAddrs,     \* addresses the memory view is pointed at
    MAX_BP,
    StepCounts,     \* arguments of s, of either sign
    Guard,          \* do_continue's limit (200000000)
    Inputs,         \* numbers typed for the program
    MaxCount        \* bound: no command is given, and no run to halt goes on,
                    \* past this many instructions

NOP == [op |-> "NOP", rd |-> 0, rs |-> 0, imm |-> 0]

\* What memory decodes to with a given file loaded.
CodeOf(file) == [w \in 0..(MEM_SIZE \div 4)-1 |->
                    IF w + 1 \in DOMAIN file THEN file[w + 1] ELSE NOP]

ASSUME DebuggerAssumption ==
    /\ 0 \in Regs
    /\ \A p \in Programs : /\ p \in Seq([op: Opcode, rd: Regs, rs: Regs, imm: Word])
                            /\ 4 * Len(p) <= MEM_SIZE
    /\ MAX_BP \in Nat /\ Guard \in Nat \ {0} /\ MaxCount \in Nat
    /\ StepCounts \subseteq Int /\ Inputs \subseteq Word /\ BpAddrs \cup WatchAddrs \subseteq Word

VARIABLES
    file,       \* the program's file
    tui,        \* both ends of the terminal are one; otherwise the REPL
    cpu,
    code,       \* what the words of memory decode to
    bps,        \* the breakpoint table, bps[0..nbp-1]
    mode,       \* prompt, the loop that runs, or how the process ended
    left,       \* steps left of do_step; guard of do_continue
    msg,
    blank,      \* stdin holds the newline a scanf left behind
    armed,      \* history: the breakpoints asked for and not cleared
    reads       \* history: what the program has read since it was loaded

dbgVars == <<file, tui, cpu, code, bps, mode, left, msg, blank, armed, reads>>

-----------------------------------------------------------------------------
(* Breakpoints *)

is_bp(a) == \E i \in DOMAIN bps : bps[i] = a

add_bp(a) ==
    /\ bps' = IF is_bp(a) \/ Len(bps) >= MAX_BP THEN bps ELSE Append(bps, a)
    /\ msg' = IF is_bp(a) THEN "already" ELSE IF Len(bps) >= MAX_BP THEN "full" ELSE "set"
    /\ armed' = IF Cardinality(armed) >= MAX_BP THEN armed ELSE armed \cup {a}

\* Mutant: the table shrinks without the last entry taking the free place.
del_bpForgets(a) ==
    /\ bps' = IF is_bp(a) THEN SubSeq(bps, 1, Len(bps) - 1) ELSE bps
    /\ msg' = IF is_bp(a) THEN "cleared" ELSE "none"
    /\ armed' = armed \ {a}

\* The last entry takes the place of the cleared one.
del_bp(a) ==
    /\ bps' = IF ~is_bp(a) THEN bps
              ELSE LET i == CHOOSE i \in DOMAIN bps : bps[i] = a
                   IN  SubSeq([bps EXCEPT ![i] = bps[Len(bps)]], 1, Len(bps) - 1)
    /\ msg' = IF is_bp(a) THEN "cleared" ELSE "none"
    /\ armed' = armed \ {a}

-----------------------------------------------------------------------------
(* Execution *)

Halted(c) == c.status = "halted"
Fetched == IF cpu.pc \div 4 \in DOMAIN code THEN code[cpu.pc \div 4] ELSE NOP

\* The process ends inside cpu_step when an access fails.
After(next) == IF cpu'.status \in {"exited", "undefined"} THEN "dead" ELSE next

\* cpu_step.  IN, or a load from the input device, takes a typed number and
\* leaves its newline; of anything else it makes 0 and leaves it for the next
\* command, having skipped a newline that was left before.
Exec ==
    /\ \E inp \in IF ReadsInput(cpu, Fetched) THEN Inputs \cup {0} ELSE {0} :
         /\ cpu' = cpu_step(FALSE, cpu, Fetched, inp, TRUE)
         /\ IF ReadsInput(cpu, Fetched)
            THEN /\ reads' = Append(reads, inp)
                 /\ blank' \in IF inp \notin Inputs THEN {FALSE}
                               ELSE IF inp = 0 THEN BOOLEAN ELSE {TRUE}
            ELSE UNCHANGED <<reads, blank>>
    /\ UNCHANGED <<file, tui, code, bps, armed>>

StepOnce ==
    /\ mode = "step" /\ left > 0 /\ ~Halted(cpu)
    /\ Exec
    /\ left' = left - 1 /\ mode' = After("step") /\ UNCHANGED msg

StepDone ==
    /\ mode = "step" /\ (left <= 0 \/ Halted(cpu))
    /\ mode' = "prompt" /\ left' = 0
    /\ msg' = IF Halted(cpu) THEN "halted" ELSE "stepped"
    /\ UNCHANGED <<file, tui, cpu, code, bps, blank, armed, reads>>

\* Mutant: the limit is tested and never approached; followed up to MaxCount.
ContinueUnguarded ==
    /\ mode = "continue" /\ cpu.icount < MaxCount
    /\ Exec
    /\ LET on == ~Halted(cpu') /\ ~is_bp(cpu'.pc)
       IN  /\ mode' = After(IF on /\ left > 0 THEN "continue" ELSE "prompt")
           /\ left' = IF on THEN left ELSE 0
           /\ msg' = IF Halted(cpu') THEN "halted"
                     ELSE IF is_bp(cpu'.pc) THEN "breakpoint" ELSE msg

\* The body of do_continue's loop, with the test after it: the guard counts
\* only instructions after which the loop would go on.
Continue ==
    /\ mode = "continue"
    /\ Exec
    /\ LET on == ~Halted(cpu') /\ ~is_bp(cpu'.pc)
       IN  /\ mode' = After(IF on /\ left > 1 THEN "continue" ELSE "prompt")
           /\ left' = IF on /\ left > 1 THEN left - 1 ELSE 0
           /\ msg' = IF Halted(cpu') THEN "halted"
                     ELSE IF is_bp(cpu'.pc) THEN "breakpoint"
                     ELSE IF left > 1 THEN msg ELSE "limit"

\* cpu_run has no limit and looks at no breakpoint.
Finish ==
    /\ mode = "finish" /\ cpu.icount < MaxCount
    /\ IF Halted(cpu)
       THEN /\ mode' = "prompt" /\ msg' = "ran to halt"
            /\ UNCHANGED <<file, tui, cpu, code, bps, blank, armed, reads>>
       ELSE Exec /\ mode' = After("finish") /\ UNCHANGED msg
    /\ UNCHANGED left

-----------------------------------------------------------------------------
(* Commands *)

AtPrompt == mode = "prompt" /\ cpu.icount < MaxCount

\* The REPL reads the next command with fgets, which a newline left behind by
\* the program answers at once: an empty line is a step.
Typed == AtPrompt /\ (tui \/ ~blank)

do_step(n) ==
    /\ mode' = "step" /\ left' = n
    /\ UNCHANGED <<file, tui, cpu, code, bps, msg, armed, reads>>

StepKey == Typed /\ do_step(1) /\ UNCHANGED blank
StepCount == Typed /\ ~tui /\ (\E n \in StepCounts : do_step(n)) /\ UNCHANGED blank
EmptyLine == AtPrompt /\ ~tui /\ blank /\ do_step(1) /\ blank' = FALSE

\* Mutant: c at a halt goes on.
do_continueAtHalt ==
    /\ Typed
    /\ mode' = "continue" /\ left' = Guard /\ UNCHANGED msg
    /\ UNCHANGED <<file, tui, cpu, code, bps, blank, armed, reads>>

do_continue ==
    /\ Typed
    /\ IF Halted(cpu) THEN msg' = "already halted" /\ UNCHANGED <<mode, left>>
       ELSE mode' = "continue" /\ left' = Guard /\ UNCHANGED msg
    /\ UNCHANGED <<file, tui, cpu, code, bps, blank, armed, reads>>

FinishKey ==
    /\ Typed /\ tui /\ mode' = "finish"
    /\ UNCHANGED <<file, tui, cpu, code, bps, left, msg, blank, armed, reads>>

\* Memory is cleared before the file is opened.
load(opened) == [mem |-> mem_init, code |-> CodeOf(IF opened THEN file ELSE <<>>)]

\* Neither r nor reset looks at what load returns.
Reset(opened) ==
    /\ Typed
    /\ code' = load(opened).code
    /\ cpu' = cpu_init(load(opened).mem, IF tui THEN 0 ELSE cpu.cap_len)
    /\ msg' = "reset" /\ reads' = <<>>
    /\ UNCHANGED <<file, tui, bps, mode, left, blank, armed>>

\* The address typed at a prompt of the TUI; a newline left behind answers for
\* the user, with 0.
Answer == IF blank THEN {0} ELSE BpAddrs

BreakKey ==
    /\ Typed /\ tui
    /\ \E a \in Answer : IF is_bp(a) THEN del_bp(a) ELSE add_bp(a)
    /\ blank' = FALSE
    /\ UNCHANGED <<file, tui, cpu, code, mode, left, reads>>

BreakLine ==
    /\ Typed /\ ~tui
    /\ \E a \in BpAddrs : add_bp(a) \/ del_bp(a)
    /\ UNCHANGED <<file, tui, cpu, code, mode, left, blank, reads>>

\* render_tui shows sixteen words from watch on, each if the uint32_t sum of its
\* end does not exceed MEM_SIZE; mem_read32 makes the same test.
ViewInArray(watch) ==
    \A k \in 0..15 : LET a == Wrap(watch + 4 * k)
                     IN  Wrap(a + 4) <= MEM_SIZE => InArray(a, 4)

\* Only the TUI shows memory.
WatchKey ==
    /\ Typed /\ tui
    /\ \E a \in IF blank THEN {0} ELSE WatchAddrs :
         mode' = IF ViewInArray(a) THEN mode ELSE "dead"
    /\ blank' = FALSE
    /\ UNCHANGED <<file, tui, cpu, code, bps, left, msg, armed, reads>>

\* q, or the end of input.
Quit ==
    /\ Typed /\ mode' = "quit"
    /\ UNCHANGED <<file, tui, cpu, code, bps, left, msg, blank, armed, reads>>

-----------------------------------------------------------------------------
Init ==
    /\ file \in Programs /\ tui \in BOOLEAN
    /\ code = CodeOf(file) /\ cpu = cpu_init(mem_init, 0)
    /\ bps = <<>> /\ mode = "prompt" /\ left = 0 /\ msg = "ready"
    /\ blank = FALSE /\ armed = {} /\ reads = <<>>

Loops == StepOnce \/ StepDone \/ Continue \/ Finish

Commands ==
    \/ StepKey \/ StepCount \/ EmptyLine
    \/ do_continue \/ FinishKey
    \/ \E opened \in BOOLEAN : Reset(opened)
    \/ BreakKey \/ BreakLine \/ WatchKey \/ Quit

Next == Loops \/ Commands

\* A loop that has been entered goes on; nobody has to give a command.
Spec == Init /\ [][Next]_dbgVars /\ WF_dbgVars(Loops)

-----------------------------------------------------------------------------
(* Properties *)

\* The state after n instructions of an uninterrupted cpu_run of the given
\* code, with the given numbers on stdin: the one it halts in, if it halts
\* before.
PlainRun(prog, nums, n) ==
    LET Run[k \in 0..n] ==
            IF k = 0 THEN [c |-> cpu_init(mem_init, 0), at |-> 1]
            ELSE LET r == Run[k - 1]
                     w == r.c.pc \div 4
                     i == IF w \in DOMAIN prog THEN prog[w] ELSE NOP
                     in == ReadsInput(r.c, i)
                 IN  IF Halted(r.c) THEN r
                     ELSE [c |-> cpu_step(FALSE, r.c, i,
                                          IF in THEN nums[r.at] ELSE 0, TRUE),
                           at |-> IF in THEN r.at + 1 ELSE r.at]
    IN  Run[n].c

\* Whatever commands were given, in whatever order, the machine is where an
\* uninterrupted run of what load put into memory, reading the same numbers,
\* is after as many instructions: stepping, stopping, editing breakpoints,
\* continuing at a halt and resetting change nothing the program can see, no
\* command executes anything past the halt where that run ends, and a reset,
\* of a file that opens or does not, leaves nothing of the run before.
SameRun ==
    mode # "dead" =>
        [cpu EXCEPT !.cap_len = 0]
            = [PlainRun(code, reads, cpu.icount) EXCEPT !.cap_len = 0]

\* do_continue goes on only from an address where no breakpoint the user has
\* set is left, through every sequence of sets and clears of the table, and
\* says truly why it stopped.
StopsAtBreakpoints ==
    [][mode = "continue" /\ mode' # "dead" =>
        /\ mode' = "continue" => cpu'.pc \notin armed /\ ~Halted(cpu')
        /\ mode' = "prompt" =>
             \/ msg' = "halted" /\ Halted(cpu')
             \/ msg' = "breakpoint" /\ cpu'.pc \in armed
             \/ msg' = "limit" /\ ~Halted(cpu') /\ cpu'.pc \notin armed]_dbgVars

\* s and c come back to the prompt (or the program's own bad access ends the
\* process), also for a program that never halts.
CommandReturns == mode \in {"step", "continue"} ~> mode \in {"prompt", "dead"}
=============================================================================
