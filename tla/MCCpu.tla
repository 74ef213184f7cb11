------------------------------- MODULE MCCpu -------------------------------
(***************************************************************************)
(* The kinds of programs the reference CPU is model-checked on, with words *)
(* of eight bits (bytes of two).                                           *)
(***************************************************************************)
EXTENDS SilentOracle

\* The extremes of the word, signed and unsigned, and what lies between.
Extremes == {0, 1, 2, 63, 64, 65, 126, 127, 128, 129, 130, 191, 192, 193, 254, 255}

\* Any two instructions, from small words, addresses of devices and memory,
\* and a negative word.
AnyTwo == [ops |-> Ops, imms |-> {4, 12}, words |-> {0, 7, 12, 20, 129}, steps |-> 2]

\* A comparison, and what may come between it and its branch.
Compare == [ops |-> {"ADD", "SUB", "AND", "MOV", "JL"}, imms |-> {0},
            words |-> Extremes, steps |-> 2]

\* Longer alternations on the stack, with stores that may hit it, and output.
StackAndOutput ==
    [ops |-> {"STORE", "PUSH", "POP", "CALL", "RET", "OUT"}, imms |-> {0, 4},
     words |-> {12, 27}, steps |-> 5]

\* Device input and output around arithmetic that depends on them.
Devices ==
    [ops |-> {"LOAD", "STORE", "IN", "OUT", "ADD", "JZ", "DIV"}, imms |-> {0, 4},
     words |-> {0, 12, 16, 20}, steps |-> 3]

AllMixes == {AnyTwo, Compare, StackAndOutput, Devices}
DeviceMix == {Devices}
=============================================================================
