---------------------------- MODULE MCCompiler -----------------------------
(***************************************************************************)
(* Sources for model checking: every operator on the ends of its range,    *)
(* every pair of operators in both groupings, programs about one construct *)
(* each, every mistake in every place, and missing brackets.               *)
(***************************************************************************)
EXTENDS Compiler

V(x) == N_VAR(x)
I(v) == N_INT(v)
Bin(op, a, b) == N_BINARY(op, a, b)
Call(f, args) == N_CALL(f, args)
In == Call("in", <<>>)
Do(e) == N_EXPRSTMT(e)
Out(e) == Do(Call("out", <<e>>))
Set(x, e) == Do(N_ASSIGN(V(x), e))
Var(x) == N_VARDECL(x, Scalar, NULL)
IntIs(x, e) == N_VARDECL(x, Scalar, e)
Array(x, size) == N_VARDECL(x, size, NULL)
Ret(e) == N_RETURN(e)
Block(ss) == N_BLOCK(ss)
Fun(f, params, ss) == N_FUNC(f, params, Block(ss))
Main(ss) == Fun("main", <<>>, ss)

Whole(prog, input) ==
    [prog |-> prog, text |-> Text(WrittenProgram(prog), <<>>), legal |-> TRUE, stdin |-> input]

-----------------------------------------------------------------------------
(* Operators *)

Extremes == {0, 1, 2, WordMod \div 2 - 1, WordMod \div 2, WordMod - 1}

\* x op y; no division by zero and no shift by the width of a word.
OnInputs(op) ==
    LET e == CASE op \in {"<<", ">>"} -> Bin(op, V("x"), Bin("&", V("y"), I(7)))
               [] op \in {"/", "%"} -> Bin(op, V("x"), Bin("|", V("y"), I(1)))
               [] OTHER -> Bin(op, V("x"), V("y"))
    IN  << Main(<< IntIs("x", In), IntIs("y", In), Out(e), Ret(e) >>) >>

\* The compiler divides and shifts right without a sign, so that its results are
\* C's for operands that are not negative; of every other operator for all.
OperandsFor(op) == {v \in Extremes : op \in {"/", "%", ">>"} => ~Neg(v)}

OperatorSources ==
    UNION { {Whole(OnInputs(op), <<x, y>>) : x \in OperandsFor(op), y \in OperandsFor(op)} :
                op \in UNION Range(Levels) }

\* One or two of every level, in all three-operand expressions, and unary
\* operators over and under them.
SomeOps == {"||", "&&", "|", "^", "&", "==", "!=", "<", ">=", "<<", "-", "*"}
Pairs == {Bin(o, Bin(q, V("x"), I(3)), I(2)) : o \in SomeOps, q \in SomeOps}
         \cup {Bin(o, V("x"), Bin(q, I(3), I(2))) : o \in SomeOps, q \in SomeOps}
Signs == {N_UNARY(u, Bin(o, V("x"), I(3))) : u \in {"-", "!", "~"}, o \in SomeOps}
         \cup {Bin(o, N_UNARY(u, V("x")), N_UNARY(u, I(3))) : u \in {"-", "!"}, o \in SomeOps \ {"<<"}}
GroupingSources ==
    {Whole(<< Main(<< IntIs("x", In), Ret(e) >>) >>, <<5>>) : e \in Pairs \cup Signs}

-----------------------------------------------------------------------------
(* Constructs *)

\* Prints and returns its argument.
Show == Fun("show", <<"n">>, << Out(V("n")), Ret(V("n")) >>)
ShowIn == Call("show", <<In>>)

ShortCircuit ==
    << Show, Main(<< Out(Bin("||", Bin("&&", ShowIn, ShowIn), Bin("||", ShowIn, N_UNARY("!", ShowIn)))),
                     Ret(I(0)) >>) >>

\* A temporary waits on the stack while the right operand calls.
Factorial ==
    << Fun("fact", <<"n">>,
           << N_IF(Bin("<", V("n"), I(2)), Ret(I(1)), NULL),
              Ret(Bin("*", V("n"), Call("fact", <<Bin("-", V("n"), I(1))>>))) >>),
       Main(<< Ret(Bin("+", I(1), Call("fact", <<In>>))) >>) >>

NestedArguments ==
    << Fun("minus", <<"a", "b">>, << Ret(Bin("-", V("a"), V("b"))) >>),
       Main(<< Out(Call("minus", << Call("minus", <<I(9), In>>), Call("minus", <<In, I(2)>>) >>)),
               Ret(Call("minus", <<In, In>>)) >>) >>

\* The loops test a variable that is not in R0 when they come round; a call
\* in the body passes an argument each time.
Loops ==
    << Show,
       Main(<< Var("x"), Var("i"), Set("x", In),
               N_WHILE(V("x"), Block(<< Set("x", Bin("-", V("x"), I(1))), Out(I(7)) >>)),
               N_FOR(Do(N_ASSIGN(V("i"), I(0))), Bin("<", V("i"), I(2)),
                     N_ASSIGN(V("i"), Bin("+", V("i"), I(1))), Do(Call("show", <<V("i")>>))),
               N_FOR(NULL, NULL, NULL,
                     N_IF(Bin(">=", V("x"), I(2)), Ret(V("i")), Set("x", Bin("+", V("x"), I(1))))) >>) >>

\* The else belongs to the inner if; blocks side by side reuse a name.
Blocks ==
    << Main(<< IntIs("x", In),
               N_IF(V("x"), N_IF(Bin("<", I(1), V("x")), Out(I(1)), Out(I(2))), NULL),
               Block(<< IntIs("t", I(4)), Out(V("t")) >>),
               N_FOR(IntIs("t", I(5)), V("t"), N_ASSIGN(V("t"), I(0)),
                     Block(<< IntIs("u", Bin("+", V("t"), V("x"))), Out(V("u")) >>)),
               N_IF(V("x"), Block(<<>>), Out(I(3))),
               Ret(NULL) >>) >>

\* A global array and counter, an array passed on, a pointer into it.
GlobalsProgram ==
    << Array("g", 3), IntIs("count", I(5)),
       Fun("sum", <<"p", "n">>,
           << IntIs("s", I(0)), Var("i"), Set("count", Bin("+", V("count"), I(1))),
              N_FOR(Do(N_ASSIGN(V("i"), I(0))), Bin("<", V("i"), V("n")),
                    N_ASSIGN(V("i"), Bin("+", V("i"), I(1))),
                    Set("s", Bin("+", V("s"), N_INDEX(V("p"), V("i"))))),
              Ret(V("s")) >>),
       Main(<< Var("i"), Var("p"),
               Do(N_ASSIGN(N_INDEX(V("g"), N_ASSIGN(V("i"), I(1))), In)),
               Set("p", N_UNARY("&", N_INDEX(V("g"), I(2)))),
               Do(N_ASSIGN(N_UNARY("*", V("p")), Bin("+", V("i"), I(6)))),
               Do(N_ASSIGN(N_INDEX(V("g"), I(0)), N_ASSIGN(V("i"), I(3)))),
               Out(Call("sum", <<V("g"), I(3)>>)),
               Ret(Bin("+", V("count"), N_UNARY("*", V("p")))) >>) >>

\* Every activation has its own array; the caller's is written by address.
LocalArrays ==
    << Fun("fill", <<"p", "n">>,
           << Array("a", 2), IntIs("k", V("n")),
              Do(N_ASSIGN(N_INDEX(V("a"), I(0)), V("n"))),
              Do(N_ASSIGN(N_INDEX(V("a"), I(1)), I(0))),
              N_IF(V("n"), Do(Call("fill", <<V("a"), Bin("-", V("n"), I(1))>>)), NULL),
              Do(N_ASSIGN(N_INDEX(V("p"), I(1)), Bin("+", V("k"), N_INDEX(V("a"), I(1))))),
              Ret(N_INDEX(V("a"), I(0))) >>),
       Main(<< Array("a", 2), Out(Call("fill", <<N_UNARY("&", N_INDEX(V("a"), I(0))), In>>)),
               Ret(N_INDEX(V("a"), I(1))) >>) >>

\* A frame too large for an immediate, and what is empty.
Odd == { << Main(<< Array("a", IMM_MAX), Ret(I(0)) >>) >>,
         << Array("e", 0), IntIs("w", I(IMM_MAX + 1)),
            Main(<< Array("z", 0), Var("x"), Set("x", I(2)), Block(<<>>),
                    Ret(Bin("+", V("x"), Bin("+", V("w"), Bin("-", V("z"), V("z"))))) >>) >> }

Constructs ==
    {ShortCircuit, Factorial, NestedArguments, Loops, Blocks, GlobalsProgram, LocalArrays}
ConstructSources ==
    {Whole(prog, input) : prog \in Constructs,
                          input \in { <<>>, <<3, 0, 1, 2>>, <<1, 2>>, <<0, 3, 0, 0>> }}
    \cup {Whole(prog, <<>>) : prog \in Odd}

-----------------------------------------------------------------------------
(* Mistakes *)

BadExprs ==
    {V("nowhere"), Call("nowhere", <<>>), Call("f", <<>>), Call("out", <<>>), I(IMM_MAX + 1),
     N_ASSIGN(V("a"), I(1)), N_ASSIGN(I(1), V("x")), N_ASSIGN(Bin("+", V("x"), I(1)), I(2)),
     N_ASSIGN(V("nowhere"), I(1)), N_ASSIGN(N_INDEX(V("nowhere"), I(0)), I(1)),
     N_UNARY("&", I(1)), N_UNARY("*", V("nowhere"))}

Places(e) ==
    {Do(e), Ret(e), IntIs("y", e), N_IF(e, Do(I(1)), NULL), N_IF(I(1), Do(I(1)), Block(<<Do(e)>>)),
     N_WHILE(e, Block(<<>>)), N_FOR(NULL, I(0), e, Do(I(1))), N_FOR(Do(e), NULL, NULL, Ret(I(1))),
     Do(Call("f", <<Bin("-", I(1), e)>>)), Do(Bin("&&", I(0), e)), Do(N_INDEX(V("a"), N_UNARY("-", e)))}

InMain(s) == << Fun("f", <<"x">>, << Ret(V("x")) >>), Main(<< Var("x"), Array("a", 2), s >>) >>
InOther(s) == << Array("a", 2), Main(<< Ret(I(0)) >>), Fun("f", <<"x">>, << s >>) >>

MistakeSources ==
    {Whole(InMain(s), <<>>) : s \in UNION {Places(e) : e \in BadExprs}}
    \cup {Whole(InOther(s), <<>>) : s \in UNION {Places(e) : e \in BadExprs}}
    \cup {Whole(<< Fun("f", <<>>, <<>>) >>, <<>>),
          Whole(<< IntIs("g", N_UNARY("-", I(1))), Main(<<>>) >>, <<>>)}

-----------------------------------------------------------------------------
(* Texts *)

\* Comments that look like others, up to the end of a line.
Gap == <<Char("/"), Char("*"), Char("/"), Char("*"), Char("/"), Char(" "),
         Char("/"), Char("/"), Char("*"), Char(Newline)>>
CommentedSources ==
    {[Whole(prog, <<1, 2>>) EXCEPT !.text = Text(WrittenProgram(prog), Gap)] : prog \in Constructs}

Illegal(prog, bad) == [prog |-> prog, text |-> bad, legal |-> FALSE, stdin |-> <<>>]

\* A bracket left out, a character that starts no token, a comment that is
\* not closed again.
Brackets == {"(", ")", "[", "]", "{", "}"}
BadTexts(text0) ==
    {RemoveAt(text0, k) : k \in {k \in DOMAIN text0 : text0[k].text \in Brackets}}
    \cup {InsertAt(text0, Len(text0), Char("@")),
          Front(text0) \o <<Char("/"), Char("*"), Last(text0)>>}
BadTextSources ==
    UNION { {Illegal(prog, t) : t \in BadTexts(Text(WrittenProgram(prog), <<>>))} : prog \in Constructs }

AllSources ==
    OperatorSources \cup GroupingSources \cup ConstructSources \cup MistakeSources
    \cup CommentedSources \cup BadTextSources
=============================================================================
