----------------------------- MODULE CMeaning ------------------------------
(***************************************************************************)
(* What a source means to its programmer, without the compiler: the tokens *)
(* a tree is written with, the programs that have a meaning, and what they *)
(* read and print.  Names are resolved by blocks, storage is never reused  *)
(* and there are no registers, stacks or labels.  Operators are C's on int *)
(* with the width of a word.  What C leaves open is taken as the compiler  *)
(* decides it: arguments are evaluated last to first, sums that overflow   *)
(* wrap, and >> of a negative number copies its sign, as on every host.    *)
(***************************************************************************)
EXTENDS CGen, CpuStep

(* Writing a tree, with no parenthesis that C's grammar does not need *)

\* C's binary operators from the loosest to the tightest.
Levels == << {"||"}, {"&&"}, {"|"}, {"^"}, {"&"}, {"==", "!="},
             {"<", "<=", ">", ">="}, {"<<", ">>"}, {"+", "-"}, {"*", "/", "%"} >>
UnaryLevel == Len(Levels) + 1
PostfixLevel == UnaryLevel + 1

Tightness(n) ==
    CASE n.type = "ASSIGN" -> 0
      [] n.type = "BINARY" -> CHOOSE l \in DOMAIN Levels : n.op \in Levels[l]
      [] n.type = "UNARY" -> UnaryLevel
      [] OTHER -> PostfixLevel

Separated(parts) ==
    FlattenSeq([k \in DOMAIN parts |-> IF k = 1 THEN parts[1] ELSE <<Tok(",")>> \o parts[k]])

\* An expression where only what binds at least as tightly as min may stand.
RECURSIVE Written(_, _)
Written(n, min) ==
    LET t == Tightness(n)
        bare == CASE n.type = "INT" -> <<TokInt(n.ival)>>
                  [] n.type = "VAR" -> <<TokName(n.name)>>
                  [] n.type = "ASSIGN" -> Written(n.a, UnaryLevel) \o <<Tok("=")>> \o Written(n.b, 0)
                  [] n.type = "UNARY" -> <<Tok(n.op)>> \o Written(n.a, UnaryLevel)
                  [] n.type = "BINARY" -> Written(n.a, t) \o <<Tok(n.op)>> \o Written(n.b, t + 1)
                  [] n.type = "INDEX" -> Written(n.a, PostfixLevel) \o <<Tok("[")>> \o
                                         Written(n.b, 0) \o <<Tok("]")>>
                  [] n.type = "CALL" ->
                        <<TokName(n.name), Tok("(")>> \o
                        Separated([k \in DOMAIN n.kids |-> Written(n.kids[k], 0)]) \o <<Tok(")")>>
    IN  IF t < min THEN <<Tok("(")>> \o bare \o <<Tok(")")>> ELSE bare

OptExpr(n) == IF n.type = "NULL" THEN <<>> ELSE Written(n, 0)

\* p is written as a pointer.
Declared1(x) == IF x = "p" THEN <<Tok("int"), Tok("*"), TokName(x)>> ELSE <<Tok("int"), TokName(x)>>

RECURSIVE WrittenStmt(_)
WrittenStmt(n) ==
    LET Parens(e) == <<Tok("(")>> \o Written(e, 0) \o <<Tok(")")>>
    IN  CASE n.type = "NULL" -> <<Tok(";")>>
          [] n.type = "BLOCK" ->
                <<Tok("{")>> \o FlattenSeq([k \in DOMAIN n.kids |-> WrittenStmt(n.kids[k])]) \o <<Tok("}")>>
          [] n.type = "VARDECL" ->
                Declared1(n.name) \o
                (IF n.size # Scalar THEN <<Tok("["), TokInt(n.size), Tok("]")>>
                 ELSE IF n.a.type = "NULL" THEN <<>> ELSE <<Tok("=")>> \o Written(n.a, 0)) \o <<Tok(";")>>
          [] n.type = "EXPRSTMT" -> Written(n.a, 0) \o <<Tok(";")>>
          [] n.type = "RETURN" -> <<Tok("return")>> \o OptExpr(n.a) \o <<Tok(";")>>
          [] n.type = "IF" ->
                <<Tok("if")>> \o Parens(n.a) \o WrittenStmt(n.b) \o
                (IF n.c.type = "NULL" THEN <<>> ELSE <<Tok("else")>> \o WrittenStmt(n.c))
          [] n.type = "WHILE" -> <<Tok("while")>> \o Parens(n.a) \o WrittenStmt(n.b)
          [] n.type = "FOR" ->
                <<Tok("for"), Tok("(")>> \o WrittenStmt(n.a) \o OptExpr(n.b) \o <<Tok(";")>> \o
                OptExpr(n.c) \o <<Tok(")")>> \o WrittenStmt(n.d)
          [] n.type = "FUNC" ->
                <<Tok(IF n.name = "show" THEN "void" ELSE "int"), TokName(n.name), Tok("(")>> \o
                (IF n.name = "main" THEN <<Tok("void")>>
                 ELSE Separated([k \in DOMAIN n.params |-> Declared1(n.params[k])])) \o
                <<Tok(")")>> \o WrittenStmt(n.a)

WrittenProgram(decls) ==
    FlattenSeq([k \in DOMAIN decls |-> WrittenStmt(decls[k])]) \o <<T_EOF>>

\* Operators of two characters.
Digraphs == [o \in {"<<", ">>", "==", "!=", "<=", ">=", "&&", "||"} |->
    CASE o = "<<" -> <<"<", "<">> [] o = ">>" -> <<">", ">">> [] o = "==" -> <<"=", "=">>
      [] o = "!=" -> <<"!", "=">> [] o = "<=" -> <<"<", "=">> [] o = ">=" -> <<">", "=">>
      [] o = "&&" -> <<"&", "&">> [] o = "||" -> <<"|", "|">>]

Spelling(t) ==
    CASE t.type = "eof" -> <<>>
      [] t.type = "int_lit" -> <<Digits(t.val)>>
      [] t.type = "ident" -> <<Letters(t.text)>>
      [] t.type \in DOMAIN Digraphs -> <<Char(Digraphs[t.type][1]), Char(Digraphs[t.type][2])>>
      [] OTHER -> IF t.type \in Keywords THEN <<Letters(t.type)>> ELSE <<Char(t.type)>>

\* Two spellings that would be read as something else without a space.
Runs(a, b) ==
    \/ /\ a[1].kind # "char" /\ b[1].kind # "char"
    \/ /\ Len(a) = 1
       /\ <<a[1].text, b[1].text>> \in Range(Digraphs) \cup {<<"/", "*">>, <<"/", "/">>}

\* A source with the given gap between any two tokens, or with spaces only
\* where they are needed.
Text(toks, gap) ==
    LET s == [k \in DOMAIN toks |-> Spelling(toks[k])]
    IN  FlattenSeq([k \in DOMAIN s |->
            s[k] \o IF gap # <<>> THEN gap
                    ELSE IF k + 1 < Len(s) /\ Runs(s[k], s[k + 1]) THEN <<Char(" ")>> ELSE <<>>])

-----------------------------------------------------------------------------
(* The programs that have a meaning *)

\* All nodes of a tree.  What in is given is never looked at.
RECURSIVE Nodes(_)
Nodes(n) ==
    {n} \cup UNION {Nodes(n[f]) : f \in {"a", "b", "c", "d"} \cap DOMAIN n}
        \cup IF "kids" \in DOMAIN n /\ ~(n.type = "CALL" /\ n.name = "in")
             THEN UNION {Nodes(n.kids[k]) : k \in DOMAIN n.kids} ELSE {}

Globals(decls) == {d \in Range(decls) : d.type = "VARDECL"}
Functions(decls) == {d \in Range(decls) : d.type = "FUNC"}

\* The names function f may use, and those of them that are arrays.  A local
\* name is known in the whole function and hides the global.
Locals(f) == Range(f.params) \cup {n.name : n \in {n \in Nodes(f.a) : n.type = "VARDECL"}}
Known(decls, f) == Locals(f) \cup {d.name : d \in Globals(decls)}
Arrays(decls, f) ==
    {n.name : n \in {n \in Nodes(f.a) : n.type = "VARDECL" /\ n.size # Scalar}}
    \cup {d.name : d \in {d \in Globals(decls) : d.size # Scalar /\ d.name \notin Locals(f)}}

Lvalue(n) == n.type \in {"VAR", "INDEX"} \/ (n.type = "UNARY" /\ n.op = "*")

NodeOk(decls, f, n) ==
    /\ n.type = "INT" => n.ival \in IMM_MIN..IMM_MAX
    /\ n.type = "VAR" => n.name \in Known(decls, f)
    /\ n.type = "ASSIGN" => Lvalue(n.a) /\ ~(n.a.type = "VAR" /\ n.a.name \in Arrays(decls, f))
    /\ n.type = "UNARY" /\ n.op = "&" => Lvalue(n.a)
    /\ n.type = "CALL" /\ n.name = "out" => Len(n.kids) = 1
    /\ n.type = "CALL" /\ n.name \notin {"in", "out"} =>
         \E g \in Functions(decls) : g.name = n.name /\ Len(g.params) = Len(n.kids)

WellFormed(decls) ==
    /\ \E f \in Functions(decls) : f.name = "main"
    /\ \A f \in Functions(decls) : \A n \in Nodes(f.a) : NodeOk(decls, f, n)
    /\ \A d \in Globals(decls) : d.a.type \in {"NULL", "INT"}

-----------------------------------------------------------------------------
(***************************************************************************)
(* Evaluation.  The state m has the environment (names to locations), the  *)
(* store, the next free location, what stdin still holds, what was         *)
(* printed, whether a return was reached, and the value of the expression  *)
(* evaluated last.                                                         *)
(***************************************************************************)
Value(m, v) == [m EXCEPT !.v = v]
Cell(m, loc) == Value(m, m.store[loc])

\* cells words from initial value v on; array elements are four apart.
Allocate(m, x, cells, arr, v) ==
    [m EXCEPT !.env = (x :> [loc |-> m.next, arr |-> arr]) @@ @,
              !.next = @ + 4 * cells,
              !.store = @ @@ [l \in {m.next + 4 * k : k \in 0..cells-1} |-> v]]

Truth(b) == IF b THEN 1 ELSE 0

\* The size of a number, without its sign.
Magnitude(a) == IF a < 0 THEN -a ELSE a

\* Division in C truncates towards zero; % is what it leaves.
Quotient(a, b) ==
    LET q == Magnitude(a) \div Magnitude(b) IN IF (a < 0) = (b < 0) THEN q ELSE -q

Apply(op, a, b) ==
    CASE op = "+" -> Wrap(a + b)
      [] op = "-" -> Wrap(a - b)
      [] op = "*" -> Wrap(a * b)
      [] op = "/" -> Wrap(Quotient(Signed(a), Signed(b)))
      [] op = "%" -> Wrap(Signed(a) - Signed(b) * Quotient(Signed(a), Signed(b)))
      [] op = "&" -> Bitwise2([x \in {0, 1} |-> [y \in {0, 1} |-> Truth(x = 1 /\ y = 1)]], a, b)
      [] op = "|" -> Bitwise2([x \in {0, 1} |-> [y \in {0, 1} |-> Truth(x = 1 \/ y = 1)]], a, b)
      [] op = "^" -> Bitwise2([x \in {0, 1} |-> [y \in {0, 1} |-> Truth(x # y)]], a, b)
      [] op = "<<" -> Wrap(a * 2^b)
      [] op = ">>" -> Wrap(Signed(a) \div 2^b)
      [] op = "==" -> Truth(a = b)
      [] op = "!=" -> Truth(a # b)
      [] op = "<" -> Truth(Signed(a) < Signed(b))
      [] op = "<=" -> Truth(Signed(a) <= Signed(b))
      [] op = ">" -> Truth(Signed(a) > Signed(b))
      [] op = ">=" -> Truth(Signed(a) >= Signed(b))

RECURSIVE Eval(_, _, _)
RECURSIVE Exec(_, _, _)

Location(decls, m, n) ==
    CASE n.type = "VAR" -> Value(m, m.env[n.name].loc)
      [] n.type = "INDEX" -> LET base == Eval(decls, m, n.a)
                                 ix == Eval(decls, base, n.b)
                             IN  Value(ix, base.v + 4 * ix.v)
      [] n.type = "UNARY" -> Eval(decls, m, n.a)

Called(decls, m, n) ==
    LET f == CHOOSE f \in Functions(decls) : f.name = n.name
        args == FoldRight(LAMBDA e, acc :
                    LET r == Eval(decls, acc.m, e) IN [m |-> r, vals |-> <<r.v>> \o acc.vals],
                    n.kids, [m |-> m, vals |-> <<>>])
        entry == FoldLeft(LAMBDA acc, k : Allocate(acc, f.params[k], 1, FALSE, args.vals[k]),
                          [args.m EXCEPT !.env = m.globals], [k \in DOMAIN f.params |-> k])
    IN  [Exec(decls, entry, f.a) EXCEPT !.env = m.env, !.returned = FALSE]

Eval(decls, m, n) ==
    CASE n.type = "INT" -> Value(m, n.ival)
      [] n.type = "VAR" -> IF m.env[n.name].arr THEN Value(m, m.env[n.name].loc)
                           ELSE Cell(m, m.env[n.name].loc)
      [] n.type = "INDEX" \/ (n.type = "UNARY" /\ n.op = "*") ->
            LET at1 == Location(decls, m, n) IN Cell(at1, at1.v)
      [] n.type = "ASSIGN" -> LET to == Location(decls, m, n.a)
                                  r == Eval(decls, to, n.b)
                              IN  [r EXCEPT !.store = (to.v :> r.v) @@ @]
      [] n.type = "UNARY" /\ n.op = "&" -> Location(decls, m, n.a)
      [] n.type = "UNARY" /\ n.op \in {"-", "~", "!"} ->
            LET r == Eval(decls, m, n.a)
            IN  Value(r, CASE n.op = "-" -> Wrap(-r.v) [] n.op = "~" -> WordMod - 1 - r.v
                           [] n.op = "!" -> Truth(r.v = 0))
      [] n.type = "BINARY" ->
            LET a == Eval(decls, m, n.a)
                b == Eval(decls, a, n.b)
            IN  CASE n.op = "&&" -> IF a.v = 0 THEN a ELSE Value(b, Truth(b.v # 0))
                  [] n.op = "||" -> IF a.v # 0 THEN Value(a, 1) ELSE Value(b, Truth(b.v # 0))
                  [] OTHER -> Value(b, Apply(n.op, a.v, b.v))
      [] n.type = "CALL" ->
            CASE n.name = "in" -> IF m.stdin = <<>> THEN Value(m, 0)
                                  ELSE [Value(m, Head(m.stdin)) EXCEPT !.stdin = Tail(@)]
              [] n.name = "out" -> LET r == Eval(decls, m, n.kids[1])
                                   IN  [r EXCEPT !.out = Append(@, r.v)]
              [] OTHER -> Called(decls, m, n)

RECURSIVE Loop(_, _, _, _, _)
Loop(decls, m, cond, body, step) ==
    LET c == IF cond.type = "NULL" THEN Value(m, 1) ELSE Eval(decls, m, cond)
        b == Exec(decls, c, body)
        s == IF step.type = "NULL" THEN b ELSE Eval(decls, b, step)
    IN  IF c.v = 0 THEN c ELSE IF b.returned THEN b ELSE Loop(decls, s, cond, body, step)

Exec(decls, m, n) ==
    CASE n.type = "NULL" -> m
      [] n.type = "BLOCK" ->
            [FoldLeft(LAMBDA acc, k : IF acc.returned THEN acc ELSE Exec(decls, acc, k), m, n.kids)
                EXCEPT !.env = m.env]
      [] n.type = "VARDECL" ->
            LET r == IF n.a.type = "NULL" THEN m ELSE Eval(decls, m, n.a)
            IN  Allocate(r, n.name, IF n.size = Scalar THEN 1 ELSE n.size, n.size # Scalar, r.v)
      [] n.type = "EXPRSTMT" -> Eval(decls, m, n.a)
      [] n.type = "RETURN" ->
            [(IF n.a.type = "NULL" THEN m ELSE Eval(decls, m, n.a)) EXCEPT !.returned = TRUE]
      [] n.type = "IF" -> LET c == Eval(decls, m, n.a)
                          IN  Exec(decls, c, IF c.v # 0 THEN n.b ELSE n.c)
      [] n.type = "WHILE" -> Loop(decls, m, n.a, n.b, NULL)
      [] n.type = "FOR" ->
            [Loop(decls, Exec(decls, m, n.a), n.b, n.d, n.c) EXCEPT !.env = m.env]

\* What a program prints given its input, and the value main returns.
Meaning(decls, input) ==
    LET empty == <<>>
        m0 == [env |-> empty, globals |-> empty, store |-> empty, next |-> 4, stdin |-> input,
               out |-> <<>>, returned |-> FALSE, v |-> 0]
        m == FoldLeft(LAMBDA acc, d :
                        Allocate(acc, d.name, IF d.size = Scalar THEN 1 ELSE d.size,
                                 d.size # Scalar, IF d.a.type = "INT" THEN d.a.ival ELSE 0),
                      m0, Named(decls, "VARDECL"))
        r == Called(decls, [m EXCEPT !.globals = m.env], N_CALL("main", <<>>))
    IN  [out |-> r.out, v |-> r.v]
=============================================================================
