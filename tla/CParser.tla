------------------------------ MODULE CParser ------------------------------
(***************************************************************************)
(* The compiler's syntax trees (compiler.h) and its recursive-descent      *)
(* parser (cparser.c).  What a pointer star or void adds to a tree is only *)
(* printed, so trees leave it out.                                         *)
(*                                                                         *)
(* The parser's state r is the index of the next token, whether all went   *)
(* well so far, and the tree parsed last.  The longjmp of perr is a jump   *)
(* to the last token, T_EOF, where every loop of the parser ends and       *)
(* nothing more is accepted.                                               *)
(***************************************************************************)
EXTENDS CLexer

(* Trees *)

NULL == [type |-> "NULL"]
N_INT(v) == [type |-> "INT", ival |-> v]
N_VAR(x) == [type |-> "VAR", name |-> x]
N_UNARY(op, a) == [type |-> "UNARY", op |-> op, a |-> a]
N_BINARY(op, a, b) == [type |-> "BINARY", op |-> op, a |-> a, b |-> b]
N_ASSIGN(a, b) == [type |-> "ASSIGN", a |-> a, b |-> b]
N_CALL(f, kids) == [type |-> "CALL", name |-> f, kids |-> kids]
N_INDEX(a, b) == [type |-> "INDEX", a |-> a, b |-> b]
N_EXPRSTMT(a) == [type |-> "EXPRSTMT", a |-> a]
N_RETURN(a) == [type |-> "RETURN", a |-> a]
N_BLOCK(kids) == [type |-> "BLOCK", kids |-> kids]
N_IF(a, b, c) == [type |-> "IF", a |-> a, b |-> b, c |-> c]
N_WHILE(a, b) == [type |-> "WHILE", a |-> a, b |-> b]
N_FOR(a, b, c, d) == [type |-> "FOR", a |-> a, b |-> b, c |-> c, d |-> d]
Scalar == -1    \* the size of what is no array
N_VARDECL(x, size, a) == [type |-> "VARDECL", name |-> x, size |-> size, a |-> a]
N_FUNC(f, params, a) == [type |-> "FUNC", name |-> f, params |-> params, a |-> a]

-----------------------------------------------------------------------------
at(t, r, type) == t[r.i].type = type
advance(r) == [r EXCEPT !.i = @ + 1]
perr(t, r) == [r EXCEPT !.i = Len(t), !.ok = FALSE]
expect(t, r, type) == IF at(t, r, type) THEN advance(r) ELSE perr(t, r)
With(r, n) == [r EXCEPT !.n = n]
\* The tree of r inside a larger one.
Into(r, Tree(_)) == [r EXCEPT !.n = Tree(@)]

UnaryOps == {"-", "!", "~", "*", "&"}

\* Mutant: the comparisons bind like the equalities.
binprecCoarse(op) ==
    CASE op = "||" -> 1 [] op = "&&" -> 2 [] op = "|" -> 3 [] op = "^" -> 4
      [] op = "&" -> 5 [] op \in {"==", "!=", "<", "<=", ">", ">="} -> 6
      [] op \in {"<<", ">>"} -> 8 [] op \in {"+", "-"} -> 9
      [] op \in {"*", "/", "%"} -> 10 [] OTHER -> 0

\* 0 for what is no binary operator.
binprec(op) ==
    CASE op = "||" -> 1 [] op = "&&" -> 2 [] op = "|" -> 3 [] op = "^" -> 4
      [] op = "&" -> 5 [] op \in {"==", "!="} -> 6
      [] op \in {"<", "<=", ">", ">="} -> 7
      [] op \in {"<<", ">>"} -> 8 [] op \in {"+", "-"} -> 9
      [] op \in {"*", "/", "%"} -> 10 [] OTHER -> 0

RECURSIVE parse_expr(_, _)
RECURSIVE Arguments(_, _)
RECURSIVE Postfix(_, _)
RECURSIVE parse_unary(_, _)
RECURSIVE parse_bin(_, _, _)
RECURSIVE BinaryTail(_, _, _)

parse_primary(t, r) ==
    CASE at(t, r, "int_lit") -> With(advance(r), N_INT(t[r.i].val))
      [] at(t, r, "ident") -> With(advance(r), N_VAR(t[r.i].text))
      [] at(t, r, "(") -> expect(t, parse_expr(t, advance(r)), ")")
      [] OTHER -> perr(t, r)

\* One or more arguments after those of r.
MoreArguments(t, r) == IF at(t, r, ",") THEN Arguments(t, advance(r)) ELSE r
Arguments(t, r) ==
    MoreArguments(t, Into(parse_expr(t, r), LAMBDA e : Append(r.n, e)))

\* The calls and indices that follow the tree of r.
Postfix(t, r) ==
    CASE at(t, r, "(") /\ r.n.type # "VAR" -> perr(t, r)
      [] at(t, r, "(") /\ r.n.type = "VAR" ->
            LET open == With(advance(r), <<>>)
                args == IF at(t, open, ")") THEN open ELSE Arguments(t, open)
            IN  Postfix(t, Into(expect(t, args, ")"), LAMBDA kids : N_CALL(r.n.name, kids)))
      [] at(t, r, "[") ->
            Postfix(t, Into(expect(t, parse_expr(t, advance(r)), "]"),
                            LAMBDA ix : N_INDEX(r.n, ix)))
      [] OTHER -> r

parse_unary(t, r) ==
    IF t[r.i].type \in UnaryOps
    THEN Into(parse_unary(t, advance(r)), LAMBDA e : N_UNARY(t[r.i].type, e))
    ELSE Postfix(t, parse_primary(t, r))

parse_bin(t, r, minprec) == BinaryTail(t, parse_unary(t, r), minprec)

\* The operators of at least minprec that follow the tree of r; the right
\* operand takes those that bind tighter.
BinaryTail(t, r, minprec) ==
    LET op == t[r.i].type
    IN  IF binprec(op) = 0 \/ binprec(op) < minprec THEN r
        ELSE BinaryTail(t, Into(parse_bin(t, advance(r), binprec(op) + 1),
                                LAMBDA right : N_BINARY(op, r.n, right)),
                        minprec)

AssignTail(t, r) ==
    IF ~at(t, r, "=") THEN r
    ELSE Into(parse_expr(t, advance(r)), LAMBDA e : N_ASSIGN(r.n, e))

parse_expr(t, r) == AssignTail(t, parse_bin(t, r, 1))

-----------------------------------------------------------------------------
(* Declarations and statements *)

Star(t, r) == IF at(t, r, "*") THEN advance(r) ELSE r

\* After the name: an array size or an initializer, and the semicolon.
Declarator(t, r, x) ==
    LET size == expect(t, advance(r), "int_lit")
    IN  CASE at(t, r, "[") -> With(expect(t, expect(t, size, "]"), ";"),
                                   N_VARDECL(x, t[r.i + 1].val, NULL))
          [] at(t, r, "=") -> Into(expect(t, parse_expr(t, advance(r)), ";"),
                                   LAMBDA init : N_VARDECL(x, Scalar, init))
          [] OTHER -> With(expect(t, r, ";"), N_VARDECL(x, Scalar, NULL))

parse_local_decl(t, r) ==
    LET name == Star(t, advance(r))
    IN  Declarator(t, expect(t, name, "ident"), t[name.i].text)

\* An expression up to the token that ends it; none before that token itself.
Optional(t, r, end) ==
    expect(t, IF at(t, r, end) THEN With(r, NULL) ELSE parse_expr(t, r), end)

ExprStmt(t, r) == Into(expect(t, parse_expr(t, r), ";"), N_EXPRSTMT)

RECURSIVE parse_stmt(_, _)
RECURSIVE Statements(_, _)

\* The statements after those of r.
Statements(t, r) ==
    IF at(t, r, "}") \/ at(t, r, "eof") THEN r
    ELSE Statements(t, Into(parse_stmt(t, r), LAMBDA s : Append(r.n, s)))

parse_block(t, r) ==
    Into(expect(t, Statements(t, With(expect(t, r, "{"), <<>>)), "}"), N_BLOCK)

\* A parenthesised condition, the keyword being next.
Parenthesised(t, r) == expect(t, parse_expr(t, expect(t, advance(r), "(")), ")")

ForInit(t, r) ==
    CASE at(t, r, "int") -> parse_local_decl(t, r)
      [] at(t, r, ";") -> With(advance(r), NULL)
      [] OTHER -> ExprStmt(t, r)

parse_stmt(t, r) ==
    CASE at(t, r, "{") -> parse_block(t, r)
      [] at(t, r, "int") -> parse_local_decl(t, r)
      [] at(t, r, "if") ->
            LET cond == Parenthesised(t, r)
                then == parse_stmt(t, cond)
                els == IF at(t, then, "else") THEN parse_stmt(t, advance(then))
                       ELSE With(then, NULL)
            IN  Into(els, LAMBDA c : N_IF(cond.n, then.n, c))
      [] at(t, r, "while") ->
            LET cond == Parenthesised(t, r)
            IN  Into(parse_stmt(t, cond), LAMBDA body : N_WHILE(cond.n, body))
      [] at(t, r, "for") ->
            LET init == ForInit(t, expect(t, advance(r), "("))
                cond == Optional(t, init, ";")
                step == Optional(t, cond, ")")
            IN  Into(parse_stmt(t, step),
                     LAMBDA body : N_FOR(init.n, cond.n, step.n, body))
      [] at(t, r, "return") ->
            Into(Optional(t, advance(r), ";"), N_RETURN)
      [] OTHER -> ExprStmt(t, r)

\* int or void, and a star.
parse_type(t, r) ==
    IF at(t, r, "int") \/ at(t, r, "void") THEN Star(t, advance(r)) ELSE perr(t, r)

\* One or more parameters after those of r.
RECURSIVE Parameters(_, _)
Parameters(t, r) ==
    LET name == parse_type(t, r)
        p == With(expect(t, name, "ident"), Append(r.n, t[name.i].text))
    IN  IF at(t, p, ",") THEN Parameters(t, advance(p)) ELSE p

parse_toplevel(t, r) ==
    LET name == parse_type(t, r)
        x == t[name.i].text
        p == expect(t, name, "ident")
        open == With(advance(p), <<>>)
        params == CASE at(t, open, ")") -> open
                    [] at(t, open, "void") /\ t[open.i + 1].type = ")" -> advance(open)
                    [] OTHER -> Parameters(t, open)
    IN  CASE at(t, p, "(") -> Into(parse_block(t, expect(t, params, ")")),
                                   LAMBDA body : N_FUNC(x, params.n, body))
          [] ~at(t, p, "(") /\ at(t, r, "void") -> perr(t, p)
          [] OTHER -> Declarator(t, p, x)

\* The declarations after those of r.
RECURSIVE TopLevels(_, _)
TopLevels(t, r) ==
    IF at(t, r, "eof") THEN r
    ELSE TopLevels(t, Into(parse_toplevel(t, r), LAMBDA d : Append(r.n, d)))

\* The declarations of the program, unless not ok.
parse_source(src) ==
    LET start == [i |-> 1, ok |-> TRUE, n |-> <<>>]
        l == lex(src)
    IN  IF l.ok THEN TopLevels(l.toks, start) ELSE [start EXCEPT !.ok = FALSE]
=============================================================================
