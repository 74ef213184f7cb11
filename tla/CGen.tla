-------------------------------- MODULE CGen --------------------------------
(***************************************************************************)
(* The compiler's code generator and peephole pass (cgen.c).  A line of    *)
(* assembly is an instruction, whose immediate may be a label, a label     *)
(* definition, or a .word; the text itself is not modelled.                *)
(*                                                                         *)
(* The generator's state g holds the lines emitted, the label counter,     *)
(* whether fail was called, the symbols of the current function and the    *)
(* globals, functions and epilogue label they are resolved against.  A     *)
(* failure is remembered and not acted on at once: codegen writes nothing  *)
(* after one.                                                              *)
(***************************************************************************)
EXTENDS CParser, SequencesExt

CONSTANTS
    STACK_BASE,         \* 0x8000 in the code
    IMM_MAX             \* the largest literal, 2^19 - 1 in the code

ASSUME CGenAssumption == STACK_BASE \in Nat /\ IMM_MAX \in Nat

IMM_MIN == -IMM_MAX - 1

(* Lines *)

Ins(op, rd, rs, imm) ==
    [kind |-> "ins", op |-> op, rd |-> rd, rs |-> rs, imm |-> imm, label |-> <<>>]
Op(op, rd) == Ins(op, rd, 0, 0)
Op2(op, rd, rs) == Ins(op, rd, rs, 0)
LOADI(rd, imm) == Ins("LOADI", rd, 0, imm)
LOAD0(rs, off) == Ins("LOAD", 0, rs, off)
STORE(rd, off, rs) == Ins("STORE", rd, rs, off)
Refer(op, rd, label) == [Ins(op, rd, 0, 0) EXCEPT !.label = label]
LabelLine(label) == [Ins("", 0, 0, 0) EXCEPT !.kind = "label", !.label = label]
WordLine(v) == [Ins("", 0, 0, v) EXCEPT !.kind = "word"]

\* Label names: those of functions and globals, epilogues, and _L%d.
Name(x) == <<"name", x>>
Epilogue(f) == <<"epi", f>>
L(k) == <<"L", k>>

emit(g, lines) == [g EXCEPT !.lines = @ \o lines]
fail(g) == [g EXCEPT !.err = TRUE]
newlabels(g, k) == [g EXCEPT !.label = @ + k]

-----------------------------------------------------------------------------
(* Names *)

\* A function from names to offset and is_array; the first declaration wins.  The
\* tables of the code have room for 256 locals, 128 functions and 128 globals and
\* are filled without a check; the sources stay far below.
sym_add(sym, x, off, is_array) ==
    [y \in DOMAIN sym \cup {x} |->
        IF y \in DOMAIN sym THEN sym[y] ELSE [off |-> off, is_array |-> is_array]]

IsLocal(g, x) == x \in DOMAIN g.sym
resolves(g, x) == IsLocal(g, x) \/ x \in DOMAIN g.globs
is_array(g, x) == IF IsLocal(g, x) THEN g.sym[x].is_array ELSE g.globs[x]

\* The declarations below a statement, in order, whatever block they are in.
RECURSIVE Declared(_)
Declared(n) ==
    CASE n.type = "VARDECL" -> <<n>>
      [] n.type = "BLOCK" -> FlattenSeq([k \in DOMAIN n.kids |-> Declared(n.kids[k])])
      [] n.type = "IF" -> Declared(n.b) \o Declared(n.c)
      [] n.type = "WHILE" -> Declared(n.b)
      [] n.type = "FOR" -> Declared(n.a) \o Declared(n.d)
      [] OTHER -> <<>>

\* A slot of the frame for every new name.
collect(n, params) ==
    FoldLeft(LAMBDA s, d :
                IF d.name \in DOMAIN s.sym THEN s
                ELSE LET bytes == s.bytes + (IF d.size = Scalar THEN 4 ELSE 4 * d.size)
                     IN  [bytes |-> bytes,
                          sym |-> sym_add(s.sym, d.name, -bytes, d.size # Scalar)],
             [bytes |-> 0, sym |-> params], Declared(n))

-----------------------------------------------------------------------------
(* Expressions: the value in R0 *)

RECURSIVE gen_expr(_, _)
RECURSIVE gen_addr(_, _)

\* The address of an lvalue.
gen_addr(g, n) ==
    CASE n.type = "VAR" /\ ~resolves(g, n.name) -> fail(g)
      [] n.type = "VAR" /\ resolves(g, n.name) ->
            IF IsLocal(g, n.name)
            THEN LET off == g.sym[n.name].off
                 IN  emit(g, << Op2("MOV", 0, 6) >> \o
                             IF off = 0 THEN <<>> ELSE << LOADI(1, off), Op2("ADD", 0, 1) >>)
            ELSE emit(g, << Refer("LOADI", 0, Name(n.name)) >>)
      [] n.type = "INDEX" ->
            LET base == IF n.a.type = "VAR" /\ ~resolves(g, n.a.name) THEN fail(g)
                        ELSE IF n.a.type = "VAR" /\ is_array(g, n.a.name)
                        THEN gen_addr(g, n.a) ELSE gen_expr(g, n.a)
                ix == gen_expr(emit(base, << Op("PUSH", 0) >>), n.b)
            IN  emit(ix, << LOADI(1, 2), Op2("SHL", 0, 1), Op("POP", 1), Op2("ADD", 0, 1) >>)
      [] n.type = "UNARY" /\ n.op = "*" -> gen_expr(g, n.a)
      [] OTHER -> fail(g)

\* The left operand on the stack while the right one is computed, then in R1.
Operands(g, n) ==
    emit(gen_expr(emit(gen_expr(g, n.a), << Op("PUSH", 0) >>), n.b), << Op("POP", 1) >>)

CmpJumps(op, l) ==
    CASE op = "==" -> << Refer("JZ", 0, l) >>
      [] op = "!=" -> << Refer("JNZ", 0, l) >>
      [] op = "<" -> << Refer("JL", 0, l) >>
      [] op = ">" -> << Refer("JG", 0, l) >>
      [] op = "<=" -> << Refer("JL", 0, l), Refer("JZ", 0, l) >>
      [] op = ">=" -> << Refer("JG", 0, l), Refer("JZ", 0, l) >>

CmpOps == {"==", "!=", "<", "<=", ">", ">="}

SetOnJump(g, op) ==
    LET set == L(g.label)
        done == L(g.label + 1)
    IN  emit(newlabels(g, 2),
             CmpJumps(op, set) \o
             << Refer("JMP", 0, done), LabelLine(set), LOADI(0, 1), LabelLine(done) >>)

\* The labels are taken after the operands have taken theirs.
gen_cmp(g, n) ==
    SetOnJump(emit(Operands(g, n), << Op2("SUB", 1, 0), LOADI(0, 0) >>), n.op)

\* && with jump JZ and value 1 at the end, || with JNZ and 0.
gen_logical(g, n, jump, through) ==
    LET short == L(g.label)
        end == L(g.label + 1)
        test == << Op2("AND", 0, 0), Refer(jump, 0, short) >>
        a == emit(gen_expr(newlabels(g, 2), n.a), test)
        b == emit(gen_expr(a, n.b), test)
    IN  emit(b, << LOADI(0, through), Refer("JMP", 0, end), LabelLine(short),
                   LOADI(0, 1 - through), LabelLine(end) >>)

AluOf == [o \in {"+", "-", "*", "/", "&", "|", "^", "<<", ">>"} |->
            CASE o = "+" -> "ADD" [] o = "-" -> "SUB" [] o = "*" -> "MUL"
              [] o = "/" -> "DIV" [] o = "&" -> "AND" [] o = "|" -> "OR"
              [] o = "^" -> "XOR" [] o = "<<" -> "SHL" [] o = ">>" -> "SHR"]

gen_binary(g, n) ==
    CASE n.op = "&&" -> gen_logical(g, n, "JZ", 1)
      [] n.op = "||" -> gen_logical(g, n, "JNZ", 0)
      [] n.op \in CmpOps -> gen_cmp(g, n)
      [] n.op = "%" -> emit(Operands(g, n),
             << Op2("MOV", 2, 1), Op2("MOV", 3, 0), Op2("DIV", 2, 3),
                Op2("MUL", 2, 3), Op2("SUB", 1, 2), Op2("MOV", 0, 1) >>)
      [] n.op \in DOMAIN AluOf ->
             emit(Operands(g, n), << Op2(AluOf[n.op], 1, 0), Op2("MOV", 0, 1) >>)

\* The arguments, last first, onto the R7 stack.
PushArgs(g, kids) ==
    FoldRight(LAMBDA e, acc :
                emit(gen_expr(acc, e),
                     << LOADI(1, 4), Op2("SUB", 7, 1), STORE(7, 0, 0) >>),
              kids, g)

\* Mutant: arguments that were pushed stay on the R7 stack.
gen_callLeaks(g, n) ==
    LET k == Len(n.kids)
    IN  CASE n.name = "out" /\ k = 1 -> emit(gen_expr(g, n.kids[1]), << Op("OUT", 0) >>)
          [] n.name = "in" -> emit(g, << Op("IN", 0) >>)
          [] n.name \in DOMAIN g.funcs /\ g.funcs[n.name] = k ->
                emit(PushArgs(g, n.kids), << Refer("CALL", 0, Name(n.name)) >>)
          [] OTHER -> fail(g)

\* in takes no notice of its arguments.
gen_call(g, n) ==
    LET k == Len(n.kids)
    IN  CASE n.name = "out" -> IF k # 1 THEN fail(g)
                               ELSE emit(gen_expr(g, n.kids[1]), << Op("OUT", 0) >>)
          [] n.name = "in" -> emit(g, << Op("IN", 0) >>)
          [] OTHER ->
                IF n.name \notin DOMAIN g.funcs THEN fail(g)
                ELSE IF g.funcs[n.name] # k THEN fail(g)
                ELSE emit(PushArgs(g, n.kids),
                          << Refer("CALL", 0, Name(n.name)) >> \o
                          IF k = 0 THEN <<>> ELSE << LOADI(1, 4 * k), Op2("ADD", 7, 1) >>)

gen_assign(g, n) ==
    CASE n.a.type = "VAR" ->
            IF ~resolves(g, n.a.name) THEN fail(g)
            ELSE IF is_array(g, n.a.name) THEN fail(g)
            ELSE emit(gen_expr(g, n.b),
                      IF IsLocal(g, n.a.name) THEN << STORE(6, g.sym[n.a.name].off, 0) >>
                      ELSE << Refer("LOADI", 1, Name(n.a.name)), STORE(1, 0, 0) >>)
      [] n.a.type = "INDEX" \/ (n.a.type = "UNARY" /\ n.a.op = "*") ->
            emit(gen_expr(emit(gen_addr(g, n.a), << Op("PUSH", 0) >>), n.b),
                 << Op("POP", 1), STORE(1, 0, 0) >>)
      [] OTHER -> fail(g)

\* What -, ~ and ! do to R0.
Negated(g, op) ==
    CASE op = "-" -> emit(g, << LOADI(1, 0), Op2("SUB", 1, 0), Op2("MOV", 0, 1) >>)
      [] op = "~" -> emit(g, << Op("NOT", 0) >>)
      [] op = "!" -> emit(newlabels(g, 1),
             << Op2("AND", 0, 0), LOADI(0, 0), Refer("JNZ", 0, L(g.label)),
                LOADI(0, 1), LabelLine(L(g.label)) >>)

gen_unary(g, n) ==
    CASE n.op = "&" -> gen_addr(g, n.a)
      [] n.op = "*" -> emit(gen_addr(g, n), << LOAD0(0, 0) >>)
      [] OTHER -> Negated(gen_expr(g, n.a), n.op)

gen_expr(g, n) ==
    CASE n.type = "INT" -> IF n.ival < IMM_MIN \/ n.ival > IMM_MAX THEN fail(g)
                           ELSE emit(g, << LOADI(0, n.ival) >>)
      [] n.type = "VAR" ->
            IF ~resolves(g, n.name) THEN fail(g)
            ELSE IF is_array(g, n.name) THEN gen_addr(g, n)
            ELSE IF IsLocal(g, n.name) THEN emit(g, << LOAD0(6, g.sym[n.name].off) >>)
            ELSE emit(g, << Refer("LOADI", 0, Name(n.name)), LOAD0(0, 0) >>)
      [] n.type = "INDEX" -> emit(gen_addr(g, n), << LOAD0(0, 0) >>)
      [] n.type = "ASSIGN" -> gen_assign(g, n)
      [] n.type = "UNARY" -> gen_unary(g, n)
      [] n.type = "BINARY" -> gen_binary(g, n)
      [] n.type = "CALL" -> gen_call(g, n)

-----------------------------------------------------------------------------
(* Statements *)

gen_cond_false(g, cond, label) ==
    emit(gen_expr(g, cond), << Op2("AND", 0, 0), Refer("JZ", 0, label) >>)

RECURSIVE gen_stmt(_, _)
gen_stmt(g, n) ==
    CASE n.type = "NULL" -> g
      [] n.type = "BLOCK" -> FoldLeft(gen_stmt, g, n.kids)
      [] n.type = "VARDECL" ->
            IF n.a.type = "NULL" THEN g
            ELSE emit(gen_expr(g, n.a), << STORE(6, g.sym[n.name].off, 0) >>)
      [] n.type = "EXPRSTMT" -> gen_expr(g, n.a)
      [] n.type = "RETURN" ->
            emit(IF n.a.type = "NULL" THEN g ELSE gen_expr(g, n.a),
                 << Refer("JMP", 0, g.epi) >>)
      [] n.type = "IF" /\ n.c.type # "NULL" ->
            LET els == L(g.label)
                end == L(g.label + 1)
                then == gen_stmt(gen_cond_false(newlabels(g, 2), n.a, els), n.b)
                b == emit(then, << Refer("JMP", 0, end), LabelLine(els) >>)
            IN  emit(gen_stmt(b, n.c), << LabelLine(end) >>)
      [] n.type = "IF" /\ n.c.type = "NULL" ->
            LET end == L(g.label)
            IN  emit(gen_stmt(gen_cond_false(newlabels(g, 1), n.a, end), n.b),
                     << LabelLine(end) >>)
      [] n.type \in {"WHILE", "FOR"} ->
            LET for == n.type = "FOR"
                init == IF for THEN gen_stmt(g, n.a) ELSE g
                cond == IF for THEN n.b ELSE n.a
                top == L(init.label)
                end == L(init.label + 1)
                begin == emit(newlabels(init, 2), << LabelLine(top) >>)
                test == IF cond.type = "NULL" THEN begin
                        ELSE gen_cond_false(begin, cond, end)
                body == gen_stmt(test, IF for THEN n.d ELSE n.b)
                step == IF for /\ n.c.type # "NULL" THEN gen_expr(body, n.c) ELSE body
            IN  emit(step, << Refer("JMP", 0, top), LabelLine(end) >>)

\* Parameter k (from 0) at 4 + 4k above the saved R6.
ParamSyms(params) ==
    FoldLeft(LAMBDA sym, k : sym_add(sym, params[k], 4 * k, FALSE),
             <<>>, [k \in DOMAIN params |-> k])

gen_function(g, fn) ==
    LET frame == collect(fn.a, ParamSyms(fn.params))
        body == gen_stmt(
            emit([g EXCEPT !.sym = frame.sym, !.epi = Epilogue(fn.name)],
                 << LabelLine(Name(fn.name)), LOADI(1, 4), Op2("SUB", 7, 1),
                    STORE(7, 0, 6), Op2("MOV", 6, 7) >> \o
                 IF frame.bytes = 0 THEN <<>>
                 ELSE << LOADI(1, frame.bytes), Op2("SUB", 7, 1) >>),
            fn.a)
    IN  emit(body, << LabelLine(Epilogue(fn.name)), Op2("MOV", 7, 6),
                      Ins("LOAD", 6, 7, 0), LOADI(1, 4), Op2("ADD", 7, 1), Op("RET", 0) >>)

-----------------------------------------------------------------------------
(* Peephole *)

\* p_store's sscanf stops looking once it has read the address, so any register
\* may be stored.
Forwards(store, load) ==
    /\ store.kind = "ins" /\ store.op = "STORE"
    /\ load.kind = "ins" /\ load.op = "LOAD" /\ load.rd = 0
    /\ store.rd = load.rs /\ store.imm = load.imm

\* Mutant: a label between the store and the load is not seen.
PeepLineBlind(out, cur) ==
    LET w == Len(out)
        prev == IF w > 1 /\ out[w].kind = "label" THEN out[w - 1] ELSE out[w]
    IN  IF w > 0 /\ Forwards(prev, cur) THEN out ELSE Append(out, cur)

\* One line of one pass, after the lines kept so far.
PeepLine(out, cur) ==
    LET w == Len(out)
        prev == out[w]
    IN  IF cur.kind = "ins" /\ cur.op = "MOV" /\ cur.rd = cur.rs THEN out
        ELSE IF w > 0 /\ prev.op = "PUSH" /\ cur.op = "POP"
        THEN Front(out) \o IF prev.rd = cur.rd THEN <<>>
                           ELSE << Op2("MOV", cur.rd, prev.rd) >>
        ELSE IF w > 0 /\ Forwards(prev, cur) THEN out
        ELSE Append(out, cur)

RECURSIVE peephole(_)
peephole(lines) ==
    LET pass == FoldLeft(PeepLine, <<>>, lines)
    IN  IF pass = lines THEN lines ELSE peephole(pass)

-----------------------------------------------------------------------------
(* codegen *)

Named(decls, type) == SelectSeq(decls, LAMBDA d : d.type = type)

\* Of two declarations of a name the first is found.
Table(decls, Value(_)) ==
    [x \in {decls[k].name : k \in DOMAIN decls} |->
        Value(decls[Min({k \in DOMAIN decls : decls[k].name = x})])]

\* A global's data, after all code.
gen_global(g, d) ==
    LET data == IF d.size # Scalar THEN [k \in 1..d.size |-> WordLine(0)]
                ELSE << WordLine(IF d.a.type = "INT" THEN d.a.ival ELSE 0) >>
    IN  IF d.size = Scalar /\ d.a.type \notin {"NULL", "INT"} THEN fail(g)
        ELSE emit(g, << LabelLine(Name(d.name)) >> \o data)

\* The lines are written only without an error.
Optimized(g) == [g EXCEPT !.lines = IF g.err THEN <<>> ELSE peephole(@)]

\* The generator's last state.
codegen(decls) ==
    LET vars == Named(decls, "VARDECL")
        funs == Named(decls, "FUNC")
        g0 == [lines |-> << LOADI(7, STACK_BASE), Refer("CALL", 0, Name("main")),
                            Op("HALT", 0) >>,
               label |-> 0, err |-> FALSE, sym |-> <<>>, epi |-> <<>>,
               globs |-> Table(vars, LAMBDA d : d.size # Scalar),
               funcs |-> Table(funs, LAMBDA d : Len(d.params))]
    IN  Optimized(IF "main" \notin DOMAIN g0.funcs THEN fail(g0)
                  ELSE FoldLeft(gen_global, FoldLeft(gen_function, g0, funs), vars))
=============================================================================
