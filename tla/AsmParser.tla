----------------------------- MODULE AsmParser -----------------------------
(***************************************************************************)
(* lexer.c, and the grammar of parser.c.  A parse operator takes a token   *)
(* sequence t that ends in Eof and a position i, and returns the set of    *)
(* its parses: empty where the code reports an error, otherwise one record *)
(* whose field next is the position after what it consumed.                *)
(***************************************************************************)
EXTENDS Encoding, SequencesExt

Stmt == [type: {"INSTR", "LABEL", "ORG", "WORD"}, op: Opcode,
         rdest: 0..7, rsrc: 0..7, imm: Int, value: Word,
         label: STRING,   \* name, imm_label or word_label; "" when unset
         address: Word]   \* assigned in pass 1

LowerNames == <<"r0", "r1", "r2", "r3", "r4", "r5", "r6", "r7">>
is_reg(s) == {r \in 0..7 : s \in {RegNames[r + 1], LowerNames[r + 1]}}

\* The tokens of a line: spaces and what follows a semicolon are skipped, and
\* a name is a register if it is spelled like one of the eight.
lex(line) ==
    LET code == SelectSeq(SubSeq(line, 1, SelectInSeq(Append(line, Semicolon),
                                              LAMBDA c : c = Semicolon) - 1),
                          LAMBDA c : c # Space)
        IsReg(c) == c.type = "IDENT" /\ is_reg(c.v) # {}
    IN  [k \in DOMAIN code |->
            IF IsReg(code[k]) THEN Reg(CHOOSE r \in is_reg(code[k].v) : TRUE) ELSE code[k]]

Blank(type) == [type |-> type, op |-> 0, rdest |-> 0, rsrc |-> 0, imm |-> 0,
                value |-> 0, label |-> "", address |-> 0]

Is(t, i, type) == i \in DOMAIN t /\ t[i].type = type

\* The conversion of a signed literal to int32_t.
Int32(v) == Signed(Unsigned(v))

Number(t, i, neg) ==
    IF Is(t, i, "NUM")
    THEN {[v |-> Int32(IF neg THEN -t[i].v ELSE t[i].v), next |-> i + 1]}
    ELSE {}

parse_signed(t, i) ==
    IF Is(t, i, "MINUS") THEN Number(t, i + 1, TRUE) ELSE Number(t, i, FALSE)

parse_imm_or_label(t, i) ==
    IF Is(t, i, "IDENT") THEN {[v |-> 0, label |-> t[i].v, next |-> i + 1]}
    ELSE {[v |-> x.v, label |-> "", next |-> x.next] : x \in parse_signed(t, i)}

parse_mem(t, i) ==
    LET signs == Is(t, i + 2, "PLUS") \/ Is(t, i + 2, "MINUS")
        offsets == IF signs THEN Number(t, i + 3, Is(t, i + 2, "MINUS"))
                   ELSE {[v |-> 0, next |-> i + 2]}
        closed == {x \in offsets : /\ Is(t, i, "LBRACK")
                                   /\ Is(t, i + 1, "REG")
                                   /\ Is(t, x.next, "RBRACK")}
    IN  {[base |-> t[i + 1].v, off |-> x.v, next |-> x.next + 1] : x \in closed}

\* The operands of op, from position i on.
parse_instr(t, i, op) ==
    LET s == [Blank("INSTR") EXCEPT !.op = op]
        fmt == opcode_format(op)
        Reg1 == Is(t, i, "REG")
        RegComma == Reg1 /\ Is(t, i + 1, "COMMA")
        CommaReg(j) == Is(t, j, "COMMA") /\ Is(t, j + 1, "REG")
    IN  CASE fmt = "NONE" -> {[stmt |-> s, next |-> i]}
          [] fmt = "RD_RS" ->
               {[stmt |-> [s EXCEPT !.rdest = t[i].v, !.rsrc = t[j].v],
                 next |-> j + 1] : j \in {j \in {i + 2} : Reg1 /\ CommaReg(i + 1)}}
          [] fmt = "RD" ->
               {[stmt |-> [s EXCEPT !.rdest = t[j].v],
                 next |-> j + 1] : j \in {j \in {i} : Reg1}}
          [] fmt = "RD_IMM" ->
               {[stmt |-> [s EXCEPT !.rdest = t[i].v, !.imm = x.v,
                                    !.label = x.label], next |-> x.next] :
                    x \in {x \in parse_imm_or_label(t, i + 2) : RegComma}}
          [] fmt = "RD_MEM" ->
               {[stmt |-> [s EXCEPT !.rdest = t[i].v, !.rsrc = m.base,
                                    !.imm = m.off], next |-> m.next] :
                    m \in {m \in parse_mem(t, i + 2) : RegComma}}
          [] fmt = "MEM_RS" ->
               {[stmt |-> [s EXCEPT !.rdest = m.base, !.imm = m.off,
                                    !.rsrc = t[m.next + 1].v], next |-> m.next + 2] :
                    m \in {m \in parse_mem(t, i) : CommaReg(m.next)}}
          [] fmt = "IMM" ->
               {[stmt |-> [s EXCEPT !.imm = x.v, !.label = x.label],
                 next |-> x.next] : x \in parse_imm_or_label(t, i)}

ParseDirective(t, i) ==
    CASE t[i].v = "org" ->
           {[stmt |-> [Blank("ORG") EXCEPT !.value = Unsigned(x.v)],
             next |-> x.next] : x \in parse_signed(t, i + 1)}
      [] t[i].v = "word" ->
           {[stmt |-> [Blank("WORD") EXCEPT !.value = Unsigned(x.v),
                                            !.label = x.label],
             next |-> x.next] : x \in parse_imm_or_label(t, i + 1)}
      [] OTHER -> {}

\* The statement at position i; no statement has to end at a newline.
ParseStmt(t, i) ==
    CASE Is(t, i, "DIRECTIVE") -> ParseDirective(t, i)
      [] Is(t, i, "IDENT") /\ Is(t, i + 1, "COLON") ->
           {[stmt |-> [Blank("LABEL") EXCEPT !.label = t[i].v], next |-> i + 2]}
      [] Is(t, i, "IDENT") /\ ~Is(t, i + 1, "COLON") ->
           IF t[i].v \in Range(Mnemonics)
           THEN parse_instr(t, i + 1, OpcodeOf(t[i].v)) ELSE {}
      [] OTHER -> {}
=============================================================================
