----------------------------- MODULE Assembler -----------------------------
(***************************************************************************)
(* assemble (encoder.c) around the parser of parser.c: a source is lexed,  *)
(* parsed statement by statement, given addresses in pass 1, encoded in    *)
(* pass 2 and written to a file.  After a successful run, Disassemble      *)
(* feeds the output of disasm -r to a second run, as tests/roundtrip.sh    *)
(* does.                                                                   *)
(***************************************************************************)
EXTENDS AsmParser, FiniteSets, FiniteSetsExt

CONSTANTS
    Sources,    \* the source files, each a sequence of lines of text
    Malformed   \* the lines of these sources that are not statements

VARIABLES
    source,     \* the lines of the file being assembled
    toks, pos,  \* Token *toks and P.i
    stmts,
    phase,
    k,          \* the statement the current pass is at
    addr, max_addr,
    syms,       \* the symbol table: a sequence of names and addresses
    out,        \* the calloc'ed buffer
    rc,
    file,       \* the bytes at out_path
    opened,     \* no fopen of this run has failed
    first       \* what the first of two runs left: its statements and bytes

vars == <<source, toks, pos, stmts, phase, k, addr, max_addr, syms, out, rc,
          file, opened, first>>

parser == <<source, toks, pos>>
layout == <<addr, max_addr, syms>>

\* What stands at out_path before assemble runs; no byte is -1.
OldFile == <<-1>>
NoRun == [stmts |-> <<>>, file |-> OldFile]

Init ==
    /\ source \in Sources /\ first = NoRun
    /\ toks = <<>> /\ pos = 1 /\ stmts = <<>> /\ phase = "lex" /\ k = 1
    /\ addr = 0 /\ max_addr = 0 /\ syms = <<>> /\ out = <<>>
    /\ rc = 0 /\ file = OldFile /\ opened = TRUE

\* assemble returns 1: no file is written.
Fail ==
    /\ rc' = 1 /\ phase' = "done"
    /\ UNCHANGED <<parser, stmts, k, layout, out, file, opened, first>>

\* read_file or the fopen of out_path fails.
CannotOpen ==
    /\ rc' = 1 /\ phase' = "done" /\ opened' = FALSE
    /\ UNCHANGED <<parser, stmts, k, layout, out, file, first>>

CannotRead == phase = "lex" /\ CannotOpen

\* lex stops at a character no token starts with.
Lex ==
    /\ phase = "lex"
    /\ LET t == FlattenSeq([l \in DOMAIN source |-> Append(lex(source[l]), Newline)])
       IN  IF BadChar \in Range(t) THEN Fail
           ELSE /\ toks' = Append(t, Eof)
                /\ phase' = "parse"
                /\ UNCHANGED <<source, pos, stmts, k, layout, out, rc, file,
                               opened, first>>

SkipNewline ==
    /\ phase = "parse" /\ Is(toks, pos, "NEWLINE")
    /\ pos' = pos + 1
    /\ UNCHANGED <<source, toks, stmts, phase, k, layout, out, rc, file,
                   opened, first>>

Parse ==
    /\ phase = "parse"
    /\ \E r \in ParseStmt(toks, pos) :
         stmts' = Append(stmts, r.stmt) /\ pos' = r.next
    /\ UNCHANGED <<source, toks, phase, k, layout, out, rc, file, opened, first>>

ParseError ==
    /\ phase = "parse"
    /\ toks[pos].type \notin {"NEWLINE", "EOF"} /\ ParseStmt(toks, pos) = {}
    /\ Fail

\* A source without a statement leaves no array, which assemble takes for a
\* failed parse.
ParseEnd ==
    /\ phase = "parse" /\ Is(toks, pos, "EOF")
    /\ IF stmts = <<>> THEN Fail
       ELSE /\ phase' = "pass1"
            /\ UNCHANGED <<parser, stmts, k, layout, out, rc, file, opened, first>>

-----------------------------------------------------------------------------
Pass1 == phase = "pass1" /\ k <= Len(stmts)

pass1Rest == <<parser, phase, out, rc, file, opened, first>>

Org ==
    /\ Pass1 /\ stmts[k].type = "ORG"
    /\ addr' = stmts[k].value /\ k' = k + 1
    /\ UNCHANGED <<pass1Rest, stmts, max_addr, syms>>

\* Mutant: a label stands for the end of the statement before the next one.
LabelAtEnd ==
    /\ Pass1 /\ stmts[k].type = "LABEL"
    /\ syms' = Append(syms, [name |-> stmts[k].label, address |-> max_addr])
    /\ k' = k + 1
    /\ UNCHANGED <<pass1Rest, stmts, addr, max_addr>>

\* sym_add appends, a name that is already there too.
Label ==
    /\ Pass1 /\ stmts[k].type = "LABEL"
    /\ syms' = Append(syms, [name |-> stmts[k].label, address |-> addr])
    /\ k' = k + 1
    /\ UNCHANGED <<pass1Rest, stmts, addr, max_addr>>

\* Mutant: the size of the output follows the location counter.
PlaceNoMax ==
    /\ Pass1 /\ stmts[k].type \in {"INSTR", "WORD"}
    /\ stmts' = [stmts EXCEPT ![k].address = addr]
    /\ addr' = Unsigned(addr + 4)
    /\ max_addr' = addr'
    /\ k' = k + 1
    /\ UNCHANGED <<pass1Rest, syms>>

Place ==
    /\ Pass1 /\ stmts[k].type \in {"INSTR", "WORD"}
    /\ stmts' = [stmts EXCEPT ![k].address = addr]
    /\ addr' = Unsigned(addr + 4)
    /\ max_addr' = IF addr' > max_addr THEN addr' ELSE max_addr
    /\ k' = k + 1
    /\ UNCHANGED <<pass1Rest, syms>>

BufferSize == IF max_addr = 0 THEN 4 ELSE max_addr

Allocate ==
    /\ phase = "pass1" /\ k > Len(stmts)
    /\ out' = [a \in 0..(BufferSize - 1) |-> 0]
    /\ phase' = "pass2" /\ k' = 1
    /\ UNCHANGED <<parser, stmts, layout, rc, file, opened, first>>

-----------------------------------------------------------------------------
\* The first entry of that name; no entry is an error.
sym_lookup(name) ==
    LET found == {j \in DOMAIN syms : syms[j].name = name}
    IN  IF found = {} THEN {} ELSE {syms[Min(found)].address}

\* Mutant: the range of the immediate is not checked.
EncodedAnyRange(s) ==
    LET literal == IF s.type = "INSTR" THEN s.imm ELSE s.value
        values == IF s.label = "" THEN {literal}
                  ELSE {Signed(a) : a \in sym_lookup(s.label)}
    IN  IF s.type = "INSTR"
        THEN {ENCODE_INSTR(s.op, s.rdest, s.rsrc, v) : v \in values}
        ELSE {Unsigned(v) : v \in values}

\* The word of a statement, none if its label is undefined or the value of
\* an instruction's immediate is out of range.
Encoded(s) ==
    LET literal == IF s.type = "INSTR" THEN s.imm ELSE s.value
        values == IF s.label = "" THEN {literal}
                  ELSE {Signed(a) : a \in sym_lookup(s.label)}
    IN  IF s.type = "INSTR"
        THEN {ENCODE_INSTR(s.op, s.rdest, s.rsrc, v) :
                v \in {v \in values : IMM_MIN <= v /\ v <= IMM_MAX}}
        ELSE {Unsigned(v) : v \in values}

Pass2 == phase = "pass2" /\ k <= Len(stmts)

pass2Rest == <<parser, stmts, layout, rc, file, opened, first>>

Skip ==
    /\ Pass2 /\ stmts[k].type \in {"LABEL", "ORG"}
    /\ k' = k + 1
    /\ UNCHANGED <<pass2Rest, phase, out>>

Fits(s) == s.address + 3 < BufferSize

\* The four bytes, least significant first.
Emit ==
    /\ Pass2 /\ stmts[k].type \in {"INSTR", "WORD"} /\ Fits(stmts[k])
    /\ \E w \in Encoded(stmts[k]) :
         out' = [a \in DOMAIN out |->
                    LET b == a - stmts[k].address
                    IN  IF b \in 0..3 THEN Byte(w, b) ELSE out[a]]
    /\ k' = k + 1
    /\ UNCHANGED <<pass2Rest, phase>>

\* A write past the buffer: nothing is promised from here on.
EmitOutside ==
    /\ Pass2 /\ stmts[k].type \in {"INSTR", "WORD"} /\ ~Fits(stmts[k])
    /\ Encoded(stmts[k]) # {}
    /\ phase' = "undefined"
    /\ UNCHANGED <<pass2Rest, k, out>>

EmitError ==
    /\ Pass2 /\ stmts[k].type \in {"INSTR", "WORD"} /\ Encoded(stmts[k]) = {}
    /\ Fail

WriteFile ==
    /\ phase = "pass2" /\ k > Len(stmts)
    /\ file' = [n \in 1..max_addr |-> out[n - 1]]
    /\ phase' = "done"
    /\ UNCHANGED <<parser, stmts, k, layout, out, rc, opened, first>>

CannotWrite == phase = "pass2" /\ k > Len(stmts) /\ CannotOpen

\* The word disasm reads at byte address a, and a run of asm on what it prints.
WordAt(a) == FoldFunction(+, 0, [b \in 0..3 |-> file[a + b + 1] * 2 ^ (b * ByteBits)])

Disassemble ==
    /\ phase = "done" /\ rc = 0 /\ first = NoRun
    /\ source' = [l \in 1..(Len(file) \div 4) |-> isa_disasm(WordAt(4 * (l - 1)))]
    /\ first' = [stmts |-> stmts, file |-> file]
    /\ toks' = <<>> /\ pos' = 1 /\ stmts' = <<>> /\ phase' = "lex" /\ k' = 1
    /\ addr' = 0 /\ max_addr' = 0 /\ syms' = <<>> /\ out' = <<>>
    /\ rc' = 0 /\ file' = OldFile /\ opened' = TRUE

Next ==
    \/ CannotRead \/ Lex \/ SkipNewline \/ Parse \/ ParseError \/ ParseEnd
    \/ Org \/ Label \/ Place \/ Allocate
    \/ Skip \/ Emit \/ EmitOutside \/ EmitError \/ WriteFile \/ CannotWrite
    \/ Disassemble

Spec == Init /\ [][Next]_vars

-----------------------------------------------------------------------------
(***************************************************************************)
(* What a source means, without passes, tables or a location counter.      *)
(***************************************************************************)
Emits(s) == s.type \in {"INSTR", "WORD"}

\* The address of statement j: what the last .org before it says, and four
\* for every word emitted since.
AddressOf(j) ==
    LET orgs == {o \in 1..(j - 1) : stmts[o].type = "ORG"}
        from == IF orgs = {} THEN 0 ELSE Max(orgs)
        base == IF from = 0 THEN 0 ELSE stmts[from].value
    IN  Unsigned(base + 4 * Cardinality({e \in (from + 1)..(j - 1) : Emits(stmts[e])}))

Definitions(name) ==
    {d \in DOMAIN stmts : stmts[d].type = "LABEL" /\ stmts[d].label = name}

\* A label means the place of its first definition, before or after its use.
Meaning(s) ==
    IF s.label # "" THEN Signed(AddressOf(Min(Definitions(s.label))))
    ELSE IF s.type = "INSTR" THEN s.imm ELSE s.value

Encodable(s) ==
    /\ s.label # "" => Definitions(s.label) # {}
    /\ s.type = "INSTR" => Meaning(s) \in IMM_MIN..IMM_MAX

WordOf(s) ==
    IF s.type = "INSTR" THEN ENCODE_INSTR(s.op, s.rdest, s.rsrc, Meaning(s))
    ELSE Unsigned(Meaning(s))

Covering(a) == {j \in DOMAIN stmts : Emits(stmts[j]) /\ a - AddressOf(j) \in 0..3}

-----------------------------------------------------------------------------
\* assemble returns 0 exactly for the sources it should accept: every line
\* is a statement, every label is defined somewhere and every immediate
\* fits.  For all others, and when a file cannot be opened, it returns 1
\* and what stood at out_path is still there (encoder.c 41-136).
AcceptsExactly ==
    phase = "done" =>
        IF /\ \A l \in DOMAIN source : /\ source[l] \notin Malformed
                                       /\ source[l] # <<>> => Head(source[l]) # BadChar
           /\ stmts # <<>> /\ opened
           /\ \A j \in DOMAIN stmts : Emits(stmts[j]) => Encodable(stmts[j])
        THEN rc = 0 ELSE rc = 1 /\ file = OldFile

\* The file written is the one the source means: it ends with the highest
\* word, every byte comes from the last statement placed over it, and is 0
\* where there is none.  An instruction nothing was placed over decodes to
\* its own fields and, for a label, to the place the label marks, whether
\* it was defined before or after and however .org moved in between.
ImageExact ==
    phase = "done" /\ rc = 0 =>
        LET emitted == {j \in DOMAIN stmts : Emits(stmts[j])}
        IN  /\ Len(file) = Max({0} \cup {AddressOf(j) + 4 : j \in emitted})
            /\ \A a \in 0..(Len(file) - 1) : file[a + 1] =
                  IF Covering(a) = {} THEN 0
                  ELSE LET j == Max(Covering(a))
                       IN  Byte(WordOf(stmts[j]), a - AddressOf(j))
            /\ \A j \in emitted :
                  /\ stmts[j].type = "INSTR"
                  /\ \A b \in 0..3 : Max(Covering(AddressOf(j) + b)) = j
                  => LET w == WordAt(AddressOf(j))
                     IN  /\ DECODE_OPCODE(w) = stmts[j].op
                         /\ DECODE_RDEST(w) = stmts[j].rdest
                         /\ DECODE_RSRC(w) = stmts[j].rsrc
                         /\ DECODE_IMM(w) = Meaning(stmts[j])

\* Pass 2 writes past the buffer pass 1 sized only where the location
\* counter itself wrapped around the end of the address space, however .org
\* moved it back and forth before (encoder.c 67-77, 115-118).
WritesInBuffer ==
    phase = "undefined" =>
        \E j \in DOMAIN stmts : Emits(stmts[j]) /\ AddressOf(j) + 4 >= WordSize

CodeOnly(ss) ==
    /\ \E j \in DOMAIN ss : ss[j].type = "INSTR"
    /\ \A j \in DOMAIN ss : /\ ss[j].type # "WORD"
                            /\ ss[j].type = "ORG" => ss[j].value % 4 = 0

\* Source -> asm -> disasm -r -> asm reproduces the binary of a program with
\* code and no data (tests/roundtrip.sh): no operand format loses a field,
\* the sign of an immediate or an offset, or prints what asm refuses.
RoundTrip ==
    phase = "done" /\ first # NoRun /\ opened /\ CodeOnly(first.stmts) =>
        rc = 0 /\ file = first.file
=============================================================================
