------------------------------ MODULE Encoding ------------------------------
(***************************************************************************)
(* The instruction word of isa.h and isa.c: its fields, the operand format *)
(* of every opcode, and the text isa_disasm prints for a word.  The opcode *)
(* and register fields have their real widths; the immediate and the byte  *)
(* are narrower, so that a word fits the integers of TLC and the ends of   *)
(* the immediate's range are near.                                         *)
(***************************************************************************)
EXTENDS Integers, Sequences

CONSTANTS
    ImmBits,    \* IMM_BITS, 20 in the code
    ByteBits    \* bits of a byte, 8 in the code

REG_BITS == 3
OP_BITS == 6

\* A word is four bytes and its fields fill it.
ASSUME WordAssumption ==
    /\ ImmBits \in Nat \ {0} /\ ByteBits \in Nat \ {0}
    /\ OP_BITS + 2 * REG_BITS + ImmBits = 4 * ByteBits

WordSize == 2 ^ (4 * ByteBits)
Word == 0..(WordSize - 1)

\* (int32_t)v of an unsigned word, and (uint32_t)v of a signed one.
Signed(v) == IF v < WordSize \div 2 THEN v ELSE v - WordSize
Unsigned(v) == v % WordSize

Byte(w, k) == (w \div 2 ^ (k * ByteBits)) % 2 ^ ByteBits

\* The opcodes in the order of the enumeration, which numbers them from 0.
Mnemonics == <<"NOP", "HALT", "ADD", "SUB", "MUL", "DIV", "AND", "OR", "XOR",
    "NOT", "SHL", "SHR", "MOV", "LOAD", "STORE", "LOADI", "PUSH", "POP", "JMP",
    "JZ", "JNZ", "JG", "JL", "CALL", "RET", "IN", "OUT">>

Opcode == 0..(Len(Mnemonics) - 1)
OpcodeOf(name) == CHOOSE op \in Opcode : Mnemonics[op + 1] = name

opcode_format(op) ==
    LET name == Mnemonics[op + 1]
    IN  CASE op \notin Opcode \/ name \in {"NOP", "HALT", "RET"} -> "NONE"
          [] name \in {"NOT", "PUSH", "POP", "IN", "OUT"} -> "RD"
          [] name = "LOADI" -> "RD_IMM"
          [] name = "LOAD" -> "RD_MEM"
          [] name = "STORE" -> "MEM_RS"
          [] name \in {"JMP", "JZ", "JNZ", "JG", "JL", "CALL"} -> "IMM"
          [] OTHER -> "RD_RS"

IMM_MIN == -(2 ^ (ImmBits - 1))
IMM_MAX == 2 ^ (ImmBits - 1) - 1

ENCODE_INSTR(op, rd, rs, imm) ==
    ((op * 2 ^ REG_BITS + rd) * 2 ^ REG_BITS + rs) * 2 ^ ImmBits
        + (imm % 2 ^ ImmBits)

\* Mutant: zero extension.
sign_extend20_zero(v) == v % 2 ^ ImmBits

sign_extend20(v) ==
    LET low == v % 2 ^ ImmBits
    IN  IF low > IMM_MAX THEN low - 2 ^ ImmBits ELSE low

DECODE_OPCODE(w) == w \div 2 ^ (2 * REG_BITS + ImmBits)
DECODE_RDEST(w) == (w \div 2 ^ (REG_BITS + ImmBits)) % 2 ^ REG_BITS
DECODE_RSRC(w) == (w \div 2 ^ ImmBits) % 2 ^ REG_BITS
DECODE_IMM(w) == sign_extend20(w)

-----------------------------------------------------------------------------
(***************************************************************************)
(* Tokens of assembler.h.  A line of text is a sequence of them too: each  *)
(* name, number or character as the token it would be on its own, with     *)
(* spaces and semicolons, and with registers as the names they are spelled *)
(* by.  Line numbers and the letter case of mnemonics are left out.        *)
(***************************************************************************)
Tok(type, v) == [type |-> type, v |-> v]

Ident(name) == Tok("IDENT", name)
Directive(name) == Tok("DIRECTIVE", name)
Num(n) == Tok("NUM", n)
Reg(r) == Tok("REG", r)
Comma == Tok("COMMA", 0)
LBrack == Tok("LBRACK", 0)
RBrack == Tok("RBRACK", 0)
Plus == Tok("PLUS", 0)
Minus == Tok("MINUS", 0)
Colon == Tok("COLON", 0)
Newline == Tok("NEWLINE", 0)
Eof == Tok("EOF", 0)
Space == Tok("SPACE", 0)
Semicolon == Tok("SEMICOLON", 0)

\* A character no token starts with, such as those of the name "???".
BadChar == Tok("BAD", 0)

\* "R%d".
RegNames == <<"R0", "R1", "R2", "R3", "R4", "R5", "R6", "R7">>
RegName(r) == Ident(RegNames[r + 1])

\* "%d", and the "+%d" or "-%d" of an offset.
Decimal(n) == IF n < 0 THEN <<Minus, Num(-n)>> ELSE <<Num(n)>>
Offset(n) == IF n < 0 THEN <<Minus, Num(-n)>> ELSE <<Plus, Num(n)>>
Mem(r, n) == <<LBrack, RegName(r)>> \o Offset(n) \o <<RBrack>>

opcode_name(op) == IF op \in Opcode THEN Ident(Mnemonics[op + 1]) ELSE BadChar

isa_disasm(w) ==
    LET op == DECODE_OPCODE(w)
        rd == DECODE_RDEST(w)
        rs == DECODE_RSRC(w)
        imm == DECODE_IMM(w)
        fmt == opcode_format(op)
        operands ==
          CASE fmt = "NONE" -> <<>>
            [] fmt = "RD_RS" -> <<RegName(rd), Comma, RegName(rs)>>
            [] fmt = "RD" -> <<RegName(rd)>>
            [] fmt = "RD_IMM" -> <<RegName(rd), Comma>> \o Decimal(imm)
            [] fmt = "RD_MEM" -> <<RegName(rd), Comma>> \o Mem(rs, imm)
            [] fmt = "MEM_RS" -> Mem(rd, imm) \o <<Comma, RegName(rs)>>
            [] fmt = "IMM" -> Decimal(imm)
    IN  <<opcode_name(op)>> \o operands
=============================================================================
