---------------------------- MODULE MCAssembler ----------------------------
(***************************************************************************)
(* Sources for model checking: short files over many kinds of line, and    *)
(* longer ones over the lines that move and name addresses.                *)
(***************************************************************************)
EXTENDS Assembler

LabelLine(l) == <<Ident(l), Colon>>
OrgLine(n) == <<Directive("org")>> \o Decimal(n)

\* A label that may repeat, references to it before and after, and places.
\* .org 2 makes words overlap; .org -4 is the last word of the address space.
AddressLines ==
    {LabelLine("a"), <<Ident("JMP"), Ident("a")>>, <<Directive("word"), Ident("a")>>,
     OrgLine(4), OrgLine(2), <<Ident("HALT")>>}

\* Every operand format, both signs, both ends of the immediate's range and
\* one beyond, a label nobody defines, two statements on one line, data that
\* is no instruction, comments that hold code or stray characters, a label
\* spelled almost like a register, and a line with nothing but a comment.
OtherLines ==
    {OrgLine(-4), LabelLine("b"),
     <<Ident("LOADI"), RegName(1), Comma, Ident("b")>>,
     <<Ident("LOADI"), RegName(7), Comma>> \o Decimal(IMM_MIN),
     <<Ident("LOADI"), RegName(0), Comma>> \o Decimal(IMM_MAX + 1),
     <<Ident("ADD"), RegName(1), Comma, RegName(2)>>,
     <<Ident("NOT"), RegName(5)>>,
     <<Ident("LOAD"), RegName(2), Comma, LBrack, RegName(6), RBrack>>,
     <<Ident("LOAD"), RegName(2), Comma>> \o Mem(1, IMM_MAX),
     <<Ident("STORE")>> \o Mem(3, IMM_MIN) \o <<Comma, RegName(4)>>,
     <<Ident("a"), Colon, Ident("RET"), Ident("CALL"), Minus, Num(1)>>,
     <<Directive("word"), Minus, Num(1)>>,
     <<Ident("R8"), Space, Colon, Semicolon, Ident("HALT"), BadChar>>,
     <<Ident("LOADI"), Space, Ident("r5"), Comma, Space, Ident("R8"), Semicolon>>,
     <<Semicolon, Ident("JMP")>>}

\* No comma, no operand, no such mnemonic or directive, an offset without
\* its number or its bracket, a number missing, a register
\* as a label, a stray character, and no statement at all.
MalformedLines ==
    {<<Ident("ADD"), RegName(1), RegName(2)>>, <<Ident("JMP")>>,
     <<Ident("FOO")>>, <<Directive("data"), Num(1)>>,
     <<Ident("LOAD"), RegName(1), Comma, LBrack, RegName(2), Plus, RBrack>>,
     <<Ident("STORE"), LBrack, RegName(2), Plus, Num(1), Comma, RegName(1)>>,
     <<Directive("org"), Ident("a")>>, <<Directive("word")>>,
     <<Comma>>, <<Ident("r3"), Colon>>, <<Ident("HALT"), BadChar>>}

Lines == AddressLines \cup OtherLines \cup MalformedLines

SourcesUpTo(short, long) ==
    BoundedSeq(Lines, short) \cup BoundedSeq(AddressLines, long)

ShortSources == SourcesUpTo(3, 5)
=============================================================================
