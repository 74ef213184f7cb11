------------------------------- MODULE CLexer -------------------------------
(***************************************************************************)
(* The tokens of compiler.h and the compiler's lexer (clexer.c).  A source *)
(* is a sequence of characters, except that a maximal run of letters and   *)
(* digits, a name or a number, is one element.  Operators and keywords are *)
(* spelled as in C.                                                        *)
(***************************************************************************)
EXTENDS Integers, Sequences

Tok(type) == [type |-> type, val |-> 0, text |-> ""]
TokInt(v) == [Tok("int_lit") EXCEPT !.val = v]
TokName(x) == [Tok("ident") EXCEPT !.text = x]
T_EOF == Tok("eof")

Char(c) == [kind |-> "char", val |-> 0, text |-> c]
Digits(v) == [kind |-> "digits", val |-> v, text |-> ""]
Letters(x) == [kind |-> "letters", val |-> 0, text |-> x]
Newline == "\n"

Keywords == {"int", "void", "if", "else", "while", "for", "return"}
keyword(s) == IF s \in Keywords THEN Tok(s) ELSE TokName(s)

\* The operators of two characters.
TwoChar == << <<"<", "<", "<<">>, <<">", ">", ">>">>, <<"=", "=", "==">>, <<"!", "=", "!=">>,
              <<"<", "=", "<=">>, <<">", "=", ">=">>, <<"&", "&", "&&">>, <<"|", "|", "||">> >>
OneChar == {"(", ")", "{", "}", "[", "]", ";", ",", "=", "+", "-", "*", "/", "%",
            "&", "|", "^", "~", "!", "<", ">"}

\* What p[0] is; past the end it is the NUL.
CharAt(src, p) == IF p \in DOMAIN src THEN src[p].text ELSE ""
Starts(src, p, c, d) == CharAt(src, p) = c /\ CharAt(src, p + 1) = d

\* The first place from p on that is as wanted, or the end of the source.
FirstFrom(src, p, Wanted(_)) ==
    LET found == {q \in p..Len(src) : Wanted(q)}
    IN  IF found = {} THEN Len(src) + 1 ELSE CHOOSE q \in found : \A r \in found : q <= r

\* The tokens from place p on after those of toks.  A comment that is never
\* closed ends with the source.
RECURSIVE LexFrom(_, _, _)
LexFrom(src, p, toks) ==
    LET c == CharAt(src, p)
        two == {k \in DOMAIN TwoChar : Starts(src, p, TwoChar[k][1], TwoChar[k][2])}
        close == FirstFrom(src, p + 2, LAMBDA q : Starts(src, q, "*", "/"))
    IN  CASE p > Len(src) -> [ok |-> TRUE, toks |-> Append(toks, T_EOF)]
          [] c \in {" ", Newline} -> LexFrom(src, p + 1, toks)
          [] Starts(src, p, "/", "/") ->
                LexFrom(src, FirstFrom(src, p, LAMBDA q : CharAt(src, q) = Newline), toks)
          [] Starts(src, p, "/", "*") ->
                LexFrom(src, IF close > Len(src) THEN close ELSE close + 2, toks)
          [] p <= Len(src) /\ src[p].kind = "digits" ->
                LexFrom(src, p + 1, Append(toks, TokInt(src[p].val)))
          [] p <= Len(src) /\ src[p].kind = "letters" ->
                LexFrom(src, p + 1, Append(toks, keyword(src[p].text)))
          [] OTHER ->
                IF two # {}
                THEN LexFrom(src, p + 2, Append(toks, Tok(TwoChar[CHOOSE k \in two : TRUE][3])))
                ELSE IF c \in OneChar THEN LexFrom(src, p + 1, Append(toks, Tok(c)))
                ELSE [ok |-> FALSE, toks |-> <<>>]

lex(src) == LexFrom(src, 1, <<>>)
=============================================================================
