------------------------- MODULE SuperscalarHistory -------------------------
(***************************************************************************)
(* pipe_run_ss with the history of its decisions: log[i] is the i-th       *)
(* instruction with the fetch cycle and the control penalty it was given.  *)
(* The properties state what an in-order superscalar pipeline owes its     *)
(* instructions, in terms of that history and not of the scoreboard.       *)
(***************************************************************************)
EXTENDS Superscalar, Sequences, FiniteSets

VARIABLE log

HInit == Init /\ log = <<>>

HIssue(s, pen) ==
    /\ Issue(s, pen)
    /\ log' = Append(log, [d |-> s.info, pen |-> pen, iff |-> last_if'])

\* No cycle ever holds more than Width instructions.
WidthRespected ==
    \A i \in DOMAIN log :
        Cardinality({j \in DOMAIN log : log[j].iff = log[i].iff}) <= Width

\* p is the nearest instruction before i that produces slot s.
Nearest(p, i, s) ==
    produces(log[p].d, s) /\ \A q \in p+1..i-1 : ~produces(log[q].d, s)

\* The first fetch cycle in which the stages of a consumer line up with those
\* of its producer e: without forwarding it is in ID (iff + 1) when the producer
\* is in WB (iff + 4); with forwarding it is in EX (iff + 2) when the producer
\* has left EX, or MEM for a load.
FirstUse(e) == IF ~Forwarding THEN e.iff + 4 - 1
               ELSE IF e.d.is_load THEN e.iff + 4 - 2
               ELSE e.iff + 3 - 2

\* Every operand comes from the nearest earlier instruction that produces it,
\* and is not used before its time.  A later writer of the same slot, in
\* whatever order results become ready, never hides or revives a dependence.
OperandsReady ==
    \A i \in DOMAIN log : \A s \in log[i].d.reads : \A p \in 1..i-1 :
        Nearest(p, i, s) => log[i].iff >= FirstUse(log[p])

\* Nothing younger than a mispredicted control instruction is fetched before
\* its redirect penalty has passed.
RedirectRespected ==
    \A i, j \in DOMAIN log :
        i < j /\ log[i].pen > 0 => log[j].iff > log[i].iff + log[i].pen

\* The three together: what any in-order machine of this width must respect,
\* stated over the instructions and not over the scoreboard.
LegalSchedule == WidthRespected /\ OperandsReady /\ RedirectRespected

\* Instruction i opens a new cycle because its predecessor's is full.
BundleFull(i) ==
    /\ log[i].iff = log[i-1].iff + 1
    /\ Cardinality({j \in 1..i-1 : log[j].iff = log[i-1].iff}) = Width

\* The cycle of i is the first one after a redirect, or the first one in which
\* the nearest producer of an operand can be used.
Redirected(i) ==
    \E p \in 1..i-1 : log[p].pen > 0 /\ log[i].iff = log[p].iff + 1 + log[p].pen
Awaited(i) ==
    \E s \in log[i].d.reads : \E p \in 1..i-1 :
        Nearest(p, i, s) /\ log[i].iff = FirstUse(log[p])

\* Every instruction is fetched in the first cycle a legal schedule has for it:
\* one cycle earlier it would be out of order, in a full bundle, under a redirect,
\* or ahead of an operand.
NoIdleCycle ==
    \A i \in DOMAIN log :
        \/ log[i].iff = IF i = 1 THEN 1 ELSE log[i-1].iff
        \/ i > 1 /\ BundleFull(i)
        \/ Redirected(i)
        \/ Awaited(i)
=============================================================================
