------------------------- MODULE OutOfOrderHistory -------------------------
(***************************************************************************)
(* pipe_run_ooo with the history of its decisions: log[i] holds the i-th   *)
(* instruction with its dispatch, execution and commit cycles.  Completion *)
(* is execution plus the functional unit's latency.                        *)
(***************************************************************************)
EXTENDS OutOfOrder, Sequences, FiniteSets

VARIABLE log

HInit == Init /\ log = <<>>

HIssue(s, pen) ==
    /\ Issue(s, pen)
    /\ log' = Append(log, [d |-> s.info, pen |-> pen, disp |-> disp_cycle',
                           exec |-> last_exec', commit |-> last_commit'])

\* Instructions with a given cycle in one of the three columns.
DispatchedIn(c) == {i \in DOMAIN log : log[i].disp = c}
CommittedIn(c) == {i \in DOMAIN log : log[i].commit = c}

\* The reorder buffer never holds more than RobSize instructions: in the cycle
\* any instruction dispatches, at most RobSize have been dispatched and have
\* not committed in an earlier cycle.
RobBounded ==
    \A i \in DOMAIN log :
        LET c == log[i].disp
        IN  Cardinality({j \in DOMAIN log :
                log[j].disp <= c /\ c <= log[j].commit}) <= RobSize

\* At most Width instructions dispatch, and at most Width commit, in a cycle.
PortsRespected ==
    \A i \in DOMAIN log :
        /\ Cardinality(DispatchedIn(log[i].disp)) <= Width
        /\ Cardinality(CommittedIn(log[i].commit)) <= Width

\* Dispatch and commit are in program order, and each instruction passes
\* through dispatch, execution, completion and commit in that order.
InOrderEnds ==
    /\ \A i, j \in DOMAIN log : i < j =>
         log[i].disp <= log[j].disp /\ log[i].commit <= log[j].commit
    /\ \A i \in DOMAIN log :
         /\ log[i].disp <= log[i].exec
         /\ log[i].exec + log[i].d.latency <= log[i].commit

\* p is the nearest instruction before i that produces slot s.
Nearest(p, i, s) ==
    produces(log[p].d, s) /\ \A q \in p+1..i-1 : ~produces(log[q].d, s)

Completes(e) == e.exec + e.d.latency

\* Renaming keeps true dependencies: an instruction waits for the nearest
\* earlier producer of each of its operands, even when a younger writer of the
\* same register has already completed.
TrueDependencies ==
    \A i \in DOMAIN log : \A s \in log[i].d.reads : \A p \in 1..i-1 :
        Nearest(p, i, s) => log[i].exec >= Completes(log[p])

\* Nothing younger than a mispredicted control instruction is dispatched
\* before it has executed and its penalty has passed.
RedirectRespected ==
    \A i, j \in DOMAIN log :
        i < j /\ log[i].pen > 0 => log[j].disp >= log[i].exec + log[i].pen

\* What any machine of this width owes its instructions, in or out of order.
LegalSchedule ==
    PortsRespected /\ InOrderEnds /\ TrueDependencies /\ RedirectRespected

\* Dispatch is in the first cycle that is in order, has a port, is past every
\* redirect and finds the instruction RobSize older committed.
DispatchPrompt(i) ==
    LET c == log[i].disp
    IN  \/ c = IF i = 1 THEN 1 ELSE log[i-1].disp
        \/ /\ i > 1 /\ c = log[i-1].disp + 1
           /\ Cardinality({j \in 1..i-1 : log[j].disp = log[i-1].disp}) = Width
        \/ \E p \in 1..i-1 : log[p].pen > 0 /\ c = log[p].exec + log[p].pen
        \/ i > RobSize /\ c = log[i - RobSize].commit + 1

\* Execution starts in the cycle of dispatch, or as the last true operand
\* completes: reuse of a register for another value delays nothing.  The
\* in-order baseline also waits for its predecessor to start.
ExecutePrompt(i) ==
    LET c == log[i].exec
    IN  \/ c = log[i].disp
        \/ \E s \in log[i].d.reads : \E p \in 1..i-1 :
              Nearest(p, i, s) /\ c = Completes(log[p])
        \/ InOrder /\ i > 1 /\ c = log[i-1].exec

\* Commit is in the first cycle that is in order and has a port, once complete.
CommitPrompt(i) ==
    LET c == log[i].commit
    IN  \/ c = Completes(log[i])
        \/ i > 1 /\ c = log[i-1].commit
        \/ /\ i > 1 /\ c = log[i-1].commit + 1
           /\ Cardinality({j \in 1..i-1 : log[j].commit = log[i-1].commit}) = Width

\* Every instruction passes each of the three points in the first cycle a legal
\* schedule with this reorder buffer has for it.
NoIdleCycle ==
    \A i \in DOMAIN log : DispatchPrompt(i) /\ ExecutePrompt(i) /\ CommitPrompt(i)
=============================================================================
