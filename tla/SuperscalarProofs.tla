-------------------------- MODULE SuperscalarProofs --------------------------
(***************************************************************************)
(* Every schedule pipe_run_ss computes is legal and tight, for every       *)
(* width, with or without forwarding, and whatever the program and the     *)
(* predictor do.  The invariant ties the scoreboard, which keeps one cycle *)
(* per slot and forgets the rest, to the history of all decisions.         *)
(***************************************************************************)
EXTENDS SuperscalarHistory, FiniteSetTheorems, TLAPS

\* The arguments main_pipe.c calls pipe_run_ss with: a width of at least 1.
ConfigOK ==
    /\ Width \in Nat /\ Width >= 1
    /\ Forwarding \in BOOLEAN /\ Predictor \in BOOLEAN

\* Any instruction next, with any penalty its predictor allows.
HNext == \E s \in CpuSteps : \E pen \in Penalties(Predictor, s.info) : HIssue(s, pen)

HSpec == HInit /\ [][HNext]_<<vars, log>>

\* What the history records of an instruction.
LogEntry == [d: {s.info : s \in CpuSteps}, pen: Nat, iff: Nat]

-----------------------------------------------------------------------------
(* The instruction metadata *)

\* What gen_one can report is an InstInfo and a Boolean.
LEMMA CpuStepsType ==
    ASSUME NEW s \in CpuSteps
    PROVE  s.info \in InstInfo /\ s.halts \in BOOLEAN
<1>1. PICK op \in Ops : s \in [info: {decode_meta(op, rd, rs, t) :
                            rd \in Regs, rs \in Regs, t \in Outcomes(op)},
                         halts: Halts(op)]
  BY DEF CpuSteps
<1>2. PICK rd \in Regs, rs \in Regs, t \in Outcomes(op) :
        s.info = decode_meta(op, rd, rs, t)
  BY <1>1
<1>3. t \in BOOLEAN
  BY DEF Outcomes
<1>4. /\ op_reads(op, rd, rs) \in SUBSET Slot
      /\ op_writes(op, rd) \in SUBSET Slot
  BY DEF op_reads, op_writes, Slot
<1>5. op_latency(op) \in 1..20
  BY DEF op_latency
<1>6. s.info \in InstInfo
  BY <1>2, <1>3, <1>4, <1>5
  DEF decode_meta, InstInfo, op_sets_flags, op_is_control, op_is_conditional,
      op_accesses_mem
<1>7. Halts(op) \subseteq BOOLEAN
  BY DEF Halts
<1>8. s.halts \in Halts(op)
  BY <1>1
<1>. QED  BY <1>6, <1>7, <1>8

\* A penalty is a number of cycles.
LEMMA PenaltiesType ==
    ASSUME NEW predictor \in BOOLEAN, NEW d \in InstInfo,
           NEW pen \in Penalties(predictor, d)
    PROVE  pen \in Nat
  BY DEF Penalties, control_penalty, CONTROL_PENALTY

\* No load sets the flags, so a slot's producer is a load only when it writes
\* the register itself.
LEMMA LoadsSetNoFlags ==
    ASSUME NEW s \in CpuSteps
    PROVE  ~(s.info.is_load /\ s.info.sets_flags)
<1>1. PICK op \in Ops : s \in [info: {decode_meta(op, rd, rs, t) :
                            rd \in Regs, rs \in Regs, t \in Outcomes(op)},
                         halts: Halts(op)]
  BY DEF CpuSteps
<1>2. PICK rd \in Regs, rs \in Regs, t \in Outcomes(op) :
        s.info = decode_meta(op, rd, rs, t)
  BY <1>1
<1>3. s.info.is_load = (op \in {"LOAD", "POP"})
  BY <1>2 DEF decode_meta
<1>4. s.info.sets_flags = (op \in AluOps \cup {"NOT"})
  BY <1>2 DEF decode_meta, op_sets_flags
<1>5. ~(op \in {"LOAD", "POP"} /\ op \in AluOps \cup {"NOT"})
  BY DEF AluOps
<1>. QED  BY <1>3, <1>4, <1>5

-----------------------------------------------------------------------------
(* The inductive invariant *)

\* The scheduler keeps its types; the log has every instruction.
Typed ==
    /\ log \in Seq(LogEntry) /\ count = Len(log)
    /\ ready \in [Slot -> Nat]
    /\ cur_if \in Nat /\ cur_count \in 0..Width
    /\ fetch_block \in Nat

\* The open bundle is the last instruction's, and nothing was fetched later.
BundleLast ==
    /\ \A i \in DOMAIN log : log[i].iff <= cur_if
    /\ IF count > 0 THEN log[count].iff = cur_if ELSE cur_if = 0

\* cur_count is the population of the open bundle.
BundleCounted ==
    Cardinality({j \in DOMAIN log : log[j].iff = cur_if}) = cur_count

\* When the producer p of slot s makes it ready.
readyAt(p, s) ==
    IF p.d.sets_flags /\ s = FLAG_REG THEN flagsReady(p.iff)
    ELSE resultReady(p.d, p.iff)

\* A slot is ready when its nearest producer says so, or was never written.
Scoreboard ==
    \A s \in Slot :
        \/ ready[s] = 0 /\ \A p \in DOMAIN log : ~produces(log[p].d, s)
        \/ \E p \in DOMAIN log :
             /\ produces(log[p].d, s)
             /\ \A q \in DOMAIN log : q > p => ~produces(log[q].d, s)
             /\ ready[s] = readyAt(log[p], s)

\* The block is the one of some redirect, and covers every redirect.
Blocked ==
    /\ \/ fetch_block = 0
       \/ \E p \in DOMAIN log :
            log[p].pen > 0 /\ fetch_block = log[p].iff + 1 + log[p].pen
    /\ \A p \in DOMAIN log :
         log[p].pen > 0 => log[p].iff + log[p].pen < fetch_block

\* The inductive invariant.
HInv == /\ Typed /\ BundleLast /\ BundleCounted /\ Scoreboard /\ Blocked
        /\ LegalSchedule /\ NoIdleCycle

-----------------------------------------------------------------------------
(* One instruction *)

\* What pipe_run_ss knows of the instruction it places in cycle iff.
Placed(d, pen, iff) ==
    /\ d \in {s.info : s \in CpuSteps} /\ pen \in Nat /\ iff \in Nat
    /\ iff \in lowerBounds(d) /\ \A b \in lowerBounds(d) : b <= iff
    /\ Place(d, pen, iff)
    /\ count' = count + 1
    /\ log' = Append(log, [d |-> d, pen |-> pen, iff |-> iff])

\* An instruction is well typed, and no load sets the flags.
LEMMA InfoType ==
    ASSUME NEW d \in {s.info : s \in CpuSteps}
    PROVE  d \in InstInfo /\ ~(d.is_load /\ d.sets_flags)
  BY CpuStepsType, LoadsSetNoFlags

\* Every issue places its instruction in a cycle after all its bounds.
LEMMA IssuePlaces ==
    ASSUME ConfigOK, HInv, HNext
    PROVE  \E d, pen, iff : Placed(d, pen, iff)
<1>0. PICK s \in CpuSteps : \E pen \in Penalties(Predictor, s.info) : HIssue(s, pen)
  BY DEF HNext
<1>1. PICK pen \in Penalties(Predictor, s.info) : HIssue(s, pen)
  BY <1>0
<1>2. s.info \in InstInfo
  BY CpuStepsType
<1>3. pen \in Nat
  BY <1>2, PenaltiesType DEF ConfigOK
<1>4. PICK iff \in lowerBounds(s.info) :
        /\ \A b \in lowerBounds(s.info) : b <= iff
        /\ Place(s.info, pen, iff)
  BY <1>1 DEF HIssue, Issue, Schedule
<1>5. earliest \in Nat /\ earliest <= iff
  <2>1. earliest <= iff
    BY <1>4 DEF lowerBounds
  <2>2. earliest \in Nat
    BY DEF earliest, HInv, Typed
  <2>. QED  BY <2>1, <2>2
<1>6. iff \in Int
  <2>1. \A r \in s.info.reads : ready[r] \in Nat
    BY <1>2 DEF InstInfo, HInv, Typed
  <2>. QED  BY <1>5, <2>1 DEF lowerBounds, HInv, Typed
<1>7. last_if' = iff
  BY <1>4 DEF Place
<1>8. Placed(s.info, pen, iff)
  BY <1>1, <1>3, <1>4, <1>5, <1>6, <1>7 DEF Placed, HIssue, Issue
<1>. QED  BY <1>8

\* The history grows by the instruction, whose bundle is now the open one.
Grown(d, pen, iff) ==
    /\ log' \in Seq(LogEntry) /\ Len(log') = count + 1 /\ count' = count + 1
    /\ count \in Nat /\ DOMAIN log = 1..count /\ DOMAIN log' = 1..(count + 1)
    /\ log'[count + 1] = [d |-> d, pen |-> pen, iff |-> iff]
    /\ \A i \in 1..count : log'[i] = log[i] /\ log[i] \in LogEntry
    /\ cur_if' = iff /\ iff \in Nat /\ cur_if <= iff
    /\ count > 0 /\ cur_count >= Width => cur_if < iff
    /\ \A i \in 1..count : log[i].iff \in Nat /\ log[i].iff <= iff

\* A placed instruction extends the log, and nothing else of it changes.
LEMMA PlacedGrows ==
    ASSUME ConfigOK, HInv, NEW d, NEW pen, NEW iff, Placed(d, pen, iff)
    PROVE  Grown(d, pen, iff)
<1>1. log \in Seq(LogEntry) /\ count = Len(log) /\ count \in Nat
  BY DEF HInv, Typed
<1>2. [d |-> d, pen |-> pen, iff |-> iff] \in LogEntry
  BY DEF Placed, LogEntry
<1>3. log' \in Seq(LogEntry) /\ Len(log') = count + 1
  BY <1>1, <1>2 DEF Placed
<1>4. DOMAIN log = 1..count /\ DOMAIN log' = 1..(count + 1)
  BY <1>1, <1>3
<1>5. log'[count + 1] = [d |-> d, pen |-> pen, iff |-> iff]
  BY <1>1, <1>2 DEF Placed
<1>6. \A i \in DOMAIN log : log'[i] = log[i] /\ log[i] \in LogEntry
  BY <1>1, <1>2 DEF Placed
<1>7. earliest <= iff
  BY DEF Placed, lowerBounds
<1>8. cur_if <= iff /\ (count > 0 /\ cur_count >= Width => cur_if < iff)
  <2>1. CASE count > 0
    BY <1>7, <2>1 DEF earliest, HInv, Typed, ConfigOK, Placed
  <2>2. CASE count = 0
    BY <1>7, <2>2 DEF earliest, HInv, Typed, ConfigOK, Placed, BundleLast
  <2>. QED  BY <1>1, <2>1, <2>2
<1>9. cur_if' = iff
  BY DEF Placed, Place
<1>10. \A i \in DOMAIN log : log[i].iff \in Nat /\ log[i].iff <= iff
  <2>1. \A i \in DOMAIN log : log[i].iff \in Nat /\ log[i].iff <= cur_if
    BY <1>6 DEF HInv, BundleLast, LogEntry
  <2>. QED  BY <1>8, <2>1 DEF HInv, Typed, Placed
<1>. QED
  BY <1>1, <1>3, <1>4, <1>5, <1>6, <1>8, <1>9, <1>10 DEF Grown, Placed
\* The instruction joins the open bundle or opens a new one.
LEMMA BundleStep ==
    ASSUME ConfigOK, HInv, NEW d, NEW pen, NEW iff, Placed(d, pen, iff)
    PROVE  /\ (cur_count \in 0..Width)' /\ cur_count' >= 1
           /\ BundleLast' /\ BundleCounted' /\ WidthRespected'
<1>0. Grown(d, pen, iff)
  BY PlacedGrows
<1>. DEFINE old == {j \in DOMAIN log : log[j].iff = cur_if}
            new == {j \in DOMAIN log' : log'[j].iff = iff}
<1>1. /\ Width \in Nat /\ Width >= 1 /\ cur_count \in 0..Width
      /\ cur_if \in Nat /\ iff \in Nat /\ count \in Nat
  BY DEF ConfigOK, HInv, Typed, Placed
<1>2. /\ IF iff = cur_if /\ cur_count < Width
         THEN cur_count' = cur_count + 1 ELSE cur_count' = 1
  BY DEF Placed, Place
<1>3. cur_count' \in 1..Width
  BY <1>0, <1>1, <1>2 DEF Grown
<1>4. BundleLast'
  <2>1. count' = count + 1 /\ count' > 0
    BY <1>0 DEF Grown
  <2>2. \A i \in DOMAIN log' : log'[i].iff <= iff
    <3>1. \A i \in 1..count : log'[i].iff <= iff
      BY <1>0 DEF Grown
    <3>2. log'[count + 1].iff <= iff
      BY <1>0 DEF Grown
    <3>. QED  BY <1>0, <1>1, <3>1, <3>2 DEF Grown
  <2>3. log'[count'].iff = cur_if'
    BY <1>0 DEF Grown
  <2>. QED  BY <1>0, <2>1, <2>2, <2>3 DEF BundleLast, Grown
<1>5. IsFiniteSet(old) /\ Cardinality(old) = cur_count
  <2>1. IsFiniteSet(1..count)
    BY <1>0, <1>1, FS_Interval DEF Grown
  <2>2. old \subseteq 1..count
    BY <1>0 DEF Grown
  <2>3. IsFiniteSet(old)
    BY <2>1, <2>2, FS_Subset
  <2>. QED  BY <2>3 DEF HInv, BundleCounted
<1>6. count + 1 \notin old /\ count + 1 \in new
  BY <1>0, <1>1 DEF Grown
<1>7. Cardinality(new) = cur_count'
  <2>1. CASE iff = cur_if
    <3>1. new = old \cup {count + 1}
      BY <1>0, <1>1, <2>1 DEF Grown
    <3>2. cur_count < Width
      <4>1. CASE count = 0
        <5>1. old = {}
          BY <1>0, <1>1, <4>1 DEF Grown
        <5>. QED  BY <1>0, <1>1, <1>5, <5>1, FS_EmptySet DEF Grown
      <4>2. CASE count > 0
        BY <1>0, <1>1, <2>1, <4>2 DEF Grown
      <4>. QED  BY <1>0, <1>1, <4>1, <4>2 DEF Grown
    <3>3. Cardinality(new) = cur_count + 1
      BY <1>5, <1>6, <3>1, FS_AddElement
    <3>. QED  BY <1>2, <2>1, <3>2, <3>3
  <2>2. CASE iff # cur_if
    <3>1. \A j \in DOMAIN log : log[j].iff <= cur_if
      BY DEF HInv, BundleLast
    <3>2. \A j \in DOMAIN log : log'[j].iff # iff
      BY <1>0, <1>1, <2>2, <3>1 DEF Grown
    <3>3. new = {count + 1}
      BY <1>0, <1>1, <3>2 DEF Grown
    <3>. QED  BY <1>2, <2>2, <3>3, FS_Singleton
  <2>. QED  BY <2>1, <2>2
<1>8. BundleCounted'
  BY <1>0, <1>7 DEF BundleCounted, Grown
<1>9. WidthRespected'
  <2>1. SUFFICES ASSUME NEW i \in 1..(count + 1)
                 PROVE  Cardinality({j \in DOMAIN log' : log'[j].iff = log'[i].iff})
                          <= Width
    BY <1>0 DEF WidthRespected, Grown
  <2>2. CASE log'[i].iff = iff
    BY <1>0, <1>1, <1>3, <1>7, <2>2 DEF Grown
  <2>3. CASE log'[i].iff # iff
    <3>1. i \in DOMAIN log /\ log'[i] = log[i]
      BY <1>0, <1>1, <2>3 DEF Grown
    <3>2. {j \in DOMAIN log' : log'[j].iff = log'[i].iff}
            = {j \in DOMAIN log : log[j].iff = log[i].iff}
      BY <1>0, <1>1, <2>3, <3>1 DEF Grown
    <3>. QED  BY <3>1, <3>2 DEF HInv, LegalSchedule, WidthRespected
  <2>. QED  BY <2>2, <2>3
<1>. QED  BY <1>0, <1>1, <1>3, <1>4, <1>8, <1>9 DEF Grown

\* A slot the instruction produces is ready when it says; no other changes.
LEMMA ScoreboardStep ==
    ASSUME ConfigOK, HInv, NEW d, NEW pen, NEW iff, Placed(d, pen, iff)
    PROVE  (ready \in [Slot -> Nat])' /\ Scoreboard'
<1>. DEFINE e == [d |-> d, pen |-> pen, iff |-> iff]
<1>0. Grown(d, pen, iff)
  BY PlacedGrows
<1>1. d \in InstInfo
  BY InfoType DEF Placed
<1>2. flagsReady(iff) \in Nat /\ resultReady(d, iff) \in Nat
  BY <1>0 DEF flagsReady, resultReady, Grown
<1>3. ASSUME NEW s \in Slot
      PROVE  ready'[s] = IF produces(d, s) THEN readyAt(e, s) ELSE ready[s]
  BY <1>1 DEF Placed, Place, produces, readyAt, InstInfo
<1>4. ready' \in [Slot -> Nat]
  <2>1. \A s \in Slot : ready[s] \in Nat
    BY DEF HInv, Typed
  <2>. QED  BY <1>2, <2>1 DEF Placed, Place
<1>5. ASSUME NEW s \in Slot
      PROVE  \/ ready'[s] = 0 /\ \A p \in DOMAIN log' : ~produces(log'[p].d, s)
             \/ \E p \in DOMAIN log' :
                  /\ produces(log'[p].d, s)
                  /\ \A q \in DOMAIN log' : q > p => ~produces(log'[q].d, s)
                  /\ ready'[s] = readyAt(log'[p], s)
  <2>. HIDE DEF e
  <2>1. log'[count + 1] = e /\ e.d = d
    BY <1>0 DEF Grown, e
  <2>2. CASE produces(d, s)
    <3>1. ready'[s] = readyAt(log'[count + 1], s)
      BY <1>3, <2>1, <2>2
    <3>2. \A q \in DOMAIN log' : ~(q > count + 1)
      BY <1>0 DEF Grown
    <3>3. count + 1 \in DOMAIN log'
      BY <1>0 DEF Grown
    <3>. QED  BY <2>1, <2>2, <3>1, <3>2, <3>3
  <2>3. CASE ~produces(d, s)
    <3>1. ready'[s] = ready[s]
      BY <1>3, <2>3
    <3>2. ASSUME NEW q \in DOMAIN log'
          PROVE  q = count + 1 \/ (q \in DOMAIN log /\ log'[q] = log[q])
      BY <1>0 DEF Grown
    <3>3. CASE ready[s] = 0 /\ \A p \in DOMAIN log : ~produces(log[p].d, s)
      BY <2>1, <2>3, <3>1, <3>2, <3>3
    <3>4. CASE \E p \in DOMAIN log :
                 /\ produces(log[p].d, s)
                 /\ \A q \in DOMAIN log : q > p => ~produces(log[q].d, s)
                 /\ ready[s] = readyAt(log[p], s)
      <4>1. PICK p \in DOMAIN log :
                 /\ produces(log[p].d, s)
                 /\ \A q \in DOMAIN log : q > p => ~produces(log[q].d, s)
                 /\ ready[s] = readyAt(log[p], s)
        BY <3>4
      <4>2. p \in DOMAIN log' /\ log'[p] = log[p]
        BY <1>0 DEF Grown
      <4>3. \A q \in DOMAIN log' : q > p => ~produces(log'[q].d, s)
        BY <2>1, <2>3, <3>2, <4>1
      <4>. QED  BY <3>1, <4>1, <4>2, <4>3
    <3>. QED  BY <3>3, <3>4 DEF HInv, Scoreboard
  <2>. QED  BY <2>2, <2>3
<1>6. Scoreboard'
  BY <1>5 DEF Scoreboard, Slot
<1>. QED  BY <1>4, <1>6

\* A new redirect blocks longer than the old one did, which has passed.
LEMMA BlockedStep ==
    ASSUME ConfigOK, HInv, NEW d, NEW pen, NEW iff, Placed(d, pen, iff)
    PROVE  (fetch_block \in Nat)' /\ Blocked' /\ RedirectRespected'
<1>0. Grown(d, pen, iff)
  BY PlacedGrows
<1>1. /\ pen \in Nat /\ iff \in Nat /\ fetch_block \in Nat /\ fetch_block <= iff
      /\ fetch_block' = IF pen > 0 THEN iff + 1 + pen ELSE fetch_block
  BY DEF Placed, Place, lowerBounds, HInv, Typed
<1>2. /\ log'[count + 1].pen = pen /\ log'[count + 1].iff = iff
      /\ count + 1 \in DOMAIN log'
  BY <1>0 DEF Grown
<1>3. \A p \in 1..count :
         /\ p \in DOMAIN log /\ p \in DOMAIN log' /\ log'[p] = log[p]
         /\ log[p].pen \in Nat /\ log[p].iff \in Nat
         /\ log[p].pen > 0 => log[p].iff + log[p].pen < fetch_block
  <2>1. \A p \in 1..count : /\ p \in DOMAIN log /\ p \in DOMAIN log'
                            /\ log'[p] = log[p] /\ log[p] \in LogEntry
    BY <1>0 DEF Grown
  <2>2. \A p \in DOMAIN log :
           log[p].pen > 0 => log[p].iff + log[p].pen < fetch_block
    BY DEF HInv, Blocked
  <2>. QED  BY <2>1, <2>2 DEF LogEntry
<1>4. \A p \in DOMAIN log' : p = count + 1 \/ p \in 1..count
  BY <1>0 DEF Grown
<1>5. \A p \in DOMAIN log' :
         log'[p].pen > 0 => log'[p].iff + log'[p].pen < fetch_block'
  BY <1>1, <1>2, <1>3, <1>4
<1>6. \/ fetch_block' = 0
      \/ \E p \in DOMAIN log' :
           log'[p].pen > 0 /\ fetch_block' = log'[p].iff + 1 + log'[p].pen
  <2>1. CASE pen > 0
    BY <1>1, <1>2, <2>1
  <2>2. CASE ~(pen > 0)
    <3>1. \/ fetch_block = 0
          \/ \E p \in DOMAIN log :
               log[p].pen > 0 /\ fetch_block = log[p].iff + 1 + log[p].pen
      BY DEF HInv, Blocked
    <3>2. DOMAIN log = 1..count
      BY <1>0 DEF Grown
    <3>. QED  BY <1>1, <1>3, <2>2, <3>1, <3>2
  <2>. QED  BY <2>1, <2>2
<1>7. RedirectRespected'
  <2>1. SUFFICES ASSUME NEW i \in DOMAIN log', NEW j \in DOMAIN log',
                        i < j, log'[i].pen > 0
                 PROVE  log'[j].iff > log'[i].iff + log'[i].pen
    BY DEF RedirectRespected
  <2>2. i \in 1..count
    BY <1>0, <2>1 DEF Grown
  <2>3. CASE j \in 1..count
    BY <1>3, <2>1, <2>2, <2>3 DEF HInv, LegalSchedule, RedirectRespected
  <2>4. CASE j = count + 1
    BY <1>1, <1>2, <1>3, <2>1, <2>2, <2>4
  <2>. QED  BY <1>4, <2>3, <2>4
<1>8. fetch_block' \in Nat
  BY <1>1
<1>. QED  BY <1>5, <1>6, <1>7, <1>8 DEF Blocked

\* An entry of the log below its end stands as it was.
LEMMA NearestKept ==
    ASSUME ConfigOK, HInv, NEW d, NEW pen, NEW iff, Placed(d, pen, iff),
           NEW i \in 1..count, NEW p \in 1..i-1, NEW s
    PROVE  /\ Nearest(p, i, s)' = Nearest(p, i, s)
           /\ FirstUse(log[p])' = FirstUse(log[p])
<1>0. Grown(d, pen, iff)
  BY PlacedGrows
<1>1. log'[p] = log[p] /\ \A q \in p+1..i-1 : log'[q] = log[q]
  BY <1>0 DEF Grown
<1>2. Nearest(p, i, s)' = Nearest(p, i, s)
  BY <1>1 DEF Nearest
<1>. QED  BY <1>1, <1>2 DEF FirstUse

\* What the scoreboard holds of a slot is the time of its nearest producer.
LEMMA ReadyIsFirstUse ==
    ASSUME ConfigOK, HInv, NEW d, NEW pen, NEW iff, Placed(d, pen, iff),
           NEW s \in Slot, NEW p \in 1..count, produces(log[p].d, s),
           ready[s] = readyAt(log[p], s)
    PROVE  /\ FirstUse(log'[p]) = ready[s] - 2
           /\ ready[s] \in Nat /\ ready[s] > 2
<1>0. Grown(d, pen, iff)
  BY PlacedGrows
<1>1. /\ log[p].iff \in Nat /\ log[p].d \in InstInfo
      /\ ~(log[p].d.is_load /\ log[p].d.sets_flags)
      /\ log'[p] = log[p]
  BY <1>0, InfoType DEF Grown, LogEntry
<1>. QED
  BY <1>1 DEF readyAt, flagsReady, resultReady, FirstUse, ConfigOK, InstInfo

\* An operand's nearest producer set the slot's cycle, which is a lower bound.
LEMMA OperandsStep ==
    ASSUME ConfigOK, HInv, NEW d, NEW pen, NEW iff, Placed(d, pen, iff)
    PROVE  OperandsReady'
<1>0. Grown(d, pen, iff)
  BY PlacedGrows
<1>1. d \in InstInfo
  BY InfoType DEF Placed
<1>2. SUFFICES ASSUME NEW i \in DOMAIN log', NEW s \in log'[i].d.reads,
                      NEW p \in 1..i-1, Nearest(p, i, s)'
               PROVE  log'[i].iff >= FirstUse(log'[p])
  BY DEF OperandsReady, FirstUse
<1>3. p \in 1..count /\ log'[p] = log[p]
  BY <1>0 DEF Grown
<1>4. CASE i \in 1..count
  <2>1. i \in DOMAIN log /\ log'[i] = log[i]
    BY <1>0, <1>3, <1>4 DEF Grown
  <2>2. Nearest(p, i, s)
    BY <1>2, <1>4, NearestKept
  <2>. QED  BY <1>2, <1>3, <2>1, <2>2 DEF HInv, LegalSchedule, OperandsReady
<1>5. CASE i = count + 1
  <2>1. s \in d.reads /\ s \in Slot /\ log'[i].iff = iff /\ iff \in Nat
    BY <1>0, <1>1, <1>5 DEF Grown, InstInfo
  <2>2. produces(log[p].d, s) /\ \A q \in p+1..count : ~produces(log[q].d, s)
    BY <1>0, <1>2, <1>3, <1>5 DEF Grown, Nearest
  <2>3. PICK p2 \in DOMAIN log :
             /\ produces(log[p2].d, s)
             /\ \A q \in DOMAIN log : q > p2 => ~produces(log[q].d, s)
             /\ ready[s] = readyAt(log[p2], s)
    BY <1>0, <1>3, <2>1, <2>2 DEF HInv, Scoreboard, Grown
  <2>4. p2 = p
    <3>1. p \in 1..count /\ p2 \in 1..count /\ count \in Nat /\ DOMAIN log = 1..count
      BY <1>0, <1>3 DEF Grown
    <3>2. ~(p2 > p)
      BY <2>2, <2>3, <3>1
    <3>3. ~(p > p2)
      BY <2>2, <2>3, <3>1
    <3>. QED  BY <3>1, <3>2, <3>3
  <2>5. FirstUse(log'[p]) = ready[s] - 2 /\ ready[s] \in Nat
    BY <1>3, <2>1, <2>2, <2>3, <2>4, ReadyIsFirstUse
  <2>6. ready[s] - 2 <= iff
    BY <2>1 DEF Placed, lowerBounds
  <2>. QED  BY <2>1, <2>5, <2>6
<1>. QED  BY <1>0, <1>4, <1>5 DEF Grown

\* Why an instruction is where it is.
Explained(i) ==
    \/ log[i].iff = IF i = 1 THEN 1 ELSE log[i-1].iff
    \/ i > 1 /\ BundleFull(i)
    \/ Redirected(i)
    \/ Awaited(i)

\* The reasons of the instructions before it are not touched by the next.
LEMMA ExplainedKept ==
    ASSUME ConfigOK, HInv, NEW d, NEW pen, NEW iff, Placed(d, pen, iff),
           NEW i \in 1..count
    PROVE  Explained(i)'
<1>0. Grown(d, pen, iff)
  BY PlacedGrows
<1>1. /\ i \in DOMAIN log /\ log'[i] = log[i] /\ i \in Nat
      /\ \A q \in 1..i-1 : log'[q] = log[q]
  BY <1>0 DEF Grown
<1>2. i > 1 => i - 1 \in 1..i-1
  BY <1>1
<1>3. Explained(i)
  BY <1>1 DEF HInv, NoIdleCycle, Explained
<1>4. ASSUME log[i].iff = IF i = 1 THEN 1 ELSE log[i-1].iff PROVE Explained(i)'
  <2>1. CASE i = 1
    BY <1>1, <1>4, <2>1 DEF Explained
  <2>2. CASE i # 1
    <3>1. log'[i].iff = log'[i-1].iff
      BY <1>1, <1>2, <1>4, <2>2
    <3>. QED  BY <2>2, <3>1 DEF Explained
  <2>. QED  BY <2>1, <2>2
<1>5. ASSUME i > 1, BundleFull(i) PROVE Explained(i)'
  <2>1. {j \in 1..i-1 : log'[j].iff = log'[i-1].iff}
          = {j \in 1..i-1 : log[j].iff = log[i-1].iff}
    BY <1>1, <1>2, <1>5
  <2>2. log'[i-1] = log[i-1]
    BY <1>1, <1>2, <1>5
  <2>3. BundleFull(i)'
    BY <1>1, <1>5, <2>1, <2>2 DEF BundleFull
  <2>. QED  BY <1>5, <2>3 DEF Explained
<1>6. ASSUME Redirected(i) PROVE Explained(i)'
  <2>1. Redirected(i)'
    BY <1>1, <1>6 DEF Redirected
  <2>. QED  BY <2>1 DEF Explained
<1>7. ASSUME Awaited(i) PROVE Explained(i)'
  <2>1. PICK s \in log[i].d.reads, p \in 1..i-1 :
          Nearest(p, i, s) /\ log[i].iff = FirstUse(log[p])
    BY <1>7 DEF Awaited
  <2>2. Nearest(p, i, s)' /\ FirstUse(log[p])' = FirstUse(log[p])
    BY <2>1, NearestKept
  <2>3. Awaited(i)'
    BY <1>1, <2>1, <2>2 DEF Awaited
  <2>. QED  BY <2>3 DEF Explained
<1>. QED  BY <1>3, <1>4, <1>5, <1>6, <1>7 DEF Explained

\* The next instruction is in the latest of its bounds: room in a bundle, a
\* redirect, or the operand of which the scoreboard knows the nearest producer.
LEMMA ExplainedNext ==
    ASSUME ConfigOK, HInv, NEW d, NEW pen, NEW iff, Placed(d, pen, iff),
           NEW n \in Nat, n = count + 1
    PROVE  Explained(n)'
<1>0. Grown(d, pen, iff)
  BY PlacedGrows
<1>1. /\ log'[n].iff = iff /\ log'[n].d = d /\ count \in Nat /\ n - 1 = count
      /\ cur_if \in Nat /\ iff \in Nat /\ cur_count \in 0..Width /\ Width \in Nat
      /\ cur_if <= iff
      /\ n > 1 => log'[n-1].iff = cur_if
  BY <1>0 DEF Grown, HInv, BundleLast, Typed, ConfigOK
<1>2. DOMAIN log = 1..n-1 /\ \A q \in 1..n-1 : log'[q] = log[q]
  BY <1>0, <1>1 DEF Grown
<1>3. d \in InstInfo
  BY InfoType DEF Placed
<1>4. CASE iff = earliest
  <2>1. CASE n = 1
    BY <1>1, <1>4, <2>1 DEF earliest, Explained
  <2>2. CASE n > 1 /\ cur_count < Width
    BY <1>1, <1>4, <2>2 DEF earliest, Explained
  <2>3. CASE n > 1 /\ ~(cur_count < Width)
    <3>1. iff = cur_if + 1 /\ cur_count = Width
      BY <1>1, <1>4, <2>3 DEF earliest
    <3>2. {j \in 1..n-1 : log'[j].iff = log'[n-1].iff}
            = {j \in DOMAIN log : log[j].iff = cur_if}
      BY <1>1, <1>2, <2>3
    <3>3. Cardinality({j \in DOMAIN log : log[j].iff = cur_if}) = Width
      BY <3>1 DEF HInv, BundleCounted
    <3>4. BundleFull(n)'
      BY <1>1, <2>3, <3>1, <3>2, <3>3 DEF BundleFull
    <3>. QED  BY <2>3, <3>4 DEF Explained
  <2>. QED  BY <1>1, <2>1, <2>2, <2>3
<1>5. CASE iff = fetch_block
  <2>1. CASE fetch_block = 0
    <3>1. earliest <= iff
      BY DEF Placed, lowerBounds
    <3>2. iff = earliest
      BY <1>1, <1>5, <2>1, <3>1 DEF earliest
    <3>. QED  BY <1>4, <3>2
  <2>2. CASE fetch_block # 0
    <3>1. PICK p \in DOMAIN log :
             log[p].pen > 0 /\ fetch_block = log[p].iff + 1 + log[p].pen
      BY <2>2 DEF HInv, Blocked
    <3>2. Redirected(n)'
      BY <1>1, <1>2, <1>5, <3>1 DEF Redirected
    <3>. QED  BY <3>2 DEF Explained
  <2>. QED  BY <2>1, <2>2
<1>6. CASE \E s \in d.reads : iff = ready[s] - 2
  <2>1. PICK s \in d.reads : iff = ready[s] - 2
    BY <1>6
  <2>2. s \in Slot /\ ready[s] \in Nat
    BY <1>3 DEF InstInfo, HInv, Typed
  <2>3. ready[s] # 0
    BY <1>1, <2>1, <2>2
  <2>4. PICK p \in DOMAIN log :
             /\ produces(log[p].d, s)
             /\ \A q \in DOMAIN log : q > p => ~produces(log[q].d, s)
             /\ ready[s] = readyAt(log[p], s)
    BY <2>2, <2>3 DEF HInv, Scoreboard
  <2>5. p \in 1..n-1 /\ p \in 1..count
    BY <1>1, <1>2
  <2>6. FirstUse(log'[p]) = ready[s] - 2
    BY <2>2, <2>4, <2>5, ReadyIsFirstUse
  <2>7. Nearest(p, n, s)'
    BY <1>1, <1>2, <2>4, <2>5 DEF Nearest
  <2>8. Awaited(n)'
    BY <1>1, <2>1, <2>5, <2>6, <2>7 DEF Awaited, FirstUse
  <2>. QED  BY <2>8 DEF Explained
<1>. QED  BY <1>4, <1>5, <1>6 DEF Placed, lowerBounds

\* Every instruction, the new one included, is where a reason puts it.
LEMMA NoIdleStep ==
    ASSUME ConfigOK, HInv, NEW d, NEW pen, NEW iff, Placed(d, pen, iff)
    PROVE  NoIdleCycle'
<1>0. Grown(d, pen, iff)
  BY PlacedGrows
<1>1. ASSUME NEW i \in DOMAIN log' PROVE Explained(i)'
  <2>1. i \in 1..count \/ i = count + 1
    BY <1>0 DEF Grown
  <2>2. i \in Nat
    BY <1>0 DEF Grown
  <2>. QED  BY <2>1, <2>2, ExplainedKept, ExplainedNext
<1>. QED  BY <1>1 DEF NoIdleCycle, Explained

-----------------------------------------------------------------------------
(* The theorems *)

\* An idle machine satisfies the invariant ...
LEMMA HInvInit == ASSUME ConfigOK, HInit PROVE HInv
<1>1. log = <<>> /\ Len(log) = 0 /\ DOMAIN log = {} /\ log \in Seq(LogEntry)
  BY DEF HInit
<1>2. /\ count = 0 /\ cur_if = 0 /\ cur_count = 0 /\ fetch_block = 0
      /\ ready = [s \in Slot |-> 0]
  BY DEF HInit, Init
<1>3. Typed
  BY <1>1, <1>2 DEF Typed, ConfigOK
<1>4. BundleLast /\ Scoreboard /\ Blocked /\ NoIdleCycle
  BY <1>1, <1>2 DEF BundleLast, Scoreboard, Blocked, NoIdleCycle
<1>5. BundleCounted
  <2>1. {j \in DOMAIN log : log[j].iff = cur_if} = {}
    BY <1>1
  <2>. QED  BY <1>2, <2>1, FS_EmptySet DEF BundleCounted
<1>6. LegalSchedule
  BY <1>1 DEF LegalSchedule, WidthRespected, OperandsReady, RedirectRespected
<1>. QED  BY <1>3, <1>4, <1>5, <1>6 DEF HInv

\* ... and every instruction keeps it.
LEMMA HInvStep == ASSUME ConfigOK, HInv, [HNext]_<<vars, log>> PROVE HInv'
<1>1. CASE UNCHANGED <<vars, log>>
  <2>1. /\ log' = log /\ count' = count /\ ready' = ready /\ cur_if' = cur_if
        /\ cur_count' = cur_count /\ fetch_block' = fetch_block
    BY <1>1 DEF vars, schedVars
  <2>2. (Typed /\ BundleLast /\ BundleCounted /\ Scoreboard /\ Blocked)'
    BY <2>1
    DEF HInv, Typed, BundleLast, BundleCounted, Scoreboard, Blocked, readyAt,
        flagsReady, resultReady
  <2>3. LegalSchedule'
    BY <2>1 DEF HInv, LegalSchedule, WidthRespected, OperandsReady,
                RedirectRespected, Nearest, FirstUse
  <2>4. NoIdleCycle'
    BY <2>1 DEF HInv, NoIdleCycle, BundleFull, Redirected, Awaited, Nearest, FirstUse
  <2>. QED  BY <2>2, <2>3, <2>4 DEF HInv
<1>2. CASE HNext
  <2>1. PICK d, pen, iff : Placed(d, pen, iff)
    BY <1>2, IssuePlaces
  <2>2. Grown(d, pen, iff)
    BY <2>1, PlacedGrows
  <2>3. Typed'
    BY <2>1, <2>2, BundleStep, ScoreboardStep, BlockedStep DEF Typed, Grown
  <2>4. LegalSchedule'
    BY <2>1, BundleStep, OperandsStep, BlockedStep DEF LegalSchedule
  <2>. QED
    BY <2>1, <2>3, <2>4, BundleStep, ScoreboardStep, BlockedStep, NoIdleStep
    DEF HInv
<1>. QED  BY <1>1, <1>2

\* Every schedule pipe_run_ss computes respects the width, every operand's
\* nearest producer and every redirect.
THEOREM SchedulesAreLegal == ConfigOK /\ HSpec => []LegalSchedule
<1>1. ConfigOK /\ HInit => HInv
  BY HInvInit
<1>2. ConfigOK /\ HInv /\ [HNext]_<<vars, log>> => HInv'
  BY HInvStep
<1>3. HInv => LegalSchedule
  BY DEF HInv
<1>4. ConfigOK => []ConfigOK
  BY DEF ConfigOK
<1>. QED  BY <1>1, <1>2, <1>3, <1>4, PTL DEF HSpec

\* Every instruction pipe_run_ss places is in the first cycle of a legal schedule:
\* its predecessor's, or the next when that bundle is full, or the cycle in which
\* a redirect ends or the nearest producer of an operand can be used.
THEOREM SchedulesAreTight == ConfigOK /\ HSpec => []NoIdleCycle
<1>1. ConfigOK /\ HInit => HInv
  BY HInvInit
<1>2. ConfigOK /\ HInv /\ [HNext]_<<vars, log>> => HInv'
  BY HInvStep
<1>3. HInv => NoIdleCycle
  BY DEF HInv
<1>4. ConfigOK => []ConfigOK
  BY DEF ConfigOK
<1>. QED  BY <1>1, <1>2, <1>3, <1>4, PTL DEF HSpec
=============================================================================
