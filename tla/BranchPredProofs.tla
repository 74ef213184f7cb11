-------------------------- MODULE BranchPredProofs --------------------------
(***************************************************************************)
(* What bpred.c and control_penalty promise, for every table size, every   *)
(* length of the history, every set of branch addresses and every stream   *)
(* of control instructions.                                                *)
(***************************************************************************)
EXTENDS BranchPred, FiniteSetTheorems, TLAPS

\* The addresses of branches and returns, the values of a two-bit counter, and the
\* state of a predictor.
Pcs == CondPcs \cup RetPcs
Counter == 0..3

Predictor ==
    [kind: Kind, table: [Index -> Counter], gtable: [Index -> Counter],
     chooser: [Index -> Counter],
     chooser3: [Index -> [s: Counter, b: Counter, g: Counter]],
     ghist: Int, btb: [Index -> [tag: Int, target: Int]]]

\* The type invariant.
Typed ==
    /\ bp \in [Kinds -> Predictor] /\ \A k \in Kinds : bp[k].kind = k
    /\ mispredicts \in [Kinds -> Nat] /\ penalty \in [Kinds -> Nat]
    /\ last_target \in [Pcs -> Int]
    /\ outcomes \in [CondPcs -> Seq(BOOLEAN)]
    /\ fallthroughs \in Nat

-----------------------------------------------------------------------------
(* Tables and counters *)

\* Every way of indexing a table lands in it, except XorMask, whose value no
\* proof needs.
LEMMA IndexType ==
    /\ Entries \in Nat /\ Entries >= 1
    /\ \A pc \in Nat : bimodal_idx(pc) \in Index
    /\ \A n \in Int : n % Entries \in Index
<1>1. Entries \in Nat /\ Entries >= 1
  BY PowersAssumption DEF Entries
<1>. QED  BY <1>1 DEF Index, bimodal_idx, pc_index

\* Addresses are natural numbers.
LEMMA PcsAreNat ==
    (\A pc \in Pcs : pc \in Nat) /\ (\A target \in RetTargets : target \in Nat)
  BY BpAssumption DEF Pcs

\* A two-bit counter saturates.
LEMMA SatType ==
    ASSUME NEW c \in Counter, NEW up
    PROVE  sat_update(c, up) \in Counter
  BY DEF sat_update, Counter

\* Shifting an outcome into the global history.
LEMMA HistoryType ==
    ASSUME NEW p, p.ghist \in Int, NEW taken
    PROVE  ShiftHistory(p, taken) \in Int
<1>1. (2 * p.ghist + (IF taken THEN 1 ELSE 0)) \in Int
  OBVIOUS
<1>. QED  BY <1>1, PowersAssumption DEF ShiftHistory

\* A table stays a table when one counter of it is updated.
LEMMA TableType ==
    ASSUME NEW t \in [Index -> Counter], NEW i, NEW up
    PROVE  [t EXCEPT ![i] = sat_update(@, up)] \in [Index -> Counter]
  BY SatType

\* The choosers leave everything but themselves alone.
LEMMA ChooseFacts ==
    ASSUME NEW p \in Predictor, NEW pc, NEW taken
    PROVE  LET q == Choose(p, pc, taken)
           IN  /\ q \in Predictor /\ q.kind = p.kind /\ q.btb = p.btb
               /\ q.table = p.table /\ q.gtable = p.gtable /\ q.ghist = p.ghist
<1>. DEFINE up == gshare_pred(p, pc) = taken
            i == chooser_idx(p)
<1>1. [p.chooser EXCEPT ![i] = sat_update(@, up)] \in [Index -> Counter]
  BY TableType DEF Predictor
<1>2. Choose(p, pc, taken) \in
        {p, [p EXCEPT !.chooser = [p.chooser EXCEPT ![i] = sat_update(@, up)]]}
  BY DEF Choose, Predictor
<1>. HIDE DEF up, i
<1>. QED  BY <1>1, <1>2 DEF Predictor

\* Scoring a prediction moves the choosers only.
LEMMA ScoreFacts ==
    ASSUME NEW p \in Predictor, NEW pc, NEW taken
    PROVE  LET q == Score(p, pc, taken)
           IN  /\ q \in Predictor /\ q.kind = p.kind /\ q.btb = p.btb
               /\ q.table = p.table /\ q.gtable = p.gtable /\ q.ghist = p.ghist
<1>. DEFINE i == bimodal_idx(pc)
            bu == bimodal_pred(p, pc) = taken
            gu == gshare_pred(p, pc) = taken
            c3 == [p.chooser3 EXCEPT ![i] =
                     [s |-> sat_update(@.s, ~taken), b |-> sat_update(@.b, bu),
                      g |-> sat_update(@.g, gu)]]
<1>1. c3 \in [Index -> [s: Counter, b: Counter, g: Counter]]
  BY SatType DEF Predictor
<1>2. Score(p, pc, taken) = [p EXCEPT !.chooser3 = c3]
  BY DEF Score, Predictor
<1>. HIDE DEF c3
<1>. QED  BY <1>1, <1>2 DEF Predictor

\* Both halves of a tournament learn, and nothing else does.
LEMMA TrainFacts ==
    ASSUME NEW p \in Predictor, NEW pc, NEW taken
    PROVE  LET q == TrainHalves(p, pc, taken)
           IN  /\ q \in Predictor /\ q.kind = p.kind /\ q.btb = p.btb
               /\ q.chooser = p.chooser
               /\ q.table = [p.table EXCEPT ![bimodal_idx(pc)] = sat_update(@, taken)]
               /\ q.gtable = [p.gtable EXCEPT ![gshare_idx(p, pc)] = sat_update(@, taken)]
               /\ q.ghist = ShiftHistory(p, taken)
<1>. DEFINE t == [p.table EXCEPT ![bimodal_idx(pc)] = sat_update(@, taken)]
            g == [p.gtable EXCEPT ![gshare_idx(p, pc)] = sat_update(@, taken)]
            h == ShiftHistory(p, taken)
<1>1. t \in [Index -> Counter] /\ g \in [Index -> Counter]
  BY TableType DEF Predictor
<1>2. h \in Int
  BY HistoryType DEF Predictor
<1>3. TrainHalves(p, pc, taken) = [p EXCEPT !.table = t, !.gtable = g, !.ghist = h]
  BY DEF TrainHalves, Predictor
<1>. HIDE DEF t, g, h
<1>4. LET q == TrainHalves(p, pc, taken)
      IN  /\ q \in Predictor /\ q.kind = p.kind /\ q.btb = p.btb
          /\ q.chooser = p.chooser /\ q.table = t /\ q.gtable = g /\ q.ghist = h
  BY <1>1, <1>2, <1>3 DEF Predictor
<1>. QED  BY <1>4 DEF t, g, h

-----------------------------------------------------------------------------
(* bp_update and btb_update *)

\* What each kind learns from one conditional branch.
Updated(p, pc, taken, q) ==
    /\ q \in Predictor /\ q.kind = p.kind /\ q.btb = p.btb
    /\ p.kind \in {"bimodal2", "tournament", "tournament3"} =>
         q.table = [p.table EXCEPT ![bimodal_idx(pc)] = sat_update(@, taken)]
    /\ p.kind = "gshare" =>
         q.table = [p.table EXCEPT ![gshare_idx(p, pc)] = sat_update(@, taken)]
    /\ p.kind \in {"tournament", "tournament3"} =>
         q.gtable = [p.gtable EXCEPT ![gshare_idx(p, pc)] = sat_update(@, taken)]
    /\ p.kind \in {"gshare", "tournament", "tournament3"} =>
         q.ghist = ShiftHistory(p, taken)
    /\ p.kind = "tournament" => q.chooser = Choose(p, pc, taken).chooser

\* bp_update, field by field.
LEMMA UpdateFacts ==
    ASSUME NEW p \in Predictor, NEW pc, NEW taken
    PROVE  Updated(p, pc, taken, bp_update(p, pc, taken))
<1>. DEFINE q == bp_update(p, pc, taken)
            bt == [p.table EXCEPT ![bimodal_idx(pc)] = sat_update(@, taken)]
            gt == [p.table EXCEPT ![gshare_idx(p, pc)] = sat_update(@, taken)]
            gg == [p.gtable EXCEPT ![gshare_idx(p, pc)] = sat_update(@, taken)]
            h == ShiftHistory(p, taken)
<1>1. bt \in [Index -> Counter] /\ gt \in [Index -> Counter]
  BY TableType DEF Predictor
<1>2. h \in Int
  BY HistoryType DEF Predictor
<1>3. p.kind \in Kind
  BY DEF Predictor
<1>4. CASE p.kind \in {"static", "none"}
  BY <1>4 DEF bp_update, Updated
<1>5. CASE p.kind = "bimodal1"
  <2>. DEFINE t1 == [p.table EXCEPT ![bimodal_idx(pc)] = IF taken THEN 1 ELSE 0]
  <2>1. t1 \in [Index -> Counter]
    <3>1. p.table \in [Index -> Counter] /\ (IF taken THEN 1 ELSE 0) \in Counter
      BY DEF Predictor, Counter
    <3>. QED  BY <3>1
  <2>2. q = [p EXCEPT !.table = t1]
    BY <1>5 DEF bp_update, Predictor
  <2>. HIDE DEF t1, q
  <2>3. q \in Predictor /\ q.kind = p.kind /\ q.btb = p.btb
    BY <2>1, <2>2 DEF Predictor
  <2>. QED  BY <1>5, <2>3 DEF q, Updated
<1>6. CASE p.kind = "bimodal2"
  <2>1. q = [p EXCEPT !.table = bt]
    BY <1>6 DEF bp_update, Predictor
  <2>. HIDE DEF bt, q
  <2>2. q \in Predictor /\ q.kind = p.kind /\ q.btb = p.btb /\ q.table = bt
    BY <1>1, <2>1 DEF Predictor
  <2>. QED  BY <1>6, <2>2 DEF q, Updated, bt
<1>7. CASE p.kind = "gshare"
  <2>1. q = [p EXCEPT !.table = gt, !.ghist = h]
    BY <1>7 DEF bp_update, Predictor
  <2>. HIDE DEF gt, h, q
  <2>2. /\ q \in Predictor /\ q.kind = p.kind /\ q.btb = p.btb
        /\ q.table = gt /\ q.ghist = h
    BY <1>1, <1>2, <2>1 DEF Predictor
  <2>. QED  BY <1>7, <2>2 DEF q, Updated, gt, h
<1>8. ASSUME NEW c \in Predictor, q = TrainHalves(c, pc, taken),
             c.kind = p.kind, c.btb = p.btb, c.table = p.table,
             c.gtable = p.gtable, c.ghist = p.ghist
      PROVE  /\ q \in Predictor /\ q.kind = p.kind /\ q.btb = p.btb
             /\ q.chooser = c.chooser /\ q.table = bt /\ q.gtable = gg
             /\ q.ghist = h
  <2>1. gshare_idx(c, pc) = gshare_idx(p, pc) /\ ShiftHistory(c, taken) = h
    BY <1>8 DEF gshare_idx, ShiftHistory
  <2>. HIDE DEF q, h
  <2>. QED  BY <1>8, <2>1, TrainFacts
<1>9. CASE p.kind = "tournament"
  <2>1. q = TrainHalves(Choose(p, pc, taken), pc, taken)
    BY <1>9 DEF bp_update
  <2>. HIDE DEF q, bt, gg, h
  <2>2. /\ q \in Predictor /\ q.kind = p.kind /\ q.btb = p.btb
        /\ q.chooser = Choose(p, pc, taken).chooser
        /\ q.table = bt /\ q.gtable = gg /\ q.ghist = h
    BY <1>8, <2>1, ChooseFacts
  <2>. QED  BY <1>9, <2>2 DEF q, Updated, bt, gg, h
<1>10. CASE p.kind = "tournament3"
  <2>1. q = TrainHalves(Score(p, pc, taken), pc, taken)
    BY <1>10 DEF bp_update
  <2>. HIDE DEF q, bt, gg, h
  <2>2. /\ q \in Predictor /\ q.kind = p.kind /\ q.btb = p.btb
        /\ q.table = bt /\ q.gtable = gg /\ q.ghist = h
    BY <1>8, <2>1, ScoreFacts
  <2>. QED  BY <1>10, <2>2 DEF q, Updated, bt, gg, h
<1>. QED  BY <1>3, <1>4, <1>5, <1>6, <1>7, <1>9, <1>10 DEF Kind

\* The instruction a step executes.
Executable(d) ==
    /\ d.pc \in Pcs /\ d.target \in Nat /\ d.cond \in BOOLEAN
    /\ d.cond => d.pc \in CondPcs

\* Every step executes a control instruction of the program.
LEMMA NextExecutes == ASSUME Next PROVE \E d : Executable(d) /\ Control(d)
<1>1. CASE \E pc \in CondPcs, taken \in BOOLEAN : Conditional(pc, taken)
  <2>1. PICK pc \in CondPcs, taken \in BOOLEAN : Conditional(pc, taken)
    BY <1>1
  <2>. DEFINE d == [pc |-> pc, cond |-> TRUE,
                    target |-> IF taken THEN CondTarget(pc) ELSE pc + 4]
  <2>2. d.pc = pc /\ d.cond = TRUE /\ d.target \in Nat /\ pc \in Pcs
    BY PcsAreNat DEF CondTarget, Pcs
  <2>3. Control(d)
    BY <2>1 DEF Conditional
  <2>. HIDE DEF d
  <2>. QED  BY <2>2, <2>3 DEF Executable
<1>2. CASE \E pc \in RetPcs, target \in RetTargets : Return(pc, target)
  <2>1. PICK pc \in RetPcs, target \in RetTargets : Return(pc, target)
    BY <1>2
  <2>. DEFINE d == [pc |-> pc, cond |-> FALSE, target |-> target]
  <2>2. d.pc = pc /\ d.cond = FALSE /\ d.target \in Nat /\ pc \in Pcs
    BY PcsAreNat DEF Pcs
  <2>3. Control(d)
    BY <2>1 DEF Return
  <2>. HIDE DEF d
  <2>. QED  BY <2>2, <2>3 DEF Executable
<1>. QED  BY <1>1, <1>2 DEF Next

\* What control_penalty leaves behind: bp_update touches the tables of a
\* conditional branch, btb_update the one entry of a taken instruction.
Learned(p, d, q) ==
    LET u == bp_update(p, d.pc, taken_control(d))
        i == pc_index(d.pc) % Entries
    IN  /\ q \in Predictor /\ q.kind = p.kind
        /\ ~d.cond => /\ q.table = p.table /\ q.gtable = p.gtable
                      /\ q.ghist = p.ghist /\ q.chooser = p.chooser
        /\ d.cond => /\ q.table = u.table /\ q.gtable = u.gtable
                     /\ q.ghist = u.ghist /\ q.chooser = u.chooser
        /\ q.btb = IF taken_control(d) /\ p.kind # "none"
                   THEN [p.btb EXCEPT ![i] = [tag |-> d.pc, target |-> d.target]]
                   ELSE p.btb

\* Learning from an executed instruction, field by field.
LEMMA LearnFacts ==
    ASSUME NEW p \in Predictor, NEW d, Executable(d)
    PROVE  Learned(p, d, Learn(p, d))
<1>. DEFINE q == Learn(p, d)
            u == bp_update(p, d.pc, taken_control(d))
            i == pc_index(d.pc) % Entries
            r == IF d.cond THEN u ELSE p
            e == [tag |-> d.pc, target |-> d.target]
<1>1. u \in Predictor /\ u.kind = p.kind /\ u.btb = p.btb
  <2>1. Updated(p, d.pc, taken_control(d), bp_update(p, d.pc, taken_control(d)))
    BY UpdateFacts
  <2>. QED  BY <2>1 DEF Updated
<1>2. q = IF taken_control(d) /\ p.kind # "none"
          THEN [r EXCEPT !.btb[i] = e] ELSE r
  BY DEF Learn, btb_update
<1>. HIDE DEF u, q
<1>3. r \in Predictor /\ r.kind = p.kind /\ r.btb = p.btb
  BY <1>1
<1>. HIDE DEF r
<1>4. e \in [tag: Int, target: Int]
  <2>1. d.pc \in Pcs /\ d.target \in Nat
    BY DEF Executable
  <2>2. d.pc \in Int /\ d.target \in Int
    BY <2>1, PcsAreNat
  <2>. QED  BY <2>2
<1>. HIDE DEF e, i
<1>5. [p.btb EXCEPT ![i] = e] \in [Index -> [tag: Int, target: Int]]
  BY <1>4 DEF Predictor
<1>6. [r EXCEPT !.btb[i] = e] = [r EXCEPT !.btb = [p.btb EXCEPT ![i] = e]]
  BY <1>3 DEF Predictor
<1>7. /\ q \in Predictor /\ q.kind = p.kind
      /\ q.table = r.table /\ q.gtable = r.gtable /\ q.ghist = r.ghist
      /\ q.chooser = r.chooser
      /\ q.btb = IF taken_control(d) /\ p.kind # "none"
                 THEN [p.btb EXCEPT ![i] = e] ELSE p.btb
  BY <1>2, <1>3, <1>5, <1>6 DEF Predictor
<1>8. d.cond \in BOOLEAN
  BY DEF Executable
<1>. QED  BY <1>7, <1>8 DEF Learned, q, u, r, e, i

-----------------------------------------------------------------------------
(* Type correctness *)

\* The recorded outcomes of a branch shift by one and keep the newest four.
Shifted(t, o, n) ==
    /\ n \in Seq(BOOLEAN) /\ n[1] = t
    /\ Len(n) = IF Len(o) < 4 THEN Len(o) + 1 ELSE 4
    /\ \A i \in 1..3 : i <= Len(o) => n[i + 1] = o[i]

\* The history of outcomes keeps the newest and at most four.
LEMMA NewestFacts ==
    ASSUME NEW t \in BOOLEAN, NEW o \in Seq(BOOLEAN)
    PROVE  Shifted(t, o, Newest(4, <<t>> \o o))
<1>. DEFINE s == <<t>> \o o
            m == IF Len(s) < 4 THEN Len(s) ELSE 4
            n == SubSeq(s, 1, m)
<1>1. /\ s \in Seq(BOOLEAN) /\ Len(s) = Len(o) + 1 /\ s[1] = t
      /\ \A i \in 1..Len(o) : s[i + 1] = o[i]
  OBVIOUS
<1>. HIDE DEF s
<1>2. m \in Nat /\ m >= 1 /\ m <= Len(s) /\ m <= 4
  BY <1>1
<1>3. m = IF Len(o) < 4 THEN Len(o) + 1 ELSE 4
  BY <1>1
<1>. HIDE DEF m
<1>4. /\ n \in Seq(BOOLEAN) /\ Len(n) = m
      /\ \A i \in 1..m : n[i] = s[i]
  BY <1>1, <1>2
<1>5. n = Newest(4, <<t>> \o o)
  BY DEF Newest, s, m
<1>. HIDE DEF n
<1>6. \A i \in 1..3 : i <= Len(o) => n[i + 1] = o[i]
  <2>1. SUFFICES ASSUME NEW i \in 1..3, i <= Len(o) PROVE n[i + 1] = o[i]
    OBVIOUS
  <2>2. i \in 1..Len(o) /\ i + 1 \in 1..m
    BY <1>3, <2>1
  <2>. QED  BY <1>1, <1>4, <2>2
<1>7. n[1] = t
  BY <1>1, <1>2, <1>4
<1>8. Len(n) = IF Len(o) < 4 THEN Len(o) + 1 ELSE 4
  BY <1>3, <1>4
<1>. QED  BY <1>4, <1>5, <1>6, <1>7, <1>8 DEF Shifted

\* Predictors are initialised with their types.
LEMMA TypedInit == ASSUME Init PROVE Typed
<1>1. ASSUME NEW k \in Kinds PROVE bp_init(k) \in Predictor /\ bp_init(k).kind = k
  <2>1. k \in Kind
    BY BpAssumption
  <2>. DEFINE t == [i \in Index |-> IF k \in {"bimodal1", "static", "none"} THEN 0 ELSE 2]
  <2>2. t \in [Index -> Counter]
    BY DEF Counter
  <2>3. /\ [i \in Index |-> 2] \in [Index -> Counter]
        /\ [i \in Index |-> 1] \in [Index -> Counter]
        /\ [i \in Index |-> [s |-> 2, b |-> 1, g |-> 1]]
              \in [Index -> [s: Counter, b: Counter, g: Counter]]
    BY DEF Counter
  <2>4. [i \in Index |-> [tag |-> None, target |-> None]]
            \in [Index -> [tag: Int, target: Int]]
    BY DEF None
  <2>. QED  BY <2>1, <2>2, <2>3, <2>4 DEF bp_init, Predictor
<1>2. bp \in [Kinds -> Predictor] /\ \A k \in Kinds : bp[k].kind = k
  BY <1>1 DEF Init
<1>3. last_target \in [Pcs -> Int] /\ outcomes \in [CondPcs -> Seq(BOOLEAN)]
  BY DEF Init, Pcs, None
<1>. QED  BY <1>2, <1>3 DEF Init, Typed

\* One control instruction keeps the types, and teaches each predictor.
LEMMA TypedStep ==
    ASSUME Typed, NEW d, Executable(d), Control(d)
    PROVE  Typed' /\ \A k \in Kinds : Learned(bp[k], d, bp'[k])
<1>1. \A k \in Kinds : Learned(bp[k], d, bp'[k])
  <2>1. \A k \in Kinds : bp[k] \in Predictor /\ bp'[k] = Learn(bp[k], d)
    BY DEF Typed, Control
  <2>. QED  BY <2>1, LearnFacts
<1>2. bp' \in [Kinds -> Predictor] /\ \A k \in Kinds : bp'[k].kind = k
  <2>1. \A k \in Kinds : bp'[k] \in Predictor /\ bp'[k].kind = k
    BY <1>1 DEF Learned, Typed
  <2>. QED  BY <2>1 DEF Control
<1>3. mispredicts' \in [Kinds -> Nat] /\ penalty' \in [Kinds -> Nat]
  BY DEF Typed, Control
<1>4. fallthroughs' \in Nat
  BY DEF Typed, Control
<1>5. last_target' \in [Pcs -> Int]
  <2>1. d.target \in Int
    BY DEF Executable
  <2>. QED  BY <2>1 DEF Typed, Control
<1>6. outcomes' \in [CondPcs -> Seq(BOOLEAN)]
  <2>1. CASE ~d.cond
    BY <2>1 DEF Typed, Control
  <2>2. CASE d.cond
    <3>1. taken_control(d) \in BOOLEAN
      BY DEF taken_control
    <3>2. d.pc \in CondPcs /\ outcomes[d.pc] \in Seq(BOOLEAN)
      BY <2>2 DEF Typed, Executable
    <3>3. Newest(4, <<taken_control(d)>> \o outcomes[d.pc]) \in Seq(BOOLEAN)
      BY <3>1, <3>2, NewestFacts DEF Shifted
    <3>. QED  BY <2>2, <3>3 DEF Typed, Control
  <2>. QED  BY <2>1, <2>2
<1>. QED  BY <1>1, <1>2, <1>3, <1>4, <1>5, <1>6 DEF Typed

\* The predictors, the counters and the histories keep their types: every
\* saturating counter of bpred.c stays within its two bits.
THEOREM TypeCorrect == Spec => []Typed
<1>1. Init => Typed
  BY TypedInit
<1>2. Typed /\ [Next]_vars => Typed'
  <2>1. ASSUME Typed, Next PROVE Typed'
    BY <2>1, NextExecutes, TypedStep
  <2>2. ASSUME Typed, UNCHANGED vars PROVE Typed'
    BY <2>2 DEF Typed, vars
  <2>. QED  BY <2>1, <2>2
<1>. QED  BY <1>1, <1>2, PTL DEF Spec

-----------------------------------------------------------------------------
(* The branch target buffer *)

\* A valid entry belongs to a branch that indexes it and holds where that
\* branch last went; the predictor "none" has no valid entry.
EntryFresh(k, i) ==
    LET e == bp[k].btb[i]
    IN  \/ e.tag = None
        \/ /\ k # "none" /\ e.tag \in Pcs /\ pc_index(e.tag) % Entries = i
           /\ e.target = last_target[e.tag]

\* Every entry of every BTB is fresh: empty, or the latest target of its branch.
BtbInv == \A k \in Kinds, i \in Index : EntryFresh(k, i)

\* An empty BTB is fresh.
LEMMA BtbInit == ASSUME Init PROVE BtbInv
<1>1. \A k \in Kinds, i \in Index : bp[k].btb[i].tag = None
  BY DEF Init, bp_init
<1>. QED  BY <1>1 DEF BtbInv, EntryFresh

\* An entry is written with the target of the branch it is tagged with.
LEMMA BtbStep ==
    ASSUME Typed, BtbInv, NEW d, Executable(d), Control(d)
    PROVE  BtbInv'
<1>1. SUFFICES ASSUME NEW k \in Kinds, NEW i \in Index
               PROVE  EntryFresh(k, i)'
  BY DEF BtbInv
<1>. DEFINE j == pc_index(d.pc) % Entries
            e == bp[k].btb[i]
<1>2. /\ bp[k] \in Predictor /\ bp[k].kind = k /\ Learned(bp[k], d, bp'[k])
      /\ EntryFresh(k, i)
  BY TypedStep DEF Typed, BtbInv
<1>3. d.pc \in Pcs /\ last_target \in [Pcs -> Int] /\ bp[k].btb \in [Index -> [tag: Int, target: Int]]
  BY <1>2 DEF Executable, Typed, Predictor
<1>4. bp'[k].btb = IF taken_control(d) /\ k # "none"
                   THEN [bp[k].btb EXCEPT ![j] = [tag |-> d.pc, target |-> d.target]]
                   ELSE bp[k].btb
  BY <1>2 DEF Learned
<1>5. last_target' = IF taken_control(d)
                     THEN [last_target EXCEPT ![d.pc] = d.target] ELSE last_target
  BY DEF Control
<1>6. CASE ~taken_control(d)
  BY <1>2, <1>4, <1>5, <1>6 DEF EntryFresh
<1>7. CASE taken_control(d) /\ k = "none"
  BY <1>2, <1>4, <1>7 DEF EntryFresh
<1>8. CASE taken_control(d) /\ k # "none" /\ i = j
  <2>1. bp'[k].btb[i] = [tag |-> d.pc, target |-> d.target]
    BY <1>3, <1>4, <1>8
  <2>2. last_target'[d.pc] = d.target
    BY <1>3, <1>5, <1>8
  <2>. QED  BY <1>3, <1>8, <2>1, <2>2 DEF EntryFresh
<1>9. CASE taken_control(d) /\ k # "none" /\ i # j
  <2>1. bp'[k].btb[i] = e
    BY <1>3, <1>4, <1>9
  <2>2. e.tag # None => e.tag # d.pc
    BY <1>2, <1>9 DEF EntryFresh
  <2>3. e.tag # None => last_target'[e.tag] = last_target[e.tag]
    BY <1>2, <1>3, <1>5, <1>9, <2>2 DEF EntryFresh
  <2>. QED  BY <1>2, <2>1, <2>3 DEF EntryFresh
<1>. QED  BY <1>6, <1>7, <1>8, <1>9

\* A BTB hit is never stale, whatever branches shared the entry since: the
\* target btb_lookup returns is where this branch went when last taken.
THEOREM BtbNeverStale == Spec => []BtbFresh
<1>1. Init => Typed /\ BtbInv
  BY TypedInit, BtbInit
<1>2. Typed /\ BtbInv /\ [Next]_vars => (Typed /\ BtbInv)'
  <2>1. ASSUME Typed, BtbInv, Next PROVE (Typed /\ BtbInv)'
    BY <2>1, NextExecutes, TypedStep, BtbStep
  <2>2. ASSUME Typed, BtbInv, UNCHANGED vars PROVE (Typed /\ BtbInv)'
    BY <2>2 DEF Typed, BtbInv, EntryFresh, vars
  <2>. QED  BY <2>1, <2>2
<1>3. Typed /\ BtbInv => BtbFresh
  <2>1. SUFFICES ASSUME Typed, BtbInv, NEW k \in Kinds, NEW pc \in Pcs
                 PROVE  btb_lookup(bp[k], pc) \in {None, last_target[pc]}
    BY DEF BtbFresh, Pcs
  <2>2. pc \in Nat /\ pc # None
    BY PcsAreNat DEF None
  <2>3. EntryFresh(k, pc_index(pc) % Entries)
    BY <2>1, <2>2, IndexType DEF BtbInv, bimodal_idx
  <2>. QED  BY <2>2, <2>3 DEF EntryFresh, btb_lookup
<1>. QED  BY <1>1, <1>2, <1>3, PTL DEF Spec

-----------------------------------------------------------------------------
(* The halves of the tournaments *)

\* The halves start as the predictors they are halves of.
LEMMA HalvesInit ==
    ASSUME {"bimodal2", "gshare"} \subseteq Kinds, Init
    PROVE  HalvesTrainAlike
  BY DEF Init, bp_init, HalvesTrainAlike

\* The halves learn every outcome as those predictors do.
LEMMA HalvesStep ==
    ASSUME {"bimodal2", "gshare"} \subseteq Kinds, Typed, HalvesTrainAlike,
           NEW d, Executable(d), Control(d)
    PROVE  HalvesTrainAlike'
<1>1. SUFFICES ASSUME NEW t \in {"tournament", "tournament3"} \cap Kinds
               PROVE  /\ bp'[t].table = bp'["bimodal2"].table
                      /\ bp'[t].gtable = bp'["gshare"].table
                      /\ bp'[t].ghist = bp'["gshare"].ghist
  BY DEF HalvesTrainAlike
<1>. DEFINE pt == bp[t]
            pb == bp["bimodal2"]
            pg == bp["gshare"]
            taken == taken_control(d)
<1>2. /\ pt.kind = t /\ Learned(pt, d, bp'[t])
      /\ pb.kind = "bimodal2" /\ Learned(pb, d, bp'["bimodal2"])
      /\ pg.kind = "gshare" /\ Learned(pg, d, bp'["gshare"])
      /\ pt \in Predictor /\ pb \in Predictor /\ pg \in Predictor
  BY TypedStep DEF Typed
<1>3. /\ pt.table = pb.table /\ pt.gtable = pg.table /\ pt.ghist = pg.ghist
  BY DEF HalvesTrainAlike
<1>4. CASE ~d.cond
  BY <1>2, <1>3, <1>4 DEF Learned
<1>5. CASE d.cond
  <2>1. /\ Updated(pt, d.pc, taken, bp_update(pt, d.pc, taken))
        /\ Updated(pb, d.pc, taken, bp_update(pb, d.pc, taken))
        /\ Updated(pg, d.pc, taken, bp_update(pg, d.pc, taken))
    BY <1>2, UpdateFacts
  <2>2. gshare_idx(pt, d.pc) = gshare_idx(pg, d.pc)
        /\ ShiftHistory(pt, taken) = ShiftHistory(pg, taken)
    BY <1>3 DEF gshare_idx, ShiftHistory
  <2>3. /\ bp'[t].table = bp_update(pt, d.pc, taken).table
        /\ bp'[t].gtable = bp_update(pt, d.pc, taken).gtable
        /\ bp'[t].ghist = bp_update(pt, d.pc, taken).ghist
        /\ bp'["bimodal2"].table = bp_update(pb, d.pc, taken).table
        /\ bp'["gshare"].table = bp_update(pg, d.pc, taken).table
        /\ bp'["gshare"].ghist = bp_update(pg, d.pc, taken).ghist
    BY <1>2, <1>5 DEF Learned
  <2>. HIDE DEF pt, pb, pg, taken
  <2>4. bp'[t].table = bp'["bimodal2"].table
    BY <1>2, <1>3, <2>1, <2>3 DEF Updated
  <2>5. bp'[t].gtable = bp'["gshare"].table
    BY <1>2, <1>3, <2>1, <2>2, <2>3 DEF Updated
  <2>6. bp'[t].ghist = bp'["gshare"].ghist
    BY <1>2, <1>3, <2>1, <2>2, <2>3 DEF Updated
  <2>. QED  BY <2>4, <2>5, <2>6
<1>6. d.cond \in BOOLEAN
  BY DEF Executable
<1>. QED  BY <1>4, <1>5, <1>6

\* Where the plain predictors run beside the tournaments, each half of both
\* tournaments is always in the state the predictor alone is in.
THEOREM HalvesAlike ==
    {"bimodal2", "gshare"} \subseteq Kinds /\ Spec => []HalvesTrainAlike
<1>. DEFINE H == {"bimodal2", "gshare"} \subseteq Kinds
<1>1. H /\ Init => Typed /\ HalvesTrainAlike
  BY TypedInit, HalvesInit
<1>2. H /\ Typed /\ HalvesTrainAlike /\ [Next]_vars => (Typed /\ HalvesTrainAlike)'
  <2>1. ASSUME H, Typed, HalvesTrainAlike, Next PROVE (Typed /\ HalvesTrainAlike)'
    BY <2>1, NextExecutes, TypedStep, HalvesStep
  <2>2. ASSUME Typed, HalvesTrainAlike, UNCHANGED vars
        PROVE  (Typed /\ HalvesTrainAlike)'
    BY <2>2 DEF Typed, HalvesTrainAlike, vars
  <2>. QED  BY <2>1, <2>2
<1>3. H => []H
  OBVIOUS
<1>. QED  BY <1>1, <1>2, <1>3, PTL DEF Spec

-----------------------------------------------------------------------------
(* Static prediction *)

\* Backward taken pays no more than always stalling, branch by branch.
LEMMA StaticStep ==
    ASSUME {"static", "none"} \subseteq Kinds, Typed, StaticNoWorseThanBaseline,
           NEW d, Executable(d), Control(d)
    PROVE  StaticNoWorseThanBaseline'
<1>. DEFINE s == IF Mispredicted(bp["static"], d) THEN 2 ELSE 0
            n == IF Mispredicted(bp["none"], d) THEN 2 ELSE 0
            f == IF ~d.cond /\ ~taken_control(d) THEN 1 ELSE 0
<1>1. /\ penalty'["static"] = penalty["static"] + s
      /\ penalty'["none"] = penalty["none"] + n
      /\ fallthroughs' = fallthroughs + f
  BY DEF Control
<1>2. bp["static"].kind = "static" /\ bp["none"].kind = "none" /\ d.cond \in BOOLEAN
  BY DEF Typed, Executable
<1>3. s <= n + 2 * f
  <2>1. bp_predict(bp["static"], d.pc) = FALSE
    BY <1>2 DEF bp_predict
  <2>2. Mispredicted(bp["none"], d) <=> taken_control(d)
    BY <1>2 DEF Mispredicted, taken_control
  <2>3. ~taken_control(d) /\ d.cond => ~Mispredicted(bp["static"], d)
    BY <1>2, <2>1 DEF Mispredicted, pred_taken, taken_control
  <2>. QED  BY <1>2, <2>2, <2>3
<1>4. s \in Nat /\ n \in Nat /\ f \in Nat
  OBVIOUS
<1>5. penalty["static"] \in Nat /\ penalty["none"] \in Nat /\ fallthroughs \in Nat
  BY DEF Typed
<1>. HIDE DEF s, n, f
<1>. QED  BY <1>1, <1>3, <1>4, <1>5 DEF StaticNoWorseThanBaseline

\* Static prediction with a BTB never charges more than the baseline, but for
\* the unconditional instructions that fall through.
THEOREM StaticNeverWorse ==
    {"static", "none"} \subseteq Kinds /\ Spec => []StaticNoWorseThanBaseline
<1>. DEFINE H == {"static", "none"} \subseteq Kinds
            I == Typed /\ StaticNoWorseThanBaseline
<1>1. H /\ Init => I
  BY TypedInit DEF Init, StaticNoWorseThanBaseline
<1>2. H /\ I /\ [Next]_vars => I'
  <2>1. ASSUME H, I, Next PROVE I'
    BY <2>1, NextExecutes, TypedStep, StaticStep
  <2>2. ASSUME I, UNCHANGED vars PROVE I'
    BY <2>2 DEF Typed, StaticNoWorseThanBaseline, vars
  <2>. QED  BY <2>1, <2>2
<1>3. H => []H
  OBVIOUS
<1>. QED  BY <1>1, <1>2, <1>3, PTL DEF Spec

-----------------------------------------------------------------------------
(* Two-bit hysteresis *)

\* What the last outcomes of a branch, newest first, say of its own counter.
Settled(c, o) ==
    /\ Len(o) <= 4
    /\ Len(o) >= 1 => (o[1] => c >= 1) /\ (~o[1] => c <= 2)
    /\ Len(o) >= 2 => (o[1] /\ o[2] => c >= 2) /\ (~o[1] /\ ~o[2] => c <= 1)
    /\ Len(o) >= 3 => /\ o[1] /\ o[2] /\ o[3] => c = 3
                      /\ ~o[1] /\ ~o[2] /\ ~o[3] => c = 0
    /\ Len(o) = 4 => /\ ~o[1] /\ o[2] /\ o[3] /\ o[4] => c >= 2
                     /\ o[1] /\ ~o[2] /\ ~o[3] /\ ~o[4] => c <= 1

\* The counter of a branch that shares its entry with none reflects its outcomes.
CounterSettled(pc) ==
    Unaliased(pc) => Settled(bp["bimodal2"].table[bimodal_idx(pc)], outcomes[pc])

CounterInv == \A pc \in CondPcs : CounterSettled(pc)

\* One outcome moves a settled counter to a settled counter.
LEMMA SettledStep ==
    ASSUME NEW c \in Counter, NEW o \in Seq(BOOLEAN), NEW t \in BOOLEAN, NEW n,
           Settled(c, o), Shifted(t, o, n)
    PROVE  Settled(sat_update(c, t), n)
<1>. DEFINE v == sat_update(c, t)
<1>1. /\ n[1] = t /\ Len(o) \in Nat /\ Len(o) <= 4
      /\ Len(n) = IF Len(o) < 4 THEN Len(o) + 1 ELSE 4
      /\ Len(o) >= 1 => n[2] = o[1]
      /\ Len(o) >= 2 => n[3] = o[2]
      /\ Len(o) >= 3 => n[4] = o[3]
  BY DEF Shifted, Settled
<1>2. /\ c \in {0, 1, 2, 3}
      /\ v = IF t THEN (IF c < 3 THEN c + 1 ELSE c) ELSE (IF c > 0 THEN c - 1 ELSE c)
  BY DEF sat_update, Counter
<1>3. /\ Len(o) >= 1 => o[1] \in BOOLEAN
      /\ Len(o) >= 2 => o[2] \in BOOLEAN
      /\ Len(o) >= 3 => o[3] \in BOOLEAN
  OBVIOUS
<1>. HIDE DEF v
<1>4. Len(n) <= 4 /\ (t => v >= 1) /\ (~t => v <= 2)
  BY <1>1, <1>2
<1>5. Len(n) >= 2 => (n[1] /\ n[2] => v >= 2) /\ (~n[1] /\ ~n[2] => v <= 1)
  BY <1>1, <1>2, <1>3 DEF Settled
<1>6. Len(n) >= 3 => /\ n[1] /\ n[2] /\ n[3] => v = 3
                     /\ ~n[1] /\ ~n[2] /\ ~n[3] => v = 0
  BY <1>1, <1>2, <1>3 DEF Settled
<1>7. Len(n) = 4 => /\ ~n[1] /\ n[2] /\ n[3] /\ n[4] => v >= 2
                    /\ n[1] /\ ~n[2] /\ ~n[3] /\ ~n[4] => v <= 1
  <2>1. SUFFICES ASSUME Len(n) = 4
                 PROVE  /\ ~n[1] /\ n[2] /\ n[3] /\ n[4] => v >= 2
                        /\ n[1] /\ ~n[2] /\ ~n[3] /\ ~n[4] => v <= 1
    OBVIOUS
  <2>2. Len(o) >= 3 /\ n[1] = t /\ n[2] = o[1] /\ n[3] = o[2] /\ n[4] = o[3]
    BY <1>1, <2>1
  <2>3. /\ o[1] /\ o[2] /\ o[3] => c = 3
        /\ ~o[1] /\ ~o[2] /\ ~o[3] => c = 0
    BY <2>2 DEF Settled
  <2>4. ~n[1] /\ n[2] /\ n[3] /\ n[4] => v >= 2
    BY <1>2, <1>3, <2>2, <2>3
  <2>5. n[1] /\ ~n[2] /\ ~n[3] /\ ~n[4] => v <= 1
    BY <1>2, <1>3, <2>2, <2>3
  <2>. QED  BY <2>4, <2>5
<1>. QED  BY <1>1, <1>4, <1>5, <1>6, <1>7 DEF Settled, v

\* ... so every counter stays settled.
LEMMA CounterStep ==
    ASSUME "bimodal2" \in Kinds, Typed, CounterInv, NEW d, Executable(d), Control(d)
    PROVE  CounterInv'
<1>1. SUFFICES ASSUME NEW pc \in CondPcs, Unaliased(pc)
               PROVE  Settled(bp'["bimodal2"].table[bimodal_idx(pc)], outcomes'[pc])
  BY DEF CounterInv, CounterSettled
<1>. DEFINE p == bp["bimodal2"]
            taken == taken_control(d)
            c == p.table[bimodal_idx(pc)]
<1>2. /\ p.kind = "bimodal2" /\ Learned(p, d, bp'["bimodal2"]) /\ p \in Predictor
      /\ outcomes \in [CondPcs -> Seq(BOOLEAN)] /\ Settled(c, outcomes[pc])
  BY <1>1, TypedStep DEF Typed, CounterInv, CounterSettled
<1>3. p.table \in [Index -> Counter] /\ d.cond \in BOOLEAN /\ taken \in BOOLEAN
  BY <1>2 DEF Predictor, Executable, taken_control
<1>4. outcomes' = IF d.cond
                  THEN [outcomes EXCEPT ![d.pc] = Newest(4, <<taken>> \o outcomes[d.pc])]
                  ELSE outcomes
  BY DEF Control
<1>5. CASE ~d.cond
  BY <1>2, <1>4, <1>5 DEF Learned
<1>6. CASE d.cond
  <2>1. Updated(p, d.pc, taken, bp_update(p, d.pc, taken))
    BY <1>2, UpdateFacts
  <2>2. bp'["bimodal2"].table = bp_update(p, d.pc, taken).table
    BY <1>2, <1>6 DEF Learned
  <2>3. bp_update(p, d.pc, taken).table =
            [p.table EXCEPT ![bimodal_idx(d.pc)] =
                sat_update(p.table[bimodal_idx(d.pc)], taken)]
    BY <1>2, <2>1 DEF Updated
  <2>4. d.pc \in CondPcs /\ bimodal_idx(pc) \in Index
    BY <1>6, IndexType, PcsAreNat DEF Executable, Pcs
  <2>5. CASE d.pc = pc
    <3>1. bp'["bimodal2"].table[bimodal_idx(pc)] = sat_update(c, taken)
      BY <1>3, <2>2, <2>3, <2>4, <2>5
    <3>2. Shifted(taken, outcomes[pc], outcomes'[pc])
      BY <1>2, <1>3, <1>4, <1>6, <2>5, NewestFacts
    <3>3. c \in Counter /\ outcomes[pc] \in Seq(BOOLEAN)
      BY <1>2, <1>3, <2>4
    <3>. QED  BY <1>2, <1>3, <3>1, <3>2, <3>3, SettledStep
  <2>6. CASE d.pc # pc
    <3>1. bimodal_idx(d.pc) # bimodal_idx(pc)
      BY <1>1, <2>4, <2>6 DEF Unaliased
    <3>2. bp'["bimodal2"].table[bimodal_idx(pc)] = c
      BY <1>3, <2>2, <2>3, <2>4, <3>1
    <3>3. outcomes'[pc] = outcomes[pc]
      BY <1>2, <1>4, <1>6, <2>6
    <3>. QED  BY <1>2, <3>2, <3>3
  <2>. QED  BY <2>5, <2>6
<1>. QED  BY <1>3, <1>5, <1>6

\* Where no other branch shares its counter, a branch that went the same way
\* twice is predicted to do so again, and one deviation after three like
\* outcomes does not change what the two-bit predictor says.
THEOREM HysteresisHolds == "bimodal2" \in Kinds /\ Spec => []Hysteresis
<1>. DEFINE H == "bimodal2" \in Kinds
            I == Typed /\ CounterInv
<1>1. H /\ Init => I
  <2>1. ASSUME H, Init PROVE CounterInv
    BY <2>1 DEF Init, CounterInv, CounterSettled, Settled
  <2>. QED  BY <2>1, TypedInit
<1>2. H /\ I /\ [Next]_vars => I'
  <2>1. ASSUME H, I, Next PROVE I'
    BY <2>1, NextExecutes, TypedStep, CounterStep
  <2>2. ASSUME I, UNCHANGED vars PROVE I'
    BY <2>2 DEF Typed, CounterInv, CounterSettled, vars
  <2>. QED  BY <2>1, <2>2
<1>3. H /\ I => Hysteresis
  <2>1. SUFFICES ASSUME H, I, NEW pc \in CondPcs, Unaliased(pc)
                 PROVE  LET o == outcomes[pc]
                            prediction == bp_predict(bp["bimodal2"], pc)
                        IN  /\ Len(o) >= 2 /\ o[1] = o[2] => prediction = o[1]
                            /\ Len(o) = 4 /\ o[1] # o[2] /\ o[2] = o[3] /\ o[3] = o[4]
                                 => prediction = o[2]
    BY DEF Hysteresis
  <2>. DEFINE o == outcomes[pc]
              c == bp["bimodal2"].table[bimodal_idx(pc)]
  <2>2. bp["bimodal2"].kind = "bimodal2" /\ bp["bimodal2"] \in Predictor
    BY <2>1 DEF Typed
  <2>3. bp_predict(bp["bimodal2"], pc) = (c >= 2)
    BY <2>2 DEF bp_predict, bimodal_pred
  <2>4. o \in Seq(BOOLEAN) /\ Settled(c, o)
    BY <2>1 DEF Typed, CounterInv, CounterSettled
  <2>5. c \in Counter
    <3>1. bimodal_idx(pc) \in Index
      BY IndexType, PcsAreNat DEF Pcs
    <3>. QED  BY <2>2, <3>1 DEF Predictor
  <2>6. /\ Len(o) \in Nat
        /\ Len(o) >= 2 => o[1] \in BOOLEAN /\ o[2] \in BOOLEAN
        /\ Len(o) = 4 => o[3] \in BOOLEAN /\ o[4] \in BOOLEAN
    BY <2>4
  <2>. HIDE DEF o, c
  <2>7. Len(o) >= 2 /\ o[1] = o[2] => (c >= 2) = o[1]
    BY <2>4, <2>5, <2>6 DEF Settled, Counter
  <2>8. Len(o) = 4 /\ o[1] # o[2] /\ o[2] = o[3] /\ o[3] = o[4] => (c >= 2) = o[2]
    BY <2>4, <2>5, <2>6 DEF Settled, Counter
  <2>. QED  BY <2>3, <2>7, <2>8 DEF o
<1>4. H => []H
  OBVIOUS
<1>. QED  BY <1>1, <1>2, <1>3, <1>4, PTL DEF Spec

-----------------------------------------------------------------------------
(* The regret of the two-way chooser *)

\* What each chooser entry contributes to the regret.
Amounts == [Index -> 0..2]

\* The units are finitely many, so they can be counted.
LEMMA UnitsFinite ==
    ASSUME NEW f \in Amounts
    PROVE  IsFiniteSet(Units(f)) /\ Reserve(f) \in Nat
<1>1. IsFiniteSet(Index)
  BY IndexType, FS_Interval DEF Index
<1>2. IsFiniteSet({1, 2})
  <2>1. IsFiniteSet({1}) /\ {1, 2} = {1} \cup {2}
    BY FS_Singleton
  <2>. QED  BY <2>1, FS_AddElement
<1>3. IsFiniteSet(Index \X {1, 2})
  BY <1>1, <1>2, FS_Product
<1>4. IsFiniteSet(Units(f))
  BY <1>3, FS_Subset DEF Units
<1>. QED  BY <1>4, FS_CardinalityType DEF Reserve

\* A counter that moves one unit up adds one to the reserve.
LEMMA ReserveUp ==
    ASSUME NEW f \in Amounts, NEW h \in Amounts, NEW i \in Index,
           \A j \in Index \ {i} : h[j] = f[j], h[i] = f[i] + 1
    PROVE  Reserve(h) = Reserve(f) + 1
<1>. DEFINE x == <<i, h[i]>>
<1>1. f[i] \in 0..2 /\ h[i] \in 1..2
  BY DEF Amounts
<1>2. Units(h) = Units(f) \cup {x}
  <2>1. ASSUME NEW j \in Index, NEW n \in {1, 2}
        PROVE  <<j, n>> \in Units(h) <=> <<j, n>> \in Units(f) \cup {x}
    <3>1. f[j] \in 0..2 /\ h[j] \in 0..2 /\ (j # i => h[j] = f[j])
      BY DEF Amounts
    <3>2. /\ <<j, n>> \in Units(h) <=> n <= h[j]
          /\ <<j, n>> \in Units(f) <=> n <= f[j]
          /\ <<j, n>> = x <=> j = i /\ n = h[i]
      BY DEF Units
    <3>. QED  BY <1>1, <3>1, <3>2
  <2>2. Units(h) \subseteq Index \X {1, 2} /\ Units(f) \subseteq Index \X {1, 2}
        /\ x \in Index \X {1, 2}
    BY <1>1 DEF Units
  <2>3. ASSUME NEW u \in Index \X {1, 2}
        PROVE  u \in Units(h) <=> u \in Units(f) \cup {x}
    <3>1. u = <<u[1], u[2]>> /\ u[1] \in Index /\ u[2] \in {1, 2}
      OBVIOUS
    <3>2. <<u[1], u[2]>> \in Units(h) <=> <<u[1], u[2]>> \in Units(f) \cup {x}
      BY <2>1, <3>1
    <3>. HIDE DEF x
    <3>. QED  BY <3>1, <3>2
  <2>. HIDE DEF x
  <2>. QED  BY <2>2, <2>3
<1>3. x \notin Units(f)
  BY <1>1 DEF Units
<1>. HIDE DEF x
<1>. QED  BY <1>2, <1>3, UnitsFinite, FS_AddElement DEF Reserve

\* Moving one entry by one moves the sum by one.
LEMMA ReserveMoves ==
    ASSUME NEW f \in Amounts, NEW h \in Amounts, NEW i \in Index,
           \A j \in Index \ {i} : h[j] = f[j],
           NEW m \in {-1, 0, 1}, h[i] = f[i] + m
    PROVE  Reserve(h) = Reserve(f) + m
<1>1. f[i] \in 0..2 /\ h[i] \in 0..2 /\ Reserve(f) \in Nat /\ Reserve(h) \in Nat
  BY UnitsFinite DEF Amounts
<1>2. CASE m = 1
  BY <1>2, ReserveUp
<1>3. CASE m = 0
  <2>1. h = f
    BY <1>1, <1>3 DEF Amounts
  <2>. QED  BY <1>1, <1>3, <2>1
<1>4. CASE m = -1
  <2>1. f[i] = h[i] + 1 /\ \A j \in Index \ {i} : f[j] = h[j]
    BY <1>1, <1>4
  <2>2. Reserve(f) = Reserve(h) + 1
    BY <2>1, ReserveUp
  <2>. QED  BY <1>1, <1>4, <2>2
<1>. QED  BY <1>2, <1>3, <1>4

\* What the counters hold in reserve for either half.
GshareSide(chooser) == [i \in Index |-> TowardsGshare(chooser[i])]
BimodalSide(chooser) == [i \in Index |-> TowardsBimodal(chooser[i])]

\* Both sides of a chooser are amounts.
LEMMA SidesAreAmounts ==
    ASSUME NEW c \in [Index -> Counter]
    PROVE  GshareSide(c) \in Amounts /\ BimodalSide(c) \in Amounts
<1>1. \A i \in Index : c[i] \in {0, 1, 2, 3}
  BY DEF Counter
<1>. QED  BY <1>1 DEF GshareSide, BimodalSide, Amounts, TowardsGshare, TowardsBimodal

\* Updating one chooser counter moves both reserves by what that counter moves.
LEMMA ChooserMoves ==
    ASSUME NEW c \in [Index -> Counter], NEW i \in Index, NEW v \in Counter,
           v - c[i] \in {-1, 0, 1}
    PROVE  LET d == [c EXCEPT ![i] = v]
           IN  /\ Reserve(GshareSide(d)) = Reserve(GshareSide(c))
                    + (TowardsGshare(v) - TowardsGshare(c[i]))
               /\ Reserve(BimodalSide(d)) = Reserve(BimodalSide(c))
                    + (TowardsBimodal(v) - TowardsBimodal(c[i]))
<1>. DEFINE d == [c EXCEPT ![i] = v]
            mg == TowardsGshare(v) - TowardsGshare(c[i])
            mb == TowardsBimodal(v) - TowardsBimodal(c[i])
<1>1. d \in [Index -> Counter] /\ d[i] = v /\ \A j \in Index \ {i} : d[j] = c[j]
  OBVIOUS
<1>2. c[i] \in {0, 1, 2, 3} /\ v \in {0, 1, 2, 3}
  BY DEF Counter
<1>3. /\ TowardsGshare(v) \in Int /\ TowardsGshare(c[i]) \in Int
      /\ TowardsBimodal(v) \in Int /\ TowardsBimodal(c[i]) \in Int
  BY <1>2 DEF TowardsGshare, TowardsBimodal
<1>4. mg \in {-1, 0, 1} /\ mb \in {-1, 0, 1}
  BY <1>2 DEF TowardsGshare, TowardsBimodal
<1>. HIDE DEF d
<1>5. /\ \A j \in Index \ {i} : GshareSide(d)[j] = GshareSide(c)[j]
      /\ GshareSide(d)[i] = GshareSide(c)[i] + mg
  BY <1>1, <1>3 DEF GshareSide
<1>6. /\ \A j \in Index \ {i} : BimodalSide(d)[j] = BimodalSide(c)[j]
      /\ BimodalSide(d)[i] = BimodalSide(c)[i] + mb
  BY <1>1, <1>3 DEF BimodalSide
<1>. HIDE DEF mg, mb
<1>7. Reserve(GshareSide(d)) = Reserve(GshareSide(c)) + mg
  BY <1>1, <1>4, <1>5, SidesAreAmounts, ReserveMoves
<1>8. Reserve(BimodalSide(d)) = Reserve(BimodalSide(c)) + mb
  BY <1>1, <1>4, <1>6, SidesAreAmounts, ReserveMoves
<1>. QED  BY <1>7, <1>8 DEF d, mg, mb

\* The regret bounds, with the two reserves named.
Regret(chooser, mt, mb, mg) ==
    /\ mt + Reserve(GshareSide(chooser)) <= 2 * mb
    /\ mt + Reserve(BimodalSide(chooser)) <= 2 * mg + Entries

\* One conditional branch, in numbers: the tournament follows gshare when its
\* counter c[i] is at least 2, the counter moves towards the half that was
\* right when the halves differ, and each predictor pays one when it is wrong.
RegretAfter(c, i, B, G, taken, mt, mb, mg) ==
    Regret(IF B # G THEN [c EXCEPT ![i] = sat_update(c[i], G = taken)] ELSE c,
           mt + (IF (IF c[i] >= 2 THEN G ELSE B) # taken THEN 1 ELSE 0),
           mb + (IF B # taken THEN 1 ELSE 0),
           mg + (IF G # taken THEN 1 ELSE 0))

\* One branch: a misprediction beyond the better half is paid from the reserve.
LEMMA RegretStep ==
    ASSUME NEW c \in [Index -> Counter], NEW i \in Index,
           NEW B \in BOOLEAN, NEW G \in BOOLEAN, NEW taken \in BOOLEAN,
           NEW mt \in Nat, NEW mb \in Nat, NEW mg \in Nat, Regret(c, mt, mb, mg)
    PROVE  RegretAfter(c, i, B, G, taken, mt, mb, mg)
<1>. DEFINE v == sat_update(c[i], G = taken)
            RG(x) == Reserve(GshareSide(x))
            RB(x) == Reserve(BimodalSide(x))
            dt == IF (IF c[i] >= 2 THEN G ELSE B) # taken THEN 1 ELSE 0
            db == IF B # taken THEN 1 ELSE 0
            dg == IF G # taken THEN 1 ELSE 0
            ug == TowardsGshare(v) - TowardsGshare(c[i])
            ub == TowardsBimodal(v) - TowardsBimodal(c[i])
<1>1. c[i] \in {0, 1, 2, 3}
  BY DEF Counter
<1>2. RG(c) \in Nat /\ RB(c) \in Nat /\ Entries \in Nat
  BY SidesAreAmounts, UnitsFinite, IndexType
<1>3. CASE B = G
  <2>1. dt = db /\ dt = dg /\ dt \in Nat
    BY <1>3
  <2>. HIDE DEF dt, db, dg
  <2>2. mt + dt + RG(c) <= 2 * (mb + db) /\ mt + dt + RB(c) <= 2 * (mg + dg) + Entries
    BY <1>2, <2>1 DEF Regret
  <2>. QED  BY <1>3, <2>2 DEF Regret, RegretAfter, dt, db, dg
<1>4. CASE B # G
  <2>1. v \in Counter /\ v - c[i] \in {-1, 0, 1}
    BY <1>1 DEF sat_update, Counter
  <2>2. /\ RG([c EXCEPT ![i] = v]) = RG(c) + ug
        /\ RB([c EXCEPT ![i] = v]) = RB(c) + ub
    BY <2>1, ChooserMoves
  <2>3. dt + ug <= 2 * db /\ dt + ub <= 2 * dg
    BY <1>1, <1>4 DEF sat_update, TowardsGshare, TowardsBimodal
  <2>4. dt \in Nat /\ db \in Nat /\ dg \in Nat
    OBVIOUS
  <2>5. ug \in Int /\ ub \in Int
    BY <1>1 DEF sat_update, TowardsGshare, TowardsBimodal
  <2>. HIDE DEF dt, db, dg, ug, ub, v
  <2>6. /\ mt + dt + (RG(c) + ug) <= 2 * (mb + db)
        /\ mt + dt + (RB(c) + ub) <= 2 * (mg + dg) + Entries
    BY <1>2, <2>3, <2>4, <2>5 DEF Regret
  <2>7. Regret([c EXCEPT ![i] = v], mt + dt, mb + db, mg + dg)
    BY <2>2, <2>6 DEF Regret
  <2>. QED  BY <1>4, <2>7 DEF RegretAfter, dt, db, dg, v
<1>. QED  BY <1>3, <1>4

\* The tournament runs beside the predictors it is made of.
AllThree == {"tournament", "bimodal2", "gshare"} \subseteq Kinds

\* TournamentRegret in terms of the values it depends on.
LEMMA RegretIsRegret ==
    TournamentRegret <=> Regret(bp["tournament"].chooser, mispredicts["tournament"],
                                mispredicts["bimodal2"], mispredicts["gshare"])
  BY DEF TournamentRegret, Regret, GshareSide, BimodalSide

\* Nothing has been mispredicted yet.
LEMMA RegretInit == ASSUME AllThree, Init PROVE TournamentRegret
<1>. DEFINE c == [i \in Index |-> 1]
<1>1. /\ bp["tournament"].chooser = c
      /\ mispredicts["tournament"] = 0
      /\ mispredicts["bimodal2"] = 0 /\ mispredicts["gshare"] = 0
  BY DEF Init, bp_init, AllThree
<1>2. Reserve(GshareSide(c)) = 0
  <2>1. GshareSide(c) = [i \in Index |-> 0]
    BY DEF GshareSide, TowardsGshare
  <2>2. Units([i \in Index |-> 0]) = {}
    BY DEF Units
  <2>. QED  BY <2>1, <2>2, FS_EmptySet DEF Reserve
<1>3. Reserve(BimodalSide(c)) = Entries
  <2>1. BimodalSide(c) = [i \in Index |-> 1]
    BY DEF BimodalSide, TowardsBimodal
  <2>2. Units([i \in Index |-> 1]) = Index \X {1}
    BY DEF Units
  <2>3. IsFiniteSet(Index) /\ Cardinality(Index) = Entries
    BY IndexType, FS_Interval DEF Index
  <2>4. Cardinality(Index \X {1}) = Entries
    <3>1. IsFiniteSet({1}) /\ Cardinality({1}) = 1
      BY FS_Singleton
    <3>2. Cardinality(Index \X {1}) = Cardinality(Index) * Cardinality({1})
      BY <2>3, <3>1, FS_Product
    <3>. QED  BY <2>3, <3>1, <3>2, IndexType
  <2>. QED  BY <2>1, <2>2, <2>4 DEF Reserve
<1>. HIDE DEF c
<1>4. Regret(c, 0, 0, 0)
  BY <1>2, <1>3, IndexType DEF Regret
<1>. QED  BY <1>1, <1>4, RegretIsRegret

\* Every step keeps the regret within the reserve.
LEMMA TournamentStep ==
    ASSUME AllThree, Typed, HalvesTrainAlike, TournamentRegret,
           NEW d, Executable(d), Control(d)
    PROVE  TournamentRegret'
<1>. DEFINE pt == bp["tournament"]
            pb == bp["bimodal2"]
            pg == bp["gshare"]
            mt == mispredicts["tournament"]
            mb == mispredicts["bimodal2"]
            mg == mispredicts["gshare"]
            taken == taken_control(d)
            B == bimodal_pred(pt, d.pc)
            G == gshare_pred(pt, d.pc)
            i == chooser_idx(pt)
            c == pt.chooser
<1>1. /\ pt.kind = "tournament" /\ Learned(pt, d, bp'["tournament"])
      /\ pb.kind = "bimodal2" /\ pg.kind = "gshare" /\ pt \in Predictor
      /\ mt \in Nat /\ mb \in Nat /\ mg \in Nat
  BY TypedStep DEF Typed, AllThree
<1>2. /\ pt.table = pb.table /\ pt.gtable = pg.table /\ pt.ghist = pg.ghist
  BY DEF HalvesTrainAlike, AllThree
<1>3. d.cond \in BOOLEAN /\ taken \in BOOLEAN
  BY DEF Executable, taken_control
<1>4. /\ mispredicts'["tournament"] =
            mt + (IF d.cond /\ pred_taken(pt, d) # taken THEN 1 ELSE 0)
      /\ mispredicts'["bimodal2"] =
            mb + (IF d.cond /\ pred_taken(pb, d) # taken THEN 1 ELSE 0)
      /\ mispredicts'["gshare"] =
            mg + (IF d.cond /\ pred_taken(pg, d) # taken THEN 1 ELSE 0)
  BY DEF Control, AllThree
<1>5. Regret(c, mt, mb, mg)
  BY RegretIsRegret
<1>6. TournamentRegret' <=>
        Regret(bp'["tournament"].chooser, mispredicts'["tournament"],
               mispredicts'["bimodal2"], mispredicts'["gshare"])
  BY DEF TournamentRegret, Regret, GshareSide, BimodalSide
<1>7. CASE ~d.cond
  <2>1. /\ bp'["tournament"].chooser = c /\ mispredicts'["tournament"] = mt
        /\ mispredicts'["bimodal2"] = mb /\ mispredicts'["gshare"] = mg
    BY <1>1, <1>4, <1>7 DEF Learned
  <2>. QED  BY <1>5, <1>6, <2>1
<1>8. CASE d.cond
  <2>1. B \in BOOLEAN /\ G \in BOOLEAN
    BY DEF bimodal_pred, gshare_pred
  <2>2. bp_predict(pt, d.pc) = IF c[i] >= 2 THEN G ELSE B
    BY <1>1 DEF bp_predict
  <2>3. bp_predict(pb, d.pc) = B
    BY <1>1, <1>2 DEF bp_predict, bimodal_pred
  <2>4. bp_predict(pg, d.pc) = G
    BY <1>1, <1>2 DEF bp_predict, gshare_pred, gshare_idx
  <2>5. /\ c \in [Index -> Counter] /\ i \in Index
    BY <1>1, IndexType DEF Predictor, chooser_idx
  <2>6. bp'["tournament"].chooser =
            IF B # G THEN [c EXCEPT ![i] = sat_update(c[i], G = taken)] ELSE c
    <3>1. Updated(pt, d.pc, taken, bp_update(pt, d.pc, taken))
      BY <1>1, UpdateFacts
    <3>2. bp'["tournament"].chooser = Choose(pt, d.pc, taken).chooser
      BY <1>1, <1>8, <3>1 DEF Learned, Updated
    <3>3. Choose(pt, d.pc, taken).chooser =
            IF B # G THEN [c EXCEPT ![i] = sat_update(c[i], G = taken)] ELSE c
      BY <1>1 DEF Choose, Predictor
    <3>. QED  BY <3>2, <3>3
  <2>. HIDE DEF pt, pb, pg, mt, mb, mg, B, G, i, c, taken
  <2>7. /\ mispredicts'["tournament"] =
              mt + (IF (IF c[i] >= 2 THEN G ELSE B) # taken THEN 1 ELSE 0)
        /\ mispredicts'["bimodal2"] = mb + (IF B # taken THEN 1 ELSE 0)
        /\ mispredicts'["gshare"] = mg + (IF G # taken THEN 1 ELSE 0)
    BY <1>4, <1>8, <2>2, <2>3, <2>4 DEF pred_taken
  <2>8. RegretAfter(c, i, B, G, taken, mt, mb, mg)
    BY <1>1, <1>3, <1>5, <2>1, <2>5, RegretStep
  <2>. QED  BY <1>6, <2>6, <2>7, <2>8 DEF RegretAfter
<1>. QED  BY <1>3, <1>7, <1>8

\* What the two-way chooser does guarantee, for every stream and every table
\* size: at most twice bimodal's mispredictions, and at most twice gshare's
\* plus one per chooser counter, both with the reserve the counters hold.
THEOREM ChooserRegret == AllThree /\ Spec => []TournamentRegret
<1>. DEFINE I == Typed /\ HalvesTrainAlike /\ TournamentRegret
<1>1. AllThree /\ Init => I
  BY TypedInit, HalvesInit, RegretInit DEF AllThree
<1>2. AllThree /\ I /\ [Next]_vars => I'
  <2>1. ASSUME AllThree, I, Next PROVE I'
    <3>1. {"bimodal2", "gshare"} \subseteq Kinds
      BY <2>1 DEF AllThree
    <3>. QED  BY <2>1, <3>1, NextExecutes, TypedStep, HalvesStep, TournamentStep
  <2>2. ASSUME I, UNCHANGED vars PROVE I'
    BY <2>2 DEF Typed, HalvesTrainAlike, TournamentRegret, vars
  <2>. QED  BY <2>1, <2>2
<1>3. AllThree => []AllThree
  BY DEF AllThree
<1>. QED  BY <1>1, <1>2, <1>3, PTL DEF Spec
=============================================================================
