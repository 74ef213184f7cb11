---------------------------- MODULE CacheProofs ----------------------------
(***************************************************************************)
(* Proofs about the cache model: while the blocks touched fit, no miss but *)
(* the first of each block (CompulsoryOnly), and LRU's inclusion property  *)
(* (LruInclusion), for every number of sets and ways, every set of blocks  *)
(* and every sequence of accesses.                                         *)
(***************************************************************************)
EXTENDS CacheInclusion, Sequences, FiniteSetTheorems, TLAPS

-----------------------------------------------------------------------------
(* One cache.  The operators take its arrays as arguments, because they     *)
(* are used of both caches of CacheInclusion.                              *)

\* Every array is typed, no stamp lies in the future, and two valid ways of a
\* set differ in tag and in stamp.
Sound(v, t, o, c, W) ==
    /\ v \in [Sets -> [W -> BOOLEAN]]
    /\ t \in [Sets -> [W -> Nat]]
    /\ o \in [Sets -> [W -> Nat]]
    /\ c \in Nat
    /\ \A s \in Sets : \A w \in W : o[s][w] <= c
    /\ \A s \in Sets : \A w, x \in W :
           v[s][w] /\ v[s][x] /\ w # x => t[s][w] # t[s][x] /\ o[s][w] # o[s][x]

\* Way w of set s now holds tag g with the stamp c + 1: what a miss does, and,
\* under LRU, a hit.
Placed(v, t, o, c, v2, t2, o2, c2, s, g, w) ==
    /\ v2 = [v EXCEPT ![s][w] = TRUE]
    /\ t2 = [t EXCEPT ![s][w] = g]
    /\ o2 = [o EXCEPT ![s][w] = c + 1]
    /\ c2 = c + 1

\* Tag g is in no valid way of set s but possibly w.
OnlyAt(v, t, W, s, g, w) ==
    \A x \in W : v[s][x] /\ t[s][x] = g => x = w

\* Way w of set s is empty, or the set is full and w has its oldest stamp.
Oldest(v, o, W, s, w) ==
    \/ ~v[s][w]
    \/ /\ \A x \in W : v[s][x]
       /\ \A x \in W : o[s][w] <= o[s][x]

\* What Placed says of each way.
NowAt(v, t, o, c, v2, t2, o2, c2, s, g, w, W) ==
    /\ v2 \in [Sets -> [W -> BOOLEAN]]
    /\ t2 \in [Sets -> [W -> Nat]]
    /\ o2 \in [Sets -> [W -> Nat]]
    /\ c2 = c + 1 /\ c2 \in Nat
    /\ v2[s][w] /\ t2[s][w] = g /\ o2[s][w] = c + 1
    /\ \A r \in Sets : \A x \in W : r # s \/ x # w =>
           v2[r][x] = v[r][x] /\ t2[r][x] = t[r][x] /\ o2[r][x] = o[r][x]

\* Writing one way of one set leaves every other way alone.
LEMMA PlacedAt ==
    ASSUME NEW v, NEW t, NEW o, NEW c, NEW v2, NEW t2, NEW o2, NEW c2, NEW W,
           NEW s \in Sets, NEW g \in Nat, NEW w \in W,
           Sound(v, t, o, c, W), Placed(v, t, o, c, v2, t2, o2, c2, s, g, w)
    PROVE  NowAt(v, t, o, c, v2, t2, o2, c2, s, g, w, W)
<1>1. c \in Nat /\ c2 = c + 1 /\ c2 \in Nat /\ c + 1 \in Nat
  BY DEF Sound, Placed
<1>2. /\ v2 \in [Sets -> [W -> BOOLEAN]] /\ v2[s][w]
      /\ \A r \in Sets : \A x \in W : r # s \/ x # w => v2[r][x] = v[r][x]
  BY DEF Sound, Placed
<1>3. /\ t2 \in [Sets -> [W -> Nat]] /\ t2[s][w] = g
      /\ \A r \in Sets : \A x \in W : r # s \/ x # w => t2[r][x] = t[r][x]
  BY DEF Sound, Placed
<1>4. /\ o2 \in [Sets -> [W -> Nat]] /\ o2[s][w] = c + 1
      /\ \A r \in Sets : \A x \in W : r # s \/ x # w => o2[r][x] = o[r][x]
  BY <1>1 DEF Sound, Placed
<1> QED BY <1>1, <1>2, <1>3, <1>4 DEF NowAt

\* Placing a tag that no other way holds keeps a cache sound.
LEMMA StaysSound ==
    ASSUME NEW v, NEW t, NEW o, NEW c, NEW v2, NEW t2, NEW o2, NEW c2, NEW W,
           NEW s \in Sets, NEW g \in Nat, NEW w \in W,
           Sound(v, t, o, c, W), Placed(v, t, o, c, v2, t2, o2, c2, s, g, w),
           OnlyAt(v, t, W, s, g, w)
    PROVE  Sound(v2, t2, o2, c2, W)
<1>0. NowAt(v, t, o, c, v2, t2, o2, c2, s, g, w, W)
  BY PlacedAt
<1>1. /\ v2 \in [Sets -> [W -> BOOLEAN]]
      /\ t2 \in [Sets -> [W -> Nat]]
      /\ o2 \in [Sets -> [W -> Nat]]
      /\ c2 = c + 1 /\ c2 \in Nat
      /\ v2[s][w] /\ t2[s][w] = g /\ o2[s][w] = c + 1
  BY <1>0 DEF NowAt
<1>2. \A r \in Sets : \A x \in W : r # s \/ x # w =>
          v2[r][x] = v[r][x] /\ t2[r][x] = t[r][x] /\ o2[r][x] = o[r][x]
  BY <1>0 DEF NowAt
<1>3. \A r \in Sets : \A x \in W : o[r][x] \in Nat /\ o[r][x] <= c
  BY DEF Sound
<1>4. c \in Nat
  BY DEF Sound
<1>5. ASSUME NEW r \in Sets, NEW x \in W PROVE o2[r][x] <= c2
  <2>1. CASE r = s /\ x = w
    <3>1. o2[r][x] = c2 /\ c2 \in Nat BY <2>1, <1>1
    <3> QED BY <3>1
  <2>2. CASE r # s \/ x # w
    <3>1. o2[r][x] = o[r][x] BY <2>2, <1>2
    <3>2. o[r][x] \in Nat /\ o[r][x] <= c BY <1>3
    <3> QED BY <3>1, <3>2, <1>1, <1>4
  <2> QED BY <2>1, <2>2
<1>6. ASSUME NEW r \in Sets, NEW x \in W, NEW y \in W,
             v2[r][x], v2[r][y], x # y
      PROVE  t2[r][x] # t2[r][y] /\ o2[r][x] # o2[r][y]
  <2>1. CASE r # s \/ (x # w /\ y # w)
    BY <2>1, <1>2, <1>6 DEF Sound
  <2>2. CASE r = s /\ x = w
    <3>1. v[s][y] /\ t2[s][y] = t[s][y] /\ o2[s][y] = o[s][y]
      BY <2>2, <1>2, <1>6
    <3>2. t[s][y] # g BY <3>1, <2>2, <1>6 DEF OnlyAt
    <3>3. o[s][y] # c + 1 BY <1>3, <1>4
    <3> QED BY <3>1, <3>2, <3>3, <2>2, <1>1
  <2>3. CASE r = s /\ y = w
    <3>1. v[s][x] /\ t2[s][x] = t[s][x] /\ o2[s][x] = o[s][x]
      BY <2>3, <1>2, <1>6
    <3>2. t[s][x] # g BY <3>1, <2>3, <1>6 DEF OnlyAt
    <3>3. o[s][x] # c + 1 BY <1>3, <1>4
    <3> QED BY <3>1, <3>2, <3>3, <2>3, <1>1
  <2> QED BY <2>1, <2>2, <2>3
<1> QED BY <1>1, <1>5, <1>6 DEF Sound

-----------------------------------------------------------------------------
(* Set and tag of a block.                                                 *)

\* A block has a set of the cache and a natural tag.
LEMMA SetAndTag ==
    ASSUME NEW b \in Blocks
    PROVE  SetOf(b) \in Sets /\ TagOf(b) \in Nat
BY CacheAssumption DEF SetOf, TagOf, Sets

\* A block is known by its set and its tag.
LEMMA SameBlock ==
    ASSUME NEW a \in Blocks, NEW b \in Blocks,
           SetOf(a) = SetOf(b), TagOf(a) = TagOf(b)
    PROVE  a = b
<1> DEFINE n == NSets
<1>1. n \in Nat \ {0} /\ a \in Nat /\ b \in Nat
  BY CacheAssumption
<1>2. a % n = b % n /\ a \div n = b \div n
  BY DEF SetOf, TagOf
<1> HIDE DEF n
<1>3. a = n * (a \div n) + (a % n) BY <1>1
<1>4. b = n * (b \div n) + (b % n) BY <1>1
<1> QED BY <1>2, <1>3, <1>4

-----------------------------------------------------------------------------
(* The smaller cache on its own.                                           *)

\* The cache of Cache is sound.
Small == Sound(valid, tag, order, clock, Ways)

\* What a way holds was accessed at some time.
HeldTouched ==
    \A s \in Sets : \A w \in Ways : valid[s][w] =>
        \E b \in touched : SetOf(b) = s /\ TagOf(b) = tag[s][w]

\* A hit finds the only way with the block's tag, and only under LRU renews it.
LEMMA HitIs ==
    ASSUME NEW b \in Blocks, NEW w \in Ways, Small, Hit(b, w)
    PROVE  /\ valid[SetOf(b)][w] /\ tag[SetOf(b)][w] = TagOf(b)
           /\ OnlyAt(valid, tag, Ways, SetOf(b), TagOf(b), w)
           /\ \/ /\ repl = "lru"
                 /\ Placed(valid, tag, order, clock, valid', tag', order', clock',
                           SetOf(b), TagOf(b), w)
              \/ /\ repl # "lru"
                 /\ UNCHANGED <<valid, tag, order, clock>>
<1> DEFINE s == SetOf(b)
<1>0. s \in Sets BY SetAndTag
<1>1. valid[s][w] /\ tag[s][w] = TagOf(b)
  BY DEF Hit, Hits
<1>2. OnlyAt(valid, tag, Ways, s, TagOf(b), w)
  BY <1>0, <1>1 DEF Small, Sound, OnlyAt
<1>3. valid' = valid /\ tag' = tag
  BY DEF Hit
<1>4. CASE repl = "lru"
  <2>1. valid = [valid EXCEPT ![s][w] = TRUE]
    BY <1>0, <1>1 DEF Small, Sound
  <2>2. tag = [tag EXCEPT ![s][w] = TagOf(b)]
    BY <1>0, <1>1 DEF Small, Sound
  <2>3. clock' = clock + 1 /\ order' = [order EXCEPT ![s][w] = clock + 1]
    BY <1>4 DEF Hit
  <2> QED BY <1>1, <1>2, <1>3, <1>4, <2>1, <2>2, <2>3 DEF Placed
<1>5. CASE repl # "lru"
  BY <1>1, <1>2, <1>3, <1>5 DEF Hit
<1> QED BY <1>4, <1>5

\* A miss finds no way with the block's tag and takes an empty way, or, in a full
\* set, under LRU and FIFO one with the oldest stamp.
LEMMA MissIs ==
    ASSUME NEW b \in Blocks, NEW w \in Ways, Small, Miss(b, w)
    PROVE  /\ ~Cached(b)
           /\ \A x \in Ways : ~(valid[SetOf(b)][x] /\ tag[SetOf(b)][x] = TagOf(b))
           /\ OnlyAt(valid, tag, Ways, SetOf(b), TagOf(b), w)
           /\ Placed(valid, tag, order, clock, valid', tag', order', clock',
                     SetOf(b), TagOf(b), w)
           /\ ~valid[SetOf(b)][w] \/ \A x \in Ways : valid[SetOf(b)][x]
           /\ repl # "random" => Oldest(valid, order, Ways, SetOf(b), w)
<1>1. ~Cached(b) BY DEF Miss
<1>2. \A x \in Ways : ~(valid[SetOf(b)][x] /\ tag[SetOf(b)][x] = TagOf(b))
  BY <1>1 DEF Cached, Hits
<1>3. OnlyAt(valid, tag, Ways, SetOf(b), TagOf(b), w)
  BY <1>2 DEF OnlyAt
<1>4. Placed(valid, tag, order, clock, valid', tag', order', clock',
             SetOf(b), TagOf(b), w)
  BY DEF Miss, Placed
<1>5. w \in pick_victim(SetOf(b)) BY DEF Miss
<1>6. ~valid[SetOf(b)][w] \/ \A x \in Ways : valid[SetOf(b)][x]
  BY <1>5 DEF pick_victim
<1>7. repl # "random" => Oldest(valid, order, Ways, SetOf(b), w)
  BY <1>5 DEF pick_victim, Oldest
<1> QED BY <1>1, <1>2, <1>3, <1>4, <1>6, <1>7

\* No access puts a tag into two ways of a set or gives two ways one stamp.
LEMMA AccessKeepsSmall ==
    ASSUME NEW b \in Blocks, Small, cache_access(b)
    PROVE  Small'
<1>1. PICK w \in Ways : Hit(b, w) \/ Miss(b, w)
  BY DEF cache_access
<1>2. SetOf(b) \in Sets /\ TagOf(b) \in Nat BY SetAndTag
<1>3. CASE Placed(valid, tag, order, clock, valid', tag', order', clock',
                  SetOf(b), TagOf(b), w)
           /\ OnlyAt(valid, tag, Ways, SetOf(b), TagOf(b), w)
  <2>1. Sound(valid', tag', order', clock', Ways)
    BY <1>2, <1>3, StaysSound DEF Small
  <2> QED BY <2>1 DEF Small, Sound, Sets, Ways
<1>4. CASE UNCHANGED <<valid, tag, order, clock>>
  BY <1>4 DEF Small, Sound, Sets, Ways
<1>5. CASE Hit(b, w) BY <1>3, <1>4, <1>5, HitIs
<1>6. CASE Miss(b, w) BY <1>3, <1>6, MissIs
<1> QED BY <1>1, <1>5, <1>6

\* A set whose ways are all taken holds Assoc different blocks, all touched.
LEMMA FullSet ==
    ASSUME NEW s \in Sets, Small, HeldTouched, IsFiniteSet(touched),
           touched \subseteq Blocks, \A w \in Ways : valid[s][w]
    PROVE  Assoc <= Cardinality(InSet(s, touched))
<1> DEFINE T == InSet(s, touched)
           f == [w \in Ways |->
                    CHOOSE b \in touched : SetOf(b) = s /\ TagOf(b) = tag[s][w]]
<1>1. IsFiniteSet(T) /\ Cardinality(T) \in Nat
  <2>1. T \in SUBSET touched BY DEF InSet
  <2> QED BY <2>1, FS_Subset, FS_CardinalityType
<1>2. IsFiniteSet(Ways) /\ Cardinality(Ways) = Assoc
  <2>1. Assoc \in Nat /\ Assoc > 0 /\ 0 \in Int /\ Assoc-1 \in Int
    BY CacheAssumption
  <2>2. IsFiniteSet(0..Assoc-1) /\ Cardinality(0..Assoc-1) = Assoc-1-0+1
    BY <2>1, FS_Interval
  <2> QED BY <2>1, <2>2 DEF Ways
<1>3. ASSUME NEW w \in Ways
      PROVE  f[w] \in touched /\ SetOf(f[w]) = s /\ TagOf(f[w]) = tag[s][w]
  <2>1. \E b \in touched : SetOf(b) = s /\ TagOf(b) = tag[s][w]
    BY DEF HeldTouched
  <2> QED BY <2>1
<1>4. f \in [Ways -> T]
  <2> HIDE DEF f
  <2>1. \A w \in Ways : f[w] \in T BY <1>3 DEF InSet
  <2>2. f = [w \in Ways |-> f[w]] BY DEF f
  <2> QED BY <2>1, <2>2
<1>5. ASSUME NEW w \in Ways, NEW x \in Ways, w # x PROVE f[w] # f[x]
  <2> HIDE DEF f
  <2>1. tag[s][w] # tag[s][x] BY <1>5 DEF Small, Sound
  <2> QED BY <2>1, <1>3
<1> HIDE DEF f, T
<1>6. ~(Cardinality(T) < Cardinality(Ways))
  BY <1>1, <1>2, <1>4, <1>5, FS_PigeonHole
<1> QED BY <1>1, <1>2, <1>6, CacheAssumption DEF T

\* The blocks of set s and one more.
LEMMA OneMore ==
    ASSUME NEW b \in Blocks, touched' = touched \cup {b}
    PROVE  InSet(SetOf(b), touched)' = InSet(SetOf(b), touched) \cup {b}
BY DEF InSet, SetOf

\* The counters count, and what is held was touched.
Bookkeeping ==
    /\ Small
    /\ misses \in Nat
    /\ touched \subseteq Blocks /\ IsFiniteSet(touched)
    /\ HeldTouched

\* No set has been asked for more blocks than it has ways ...
Fits == \A s \in Sets : Cardinality(InSet(s, touched)) <= Assoc

\* ... and then every block touched has missed once and is still held.
AllHeld == Fits => misses = Cardinality(touched) /\ touched \subseteq Resident

\* An access keeps the books.
LEMMA AccessHeldTouched ==
    ASSUME NEW b \in Blocks, Bookkeeping, cache_access(b)
    PROVE  Bookkeeping'
<1>1. PICK w \in Ways : Hit(b, w) \/ Miss(b, w)
  BY DEF cache_access
<1>2. SetOf(b) \in Sets /\ TagOf(b) \in Nat BY SetAndTag
<1>3. Small' BY AccessKeepsSmall DEF Bookkeeping
<1>4. misses' \in Nat BY <1>1 DEF Bookkeeping, Hit, Miss
<1>5. touched' = touched \cup {b} BY <1>1 DEF Hit, Miss
<1>6. touched' \subseteq Blocks /\ IsFiniteSet(touched')
  BY <1>5, FS_AddElement DEF Bookkeeping
<1>7. HeldTouched'
  <2>1. \/ UNCHANGED <<valid, tag>>
        \/ Placed(valid, tag, order, clock, valid', tag', order', clock',
                  SetOf(b), TagOf(b), w)
    BY <1>1, HitIs, MissIs DEF Bookkeeping
  <2>2. CASE UNCHANGED <<valid, tag>>
    BY <2>2, <1>5 DEF HeldTouched, Bookkeeping, SetOf, TagOf, Sets, Ways
  <2>3. CASE Placed(valid, tag, order, clock, valid', tag', order', clock',
                    SetOf(b), TagOf(b), w)
    <3>1. NowAt(valid, tag, order, clock, valid', tag', order', clock',
                SetOf(b), TagOf(b), w, Ways)
      BY <2>3, <1>2, PlacedAt DEF Bookkeeping, Small
    <3>2. SUFFICES ASSUME NEW r \in Sets, NEW x \in Ways, valid'[r][x]
                   PROVE  \E a \in touched' : SetOf(a) = r /\ TagOf(a) = tag'[r][x]
      BY DEF HeldTouched, Sets, Ways, SetOf, TagOf
    <3>3. CASE r = SetOf(b) /\ x = w
      BY <3>1, <3>3, <1>5 DEF NowAt
    <3>4. CASE r # SetOf(b) \/ x # w
      <4>1. valid[r][x] /\ tag'[r][x] = tag[r][x]
        BY <3>1, <3>2, <3>4 DEF NowAt
      <4> QED BY <4>1, <1>5 DEF Bookkeeping, HeldTouched
    <3> QED BY <3>3, <3>4
  <2> QED BY <2>1, <2>2, <2>3
<1> QED BY <1>3, <1>4, <1>6, <1>7 DEF Bookkeeping

\* A block that is held is still held after an access that took an empty way or
\* none.
LEMMA StaysCached ==
    ASSUME NEW b \in Blocks, NEW a \in Blocks, NEW w \in Ways, Small, Cached(a),
           \/ UNCHANGED <<valid, tag>>
           \/ /\ Placed(valid, tag, order, clock, valid', tag', order', clock',
                        SetOf(b), TagOf(b), w)
              /\ ~valid[SetOf(b)][w]
    PROVE  Cached(a)'
<1>1. CASE UNCHANGED <<valid, tag>>
  BY <1>1 DEF Cached, Hits, SetOf, TagOf, Ways
<1>2. CASE /\ Placed(valid, tag, order, clock, valid', tag', order', clock',
                     SetOf(b), TagOf(b), w)
           /\ ~valid[SetOf(b)][w]
  <2>1. SetOf(b) \in Sets /\ TagOf(b) \in Nat /\ SetOf(a) \in Sets BY SetAndTag
  <2>2. NowAt(valid, tag, order, clock, valid', tag', order', clock',
              SetOf(b), TagOf(b), w, Ways)
    BY <1>2, <2>1, PlacedAt DEF Small
  <2>3. PICK x \in Ways : valid[SetOf(a)][x] /\ tag[SetOf(a)][x] = TagOf(a)
    BY DEF Cached, Hits
  <2>4. SetOf(a) # SetOf(b) \/ x # w BY <1>2, <2>3
  <2>5. valid'[SetOf(a)][x] /\ tag'[SetOf(a)][x] = TagOf(a)
    BY <2>1, <2>2, <2>3, <2>4 DEF NowAt
  <2> QED BY <2>5 DEF Cached, Hits, SetOf, TagOf, Ways
<1> QED BY <1>1, <1>2

\* What is held was touched.
LEMMA ResidentTouched ==
    ASSUME Bookkeeping
    PROVE  Resident \subseteq touched
<1> SUFFICES ASSUME NEW a \in Blocks, Cached(a) PROVE a \in touched
  BY DEF Resident
<1>1. SetOf(a) \in Sets BY SetAndTag
<1>2. PICK x \in Ways : valid[SetOf(a)][x] /\ tag[SetOf(a)][x] = TagOf(a)
  BY DEF Cached, Hits
<1>3. PICK b \in touched : SetOf(b) = SetOf(a) /\ TagOf(b) = TagOf(a)
  BY <1>1, <1>2 DEF Bookkeeping, HeldTouched
<1>4. a = b BY <1>3, SameBlock DEF Bookkeeping
<1> QED BY <1>4

\* Fewer blocks fit where more do.
LEMMA FitBefore ==
    ASSUME NEW b \in Blocks, Bookkeeping, touched' = touched \cup {b}, Fits'
    PROVE  Fits
<1> SUFFICES ASSUME NEW s \in Sets
             PROVE  Cardinality(InSet(s, touched)) <= Assoc
  BY DEF Fits
<1> DEFINE T == InSet(s, touched)
           U == {c \in touched \cup {b} : SetOf(c) = s}
<1>1. Cardinality(U) <= Assoc
  <2>1. s \in Sets' BY DEF Sets
  <2>2. Cardinality(InSet(s, touched)') <= Assoc BY <2>1 DEF Fits
  <2>3. InSet(s, touched)' = U BY DEF InSet, SetOf
  <2> QED BY <2>2, <2>3
<1>2. IsFiniteSet(touched \cup {b}) BY FS_AddElement DEF Bookkeeping
<1>3. U \in SUBSET (touched \cup {b}) OBVIOUS
<1>4. IsFiniteSet(U) BY <1>2, <1>3, FS_Subset
<1>5. T \in SUBSET U BY DEF InSet
<1> HIDE DEF T, U
<1>6. Cardinality(T) <= Cardinality(U) /\ IsFiniteSet(T) BY <1>4, <1>5, FS_Subset
<1>7. Cardinality(T) \in Nat /\ Cardinality(U) \in Nat
  BY <1>4, <1>6, FS_CardinalityType
<1> QED BY <1>1, <1>6, <1>7, CacheAssumption DEF T

\* An access evicts nothing while the blocks of its set fit.
LEMMA AccessKeepsAll ==
    ASSUME NEW b \in Blocks, Bookkeeping, AllHeld, cache_access(b)
    PROVE  AllHeld'
<1> SUFFICES ASSUME Fits'
             PROVE  misses' = Cardinality(touched)' /\ (touched \subseteq Resident)'
  BY DEF AllHeld
<1>1. PICK w \in Ways : Hit(b, w) \/ Miss(b, w)
  BY DEF cache_access
<1>2. SetOf(b) \in Sets /\ TagOf(b) \in Nat BY SetAndTag
<1>3. touched' = touched \cup {b} BY <1>1 DEF Hit, Miss
<1>4. Fits BY <1>3, FitBefore
<1>5. misses = Cardinality(touched) /\ \A a \in touched : a \in Blocks /\ Cached(a)
  BY <1>4 DEF AllHeld, Resident
<1>6. CASE Hit(b, w)
  <2>1. valid' = valid /\ tag' = tag /\ misses' = misses BY <1>6 DEF Hit
  <2>2. Cached(b) BY <1>6 DEF Hit, Cached
  <2>3. b \in touched BY <2>2, ResidentTouched DEF Resident
  <2>4. touched' = touched BY <2>3, <1>3
  <2>5. \A a \in touched : Cached(a)'
    BY <1>5, <2>1 DEF Cached, Hits, SetOf, TagOf, Ways
  <2> QED BY <1>5, <2>1, <2>4, <2>5 DEF Resident
<1>7. CASE Miss(b, w)
  <2>0. Small /\ IsFiniteSet(touched) BY DEF Bookkeeping
  <2>1. b \notin touched BY <1>7, <1>5 DEF Miss
  <2>2. misses' = misses + 1 BY <1>7 DEF Miss
  <2>3. Cardinality(touched') = Cardinality(touched) + 1
    BY <1>3, <2>0, <2>1, FS_AddElement
  <2>4. ~(\A x \in Ways : valid[SetOf(b)][x])
    <3> SUFFICES ASSUME \A x \in Ways : valid[SetOf(b)][x] PROVE FALSE
      OBVIOUS
    <3> DEFINE T == InSet(SetOf(b), touched)
    <3>1. Assoc <= Cardinality(T) BY <1>2, FullSet DEF Bookkeeping
    <3>2. IsFiniteSet(T)
      <4>1. T \in SUBSET touched BY DEF InSet
      <4> QED BY <4>1, <2>0, FS_Subset
    <3>3. b \notin T BY <2>1 DEF InSet
    <3>4. T' = T \cup {b} BY <1>3, OneMore
    <3>5. Cardinality(T') <= Assoc
      <4>1. SetOf(b) \in Sets' BY <1>2 DEF Sets
      <4>2. SetOf(b)' = SetOf(b) BY DEF SetOf
      <4> QED BY <4>1, <4>2 DEF Fits
    <3>6. Cardinality(T') = Cardinality(T) + 1
      BY <3>2, <3>3, <3>4, FS_AddElement
    <3>7. Cardinality(T) \in Nat BY <3>2, FS_CardinalityType
    <3> HIDE DEF T
    <3> QED BY <3>1, <3>5, <3>6, <3>7, CacheAssumption
  <2>5. ~valid[SetOf(b)][w] BY <1>7, <2>0, <2>4, MissIs
  <2>6. Placed(valid, tag, order, clock, valid', tag', order', clock',
               SetOf(b), TagOf(b), w)
    BY <1>7, <2>0, MissIs
  <2>7. \A a \in touched : Cached(a)'
    BY <1>5, <2>0, <2>5, <2>6, StaysCached
  <2>8. Cached(b)'
    <3>1. NowAt(valid, tag, order, clock, valid', tag', order', clock',
                SetOf(b), TagOf(b), w, Ways)
      BY <2>0, <2>6, <1>2, PlacedAt DEF Small
    <3> QED BY <3>1 DEF NowAt, Cached, Hits, SetOf, TagOf, Ways
  <2> QED BY <1>3, <1>5, <2>2, <2>3, <2>7, <2>8 DEF Resident
<1> QED BY <1>1, <1>6, <1>7

\* The inductive invariant of CompulsoryOnly.
CompulsoryInv == Bookkeeping /\ AllHeld

\* While the blocks touched fit the ways of their sets, nothing is evicted, under
\* any of the three policies: cache_access misses once for each block.
THEOREM OnlyCompulsoryMisses == Spec => []CompulsoryOnly
<1>1. Init => CompulsoryInv
  <2> SUFFICES ASSUME Init PROVE CompulsoryInv
    OBVIOUS
  <2>1. valid = [s \in Sets |-> [w \in Ways |-> FALSE]]
        /\ tag = [s \in Sets |-> [w \in Ways |-> 0]]
        /\ order = [s \in Sets |-> [w \in Ways |-> 0]]
        /\ clock = 0 /\ misses = 0 /\ touched = {}
    BY DEF Init
  <2>2. Small BY <2>1 DEF Small, Sound
  <2>3. HeldTouched BY <2>1 DEF HeldTouched
  <2>4. IsFiniteSet({}) /\ Cardinality({}) = 0 BY FS_EmptySet
  <2>5. Bookkeeping BY <2>1, <2>2, <2>3, <2>4 DEF Bookkeeping
  <2>6. AllHeld BY <2>1, <2>4 DEF AllHeld
  <2> QED BY <2>5, <2>6 DEF CompulsoryInv
<1>2. CompulsoryInv /\ [Next]_vars => CompulsoryInv'
  <2>1. CASE Next
    BY <2>1, AccessHeldTouched, AccessKeepsAll DEF Next, CompulsoryInv
  <2>2. CASE UNCHANGED vars
    BY <2>2 DEF vars, CompulsoryInv, Bookkeeping, AllHeld, Small, Sound, HeldTouched,
        Fits, InSet, Resident, Cached, Hits, Sets, Ways, SetOf, TagOf
  <2> QED BY <2>1, <2>2
<1>3. CompulsoryInv => CompulsoryOnly
  BY ResidentTouched DEF CompulsoryInv, AllHeld, Fits, CompulsoryOnly
<1> QED BY <1>1, <1>2, <1>3, PTL DEF Spec

-----------------------------------------------------------------------------
(* Two caches on the same accesses, under LRU.                             *)

\* The larger cache is sound.
Large == Sound(l_valid, l_tag, l_order, l_clock, Larger!Ways)

\* Both caches divide blocks into the same sets and tags.
LEMMA LargerSets ==
    /\ Larger!Sets = Sets
    /\ \A b : Larger!SetOf(b) = SetOf(b) /\ Larger!TagOf(b) = TagOf(b)
BY DEF Larger!Sets, Sets, Larger!SetOf, SetOf, Larger!TagOf, TagOf

\* Every block of the smaller cache is in the larger one, last used at the
\* same time.
Included ==
    \A s \in Sets : \A w \in Ways : valid[s][w] =>
        \E x \in Larger!Ways :
            /\ l_valid[s][x]
            /\ l_tag[s][x] = tag[s][w]
            /\ l_order[s][x] = order[s][w]

\* A block only the larger cache holds finds the smaller one's set full, with
\* blocks all used later.
RestOlder ==
    \A s \in Sets : \A x \in Larger!Ways : l_valid[s][x] =>
        \/ \E w \in Ways : valid[s][w] /\ tag[s][w] = l_tag[s][x]
        \/ \A w \in Ways : valid[s][w] /\ l_order[s][x] < order[s][w]

\* The block accessed is now in way w of the small, or x of the large cache.
SmallPlaced(b, w) ==
    /\ Placed(valid, tag, order, clock, valid', tag', order', clock',
              SetOf(b), TagOf(b), w)
    /\ OnlyAt(valid, tag, Ways, SetOf(b), TagOf(b), w)

LargePlaced(b, x) ==
    /\ Placed(l_valid, l_tag, l_order, l_clock, l_valid', l_tag', l_order', l_clock',
              SetOf(b), TagOf(b), x)
    /\ OnlyAt(l_valid, l_tag, Larger!Ways, SetOf(b), TagOf(b), x)

\* Under LRU a hit and a miss of the larger cache do the same to the way they
\* choose, as in HitIs and MissIs.
LEMMA LargerHitIs ==
    ASSUME NEW b \in Blocks, NEW x \in Larger!Ways, repl = "lru", Large,
           Larger!Hit(b, x)
    PROVE  /\ l_valid[SetOf(b)][x] /\ l_tag[SetOf(b)][x] = TagOf(b)
           /\ LargePlaced(b, x)
           /\ l_misses' = l_misses
<1> DEFINE s == SetOf(b)
<1>0. s \in Sets BY SetAndTag
<1>1. l_valid[s][x] /\ l_tag[s][x] = TagOf(b)
  BY LargerSets DEF Larger!Hit, Larger!Hits
<1>2. OnlyAt(l_valid, l_tag, Larger!Ways, s, TagOf(b), x)
  BY <1>0, <1>1 DEF Large, Sound, OnlyAt
<1>3. l_valid' = l_valid /\ l_tag' = l_tag /\ l_misses' = l_misses
  BY DEF Larger!Hit
<1>4. l_valid = [l_valid EXCEPT ![s][x] = TRUE]
  BY <1>0, <1>1 DEF Large, Sound
<1>5. l_tag = [l_tag EXCEPT ![s][x] = TagOf(b)]
  BY <1>0, <1>1 DEF Large, Sound
<1>6. l_clock' = l_clock + 1 /\ l_order' = [l_order EXCEPT ![s][x] = l_clock + 1]
  BY LargerSets DEF Larger!Hit
<1> QED BY <1>1, <1>2, <1>3, <1>4, <1>5, <1>6 DEF Placed, LargePlaced

\* A miss of the larger cache evicts its oldest way.
LEMMA LargerMissIs ==
    ASSUME NEW b \in Blocks, NEW x \in Larger!Ways, repl = "lru", Large,
           Larger!Miss(b, x)
    PROVE  /\ \A y \in Larger!Ways :
                  ~(l_valid[SetOf(b)][y] /\ l_tag[SetOf(b)][y] = TagOf(b))
           /\ LargePlaced(b, x)
           /\ Oldest(l_valid, l_order, Larger!Ways, SetOf(b), x)
           /\ l_misses' = l_misses + 1
<1>1. \A y \in Larger!Ways : ~(l_valid[SetOf(b)][y] /\ l_tag[SetOf(b)][y] = TagOf(b))
  BY LargerSets DEF Larger!Miss, Larger!Cached, Larger!Hits
<1>2. OnlyAt(l_valid, l_tag, Larger!Ways, SetOf(b), TagOf(b), x)
  BY <1>1 DEF OnlyAt
<1>3. Placed(l_valid, l_tag, l_order, l_clock, l_valid', l_tag', l_order', l_clock',
             SetOf(b), TagOf(b), x)
  BY LargerSets DEF Larger!Miss, Placed
<1>4. x \in Larger!pick_victim(SetOf(b)) BY LargerSets DEF Larger!Miss
<1>5. Oldest(l_valid, l_order, Larger!Ways, SetOf(b), x)
  BY <1>4 DEF Larger!pick_victim, Oldest
<1>6. l_misses' = l_misses + 1 BY DEF Larger!Miss
<1> QED BY <1>1, <1>2, <1>3, <1>5, <1>6 DEF LargePlaced

\* If every way of the larger cache is taken and the smaller has an empty one,
\* the larger holds a block the smaller does not: it has more blocks than the
\* smaller has taken ways.
LEMMA LargerHasMore ==
    ASSUME NEW s \in Sets, NEW w \in Ways, Small, Large, ~valid[s][w],
           \A x \in Larger!Ways : l_valid[s][x]
    PROVE  \E x \in Larger!Ways : ~\E y \in Ways : valid[s][y] /\ tag[s][y] = l_tag[s][x]
<1> SUFFICES ASSUME \A x \in Larger!Ways :
                        \E y \in Ways : valid[s][y] /\ tag[s][y] = l_tag[s][x]
             PROVE  FALSE
  OBVIOUS
<1> DEFINE T == Ways \ {w}
           L == Larger!Ways
           f == [x \in L |-> CHOOSE y \in Ways : valid[s][y] /\ tag[s][y] = l_tag[s][x]]
<1>1. Assoc \in Nat /\ Assoc > 0 /\ MoreAssoc \in Nat /\ Assoc <= MoreAssoc
  BY CacheAssumption, MoreAssumption
<1>2. IsFiniteSet(Ways) /\ Cardinality(Ways) = Assoc
  <2>1. IsFiniteSet(0..Assoc-1) /\ Cardinality(0..Assoc-1) = Assoc-1-0+1
    BY <1>1, FS_Interval
  <2> QED BY <1>1, <2>1 DEF Ways
<1>3. IsFiniteSet(L) /\ Cardinality(L) = MoreAssoc
  <2>1. IsFiniteSet(0..MoreAssoc-1) /\ Cardinality(0..MoreAssoc-1) = MoreAssoc-1-0+1
    BY <1>1, FS_Interval
  <2> QED BY <1>1, <2>1 DEF Larger!Ways
<1>4. IsFiniteSet(T) /\ Cardinality(T) = Assoc - 1
  BY <1>2, FS_RemoveElement
<1>5. ASSUME NEW x \in L
      PROVE  f[x] \in Ways /\ valid[s][f[x]] /\ tag[s][f[x]] = l_tag[s][x]
  <2>1. \E y \in Ways : valid[s][y] /\ tag[s][y] = l_tag[s][x]
    OBVIOUS
  <2> QED BY <2>1
<1>6. f = [x \in L |-> f[x]] OBVIOUS
<1> HIDE DEF f
<1>7. f \in [L -> T]
  <2>1. \A x \in L : f[x] \in T BY <1>5
  <2> QED BY <2>1, <1>6
<1>8. \A x, y \in L : x # y => f[x] # f[y]
  <2> SUFFICES ASSUME NEW x \in L, NEW y \in L, x # y PROVE f[x] # f[y]
    OBVIOUS
  <2>1. l_tag[s][x] # l_tag[s][y] BY DEF Large, Sound
  <2> QED BY <2>1, <1>5
<1> HIDE DEF L, T
<1>9. ~(Cardinality(T) < Cardinality(L))
  BY <1>3, <1>4, <1>7, <1>8, FS_PigeonHole
<1> QED BY <1>1, <1>3, <1>4, <1>9

\* What an access to block b does under LRU: way w of the smaller cache and way x
\* of the larger one.
SmallAccess(b, w) ==
    /\ SmallPlaced(b, w)
    /\ \/ valid[SetOf(b)][w] /\ tag[SetOf(b)][w] = TagOf(b)
       \/ /\ \A y \in Ways : ~(valid[SetOf(b)][y] /\ tag[SetOf(b)][y] = TagOf(b))
          /\ Oldest(valid, order, Ways, SetOf(b), w)

\* An access of the larger cache, hit or miss.
LargeAccess(b, x) ==
    /\ LargePlaced(b, x)
    /\ \/ l_valid[SetOf(b)][x] /\ l_tag[SetOf(b)][x] = TagOf(b)
       \/ /\ \A y \in Larger!Ways :
                 ~(l_valid[SetOf(b)][y] /\ l_tag[SetOf(b)][y] = TagOf(b))
          /\ Oldest(l_valid, l_order, Larger!Ways, SetOf(b), x)

\* The inductive invariant of LruInclusion, for two LRU caches.
LruInv == Small /\ Large /\ clock = l_clock /\ Included /\ RestOlder

\* The larger cache does not evict a block the smaller one keeps.
LEMMA KeepsPartner ==
    ASSUME NEW b \in Blocks, NEW w \in Ways, NEW x \in Larger!Ways, LruInv,
           SmallAccess(b, w), LargeAccess(b, x),
           NEW y \in Ways, y # w, valid[SetOf(b)][y],
           NEW z \in Larger!Ways, l_valid[SetOf(b)][z],
           l_tag[SetOf(b)][z] = tag[SetOf(b)][y],
           l_order[SetOf(b)][z] = order[SetOf(b)][y]
    PROVE  z # x
<1> DEFINE s == SetOf(b)
<1>0. s \in Sets /\ TagOf(b) \in Nat BY SetAndTag
<1>1. Small /\ Large /\ Included /\ RestOlder BY DEF LruInv
<1>2. tag[s][y] # TagOf(b) BY DEF SmallAccess, SmallPlaced, OnlyAt
<1>3. CASE l_valid[s][x] /\ l_tag[s][x] = TagOf(b)
  BY <1>2, <1>3
<1>4. CASE /\ \A v \in Larger!Ways : ~(l_valid[s][v] /\ l_tag[s][v] = TagOf(b))
           /\ Oldest(l_valid, l_order, Larger!Ways, s, x)
  <2> SUFFICES ASSUME z = x PROVE FALSE
    OBVIOUS
  <2>1. /\ \A v \in Larger!Ways : l_valid[s][v]
        /\ \A v \in Larger!Ways : l_order[s][x] <= l_order[s][v]
    BY <1>4 DEF Oldest
  <2>2. ~(valid[s][w] /\ tag[s][w] = TagOf(b))
    BY <1>0, <1>1, <1>4 DEF Included
  <2>3. Oldest(valid, order, Ways, s, w)
    BY <2>2 DEF SmallAccess
  <2>4. CASE ~valid[s][w]
    <3>1. PICK v \in Larger!Ways : ~\E u \in Ways : valid[s][u] /\ tag[s][u] = l_tag[s][v]
      BY <1>0, <1>1, <2>1, <2>4, LargerHasMore
    <3> QED BY <3>1, <2>1, <2>4, <1>0, <1>1 DEF RestOlder
  <2>5. CASE valid[s][w]
    <3>1. order[s][w] <= order[s][y]
      BY <2>3, <2>5 DEF Oldest
    <3>2. PICK v \in Larger!Ways : l_valid[s][v] /\ l_order[s][v] = order[s][w]
      BY <1>0, <1>1, <2>5 DEF Included
    <3>3. order[s][y] <= order[s][w] BY <3>2, <2>1
    <3>4. order[s][y] \in Nat /\ order[s][w] \in Nat
      BY <1>0, <1>1 DEF Small, Sound
    <3>5. order[s][y] = order[s][w] BY <3>1, <3>3, <3>4
    <3> QED BY <3>5, <2>5, <1>0, <1>1 DEF Small, Sound
  <2> QED BY <2>4, <2>5
<1> QED BY <1>3, <1>4 DEF LargeAccess

\* The two caches after an access, way by way.
LEMMA BothPlaced ==
    ASSUME NEW b \in Blocks, NEW w \in Ways, NEW x \in Larger!Ways, LruInv,
           SmallAccess(b, w), LargeAccess(b, x)
    PROVE  /\ NowAt(valid, tag, order, clock, valid', tag', order', clock',
                    SetOf(b), TagOf(b), w, Ways)
           /\ NowAt(l_valid, l_tag, l_order, l_clock, l_valid', l_tag', l_order',
                    l_clock', SetOf(b), TagOf(b), x, Larger!Ways)
<1>0. SetOf(b) \in Sets /\ TagOf(b) \in Nat BY SetAndTag
<1>1. NowAt(valid, tag, order, clock, valid', tag', order', clock',
            SetOf(b), TagOf(b), w, Ways)
  BY <1>0, PlacedAt DEF LruInv, Small, SmallAccess, SmallPlaced
<1>2. NowAt(l_valid, l_tag, l_order, l_clock, l_valid', l_tag', l_order',
            l_clock', SetOf(b), TagOf(b), x, Larger!Ways)
  BY <1>0, PlacedAt DEF LruInv, Large, LargeAccess, LargePlaced
<1> QED BY <1>1, <1>2

\* What the small cache holds the large one holds, with the same stamp.
LEMMA StaysIncluded ==
    ASSUME NEW b \in Blocks, NEW w \in Ways, NEW x \in Larger!Ways, LruInv,
           SmallAccess(b, w), LargeAccess(b, x)
    PROVE  Included'
<1> DEFINE s == SetOf(b)
<1>0. s \in Sets BY SetAndTag
<1>1. /\ NowAt(valid, tag, order, clock, valid', tag', order', clock',
               s, TagOf(b), w, Ways)
      /\ NowAt(l_valid, l_tag, l_order, l_clock, l_valid', l_tag', l_order',
               l_clock', s, TagOf(b), x, Larger!Ways)
  BY BothPlaced
<1>2. SUFFICES ASSUME NEW r \in Sets, NEW y \in Ways, valid'[r][y]
               PROVE  \E z \in Larger!Ways :
                          /\ l_valid'[r][z]
                          /\ l_tag'[r][z] = tag'[r][y]
                          /\ l_order'[r][z] = order'[r][y]
  BY DEF Included, Sets, Ways, Larger!Ways
<1>3. CASE r = s /\ y = w
  BY <1>1, <1>3 DEF NowAt, LruInv
<1>4. CASE r # s \/ y # w
  <2>1. valid[r][y] /\ tag'[r][y] = tag[r][y] /\ order'[r][y] = order[r][y]
    BY <1>1, <1>2, <1>4 DEF NowAt
  <2>2. PICK z \in Larger!Ways : /\ l_valid[r][z]
                                 /\ l_tag[r][z] = tag[r][y]
                                 /\ l_order[r][z] = order[r][y]
    BY <2>1 DEF LruInv, Included
  <2>3. r # s \/ z # x
    BY <1>4, <2>1, <2>2, KeepsPartner
  <2>4. l_valid'[r][z] /\ l_tag'[r][z] = l_tag[r][z] /\ l_order'[r][z] = l_order[r][z]
    BY <1>1, <2>2, <2>3 DEF NowAt
  <2> QED BY <2>1, <2>2, <2>4
<1> QED BY <1>3, <1>4

\* What only the large cache holds is older than all the small one holds.
LEMMA RestStaysOlder ==
    ASSUME NEW b \in Blocks, NEW w \in Ways, NEW x \in Larger!Ways, LruInv,
           SmallAccess(b, w), LargeAccess(b, x)
    PROVE  RestOlder'
<1> DEFINE s == SetOf(b)
<1>0. s \in Sets BY SetAndTag
<1>a. Small /\ Large /\ Included /\ RestOlder /\ clock = l_clock BY DEF LruInv
<1>1. /\ NowAt(valid, tag, order, clock, valid', tag', order', clock',
               s, TagOf(b), w, Ways)
      /\ NowAt(l_valid, l_tag, l_order, l_clock, l_valid', l_tag', l_order',
               l_clock', s, TagOf(b), x, Larger!Ways)
  BY BothPlaced
<1>2. SUFFICES ASSUME NEW r \in Sets, NEW z \in Larger!Ways, l_valid'[r][z],
                      ~\E y \in Ways : valid'[r][y] /\ tag'[r][y] = l_tag'[r][z]
               PROVE  \A y \in Ways : valid'[r][y] /\ l_order'[r][z] < order'[r][y]
  BY DEF RestOlder, Sets, Ways, Larger!Ways
<1>3. r # s \/ z # x
  BY <1>1, <1>2 DEF NowAt
<1>4. l_valid[r][z] /\ l_tag'[r][z] = l_tag[r][z] /\ l_order'[r][z] = l_order[r][z]
  BY <1>1, <1>2, <1>3 DEF NowAt
<1>5. l_order[r][z] \in Nat /\ l_order[r][z] <= clock /\ clock \in Nat
  BY <1>a DEF Large, Small, Sound
<1>6. ASSUME \A y \in Ways : y # w \/ r # s => valid[r][y] /\ l_order[r][z] < order[r][y]
      PROVE  \A y \in Ways : valid'[r][y] /\ l_order'[r][z] < order'[r][y]
  <2> SUFFICES ASSUME NEW y \in Ways
               PROVE  valid'[r][y] /\ l_order'[r][z] < order'[r][y]
    OBVIOUS
  <2>1. CASE r = s /\ y = w
    <3>1. valid'[r][y] /\ order'[r][y] = clock + 1 BY <2>1, <1>1 DEF NowAt
    <3> QED BY <3>1, <1>4, <1>5
  <2>2. CASE r # s \/ y # w
    <3>1. valid'[r][y] = valid[r][y] /\ order'[r][y] = order[r][y]
      BY <2>2, <1>1 DEF NowAt
    <3> QED BY <3>1, <2>2, <1>4, <1>6
  <2> QED BY <2>1, <2>2
<1>7. CASE \A y \in Ways : valid[r][y] /\ l_order[r][z] < order[r][y]
  BY <1>6, <1>7
<1>8. CASE \E y \in Ways : valid[r][y] /\ tag[r][y] = l_tag[r][z]
  <2>1. PICK y \in Ways : valid[r][y] /\ tag[r][y] = l_tag[r][z] BY <1>8
  <2>2. r = s /\ y = w
    <3> SUFFICES ASSUME r # s \/ y # w PROVE FALSE
      OBVIOUS
    <3>1. valid'[r][y] = valid[r][y] /\ tag'[r][y] = tag[r][y] BY <1>1 DEF NowAt
    <3> QED BY <3>1, <2>1, <1>2, <1>4
  <2>3. tag[s][w] # TagOf(b)
    <3>1. valid'[s][w] /\ tag'[s][w] = TagOf(b) BY <1>1 DEF NowAt
    <3> QED BY <3>1, <2>1, <2>2, <1>2, <1>4
  <2>4. Oldest(valid, order, Ways, s, w) BY <2>3 DEF SmallAccess
  <2>5. \A u \in Ways : valid[s][u] /\ order[s][w] <= order[s][u]
    BY <2>1, <2>2, <2>4 DEF Oldest
  <2>6. PICK v \in Larger!Ways : /\ l_valid[s][v] /\ l_tag[s][v] = tag[s][w]
                                 /\ l_order[s][v] = order[s][w]
    BY <2>1, <2>2, <1>0, <1>a DEF Included
  <2>7. v = z
    BY <2>1, <2>2, <2>6, <1>4, <1>0, <1>a DEF Large, Sound
  <2>8. ASSUME NEW u \in Ways, u # w \/ r # s
        PROVE  valid[r][u] /\ l_order[r][z] < order[r][u]
    <3>1. order[s][u] # order[s][w]
      BY <2>2, <2>5, <2>8, <1>0, <1>a DEF Small, Sound
    <3>2. order[s][u] \in Nat /\ order[s][w] \in Nat
      BY <1>0, <1>a DEF Small, Sound
    <3>3. order[s][w] <= order[s][u] BY <2>5
    <3>4. order[s][w] < order[s][u] BY <3>1, <3>2, <3>3
    <3> QED BY <3>4, <2>2, <2>5, <2>6, <2>7
  <2> QED BY <1>6, <2>8
<1> QED BY <1>7, <1>8, <1>4, <1>a DEF RestOlder

\* With LRU, and with the miss counts it entails.
InclusionInv ==
    repl = "lru" =>
        /\ LruInv
        /\ misses \in Nat /\ l_misses \in Nat /\ l_misses <= misses

\* One access to both caches keeps it.
LEMMA PairStep ==
    ASSUME NEW b \in Blocks, InclusionInv, cache_access(b), Larger!cache_access(b)
    PROVE  InclusionInv'
<1> SUFFICES ASSUME repl' = "lru"
             PROVE  /\ LruInv'
                    /\ misses' \in Nat /\ l_misses' \in Nat /\ l_misses' <= misses'
  BY DEF InclusionInv
<1>1. PICK w \in Ways : Hit(b, w) \/ Miss(b, w)
  BY DEF cache_access
<1>2. PICK x \in Larger!Ways : Larger!Hit(b, x) \/ Larger!Miss(b, x)
  BY DEF Larger!cache_access
<1>3. repl = "lru" BY <1>1 DEF Hit, Miss
<1>4. LruInv /\ misses \in Nat /\ l_misses \in Nat /\ l_misses <= misses
  BY <1>3 DEF InclusionInv
<1>5. Small /\ Large /\ Included /\ clock = l_clock BY <1>4 DEF LruInv
<1>6. SetOf(b) \in Sets /\ TagOf(b) \in Nat BY SetAndTag
<1>7. SmallAccess(b, w)
  BY <1>1, <1>3, <1>5, HitIs, MissIs DEF SmallAccess, SmallPlaced
<1>8. LargeAccess(b, x)
  BY <1>2, <1>3, <1>5, LargerHitIs, LargerMissIs DEF LargeAccess
<1>9. Included' /\ RestOlder'
  BY <1>4, <1>7, <1>8, StaysIncluded, RestStaysOlder
<1>10. Small' BY <1>5, AccessKeepsSmall
<1>11. Large'
  <2>1. Sound(l_valid', l_tag', l_order', l_clock', Larger!Ways)
    BY <1>5, <1>6, <1>8, StaysSound DEF Large, LargeAccess, LargePlaced
  <2> QED BY <2>1 DEF Large, Sound, Sets, Larger!Ways
<1>12. clock' = l_clock'
  BY <1>5, <1>7, <1>8
     DEF SmallAccess, SmallPlaced, LargeAccess, LargePlaced, Placed
<1>13. misses' \in Nat /\ l_misses' \in Nat /\ l_misses' <= misses'
  <2>1. CASE Miss(b, w)
    <3>1. misses' = misses + 1 BY <2>1 DEF Miss
    <3>2. l_misses' = l_misses \/ l_misses' = l_misses + 1
      BY <1>2, <1>3, <1>5, LargerHitIs, LargerMissIs
    <3> QED BY <3>1, <3>2, <1>4
  <2>2. CASE Hit(b, w)
    <3>1. valid[SetOf(b)][w] /\ tag[SetOf(b)][w] = TagOf(b)
      BY <2>2, <1>5, HitIs
    <3>2. PICK y \in Larger!Ways : l_valid[SetOf(b)][y] /\ l_tag[SetOf(b)][y] = TagOf(b)
      BY <3>1, <1>5, <1>6 DEF Included
    <3>3. ~Larger!Miss(b, x) BY <3>2, <1>3, <1>5, LargerMissIs
    <3>4. l_misses' = l_misses BY <3>3, <1>2, <1>3, <1>5, LargerHitIs
    <3>5. misses' = misses BY <2>2 DEF Hit
    <3> QED BY <3>4, <3>5, <1>4
  <2> QED BY <1>1, <2>1, <2>2
<1> QED BY <1>9, <1>10, <1>11, <1>12, <1>13 DEF LruInv

\* LRU has the inclusion property, for caches of any number of sets and of any two
\* associativities: what the smaller cache holds the larger one holds, and the
\* larger never misses more often.
THEOREM InclusionHolds == ISpec => []LruInclusion
<1>1. IInit => InclusionInv
  <2> SUFFICES ASSUME IInit PROVE InclusionInv
    OBVIOUS
  <2>1. /\ valid = [s \in Sets |-> [w \in Ways |-> FALSE]]
        /\ tag = [s \in Sets |-> [w \in Ways |-> 0]]
        /\ order = [s \in Sets |-> [w \in Ways |-> 0]]
        /\ clock = 0 /\ misses = 0
    BY DEF IInit, Init
  <2>2. /\ l_valid = [s \in Sets |-> [w \in Larger!Ways |-> FALSE]]
        /\ l_tag = [s \in Sets |-> [w \in Larger!Ways |-> 0]]
        /\ l_order = [s \in Sets |-> [w \in Larger!Ways |-> 0]]
        /\ l_clock = 0 /\ l_misses = 0
    BY LargerSets DEF IInit, Larger!Init
  <2>3. Small BY <2>1 DEF Small, Sound
  <2>4. Large BY <2>2 DEF Large, Sound
  <2>5. Included BY <2>1 DEF Included
  <2>6. RestOlder BY <2>2 DEF RestOlder
  <2> QED BY <2>1, <2>2, <2>3, <2>4, <2>5, <2>6 DEF InclusionInv, LruInv
<1>2. ASSUME InclusionInv, [INext]_<<vars, l_valid, l_tag, l_order, l_clock, l_misses>>
      PROVE  InclusionInv'
  <2>1. CASE INext BY <1>2, <2>1, PairStep DEF INext
  <2>2. CASE UNCHANGED <<vars, l_valid, l_tag, l_order, l_clock, l_misses>>
    BY <1>2, <2>2 DEF vars, InclusionInv, LruInv, Small, Large, Sound, Included,
        RestOlder, Sets, Ways, Larger!Ways
  <2> QED BY <1>2, <2>1, <2>2
<1>3. InclusionInv => LruInclusion
  <2> SUFFICES ASSUME InclusionInv, repl = "lru"
               PROVE  Resident \subseteq Larger!Resident /\ l_misses <= misses
    BY DEF LruInclusion
  <2>1. Included /\ l_misses <= misses BY DEF InclusionInv, LruInv
  <2>2. ASSUME NEW b \in Blocks, Cached(b) PROVE Larger!Cached(b)
    <3>1. SetOf(b) \in Sets BY SetAndTag
    <3>2. PICK w \in Ways : valid[SetOf(b)][w] /\ tag[SetOf(b)][w] = TagOf(b)
      BY <2>2 DEF Cached, Hits
    <3>3. PICK x \in Larger!Ways : l_valid[SetOf(b)][x] /\ l_tag[SetOf(b)][x] = TagOf(b)
      BY <2>1, <3>1, <3>2 DEF Included
    <3> QED BY <3>3, LargerSets DEF Larger!Cached, Larger!Hits
  <2> QED BY <2>1, <2>2 DEF Resident, Larger!Resident
<1> QED BY <1>1, <1>2, <1>3, PTL DEF ISpec

\* The same for the pair of caches the run checks: the smaller one is a cache like
\* any other.
THEOREM PairOnlyCompulsory == ISpec => []CompulsoryOnly
<1>1. IInit => Init BY DEF IInit
<1>2. [INext]_<<vars, l_valid, l_tag, l_order, l_clock, l_misses>> => [Next]_vars
  BY DEF INext, Next
<1> QED BY <1>1, <1>2, OnlyCompulsoryMisses, PTL DEF ISpec, Spec

-----------------------------------------------------------------------------
(* Ranks.  V is a finite set of ways with distinct stamps o.               *)

\* The place of way w among V, newest stamp first.
RankIn(V, o, w) == Cardinality({v \in V : o[v] >= o[w]})

\* Finitely many ways with distinct stamps.
Stamped(V, o) ==
    /\ IsFiniteSet(V)
    /\ \A w \in V : o[w] \in Nat
    /\ \A w, x \in V : o[w] = o[x] => w = x

\* Ranks count from 1 to the number of ways.
LEMMA RankSet ==
    ASSUME NEW V, NEW o, Stamped(V, o), NEW w \in V
    PROVE  /\ IsFiniteSet({v \in V : o[v] >= o[w]})
           /\ RankIn(V, o, w) \in 1..Cardinality(V)
           /\ Cardinality(V) \in Nat /\ RankIn(V, o, w) \in Nat
<1> DEFINE S == {v \in V : o[v] >= o[w]}
<1>1. S \in SUBSET V OBVIOUS
<1>2. IsFiniteSet(V) BY DEF Stamped
<1>3. o[w] \in Nat BY DEF Stamped
<1>4. w \in S BY <1>3
<1> HIDE DEF S
<1>5. IsFiniteSet(S) /\ Cardinality(S) <= Cardinality(V) BY <1>1, <1>2, FS_Subset
<1>6. Cardinality(S) \in Nat /\ Cardinality(V) \in Nat
  BY <1>2, <1>5, FS_CardinalityType
<1>7. Cardinality(S) # 0 BY <1>4, <1>5, FS_EmptySet
<1>8. Cardinality(S) \in 1..Cardinality(V) BY <1>5, <1>6, <1>7
<1> QED BY <1>5, <1>6, <1>8 DEF S, RankIn

\* A newer stamp has a smaller rank.
LEMMA RankOrder ==
    ASSUME NEW V, NEW o, Stamped(V, o), NEW w \in V, NEW x \in V, o[w] > o[x]
    PROVE  RankIn(V, o, w) < RankIn(V, o, x)
<1> DEFINE S == {v \in V : o[v] >= o[w]}
           T == {v \in V : o[v] >= o[x]}
<1>1. \A v \in V : o[v] \in Nat BY DEF Stamped
<1>2. S \in SUBSET T BY <1>1
<1>3. x \in T /\ x \notin S BY <1>1
<1>4. IsFiniteSet(T) BY RankSet
<1>5. Cardinality(S) = RankIn(V, o, w) /\ Cardinality(T) = RankIn(V, o, x)
  BY DEF RankIn
<1>6. RankIn(V, o, w) \in Nat /\ RankIn(V, o, x) \in Nat BY RankSet
<1> HIDE DEF S, T
<1>7. Cardinality(S) <= Cardinality(T) /\ (Cardinality(T) = Cardinality(S) => T = S)
  BY <1>2, <1>4, FS_Subset
<1>8. Cardinality(S) # Cardinality(T) BY <1>3, <1>7
<1> QED BY <1>5, <1>6, <1>7, <1>8

\* Different ways have different ranks.
LEMMA RankDistinct ==
    ASSUME NEW V, NEW o, Stamped(V, o), NEW w \in V, NEW x \in V, w # x
    PROVE  RankIn(V, o, w) # RankIn(V, o, x)
<1>1. o[w] \in Nat /\ o[x] \in Nat /\ o[w] # o[x] BY DEF Stamped
<1>2. RankIn(V, o, w) \in Nat /\ RankIn(V, o, x) \in Nat BY RankSet
<1>3. CASE o[w] > o[x] BY <1>3, <1>2, RankOrder
<1>4. CASE o[x] > o[w] BY <1>4, <1>2, RankOrder
<1> QED BY <1>1, <1>3, <1>4

\* Every position up to the number of ways is the rank of one of them.
LEMMA RankOnto ==
    ASSUME NEW V, NEW o, Stamped(V, o), NEW i \in 1..Cardinality(V)
    PROVE  \E w \in V : RankIn(V, o, w) = i
<1> DEFINE n == Cardinality(V)
           f == [w \in V |-> RankIn(V, o, w)]
<1>1. n \in Nat BY FS_CardinalityType DEF Stamped
<1>2. f \in [V -> 1..n] BY RankSet
<1>3. \A w, x \in V : w # x => f[w] # f[x] BY RankDistinct
<1> HIDE DEF f
<1>4. f \in Injection(V, 1..n) BY <1>2, <1>3 DEF Injection, IsInjective
<1>5. IsFiniteSet(1..n) /\ Cardinality(1..n) = n
  <2>1. IsFiniteSet(1..n) /\ Cardinality(1..n) = IF 1 > n THEN 0 ELSE n-1+1
    BY <1>1, FS_Interval
  <2> QED BY <1>1, <2>1
<1>6. f \in Surjection(V, 1..n) BY <1>4, <1>5, FS_Injection
<1>7. \E w \in V : f[w] = i BY <1>6 DEF Surjection
<1> QED BY <1>7 DEF f

\* The way at position i.
WayAt(V, o, i) == CHOOSE w \in V : RankIn(V, o, w) = i

\* WayAt inverts the rank ...
LEMMA WayAtRank ==
    ASSUME NEW V, NEW o, Stamped(V, o), NEW w \in V
    PROVE  WayAt(V, o, RankIn(V, o, w)) = w
<1> DEFINE x == WayAt(V, o, RankIn(V, o, w))
<1>1. x \in V /\ RankIn(V, o, x) = RankIn(V, o, w) BY DEF WayAt
<1> HIDE DEF x
<1> QED BY <1>1, RankDistinct DEF x

\* ... on every rank: counting shows that none is missed.
LEMMA RankOfWay ==
    ASSUME NEW V, NEW o, Stamped(V, o), NEW i \in 1..Cardinality(V)
    PROVE  WayAt(V, o, i) \in V /\ RankIn(V, o, WayAt(V, o, i)) = i
BY RankOnto DEF WayAt

\* Way w gets the newest stamp, being in V or not.
Renewed(V, o, V2, o2, w) ==
    /\ V2 = V \cup {w}
    /\ \A x \in V : x # w => o2[x] = o[x]
    /\ o2[w] \in Nat /\ \A x \in V : o[x] < o2[w]

\* A renewed way leaves the stamps distinct.
LEMMA RenewedStamped ==
    ASSUME NEW V, NEW o, NEW V2, NEW o2, NEW w, Stamped(V, o),
           Renewed(V, o, V2, o2, w)
    PROVE  Stamped(V2, o2)
<1>1. IsFiniteSet(V2) BY FS_AddElement DEF Stamped, Renewed
<1>2. \A x \in V2 : o2[x] \in Nat BY DEF Stamped, Renewed
<1>3. ASSUME NEW x \in V2, NEW y \in V2, o2[x] = o2[y] PROVE x = y
  <2>1. \A z \in V : o[z] \in Nat /\ o[z] < o2[w] BY DEF Stamped, Renewed
  <2>2. o2[w] \in Nat BY DEF Renewed
  <2>3. \A z \in V2 : z # w => z \in V /\ o2[z] = o[z] /\ o2[z] # o2[w]
    BY <2>1, <2>2 DEF Renewed
  <2> QED BY <1>3, <2>3 DEF Stamped
<1> QED BY <1>1, <1>2, <1>3 DEF Stamped

\* Its rank becomes 1, ...
LEMMA RenewedFirst ==
    ASSUME NEW V, NEW o, NEW V2, NEW o2, NEW w, Stamped(V, o),
           Renewed(V, o, V2, o2, w)
    PROVE  RankIn(V2, o2, w) = 1
<1>1. \A z \in V : o[z] \in Nat /\ o[z] < o2[w] BY DEF Stamped, Renewed
<1>2. o2[w] \in Nat BY DEF Renewed
<1>3. {v \in V2 : o2[v] >= o2[w]} = {w}
  BY <1>1, <1>2 DEF Renewed
<1>4. Cardinality({w}) = 1 BY FS_Singleton
<1> QED BY <1>3, <1>4 DEF RankIn

\* ... and that of the others grows by one unless w was before it already.
LEMMA RenewedOthers ==
    ASSUME NEW V, NEW o, NEW V2, NEW o2, NEW w, Stamped(V, o),
           Renewed(V, o, V2, o2, w), NEW x \in V, x # w
    PROVE  RankIn(V2, o2, x) =
               IF w \in V /\ o[w] >= o[x] THEN RankIn(V, o, x) ELSE RankIn(V, o, x) + 1
<1> DEFINE S == {v \in V : o[v] >= o[x]}
           T == {v \in V2 : o2[v] >= o2[x]}
<1>1. \A z \in V : o[z] \in Nat /\ o[z] < o2[w] BY DEF Stamped, Renewed
<1>2. o2[w] \in Nat /\ o2[x] = o[x] BY DEF Renewed
<1>3. T = S \cup {w}
  BY <1>1, <1>2 DEF Renewed
<1>4. w \in S <=> w \in V /\ o[w] >= o[x] OBVIOUS
<1>5. IsFiniteSet(S) BY RankSet
<1>6. Cardinality(S) = RankIn(V, o, x) /\ Cardinality(T) = RankIn(V2, o2, x)
  BY DEF RankIn
<1> HIDE DEF S, T
<1>7. Cardinality(T) = IF w \in S THEN Cardinality(S) ELSE Cardinality(S) + 1
  BY <1>3, <1>5, FS_AddElement
<1> QED BY <1>4, <1>6, <1>7

\* The position w leaves, or the next free one.
Left(V, o, w) == IF w \in V THEN RankIn(V, o, w) ELSE Cardinality(V) + 1

\* The way at position j once w has the newest stamp: RecencyCache's Front.
MovedWay(V, o, w, j) ==
    IF j = 1 THEN w
    ELSE IF j <= Left(V, o, w) THEN WayAt(V, o, j-1) ELSE WayAt(V, o, j)

\* The number of ways after w was renewed.
Length(V, o, w) ==
    IF Left(V, o, w) > Cardinality(V) THEN Left(V, o, w) ELSE Cardinality(V)

\* ... is what it was, or one more when w was empty.
LEMMA RenewedLength ==
    ASSUME NEW V, NEW o, NEW V2, NEW o2, NEW w, Stamped(V, o),
           Renewed(V, o, V2, o2, w)
    PROVE  /\ Cardinality(V2) = Length(V, o, w)
           /\ Left(V, o, w) \in Nat /\ Cardinality(V) \in Nat
           /\ Left(V, o, w) \in 1..Cardinality(V)+1
<1>1. IsFiniteSet(V) /\ V2 = V \cup {w} BY DEF Stamped, Renewed
<1>2. Cardinality(V) \in Nat BY <1>1, FS_CardinalityType
<1>3. Cardinality(V2) = IF w \in V THEN Cardinality(V) ELSE Cardinality(V) + 1
  BY <1>1, FS_AddElement
<1>4. w \in V => RankIn(V, o, w) \in 1..Cardinality(V) BY RankSet
<1> QED BY <1>2, <1>3, <1>4 DEF Length, Left

\* Renewing w puts it first and moves those in front of it back by one.
LEMMA RenewedWays ==
    ASSUME NEW V, NEW o, NEW V2, NEW o2, NEW w, Stamped(V, o),
           Renewed(V, o, V2, o2, w), NEW j \in 1..Cardinality(V2)
    PROVE  /\ WayAt(V2, o2, j) = MovedWay(V, o, w, j)
           /\ j # 1 => WayAt(V2, o2, j) \in V /\ WayAt(V2, o2, j) # w
<1> DEFINE n == Cardinality(V)
           i == Left(V, o, w)
<1>1. Stamped(V2, o2) BY RenewedStamped
<1>2. /\ Cardinality(V2) = (IF i > n THEN i ELSE n) /\ i \in Nat /\ n \in Nat
      /\ i \in 1..n+1
  BY RenewedLength DEF Length
<1>3. V2 = V \cup {w} BY DEF Renewed
<1>4. j \in Nat /\ j >= 1 /\ j <= (IF i > n THEN i ELSE n) BY <1>2
<1>5. w \in V => i = RankIn(V, o, w) /\ i \in 1..n BY RankSet DEF Left
<1>6. w \notin V => i = n + 1 BY DEF Left
<1> HIDE DEF n, i
<1>7. CASE j = 1
  <2>1. w \in V2 /\ RankIn(V2, o2, w) = 1 BY <1>3, RenewedFirst
  <2>2. WayAt(V2, o2, 1) = w BY <2>1, <1>1, WayAtRank
  <2> QED BY <2>2, <1>7 DEF MovedWay
<1>8. CASE j # 1 /\ j <= i
  <2>1. j-1 \in 1..n BY <1>2, <1>4, <1>8
  <2> DEFINE y == WayAt(V, o, j-1)
  <2>2. y \in V /\ RankIn(V, o, y) = j-1 BY <2>1, RankOfWay DEF n
  <2> HIDE DEF y
  <2>3. y # w BY <2>2, <1>2, <1>4, <1>5, <1>8
  <2>4. ~(w \in V /\ o[w] >= o[y])
    <3> SUFFICES ASSUME w \in V, o[w] >= o[y] PROVE FALSE
      OBVIOUS
    <3>1. o[w] \in Nat /\ o[y] \in Nat /\ o[w] # o[y] BY <2>2, <2>3 DEF Stamped
    <3>2. o[w] > o[y] BY <3>1
    <3>3. RankIn(V, o, w) < RankIn(V, o, y) BY <2>2, <3>2, RankOrder
    <3> QED BY <3>3, <2>2, <1>2, <1>4, <1>5, <1>8
  <2>5. RankIn(V2, o2, y) = j
    <3>1. RankIn(V2, o2, y) = RankIn(V, o, y) + 1
      BY <2>2, <2>3, <2>4, RenewedOthers
    <3> QED BY <3>1, <2>2, <1>4
  <2>6. WayAt(V2, o2, j) = y BY <2>2, <2>5, <1>1, <1>3, WayAtRank
  <2> QED BY <2>2, <2>3, <2>6, <1>8 DEF MovedWay, y, i
<1>9. CASE j # 1 /\ ~(j <= i)
  <2>1. w \in V /\ j \in 1..n BY <1>2, <1>4, <1>6, <1>9
  <2> DEFINE y == WayAt(V, o, j)
  <2>2. y \in V /\ RankIn(V, o, y) = j BY <2>1, RankOfWay DEF n
  <2> HIDE DEF y
  <2>3. y # w BY <2>1, <2>2, <1>2, <1>4, <1>5, <1>9
  <2>4. o[w] >= o[y]
    <3> SUFFICES ASSUME ~(o[w] >= o[y]) PROVE FALSE
      OBVIOUS
    <3>1. o[w] \in Nat /\ o[y] \in Nat BY <2>1, <2>2 DEF Stamped
    <3>2. o[y] > o[w] BY <3>1
    <3>3. RankIn(V, o, y) < RankIn(V, o, w) BY <2>1, <2>2, <3>2, RankOrder
    <3> QED BY <3>3, <2>1, <2>2, <1>2, <1>4, <1>5, <1>9
  <2>5. RankIn(V2, o2, y) = j BY <2>1, <2>2, <2>3, <2>4, RenewedOthers
  <2>6. WayAt(V2, o2, j) = y BY <2>2, <2>5, <1>1, <1>3, WayAtRank
  <2> QED BY <2>2, <2>3, <2>6, <1>9 DEF MovedWay, y, i
<1> QED BY <1>7, <1>8, <1>9

-----------------------------------------------------------------------------
(* The refinement of RecencyCache.                                         *)

\* The list of a set with valid ways V, stamps o and tags t.
ListFrom(V, o, t, s) ==
    [i \in 1..Cardinality(V) |-> t[WayAt(V, o, i)] * NSets + s]

\* The refinement mapping as a function of a set's ways, stamps and tags.
LEMMA ListIs ==
    ASSUME NEW s
    PROVE  /\ ListOf(s) = ListFrom(ValidWays(s), order[s], tag[s], s)
           /\ ListOf(s)' = ListFrom(ValidWays(s)', order'[s], tag'[s], s)
<1>1. ListOf(s) = ListFrom(ValidWays(s), order[s], tag[s], s)
  BY DEF ListOf, ListFrom, WayAt, Rank, RankIn, BlockAt
<1>2. ListOf(s)' = ListFrom(ValidWays(s)', order'[s], tag'[s], s)
  BY DEF ListOf, ListFrom, WayAt, Rank, RankIn, BlockAt
<1> QED BY <1>1, <1>2

\* The list has one block for each valid way.
LEMMA ListLen ==
    ASSUME NEW V, NEW o, NEW t, NEW s, IsFiniteSet(V)
    PROVE  /\ DOMAIN ListFrom(V, o, t, s) = 1..Cardinality(V)
           /\ Len(ListFrom(V, o, t, s)) = Cardinality(V)
           /\ \A i \in 1..Cardinality(V) :
                  ListFrom(V, o, t, s)[i] = t[WayAt(V, o, i)] * NSets + s
<1>1. Cardinality(V) \in Nat BY FS_CardinalityType
<1> QED BY <1>1 DEF ListFrom

\* The block in a way with tag g is the one with that tag.
LEMMA TagTells ==
    ASSUME NEW b \in Blocks, NEW g \in Nat
    PROVE  g * NSets + SetOf(b) = b <=> g = TagOf(b)
<1> DEFINE n == NSets
           q == b \div n
           r == b % n
<1>1. n \in Nat \ {0} /\ b \in Nat BY CacheAssumption
<1>2. SetOf(b) = r /\ TagOf(b) = q BY DEF SetOf, TagOf
<1>3. q \in Nat /\ r \in Nat /\ b = n * q + r BY <1>1
<1> HIDE DEF n, q, r
<1>4. g # q => g * n # q * n
  <2>1. ASSUME NEW u \in Nat, NEW v \in Nat, u < v PROVE u * n # v * n
    <3>1. v = u + (v - u) /\ v - u \in Nat /\ v - u >= 1 BY <2>1
    <3>2. v * n = u * n + (v - u) * n BY <3>1, <1>1
    <3>3. (v - u) * n >= 1 BY <3>1, <1>1
    <3>4. u * n \in Nat /\ (v - u) * n \in Nat BY <3>1, <1>1
    <3> QED BY <3>2, <3>3, <3>4
  <2>2. g < q \/ q < g \/ g = q BY <1>3
  <2> QED BY <2>1, <2>2, <1>3
<1>5. q * n = n * q /\ q * n \in Nat /\ g * n \in Nat BY <1>1, <1>3
<1>6. g * n + r = b <=> g = q BY <1>3, <1>4, <1>5
<1> QED BY <1>2, <1>6 DEF n

\* Renewing a way moves its block to the front of the list.
LEMMA ListMoves ==
    ASSUME NEW V, NEW o, NEW t, NEW V2, NEW o2, NEW t2, NEW w, NEW b \in Blocks,
           Stamped(V, o), Renewed(V, o, V2, o2, w),
           t2[w] = TagOf(b), \A x \in V : x # w => t2[x] = t[x]
    PROVE  ListFrom(V2, o2, t2, SetOf(b)) =
               Recency!Front(ListFrom(V, o, t, SetOf(b)), Left(V, o, w), b)
<1> DEFINE s == SetOf(b)
           old == ListFrom(V, o, t, s)
           i == Left(V, o, w)
           n == Cardinality(V)
           n2 == Cardinality(V2)
<1>1. /\ n2 = (IF i > n THEN i ELSE n) /\ i \in Nat /\ n \in Nat /\ i \in 1..n+1
  BY RenewedLength DEF Length
<1>2. IsFiniteSet(V) BY DEF Stamped
<1>3. Len(old) = n /\ \A j \in 1..n : old[j] = t[WayAt(V, o, j)] * NSets + s
  BY <1>2, ListLen
<1>4. TagOf(b) \in Nat BY SetAndTag
<1>5. TagOf(b) * NSets + s = b BY <1>4, TagTells
<1>6. ASSUME NEW j \in 1..n2
      PROVE  t2[WayAt(V2, o2, j)] * NSets + s =
                 IF j = 1 THEN b ELSE IF j <= i THEN old[j-1] ELSE old[j]
  <2>1. WayAt(V2, o2, j) = MovedWay(V, o, w, j) BY RenewedWays
  <2>2. CASE j = 1 BY <2>1, <2>2, <1>5 DEF MovedWay
  <2>3. CASE j # 1
    <3>1. WayAt(V2, o2, j) \in V /\ WayAt(V2, o2, j) # w BY <2>3, RenewedWays
    <3>2. t2[WayAt(V2, o2, j)] = t[WayAt(V2, o2, j)] BY <3>1
    <3>3. CASE j <= i
      <4>1. j - 1 \in 1..n BY <3>3, <2>3, <1>1
      <4>2. WayAt(V2, o2, j) = WayAt(V, o, j-1) BY <2>1, <2>3, <3>3 DEF MovedWay
      <4> QED BY <4>1, <4>2, <3>2, <3>3, <2>3, <1>3
    <3>4. CASE ~(j <= i)
      <4>1. j \in 1..n BY <3>4, <2>3, <1>1
      <4>2. WayAt(V2, o2, j) = WayAt(V, o, j) BY <2>1, <2>3, <3>4 DEF MovedWay
      <4> QED BY <4>1, <4>2, <3>2, <3>4, <2>3, <1>3
    <3> QED BY <3>3, <3>4
  <2> QED BY <2>2, <2>3
<1>7. ListFrom(V2, o2, t2, s) =
          [j \in 1..n2 |-> IF j = 1 THEN b ELSE IF j <= i THEN old[j-1] ELSE old[j]]
  BY <1>6 DEF ListFrom
<1> HIDE DEF old, i, n, n2
<1>8. Recency!Front(old, i, b) =
          [j \in 1..n2 |-> IF j = 1 THEN b ELSE IF j <= i THEN old[j-1] ELSE old[j]]
  BY <1>1, <1>3 DEF Recency!Front
<1>9. ListFrom(V2, o2, t2, s) = Recency!Front(old, i, b) BY <1>7, <1>8
<1> QED BY <1>9 DEF old, i

\* The abstract state of all sets.
Lists == [s \in Sets |-> ListOf(s)]

\* There are Assoc ways.
LEMMA WaysFinite == IsFiniteSet(Ways) /\ Cardinality(Ways) = Assoc
<1>1. Assoc \in Nat /\ Assoc > 0 /\ 0 \in Int /\ Assoc-1 \in Int
  BY CacheAssumption
<1>2. IsFiniteSet(0..Assoc-1) /\ Cardinality(0..Assoc-1) = Assoc-1-0+1
  BY <1>1, FS_Interval
<1> QED BY <1>1, <1>2 DEF Ways

\* The valid ways of a sound cache have distinct stamps.
LEMMA SetStamped ==
    ASSUME Small, NEW s \in Sets
    PROVE  Stamped(ValidWays(s), order[s])
<1>1. ValidWays(s) \in SUBSET Ways BY DEF ValidWays
<1>2. IsFiniteSet(ValidWays(s)) BY <1>1, WaysFinite, FS_Subset
<1>3. \A w \in ValidWays(s) : order[s][w] \in Nat BY DEF ValidWays, Small, Sound
<1>4. \A w, x \in ValidWays(s) : order[s][w] = order[s][x] => w = x
  BY DEF ValidWays, Small, Sound
<1> QED BY <1>2, <1>3, <1>4 DEF Stamped

\* Writing way w with a new stamp brings its block to the front of its set's list.
LEMMA PlacedList ==
    ASSUME NEW b \in Blocks, NEW w \in Ways, Small,
           Placed(valid, tag, order, clock, valid', tag', order', clock',
                  SetOf(b), TagOf(b), w)
    PROVE  Lists' = [Lists EXCEPT ![SetOf(b)] =
                        Recency!Front(@, Left(ValidWays(SetOf(b)), order[SetOf(b)], w), b)]
<1> DEFINE s == SetOf(b)
           V == ValidWays(s)
           i == Left(V, order[s], w)
<1>1. s \in Sets /\ TagOf(b) \in Nat BY SetAndTag
<1>2. NowAt(valid, tag, order, clock, valid', tag', order', clock', s, TagOf(b), w, Ways)
  BY <1>1, PlacedAt DEF Small
<1>3. Stamped(V, order[s]) BY <1>1, SetStamped
<1>4. V' = V \cup {w}
  <2>1. \A x \in Ways : valid'[s][x] <=> valid[s][x] \/ x = w
    BY <1>1, <1>2 DEF NowAt
  <2>2. V' = {x \in Ways : valid'[s][x]} BY DEF ValidWays, Ways, SetOf
  <2> QED BY <2>1, <2>2 DEF ValidWays
<1>5. Renewed(V, order[s], V', order'[s], w)
  <2>1. \A x \in V : x \in Ways BY DEF ValidWays
  <2>2. \A x \in V : x # w => order'[s][x] = order[s][x]
    BY <1>1, <1>2, <2>1 DEF NowAt
  <2>3. order'[s][w] = clock + 1 BY <1>2 DEF NowAt
  <2>4. clock \in Nat /\ \A x \in V : order[s][x] \in Nat /\ order[s][x] <= clock
    BY <1>1, <2>1 DEF Small, Sound
  <2>5. order'[s][w] \in Nat /\ \A x \in V : order[s][x] < order'[s][w]
    BY <2>3, <2>4
  <2> QED BY <1>4, <2>2, <2>5 DEF Renewed
<1>6. tag'[s][w] = TagOf(b) /\ \A x \in V : x # w => tag'[s][x] = tag[s][x]
  BY <1>1, <1>2 DEF NowAt, ValidWays
<1>7. ListFrom(V', order'[s], tag'[s], s) =
          Recency!Front(ListFrom(V, order[s], tag[s], s), i, b)
  BY <1>3, <1>5, <1>6, ListMoves
<1>8. ListOf(s)' = Recency!Front(ListOf(s), i, b)
  <2>1. s' = s BY DEF SetOf
  <2>2. ListOf(s) = ListFrom(V, order[s], tag[s], s) BY ListIs
  <2>3. ListOf(s)' = ListFrom(V', order'[s], tag'[s], s)
    BY <2>1 DEF ListOf, ListFrom, WayAt, Rank, RankIn, BlockAt
  <2> QED BY <1>7, <2>2, <2>3
<1>9. ASSUME NEW r \in Sets, r # s PROVE ListOf(r)' = ListOf(r)
  <2>1. valid'[r] = valid[r] /\ order'[r] = order[r] /\ tag'[r] = tag[r]
    BY <1>9 DEF Placed, Small, Sound
  <2> QED BY <2>1 DEF ListOf, ValidWays, Rank, BlockAt, Ways
<1>10. Lists' = [r \in Sets |-> ListOf(r)'] BY DEF Lists, Sets
<1> HIDE DEF i, V
<1>11. Lists' = [r \in Sets |-> IF r = s THEN Recency!Front(Lists[s], i, b) ELSE Lists[r]]
  BY <1>1, <1>8, <1>9, <1>10 DEF Lists
<1>12. Lists' = [Lists EXCEPT ![s] = Recency!Front(Lists[s], i, b)]
  BY <1>1, <1>11 DEF Lists
<1> QED BY <1>12 DEF i, V

\* The list holds, at the rank of a valid way, the block of that way.
LEMMA ListAt ==
    ASSUME Small, NEW s \in Sets
    PROVE  /\ DOMAIN ListOf(s) = 1..Cardinality(ValidWays(s))
           /\ Len(ListOf(s)) = Cardinality(ValidWays(s))
           /\ Cardinality(ValidWays(s)) \in Nat
           /\ \A w \in ValidWays(s) :
                  /\ RankIn(ValidWays(s), order[s], w) \in 1..Cardinality(ValidWays(s))
                  /\ ListOf(s)[RankIn(ValidWays(s), order[s], w)] = BlockAt(s, w)
           /\ \A i \in 1..Cardinality(ValidWays(s)) :
                  \E w \in ValidWays(s) : ListOf(s)[i] = BlockAt(s, w)
<1> DEFINE V == ValidWays(s)
           o == order[s]
<1>1. Stamped(V, o) BY SetStamped
<1>2. IsFiniteSet(V) BY <1>1 DEF Stamped
<1>3. Cardinality(V) \in Nat BY <1>2, FS_CardinalityType
<1>4. ListOf(s) = ListFrom(V, o, tag[s], s) BY ListIs
<1>5. /\ DOMAIN ListOf(s) = 1..Cardinality(V)
      /\ Len(ListOf(s)) = Cardinality(V)
      /\ \A i \in 1..Cardinality(V) : ListOf(s)[i] = BlockAt(s, WayAt(V, o, i))
  BY <1>2, <1>4, ListLen DEF BlockAt
<1>6. ASSUME NEW w \in V
      PROVE  /\ RankIn(V, o, w) \in 1..Cardinality(V)
             /\ ListOf(s)[RankIn(V, o, w)] = BlockAt(s, w)
  <2>1. RankIn(V, o, w) \in 1..Cardinality(V) BY <1>1, RankSet
  <2>2. WayAt(V, o, RankIn(V, o, w)) = w BY <1>1, WayAtRank
  <2> QED BY <2>1, <2>2, <1>5
<1>7. ASSUME NEW i \in 1..Cardinality(V)
      PROVE  \E w \in V : ListOf(s)[i] = BlockAt(s, w)
  BY <1>1, <1>5, RankOfWay
<1> QED BY <1>3, <1>5, <1>6, <1>7

\* A hit implements the hit of the recency list ...
LEMMA HitRefines ==
    ASSUME NEW b \in Blocks, NEW w \in Ways, Small, Hit(b, w)
    PROVE  Recency!RHit(b)
<1> DEFINE s == SetOf(b)
           V == ValidWays(s)
           i == RankIn(V, order[s], w)
<1>1. s \in Sets /\ TagOf(b) \in Nat /\ s = b % NSets BY SetAndTag DEF SetOf
<1>2. valid[s][w] /\ tag[s][w] = TagOf(b) BY HitIs
<1>3. w \in V BY <1>2 DEF ValidWays
<1>4. BlockAt(s, w) = b BY <1>1, <1>2, TagTells DEF BlockAt
<1>5. i \in DOMAIN ListOf(s) /\ ListOf(s)[i] = b BY <1>1, <1>3, <1>4, ListAt
<1>6. i \in DOMAIN Lists[s] /\ Lists[s][i] = b BY <1>1, <1>5 DEF Lists
<1>7. repl' = repl /\ misses' = misses BY DEF Hit
<1>8. Left(V, order[s], w) = i BY <1>3 DEF Left
<1>9. Lists' = IF repl = "lru" THEN [Lists EXCEPT ![s] = Recency!Front(@, i, b)]
               ELSE Lists
  <2>1. CASE repl = "lru"
    <3>1. Placed(valid, tag, order, clock, valid', tag', order', clock',
                 SetOf(b), TagOf(b), w)
      BY <2>1, HitIs
    <3> QED BY <2>1, <3>1, <1>8, PlacedList
  <2>2. CASE repl # "lru"
    <3>1. valid' = valid /\ tag' = tag /\ order' = order BY <2>2 DEF Hit
    <3>2. Lists' = Lists
      BY <3>1 DEF Lists, ListOf, ValidWays, Rank, BlockAt, Ways, Sets
    <3> QED BY <2>2, <3>2
  <2> QED BY <2>1, <2>2
<1> HIDE DEF i
<1> QED BY <1>1, <1>6, <1>7, <1>9 DEF Recency!RHit, Lists

\* ... and a miss its miss, victim included.
LEMMA MissRefines ==
    ASSUME NEW b \in Blocks, NEW w \in Ways, Small, Miss(b, w)
    PROVE  Recency!RMiss(b)
<1> DEFINE s == SetOf(b)
           V == ValidWays(s)
           n == Cardinality(V)
           i == Left(V, order[s], w)
<1>1. s \in Sets /\ TagOf(b) \in Nat /\ s = b % NSets BY SetAndTag DEF SetOf
<1>2. /\ DOMAIN Lists[s] = 1..n /\ Len(Lists[s]) = n /\ n \in Nat
      /\ \A j \in 1..n : \E x \in V : Lists[s][j] = BlockAt(s, x)
  BY <1>1, ListAt DEF Lists
<1>3. b \notin Recency!Holds(Lists[s])
  <2> SUFFICES ASSUME NEW j \in 1..n, Lists[s][j] = b PROVE FALSE
    BY <1>2 DEF Recency!Holds
  <2>1. PICK x \in V : BlockAt(s, x) = b BY <1>2
  <2>2. x \in Ways /\ valid[s][x] BY DEF ValidWays
  <2>3. tag[s][x] \in Nat BY <2>2, <1>1 DEF Small, Sound
  <2>4. tag[s][x] = TagOf(b) BY <2>1, <2>3, TagTells DEF BlockAt
  <2> QED BY <2>2, <2>4, MissIs
<1>4. misses' = misses + 1 /\ repl' = repl BY DEF Miss
<1>5. Lists' = [Lists EXCEPT ![s] = Recency!Front(@, i, b)]
  <2>1. Placed(valid, tag, order, clock, valid', tag', order', clock',
               SetOf(b), TagOf(b), w)
    BY MissIs
  <2> QED BY <2>1, PlacedList
<1>6. i \in Recency!Vacated(Lists[s])
  <2>1. V \in SUBSET Ways BY DEF ValidWays
  <2>2. n <= Assoc /\ (n = Assoc => V = Ways) BY <2>1, WaysFinite, FS_Subset
  <2>3. Assoc \in Nat BY CacheAssumption
  <2>4. CASE ~valid[s][w]
    <3>1. w \notin V BY <2>4 DEF ValidWays
    <3>2. i = n + 1 BY <3>1 DEF Left
    <3>3. n < Assoc BY <3>1, <2>2, <2>3, <1>2
    <3> QED BY <3>2, <3>3, <1>2 DEF Recency!Vacated
  <2>5. CASE valid[s][w]
    <3>1. \A x \in Ways : valid[s][x] BY <2>5, MissIs
    <3>2. V = Ways BY <3>1 DEF ValidWays
    <3>3. n = Assoc BY <3>2, WaysFinite
    <3>4. w \in V /\ i = RankIn(V, order[s], w) BY <3>2 DEF Left
    <3>5. i \in 1..n BY <3>4, <1>1, ListAt
    <3>6. CASE repl = "random"
      BY <3>3, <3>5, <3>6, <1>2 DEF Recency!Vacated
    <3>7. CASE repl # "random"
      <4>1. \A x \in V : order[s][w] <= order[s][x]
        BY <2>5, <3>2, <3>7, MissIs DEF Oldest
      <4>2. \A x \in V : order[s][w] \in Nat /\ order[s][x] \in Nat
        BY <1>1, <3>2 DEF Small, Sound
      <4>3. {x \in V : order[s][x] >= order[s][w]} = V BY <4>1, <4>2
      <4>4. i = n BY <3>4, <4>3 DEF RankIn
      <4> QED BY <3>3, <3>7, <4>4, <1>2 DEF Recency!Vacated
    <3> QED BY <3>6, <3>7
  <2> QED BY <2>4, <2>5
<1> HIDE DEF i
<1> QED BY <1>1, <1>3, <1>4, <1>5, <1>6 DEF Recency!RMiss, Lists

\* cache.c is the recency cache of its policy, for any number of sets and ways:
\* stamps and the scan for the oldest one decide exactly as lists of blocks do.
THEOREM CacheIsRecency == Spec => RefinesRecency
<1>1. Init => Small
  BY DEF Init, Small, Sound
<1>2. ASSUME Small, [Next]_vars PROVE Small'
  <2>1. CASE Next BY <1>2, <2>1, AccessKeepsSmall DEF Next
  <2>2. CASE UNCHANGED vars
    BY <1>2, <2>2 DEF vars, Small, Sound, Sets, Ways
  <2> QED BY <1>2, <2>1, <2>2
<1>3. Init => Recency!RInit
  <2> SUFFICES ASSUME Init PROVE Recency!RInit
    OBVIOUS
  <2>1. ASSUME NEW s \in Sets PROVE ListOf(s) = << >>
    <3>1. ValidWays(s) = {} BY DEF Init, ValidWays
    <3>2. Cardinality(ValidWays(s)) = 0 BY <3>1, FS_EmptySet
    <3> QED BY <3>2 DEF ListOf
  <2>2. [s \in Sets |-> ListOf(s)] = [s \in 0..NSets-1 |-> << >>]
    BY <2>1 DEF Sets
  <2> QED BY <2>2 DEF Init, Recency!RInit
<1>4. ASSUME Small, [Next]_vars PROVE [Recency!RNext]_Recency!rvars
  <2>1. CASE Next
    <3>1. PICK b \in Blocks : cache_access(b) BY <2>1 DEF Next
    <3>2. PICK w \in Ways : Hit(b, w) \/ Miss(b, w) BY <3>1 DEF cache_access
    <3>3. Recency!RHit(b) \/ Recency!RMiss(b)
      BY <1>4, <3>2, HitRefines, MissRefines
    <3> QED BY <3>3 DEF Recency!RNext
  <2>2. CASE UNCHANGED vars
    <3>1. UNCHANGED [s \in Sets |-> ListOf(s)]
      BY <2>2 DEF vars, ListOf, ValidWays, Rank, BlockAt, Ways, Sets
    <3> QED BY <2>2, <3>1 DEF vars, Recency!rvars
  <2> QED BY <1>4, <2>1, <2>2
<1> QED BY <1>1, <1>2, <1>3, <1>4, PTL DEF Spec, RefinesRecency, Recency!RSpec

\* The same for the pair of caches the run checks.
THEOREM PairIsRecency == ISpec => RefinesRecency
<1>1. IInit => Init BY DEF IInit
<1>2. [INext]_<<vars, l_valid, l_tag, l_order, l_clock, l_misses>> => [Next]_vars
  BY DEF INext, Next
<1> QED BY <1>1, <1>2, CacheIsRecency, PTL DEF ISpec, Spec
=============================================================================
