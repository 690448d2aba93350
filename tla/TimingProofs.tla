---------------------------- MODULE TimingProofs ----------------------------
EXTENDS TimingCache, WellFoundedInduction, TLAPS

LEMMA Smallest ==
  ASSUME NEW T \in SUBSET Nat, T # {}
  PROVE  \E m \in T : \A i \in T : m <= i
<1> DEFINE Less == {p \in Nat \X Nat : p[1] < p[2]}
<1>1. IsWellFoundedOn(Less, Nat)
  BY NatLessThanWellFounded DEF OpToRel
<1>2. PICK m \in T : \A i \in T : ~(<<i, m>> \in Less)
  <2> HIDE DEF Less
  <2> QED BY <1>1, WFMin
<1>3. \A i \in T : i \in Nat /\ m \in Nat
  OBVIOUS
<1>4. \A i \in T : ~(i < m)
  BY <1>2, <1>3
<1>5. QED BY <1>3, <1>4

LEMMA Induction ==
  ASSUME NEW T \in SUBSET Nat, 0 \in T, \A k \in T : k + 1 \in T
  PROVE  T = Nat
<1>1. SUFFICES ASSUME T # Nat PROVE FALSE
  OBVIOUS
<1>2. PICK m \in Nat \ T : \A i \in Nat \ T : m <= i
  BY <1>1, Smallest
<1>3. m # 0 /\ m - 1 \in Nat /\ ~(m - 1 \in Nat \ T)
  BY <1>2
<1>4. QED BY <1>3, <1>2

WalkFrom(c, g, t) == [c |-> c, ready |-> t + g.hit, victims |-> {}]

IsWalk(f, c, g, t, first, span, w, below) ==
  /\ f[0] = WalkFrom(c, g, t)
  /\ \A k \in 1..span : f[k] = OneLine(f[k - 1], g, t, first + k - 1, w, below)

LEMMA WalkIs ==
  ASSUME NEW c, NEW g, NEW t, NEW first, NEW span \in Nat, NEW w, NEW below
  PROVE  \E f : /\ IsWalk(f, c, g, t, first, span, w, below)
                /\ Walked(c, g, t, first, span, w, below) = f[span]
<1> DEFINE Step(s, k) == OneLine(s, g, t, first + k - 1, w, below)
           Is(f, N) == f = [k \in 0..N |-> IF k = 0 THEN WalkFrom(c, g, t) ELSE Step(f[k - 1], k)]
           T == {N \in Nat : \E f : Is(f, N)}
<1>1. Walked(c, g, t, first, span, w, below) = (CHOOSE f : Is(f, span))[span]
  BY DEF Walked, WalkFrom
<1> HIDE DEF Step
<1>2. 0 \in T
  <2> DEFINE f == [k \in 0..0 |-> WalkFrom(c, g, t)]
  <2>1. Is(f, 0)
    BY SMT
  <2>2. QED BY <2>1
<1>3. \A N \in T : N + 1 \in T
  <2> SUFFICES ASSUME NEW N \in T PROVE N + 1 \in T
    OBVIOUS
  <2>1. PICK h : Is(h, N)
    OBVIOUS
  <2> DEFINE f == [k \in 0..(N + 1) |-> IF k = N + 1 THEN Step(h[N], N + 1) ELSE h[k]]
  <2>2. Is(f, N + 1)
    <3>1. \A k \in 0..N : h[k] = IF k = 0 THEN WalkFrom(c, g, t) ELSE Step(h[k - 1], k)
      BY <2>1
    <3>2. \A k \in 0..(N + 1) :
            f[k] = IF k = 0 THEN WalkFrom(c, g, t) ELSE Step(f[k - 1], k)
      <4> TAKE k \in 0..(N + 1)
      <4>1. CASE k = N + 1
        BY <4>1
      <4>2. CASE k \in 0..N
        <5>1. k # 0 => k - 1 \in 0..N
          BY <4>2
        <5>2. QED BY <4>2, <5>1, <3>1
      <4>3. QED BY <4>1, <4>2
    <3>3. f = [k \in 0..(N + 1) |-> f[k]]
      OBVIOUS
    <3> HIDE DEF f
    <3>4. QED BY <3>2, <3>3
  <2> HIDE DEF Is, f
  <2>3. QED BY <2>2
<1>4. T = Nat
  BY <1>2, <1>3, Induction
<1> DEFINE F == CHOOSE f : Is(f, span)
<1>5. Is(F, span)
  BY <1>4
<1>6. QED
  <2>1. F[0] = WalkFrom(c, g, t) /\ \A k \in 1..span : F[k] = Step(F[k - 1], k)
    <3>1. \A k \in 0..span : F[k] = IF k = 0 THEN WalkFrom(c, g, t) ELSE Step(F[k - 1], k)
      BY <1>5
    <3> HIDE DEF F
    <3>2. QED BY <3>1
  <2>2. QED BY <1>1, <2>1 DEF Step, IsWalk

------------------------------------------------------------------------------
(* One cache. *)

Geometry == [sets : Nat \ {0}, ways : Nat \ {0}, hit : Nat, miss : Nat, refill : Nat,
             write : Nat, buffer : Nat, allocate : BOOLEAN, writeback : BOOLEAN,
             data : BOOLEAN]
Way == [tag : Nat \cup {Invalid}, lru : Nat, ready : Nat, dirty : BOOLEAN]
Sets(g) == 0..(g.sets - 1)
Ways(g) == 1..g.ways
Contents(g) == [way : [Sets(g) -> [Ways(g) -> Way]], lru_counter : Nat, free : Nat]

\* Every line is in its own set, in one way of it, and no two were used last by
\* the same access.
Sound(c, g) ==
  \A s \in Sets(g), v \in Ways(g) :
    /\ c.way[s][v].tag = Invalid => c.way[s][v].lru = 0
    /\ c.way[s][v].tag # Invalid => /\ SetOf(g, c.way[s][v].tag) = s
                                    /\ c.way[s][v].lru \in 1..c.lru_counter
                                    /\ \A x \in Ways(g) \ {v} :
                                         /\ c.way[s][x].tag # c.way[s][v].tag
                                         /\ c.way[s][x].lru # c.way[s][v].lru

LEMMA Division ==
  ASSUME NEW i \in Nat, NEW d \in Nat \ {0}
  PROVE  i = d * (i \div d) + (i % d) /\ i % d \in 0..(d - 1) /\ i \div d \in Nat
BY SMT

LEMMA SetIs ==
  ASSUME NEW g \in Geometry, NEW line \in Nat
  PROVE  SetOf(g, line) \in Sets(g)
<1>1. g.sets \in Nat \ {0}
  BY DEF Geometry
<1>2. QED BY <1>1, Division DEF SetOf, Sets

\* The lines of a request that is no longer than the sets are in different sets.
LEMMA SetsDiffer ==
  ASSUME NEW g \in Geometry, NEW x \in Nat, NEW y \in Nat, x < y, y - x < g.sets
  PROVE  SetOf(g, x) # SetOf(g, y)
<1> DEFINE d == g.sets
<1>1. d \in Nat \ {0}
  BY DEF Geometry
<1>2. PICK q \in Nat : q = x \div d
  BY <1>1, Division
<1>3. PICK p \in Nat : p = y \div d
  BY <1>1, Division
<1>4. PICK r \in 0..(d - 1) : r = x % d
  BY <1>1, Division
<1>5. SUFFICES ASSUME y % d = r PROVE FALSE
  BY <1>4 DEF SetOf
<1>6. x = d * q + r /\ y = d * p + r
  <2>1. x = d * (x \div d) + (x % d) /\ y = d * (y \div d) + (y % d)
    <3> HIDE DEF d
    <3>1. QED BY <1>1, Division
  <2>2. QED BY <2>1, <1>2, <1>3, <1>4, <1>5
<1> HIDE DEF d
<1>7. p > q
  <2>1. SUFFICES ASSUME p <= q PROVE FALSE
    OBVIOUS
  <2>2. d * p <= d * q
    BY <1>1, <2>1
  <2>3. QED BY <2>2, <1>1, <1>6
<1>8. d * p >= d * q + d
  BY <1>1, <1>7
<1>9. y - x >= d
  BY <1>1, <1>6, <1>8
<1>10. QED BY <1>9, <1>1 DEF d

LEMMA WayIs ==
  ASSUME NEW g \in Geometry, NEW c \in Contents(g), NEW s \in Sets(g), NEW v \in Ways(g)
  PROVE  /\ c.way[s][v] \in Way
         /\ c.way[s][v].tag \in Nat \cup {Invalid} /\ c.way[s][v].lru \in Nat
         /\ c.way[s][v].ready \in Nat /\ c.way[s][v].dirty \in BOOLEAN
BY DEF Contents, Way

\* lookup() evicts a way none of the others was used before.
LEMMA VictimIs ==
  ASSUME NEW g \in Geometry, NEW c \in Contents(g), NEW line \in Nat
  PROVE  /\ Victim(c, g, line) \in Ways(g)
         /\ \A x \in Ways(g) :
              c.way[SetOf(g, line)][Victim(c, g, line)].lru <= c.way[SetOf(g, line)][x].lru
<1> DEFINE S == SetOf(g, line)
           L == {c.way[S][x].lru : x \in Ways(g)}
           O == {x \in Ways(g) : \A v \in Ways(g) : c.way[S][x].lru <= c.way[S][v].lru}
<1>1. S \in Sets(g)
  BY SetIs
<1>2. L \in SUBSET Nat
  BY <1>1, WayIs
<1>3. 1 \in Ways(g) /\ Ways(g) \subseteq Nat
  BY DEF Geometry, Ways
<1>4. PICK m \in L : \A i \in L : m <= i
  BY <1>2, <1>3, Smallest, ZenonT(30)
<1>5. O # {} /\ O \in SUBSET Nat
  BY <1>3, <1>4
<1>6. PICK v \in O : \A x \in O : v <= x
  BY <1>5, Smallest
<1>7. Victim(c, g, line) = CHOOSE x \in O : \A i \in O : x <= i
  BY DEF Victim, Ways
<1>8. Victim(c, g, line) \in O
  BY <1>6, <1>7
<1>9. QED BY <1>8

------------------------------------------------------------------------------
(* access(), one line.                                                     *)

\* Between a and b a line that is there was used, was skipped by a store, or
\* was brought in; the rest of the cache stays as it was.
Hit(a, b, g, line) ==
  \E v \in Ways(g) :
    /\ a.c.way[SetOf(g, line)][v].tag = line
    /\ \A s \in Sets(g), x \in Ways(g) :
         /\ b.c.way[s][x].tag = a.c.way[s][x].tag
         /\ b.c.way[s][x].ready = a.c.way[s][x].ready
         /\ b.c.way[s][x].dirty = a.c.way[s][x].dirty
         /\ b.c.way[s][x].lru = IF s = SetOf(g, line) /\ x = v THEN a.c.lru_counter + 1
                                                               ELSE a.c.way[s][x].lru
    /\ b.c.lru_counter = a.c.lru_counter + 1
    /\ b.ready = Later(a.ready, a.c.way[SetOf(g, line)][v].ready)
    /\ b.victims = a.victims

Skip(a, b, g, line, w) == w /\ ~g.allocate /\ ~Holds(a.c, g, line) /\ b = a

Fill(a, b, g, line, w) ==
  \E v \in Ways(g), done \in Nat :
    /\ ~w \/ g.allocate
    /\ ~Holds(a.c, g, line)
    /\ \A x \in Ways(g) :
         a.c.way[SetOf(g, line)][v].lru <= a.c.way[SetOf(g, line)][x].lru
    /\ \A s \in Sets(g), x \in Ways(g) :
         b.c.way[s][x] = IF s = SetOf(g, line) /\ x = v
                           THEN [tag |-> line, lru |-> a.c.lru_counter + 1,
                                 ready |-> done, dirty |-> FALSE]
                           ELSE a.c.way[s][x]
    /\ b.c.lru_counter = a.c.lru_counter + 1
    /\ b.ready = Later(a.ready, done)
    /\ b.victims = LET old == a.c.way[SetOf(g, line)][v] IN
         a.victims \cup IF g.writeback /\ old.tag # Invalid /\ old.dirty THEN {old.tag} ELSE {}

\* What access() works on.
Walks(g) == [c : Contents(g), ready : Nat, victims : SUBSET Nat]

LEMMA OneLineIs ==
  ASSUME NEW g \in Geometry, NEW a \in Walks(g), NEW t \in Nat, NEW line \in Nat,
         NEW w \in BOOLEAN, NEW below \in Nat, NEW b, b = OneLine(a, g, t, line, w, below)
  PROVE  /\ b \in Walks(g)
         /\ Hit(a, b, g, line) \/ Skip(a, b, g, line, w) \/ Fill(a, b, g, line, w)
<1> DEFINE S == SetOf(g, line)
           start == Later(t, a.c.free)
           done == start + below + g.miss + g.refill
<1>1. S \in Sets(g)
  BY SetIs
<1>2. a.c \in Contents(g) /\ a.ready \in Nat /\ a.victims \in SUBSET Nat
  BY DEF Walks
<1>3. start \in Nat /\ done \in Nat /\ start + g.refill \in Nat
  <2>1. a.c.free \in Nat /\ g.miss \in Nat /\ g.refill \in Nat
    BY <1>2 DEF Contents, Geometry
  <2>2. QED BY <2>1 DEF Later
<1>4. CASE Holds(a.c, g, line)
  <2>1. PICK v \in Ways(g) : v = WayOf(a.c, g, line) /\ a.c.way[S][v].tag = line
    BY <1>4 DEF Holds, WayOf, Ways
  <2>2. b = [a EXCEPT !.c = Touched(a.c, g, line), !.ready = Later(a.ready, a.c.way[S][v].ready)]
    BY <1>4, <2>1 DEF OneLine, LineReady
  <2>3. Touched(a.c, g, line)
          = [a.c EXCEPT !.lru_counter = a.c.lru_counter + 1,
                        !.way[S][v].lru = a.c.lru_counter + 1]
    BY <2>1 DEF Touched
  <2>4. a.c.way[S][v] \in Way /\ a.c.way[S][v].ready \in Nat /\ a.c.lru_counter + 1 \in Nat
    BY <1>1, <1>2, WayIs DEF Contents
  <2>5. Touched(a.c, g, line) \in Contents(g)
    <3>1. [a.c.way[S][v] EXCEPT !.lru = a.c.lru_counter + 1] \in Way
      BY <2>4 DEF Way
    <3> DEFINE hit == [a.c.way[S][v] EXCEPT !.lru = a.c.lru_counter + 1]
               way == [a.c.way EXCEPT ![S][v] = hit]
    <3>2. Touched(a.c, g, line)
            = [a.c EXCEPT !.lru_counter = a.c.lru_counter + 1, !.way = way]
      BY <2>3
    <3>3. way \in [Sets(g) -> [Ways(g) -> Way]]
      <4>1. hit \in Way /\ a.c.way \in [Sets(g) -> [Ways(g) -> Way]]
        BY <3>1, <1>2 DEF Contents
      <4> HIDE DEF hit
      <4>2. QED BY <1>1, <4>1
    <3> HIDE DEF way
    <3>4. QED BY <1>2, <2>4, <3>2, <3>3 DEF Contents
  <2>6. b \in Walks(g)
    BY <1>2, <2>2, <2>4, <2>5 DEF Walks, Later
  <2>7. Hit(a, b, g, line)
    <3>1. b.c = Touched(a.c, g, line) /\ b.ready = Later(a.ready, a.c.way[S][v].ready)
          /\ b.victims = a.victims
      BY <2>2 DEF Walks
    <3>2. \A s \in Sets(g), x \in Ways(g) :
            b.c.way[s][x] = IF s = S /\ x = v
                              THEN [a.c.way[s][x] EXCEPT !.lru = a.c.lru_counter + 1]
                              ELSE a.c.way[s][x]
      BY <1>1, <1>2, <2>3, <3>1 DEF Contents
    <3>3. \A s \in Sets(g), x \in Ways(g) :
            /\ b.c.way[s][x].tag = a.c.way[s][x].tag
            /\ b.c.way[s][x].ready = a.c.way[s][x].ready
            /\ b.c.way[s][x].dirty = a.c.way[s][x].dirty
            /\ b.c.way[s][x].lru = IF s = S /\ x = v THEN a.c.lru_counter + 1
                                                    ELSE a.c.way[s][x].lru
      <4> TAKE s \in Sets(g), x \in Ways(g)
      <4>1. a.c.way[s][x] \in Way
        BY <1>2, WayIs
      <4>2. CASE s = S /\ x = v
        <5>1. b.c.way[s][x] = [a.c.way[s][x] EXCEPT !.lru = a.c.lru_counter + 1]
          BY <3>2, <4>2
        <5>2. QED BY <4>1, <4>2, <5>1 DEF Way
      <4>3. CASE ~(s = S /\ x = v)
        <5>1. b.c.way[s][x] = a.c.way[s][x]
          BY <3>2, <4>3
        <5>2. QED BY <4>3, <5>1
      <4>4. QED BY <4>2, <4>3
    <3>4. b.c.lru_counter = a.c.lru_counter + 1
      BY <1>2, <2>3, <3>1 DEF Contents
    <3>5. QED BY <2>1, <3>1, <3>3, <3>4 DEF Hit
  <2>8. QED BY <2>6, <2>7
<1>5. CASE ~Holds(a.c, g, line) /\ w /\ ~g.allocate
  <2>1. b = a
    BY <1>5 DEF OneLine
  <2>2. QED BY <1>5, <2>1 DEF Skip
<1>6. CASE ~Holds(a.c, g, line) /\ ~(w /\ ~g.allocate)
  <2>1. PICK v \in Ways(g) : /\ v = Victim(a.c, g, line)
                             /\ \A x \in Ways(g) : a.c.way[S][v].lru <= a.c.way[S][x].lru
    BY <1>2, VictimIs
  <2> DEFINE new == [tag |-> line, lru |-> a.c.lru_counter + 1, ready |-> done, dirty |-> FALSE]
             i == [a.c EXCEPT !.lru_counter = a.c.lru_counter + 1, !.way[S][v] = new]
             k == [i EXCEPT !.free = start + g.refill]
             e == Evicted(a.c, g, line)
  <2>2. b = [a EXCEPT !.c = k, !.victims = a.victims \cup e, !.ready = Later(a.ready, done)]
    BY <1>6, <2>1 DEF OneLine, Installed
  <2>3. new \in Way
    BY <1>2, <1>3 DEF Way, Contents
  <2>4. k \in Contents(g)
    <3>1. i \in Contents(g)
      <4> HIDE DEF new
      <4>1. a.c.lru_counter + 1 \in Nat
        BY <1>2 DEF Contents
      <4>2. QED BY <1>1, <1>2, <2>3, <4>1 DEF Contents
    <3> HIDE DEF i
    <3>2. QED BY <3>1, <1>3 DEF Contents
  <2>5. e = IF g.writeback /\ a.c.way[S][v].tag # Invalid /\ a.c.way[S][v].dirty
              THEN {a.c.way[S][v].tag} ELSE {}
    BY <2>1 DEF Evicted
  <2>6. e \in SUBSET Nat
    BY <1>1, <1>2, <2>5, WayIs
  <2>7. /\ \A s \in Sets(g), x \in Ways(g) :
             k.way[s][x] = IF s = S /\ x = v THEN new ELSE a.c.way[s][x]
        /\ k.lru_counter = a.c.lru_counter + 1
    <3> HIDE DEF new
    <3>1. QED BY <1>1, <1>2 DEF Contents
  <2> HIDE DEF k, e, i
  <2>8. b \in Walks(g) /\ b.c = k /\ b.ready = Later(a.ready, done) /\ b.victims = a.victims \cup e
    <3>1. Later(a.ready, done) \in Nat
      BY <1>2, <1>3 DEF Later
    <3>2. QED BY <1>2, <2>2, <2>4, <2>6, <3>1 DEF Walks
  <2>9. Fill(a, b, g, line, w)
    <3> HIDE DEF S, done
    <3>1. b.victims = a.victims \cup IF /\ g.writeback /\ a.c.way[S][v].tag # Invalid
                                        /\ a.c.way[S][v].dirty
                                       THEN {a.c.way[S][v].tag} ELSE {}
      BY <2>5, <2>8
    <3>2. /\ \A s \in Sets(g), x \in Ways(g) :
               b.c.way[s][x] = IF s = S /\ x = v
                                 THEN [tag |-> line, lru |-> a.c.lru_counter + 1,
                                       ready |-> done, dirty |-> FALSE]
                                 ELSE a.c.way[s][x]
          /\ b.c.lru_counter = a.c.lru_counter + 1
      BY <2>7, <2>8
    <3>3. done \in Nat /\ b.ready = Later(a.ready, done)
      BY <1>3, <2>8
    <3>4. QED BY <1>6, <2>1, <3>1, <3>2, <3>3 DEF Fill, S
  <2>10. QED BY <2>8, <2>9
<1>7. QED BY <1>4, <1>5, <1>6

Moves(a, b, g, line, w) == Hit(a, b, g, line) \/ Skip(a, b, g, line, w) \/ Fill(a, b, g, line, w)

LEMMA SoundStep ==
  ASSUME NEW g \in Geometry, NEW a \in Walks(g), NEW b \in Walks(g), NEW line \in Nat,
         NEW w \in BOOLEAN, Moves(a, b, g, line, w), Sound(a.c, g)
  PROVE  Sound(b.c, g)
<1> DEFINE S == SetOf(g, line)
<1>1. S \in Sets(g) /\ a.c \in Contents(g) /\ b.c \in Contents(g)
  BY SetIs DEF Walks
<1>2. a.c.lru_counter \in Nat /\ line # Invalid
  BY <1>1 DEF Contents, Invalid
<1>3. CASE Hit(a, b, g, line)
  <2>1. PICK v \in Ways(g) :
          /\ a.c.way[S][v].tag = line
          /\ \A s \in Sets(g), x \in Ways(g) :
               /\ b.c.way[s][x].tag = a.c.way[s][x].tag
               /\ b.c.way[s][x].lru = IF s = S /\ x = v THEN a.c.lru_counter + 1
                                                       ELSE a.c.way[s][x].lru
          /\ b.c.lru_counter = a.c.lru_counter + 1
    BY <1>3 DEF Hit
  <2>3. \A s \in Sets(g), x \in Ways(g) : a.c.way[s][x].lru \in 0..a.c.lru_counter
    BY <1>1, <1>2, WayIs DEF Sound
  <2> HIDE DEF S
  <2>4. QED BY <1>1, <1>2, <2>1, <2>3, SMTT(20) DEF Sound
<1>4. CASE Skip(a, b, g, line, w)
  BY <1>4 DEF Skip
<1>5. CASE Fill(a, b, g, line, w)
  <2>1. PICK v \in Ways(g), done \in Nat :
          /\ ~Holds(a.c, g, line)
          /\ \A s \in Sets(g), x \in Ways(g) :
               b.c.way[s][x] = IF s = S /\ x = v
                                 THEN [tag |-> line, lru |-> a.c.lru_counter + 1,
                                       ready |-> done, dirty |-> FALSE]
                                 ELSE a.c.way[s][x]
          /\ b.c.lru_counter = a.c.lru_counter + 1
    BY <1>5 DEF Fill
  <2>2. \A s \in Sets(g), x \in Ways(g) :
          /\ b.c.way[s][x].tag = IF s = S /\ x = v THEN line ELSE a.c.way[s][x].tag
          /\ b.c.way[s][x].lru = IF s = S /\ x = v THEN a.c.lru_counter + 1 ELSE a.c.way[s][x].lru
    BY <2>1
  <2>3. \A s \in Sets(g), x \in Ways(g) : a.c.way[s][x].lru \in 0..a.c.lru_counter
    BY <1>1, <1>2, WayIs DEF Sound
  <2>4. \A x \in Ways(g) : a.c.way[S][x].tag # line
    BY <2>1 DEF Holds, Ways
  <2>5. SetOf(g, line) = S
    OBVIOUS
  <2> HIDE DEF S
  <2> SUFFICES ASSUME NEW s \in Sets(g), NEW z \in Ways(g)
               PROVE  /\ b.c.way[s][z].tag = Invalid => b.c.way[s][z].lru = 0
                      /\ b.c.way[s][z].tag # Invalid =>
                           /\ SetOf(g, b.c.way[s][z].tag) = s
                           /\ b.c.way[s][z].lru \in 1..b.c.lru_counter
                           /\ \A x \in Ways(g) \ {z} :
                                /\ b.c.way[s][x].tag # b.c.way[s][z].tag
                                /\ b.c.way[s][x].lru # b.c.way[s][z].lru
    BY DEF Sound
  <2>6. CASE s = S /\ z = v
    BY <2>6, <1>2, <2>1, <2>2, <2>3, <2>4, <2>5
  <2>7. CASE ~(s = S /\ z = v)
    <3>1. /\ a.c.way[s][z].tag = Invalid => a.c.way[s][z].lru = 0
          /\ a.c.way[s][z].tag # Invalid =>
               /\ SetOf(g, a.c.way[s][z].tag) = s
               /\ a.c.way[s][z].lru \in 1..a.c.lru_counter
               /\ \A x \in Ways(g) \ {z} :
                    /\ a.c.way[s][x].tag # a.c.way[s][z].tag
                    /\ a.c.way[s][x].lru # a.c.way[s][z].lru
      BY DEF Sound
    <3>2. /\ b.c.way[s][z].tag = a.c.way[s][z].tag
          /\ b.c.way[s][z].lru = a.c.way[s][z].lru
      BY <2>2, <2>7
    <3>3. a.c.way[s][z].tag # line /\ (s # S \/ z # v)
      BY <2>4, <2>5, <2>7, <3>1, <1>2
    <3>4. ASSUME NEW x \in Ways(g) \ {z}, a.c.way[s][z].tag # Invalid
          PROVE  /\ b.c.way[s][x].tag # b.c.way[s][z].tag
                 /\ b.c.way[s][x].lru # b.c.way[s][z].lru
      <4>1. CASE s = S /\ x = v
        BY <4>1, <3>1, <3>2, <3>3, <3>4, <1>2, <2>2, <2>3
      <4>2. CASE ~(s = S /\ x = v)
        BY <4>2, <3>1, <3>2, <3>4, <2>2
      <4>3. QED BY <4>1, <4>2
    <3>5. b.c.lru_counter = a.c.lru_counter + 1
      BY <2>1
    <3>6. QED BY <3>1, <3>2, <3>4, <3>5, <1>2
  <2>8. QED BY <2>6, <2>7
<1>6. QED BY <1>3, <1>4, <1>5 DEF Moves

\* Every set holds exactly the lines of it used last: the ways are in the order
\* of their lines' last uses, and a line that was used and is no longer there
\* was used before every one of them.
Order(c, g, u) ==
  \A s \in Sets(g) :
    /\ \A v \in Ways(g) : c.way[s][v].tag # Invalid =>
         c.way[s][v].tag \in DOMAIN u /\ u[c.way[s][v].tag] > 0
    /\ \A v, x \in Ways(g) :
         c.way[s][v].tag # Invalid /\ c.way[s][x].tag # Invalid
           /\ c.way[s][v].lru < c.way[s][x].lru => u[c.way[s][v].tag] < u[c.way[s][x].tag]
    /\ \A x \in DOMAIN u : SetOf(g, x) = s /\ u[x] # 0 =>
         \/ \E v \in Ways(g) : c.way[s][v].tag = x
         \/ \A v \in Ways(g) : c.way[s][v].tag # Invalid /\ u[x] < u[c.way[s][v].tag]

LEMMA OrderAtHit ==
  ASSUME NEW g \in Geometry, NEW a \in Walks(g), NEW b \in Walks(g), NEW line \in Nat,
         Hit(a, b, g, line), Sound(a.c, g),
         NEW D \in SUBSET Nat, NEW u \in [D -> Nat], line \in D, Order(a.c, g, u),
         NEW top \in Nat, \A x \in D : u[x] < top
  PROVE  Order(b.c, g, [u EXCEPT ![line] = top])
<1> DEFINE S == SetOf(g, line)
           u2 == [u EXCEPT ![line] = top]
<1>1. S \in Sets(g) /\ a.c \in Contents(g) /\ b.c \in Contents(g)
  BY SetIs DEF Walks
<1>2. a.c.lru_counter \in Nat /\ line # Invalid
  BY <1>1 DEF Contents, Invalid
<1>3. PICK v \in Ways(g) :
        /\ a.c.way[S][v].tag = line
        /\ \A s \in Sets(g), x \in Ways(g) :
             /\ b.c.way[s][x].tag = a.c.way[s][x].tag
             /\ b.c.way[s][x].lru = IF s = S /\ x = v THEN a.c.lru_counter + 1
                                                     ELSE a.c.way[s][x].lru
        /\ b.c.lru_counter = a.c.lru_counter + 1
  BY DEF Hit
<1>4. \A s \in Sets(g), x \in Ways(g) :
        /\ b.c.way[s][x].tag = a.c.way[s][x].tag
        /\ b.c.way[s][x].lru = IF s = S /\ x = v THEN a.c.lru_counter + 1 ELSE a.c.way[s][x].lru
  BY <1>3
<1>5. \A s \in Sets(g), x \in Ways(g) : a.c.way[s][x].lru \in 0..a.c.lru_counter
  BY <1>1, <1>2, WayIs DEF Sound
<1>6. \A s \in Sets(g), x \in Ways(g) :
        a.c.way[s][x].tag = line => s = S /\ x = v
  BY <1>1, <1>2, <1>3 DEF Sound
<1>7. /\ DOMAIN u2 = D /\ DOMAIN u = D /\ u2[line] = top /\ top > 0
      /\ \A x \in D : u[x] \in Nat /\ x \in Nat /\ x # Invalid
      /\ \A x \in D \ {line} : u2[x] = u[x]
  BY DEF Invalid
<1> SUFFICES ASSUME NEW s \in Sets(g)
             PROVE  /\ \A x \in Ways(g) : b.c.way[s][x].tag # Invalid =>
                         b.c.way[s][x].tag \in D /\ u2[b.c.way[s][x].tag] > 0
                    /\ \A x, y \in Ways(g) :
                         b.c.way[s][x].tag # Invalid /\ b.c.way[s][y].tag # Invalid
                           /\ b.c.way[s][x].lru < b.c.way[s][y].lru =>
                         u2[b.c.way[s][x].tag] < u2[b.c.way[s][y].tag]
                    /\ \A x \in D : SetOf(g, x) = s /\ u2[x] # 0 =>
                         \/ \E y \in Ways(g) : b.c.way[s][y].tag = x
                         \/ \A y \in Ways(g) : /\ b.c.way[s][y].tag # Invalid
                                               /\ u2[x] < u2[b.c.way[s][y].tag]
  BY <1>7 DEF Order
<1>8. \A x \in Ways(g) : a.c.way[s][x].tag # Invalid =>
        a.c.way[s][x].tag \in D /\ u[a.c.way[s][x].tag] > 0
  BY <1>7 DEF Order
<1> HIDE DEF S, u2
<1>9. \A x \in Ways(g) : b.c.way[s][x].tag # Invalid =>
        b.c.way[s][x].tag \in D /\ u2[b.c.way[s][x].tag] > 0
  BY <1>4, <1>7, <1>8
<1>10. ASSUME NEW x \in Ways(g), NEW y \in Ways(g),
              b.c.way[s][x].tag # Invalid, b.c.way[s][y].tag # Invalid,
              b.c.way[s][x].lru < b.c.way[s][y].lru
       PROVE  u2[b.c.way[s][x].tag] < u2[b.c.way[s][y].tag]
  <2>1. CASE s = S /\ y = v
    <3>1. x # v
      BY <1>1, <1>10, <2>1, WayIs
    <3>2. a.c.way[s][x].tag \in D \ {line}
      BY <3>1, <2>1, <1>4, <1>6, <1>8, <1>10
    <3>3. QED BY <2>1, <3>2, <1>3, <1>4, <1>7
  <2>2. CASE s = S /\ x = v
    <3>1. b.c.way[s][x].lru = a.c.lru_counter + 1 /\ y # v
      BY <2>2, <1>1, <1>4, <1>10, WayIs
    <3>2. b.c.way[s][y].lru \in 0..a.c.lru_counter
      BY <2>2, <3>1, <1>4, <1>5
    <3>3. QED BY <3>1, <3>2, <1>2, <1>10
  <2>3. CASE ~(s = S /\ y = v) /\ ~(s = S /\ x = v)
    <3>1. a.c.way[s][x].tag \in D \ {line} /\ a.c.way[s][y].tag \in D \ {line}
      BY <2>3, <1>4, <1>6, <1>8, <1>10
    <3>2. a.c.way[s][x].lru < a.c.way[s][y].lru
      BY <2>3, <1>4, <1>10
    <3>3. u[a.c.way[s][x].tag] < u[a.c.way[s][y].tag]
      BY <3>2, <1>4, <1>10 DEF Order
    <3>4. QED BY <3>1, <3>3, <1>4, <1>7
  <2>4. QED BY <2>1, <2>2, <2>3
<1>11. ASSUME NEW x \in D, SetOf(g, x) = s, u2[x] # 0,
              ~\E y \in Ways(g) : b.c.way[s][y].tag = x,
              NEW y \in Ways(g)
       PROVE  b.c.way[s][y].tag # Invalid /\ u2[x] < u2[b.c.way[s][y].tag]
  <2>1. x # line
    BY <1>11, <1>3, <1>4 DEF S
  <2>2. a.c.way[s][y].tag # Invalid /\ u[x] < u[a.c.way[s][y].tag]
    <3>1. u[x] # 0
      BY <1>11, <2>1, <1>7
    <3>2. ~\E z \in Ways(g) : a.c.way[s][z].tag = x
      BY <1>11, <1>4
    <3>3. \/ \E z \in Ways(g) : a.c.way[s][z].tag = x
          \/ \A z \in Ways(g) : a.c.way[s][z].tag # Invalid /\ u[x] < u[a.c.way[s][z].tag]
      BY <1>11, <3>1, <1>7 DEF Order
    <3>4. QED BY <3>2, <3>3, <1>11
  <2>3. QED BY <2>1, <2>2, <1>4, <1>7, <1>8
<1>12. QED BY <1>9, <1>10, <1>11

LEMMA OrderAtFill ==
  ASSUME NEW g \in Geometry, NEW a \in Walks(g), NEW b \in Walks(g), NEW line \in Nat,
         NEW w \in BOOLEAN, Fill(a, b, g, line, w), Sound(a.c, g),
         NEW D \in SUBSET Nat, NEW u \in [D -> Nat], line \in D, Order(a.c, g, u),
         NEW top \in Nat, \A x \in D : u[x] < top
  PROVE  Order(b.c, g, [u EXCEPT ![line] = top])
<1> DEFINE S == SetOf(g, line)
           u2 == [u EXCEPT ![line] = top]
<1>1. S \in Sets(g) /\ a.c \in Contents(g) /\ b.c \in Contents(g)
  BY SetIs DEF Walks
<1>2. a.c.lru_counter \in Nat /\ line # Invalid
  BY <1>1 DEF Contents, Invalid
<1>3. PICK v \in Ways(g), done \in Nat :
        /\ ~Holds(a.c, g, line)
        /\ \A x \in Ways(g) : a.c.way[S][v].lru <= a.c.way[S][x].lru
        /\ \A s \in Sets(g), x \in Ways(g) :
             b.c.way[s][x] = IF s = S /\ x = v
                               THEN [tag |-> line, lru |-> a.c.lru_counter + 1,
                                     ready |-> done, dirty |-> FALSE]
                               ELSE a.c.way[s][x]
  BY DEF Fill
<1>4. \A s \in Sets(g), x \in Ways(g) :
        /\ b.c.way[s][x].tag = IF s = S /\ x = v THEN line ELSE a.c.way[s][x].tag
        /\ b.c.way[s][x].lru = IF s = S /\ x = v THEN a.c.lru_counter + 1 ELSE a.c.way[s][x].lru
  BY <1>3
<1>5. \A s \in Sets(g), x \in Ways(g) : a.c.way[s][x].lru \in 0..a.c.lru_counter
  BY <1>1, <1>2, WayIs DEF Sound
<1>6. \A s \in Sets(g), x \in Ways(g) : a.c.way[s][x].tag # line
  <2>1. \A x \in Ways(g) : a.c.way[S][x].tag # line
    BY <1>3 DEF Holds, Ways
  <2>2. QED BY <2>1, <1>2 DEF Sound
<1>7. /\ DOMAIN u2 = D /\ DOMAIN u = D /\ u2[line] = top /\ top > 0
      /\ \A x \in D : u[x] \in Nat /\ x \in Nat /\ x # Invalid
      /\ \A x \in D \ {line} : u2[x] = u[x]
  BY DEF Invalid
<1> SUFFICES ASSUME NEW s \in Sets(g)
             PROVE  /\ \A x \in Ways(g) : b.c.way[s][x].tag # Invalid =>
                         b.c.way[s][x].tag \in D /\ u2[b.c.way[s][x].tag] > 0
                    /\ \A x, y \in Ways(g) :
                         b.c.way[s][x].tag # Invalid /\ b.c.way[s][y].tag # Invalid
                           /\ b.c.way[s][x].lru < b.c.way[s][y].lru =>
                         u2[b.c.way[s][x].tag] < u2[b.c.way[s][y].tag]
                    /\ \A x \in D : SetOf(g, x) = s /\ u2[x] # 0 =>
                         \/ \E y \in Ways(g) : b.c.way[s][y].tag = x
                         \/ \A y \in Ways(g) : /\ b.c.way[s][y].tag # Invalid
                                               /\ u2[x] < u2[b.c.way[s][y].tag]
  BY <1>7 DEF Order
<1>8. \A x \in Ways(g) : a.c.way[s][x].tag # Invalid =>
        a.c.way[s][x].tag \in D \ {line} /\ u[a.c.way[s][x].tag] > 0
  BY <1>6, <1>7 DEF Order
<1> HIDE DEF S, u2
<1>9. \A x \in Ways(g) : b.c.way[s][x].tag # Invalid =>
        b.c.way[s][x].tag \in D /\ u2[b.c.way[s][x].tag] > 0
  <2> TAKE x \in Ways(g)
  <2>1. CASE s = S /\ x = v
    BY <2>1, <1>4, <1>7
  <2>2. CASE ~(s = S /\ x = v)
    BY <2>2, <1>4, <1>7, <1>8, ZenonT(30)
  <2>3. QED BY <2>1, <2>2
<1>10. ASSUME NEW x \in Ways(g), NEW y \in Ways(g),
              b.c.way[s][x].tag # Invalid, b.c.way[s][y].tag # Invalid,
              b.c.way[s][x].lru < b.c.way[s][y].lru
       PROVE  u2[b.c.way[s][x].tag] < u2[b.c.way[s][y].tag]
  <2>1. CASE s = S /\ y = v
    <3>1. x # v
      BY <1>1, <1>10, <2>1, WayIs
    <3>2. QED BY <2>1, <3>1, <1>4, <1>7, <1>8, <1>10
  <2>2. CASE s = S /\ x = v
    <3>1. b.c.way[s][x].lru = a.c.lru_counter + 1 /\ y # v
      BY <2>2, <1>1, <1>4, <1>10, WayIs
    <3>2. b.c.way[s][y].lru \in 0..a.c.lru_counter
      BY <2>2, <3>1, <1>4, <1>5
    <3>3. QED BY <3>1, <3>2, <1>2, <1>10
  <2>3. CASE ~(s = S /\ y = v) /\ ~(s = S /\ x = v)
    <3>1. a.c.way[s][x].lru < a.c.way[s][y].lru
      BY <2>3, <1>4, <1>10
    <3>2. u[a.c.way[s][x].tag] < u[a.c.way[s][y].tag]
      BY <2>3, <3>1, <1>4, <1>10 DEF Order
    <3>3. QED BY <2>3, <3>2, <1>4, <1>7, <1>8, <1>10, ZenonT(30)
  <2>4. QED BY <2>1, <2>2, <2>3
<1>11. ASSUME NEW x \in D, SetOf(g, x) = s, u2[x] # 0,
              ~\E y \in Ways(g) : b.c.way[s][y].tag = x,
              NEW y \in Ways(g)
       PROVE  b.c.way[s][y].tag # Invalid /\ u2[x] < u2[b.c.way[s][y].tag]
  <2>1. x # line
    <3>1. SUFFICES ASSUME x = line PROVE FALSE
      OBVIOUS
    <3>2. s = S
      BY <3>1, <1>11 DEF S
    <3>3. QED BY <3>1, <3>2, <1>4, <1>11
  <2>2. u2[x] = u[x] /\ u[x] # 0 /\ u[x] < top
    BY <2>1, <1>7, <1>11
  <2>3. CASE s # S
    <3>1. ~\E z \in Ways(g) : a.c.way[s][z].tag = x
      BY <2>3, <1>4, <1>11
    <3>2. a.c.way[s][y].tag # Invalid /\ u[x] < u[a.c.way[s][y].tag]
      BY <3>1, <2>2, <1>11, <1>7 DEF Order
    <3>3. QED BY <3>2, <2>2, <2>3, <1>4, <1>7, <1>8
  <2>4. CASE s = S
    \* Whether the victim holds x or not, all ways are in use, and x was used
    \* before every line that stays.
    <3>1. a.c.way[s][v].tag # Invalid
      <4>1. SUFFICES ASSUME a.c.way[s][v].tag = Invalid PROVE FALSE
        OBVIOUS
      <4>2. ~\E z \in Ways(g) : a.c.way[s][z].tag = x
        BY <4>1, <2>4, <1>4, <1>7, <1>11
      <4>3. QED BY <4>1, <4>2, <2>2, <1>11, <1>7 DEF Order
    <3>2. \A z \in Ways(g) : a.c.way[s][z].tag # Invalid
      <4>1. a.c.way[s][v].lru \in Nat \ {0}
        BY <3>1, <1>1, <1>2 DEF Sound
      <4>2. QED BY <4>1, <2>4, <1>3, <1>5, <1>2 DEF Sound
    <3>3. \A z \in Ways(g) \ {v} : u[a.c.way[s][v].tag] < u[a.c.way[s][z].tag]
      <4> TAKE z \in Ways(g) \ {v}
      <4>1. a.c.way[s][v].lru # a.c.way[s][z].lru
        BY <3>1 DEF Sound
      <4>2. a.c.way[s][v].lru < a.c.way[s][z].lru
        BY <4>1, <2>4, <1>3, <1>5, <1>2
      <4>3. QED BY <4>2, <3>2 DEF Order
    <3>4. \A z \in Ways(g) \ {v} : u[x] < u[a.c.way[s][z].tag]
      <4>1. CASE x = a.c.way[s][v].tag
        BY <4>1, <3>3
      <4>2. CASE x # a.c.way[s][v].tag
        <5>1. ~\E z \in Ways(g) : a.c.way[s][z].tag = x
          BY <4>2, <2>4, <1>4, <1>11
        <5>2. QED BY <5>1, <2>2, <1>11, <1>7 DEF Order
      <4>3. QED BY <4>1, <4>2
    <3>5. CASE y = v
      BY <3>5, <2>2, <2>4, <1>2, <1>4, <1>7
    <3>6. CASE y # v
      BY <3>6, <3>2, <3>4, <2>2, <1>4, <1>7, <1>8
    <3>7. QED BY <3>5, <3>6
  <2>5. QED BY <2>3, <2>4
<1>12. QED BY <1>9, <1>10, <1>11

------------------------------------------------------------------------------
(* access(): a request of span lines from the first on, of which k have    *)
(* been looked up.  c is the cache before the request, a what the loop has *)
(* made of it.                                                             *)

LEMMA NotHeld ==
  ASSUME NEW g \in Geometry, NEW c \in Contents(g), Sound(c, g), NEW line \in Nat
  PROVE  Holds(c, g, line) <=> \E s \in Sets(g), v \in Ways(g) : c.way[s][v].tag = line
<1>1. SetOf(g, line) \in Sets(g) /\ line # Invalid
  BY SetIs DEF Invalid
<1>2. QED BY <1>1 DEF Holds, Ways, Sound

LEMMA LinesGrow ==
  ASSUME NEW first \in Nat, NEW k \in Nat
  PROVE  /\ LinesOf(first, 0) = {}
         /\ LinesOf(first, k + 1) = LinesOf(first, k) \cup {first + k}
         /\ first + k \notin LinesOf(first, k)
         /\ LinesOf(first, k) \subseteq Nat
         /\ \A x \in LinesOf(first, k) : x - first + 1 \in 1..k
BY DEF LinesOf

\* No line of the request that is there arrives after the answer.
InTime(a, g, first, k) ==
  \A s \in Sets(g), v \in Ways(g) :
    a.c.way[s][v].tag \in LinesOf(first, k) => a.c.way[s][v].ready <= a.ready

LEMMA InTimeStep ==
  ASSUME NEW g \in Geometry, NEW a \in Walks(g), NEW b \in Walks(g),
         NEW first \in Nat, NEW k \in Nat, NEW w \in BOOLEAN,
         Moves(a, b, g, first + k, w), Sound(a.c, g), InTime(a, g, first, k)
  PROVE  InTime(b, g, first, k + 1) /\ a.ready <= b.ready
<1> DEFINE line == first + k
           S == SetOf(g, line)
<1>1. line \in Nat /\ line # Invalid /\ a.c \in Contents(g) /\ b.c \in Contents(g)
      /\ a.ready \in Nat /\ b.ready \in Nat
  BY DEF Invalid, Walks
<1>2. S \in Sets(g)
  BY <1>1, SetIs
<1>3. LinesOf(first, k + 1) = LinesOf(first, k) \cup {line}
  BY LinesGrow
<1>4. \A s \in Sets(g), x \in Ways(g) :
        a.c.way[s][x].ready \in Nat /\ b.c.way[s][x].ready \in Nat
  BY <1>1, WayIs
<1>5. \A s \in Sets(g), x \in Ways(g) :
        a.c.way[s][x].tag \in LinesOf(first, k) => a.c.way[s][x].ready <= a.ready
  BY DEF InTime
<1> SUFFICES /\ a.ready <= b.ready
             /\ \A s \in Sets(g), x \in Ways(g) :
                  b.c.way[s][x].tag \in LinesOf(first, k) \cup {line} =>
                    b.c.way[s][x].ready <= b.ready
  BY <1>3 DEF InTime
<1>6. CASE Hit(a, b, g, line)
  <2>1. PICK v \in Ways(g) :
          /\ a.c.way[S][v].tag = line
          /\ \A s \in Sets(g), x \in Ways(g) :
               /\ b.c.way[s][x].tag = a.c.way[s][x].tag
               /\ b.c.way[s][x].ready = a.c.way[s][x].ready
          /\ b.ready = Later(a.ready, a.c.way[S][v].ready)
    BY <1>6 DEF Hit
  <2>2. \A s \in Sets(g), x \in Ways(g) : a.c.way[s][x].tag = line => s = S /\ x = v
    BY <1>1, <1>2, <2>1 DEF Sound
  <2>3. a.ready <= b.ready /\ a.c.way[S][v].ready <= b.ready
    BY <1>1, <1>2, <1>4, <2>1 DEF Later
  <2> HIDE DEF S, line
  <2>4. QED BY <1>1, <1>4, <1>5, <2>1, <2>2, <2>3
<1>7. CASE Skip(a, b, g, line, w)
  <2>1. \A s \in Sets(g), x \in Ways(g) : a.c.way[s][x].tag # line
    BY <1>1, <1>7, NotHeld DEF Skip
  <2>2. QED BY <1>1, <1>5, <1>7, <2>1 DEF Skip
<1>8. CASE Fill(a, b, g, line, w)
  <2>1. PICK v \in Ways(g), done \in Nat :
          /\ ~Holds(a.c, g, line)
          /\ \A s \in Sets(g), x \in Ways(g) :
               b.c.way[s][x] = IF s = S /\ x = v
                                 THEN [tag |-> line, lru |-> a.c.lru_counter + 1,
                                       ready |-> done, dirty |-> FALSE]
                                 ELSE a.c.way[s][x]
          /\ b.ready = Later(a.ready, done)
    BY <1>8 DEF Fill
  <2>2. \A s \in Sets(g), x \in Ways(g) : a.c.way[s][x].tag # line
    BY <1>1, <2>1, NotHeld
  <2>3. a.ready <= b.ready /\ done <= b.ready
    BY <1>1, <2>1 DEF Later
  <2> HIDE DEF S, line
  <2> SUFFICES ASSUME NEW s \in Sets(g), NEW x \in Ways(g),
                      b.c.way[s][x].tag \in LinesOf(first, k) \cup {line}
               PROVE  b.c.way[s][x].ready <= b.ready
    BY <2>3
  <2>4. CASE s = S /\ x = v
    BY <2>4, <2>1, <2>3
  <2>5. CASE ~(s = S /\ x = v)
    <3>1. b.c.way[s][x] = a.c.way[s][x]
      BY <2>1, <2>5
    <3>2. QED BY <3>1, <1>1, <1>4, <1>5, <2>2, <2>3
  <2>6. QED BY <2>4, <2>5
<1>9. QED BY <1>6, <1>7, <1>8 DEF Moves

\* A line is dirty, in whatever set and way.
Dirty(c, g, x) == \E s \in Sets(g), v \in Ways(g) : c.way[s][v].tag = x /\ c.way[s][v].dirty

\* The lines that were dirty are so still or are the victims, and no others.
Accounted(a, c, g) ==
  /\ \A x \in a.victims : Dirty(c, g, x)
  /\ \A x \in Nat : Dirty(a.c, g, x) => Dirty(c, g, x) /\ x \notin a.victims
  /\ g.writeback => \A x \in Nat : Dirty(c, g, x) => Dirty(a.c, g, x) \/ x \in a.victims
  /\ ~g.writeback => a.victims = {}

LEMMA AccountedStep ==
  ASSUME NEW g \in Geometry, NEW a \in Walks(g), NEW b \in Walks(g), NEW c, NEW line \in Nat,
         NEW w \in BOOLEAN, Moves(a, b, g, line, w), Sound(a.c, g), Accounted(a, c, g)
  PROVE  Accounted(b, c, g)
<1> DEFINE S == SetOf(g, line)
<1>1. S \in Sets(g) /\ line # Invalid /\ a.c \in Contents(g)
  BY SetIs DEF Invalid, Walks
<1>2. CASE Hit(a, b, g, line)
  <2>1. /\ \A s \in Sets(g), x \in Ways(g) :
             /\ b.c.way[s][x].tag = a.c.way[s][x].tag
             /\ b.c.way[s][x].dirty = a.c.way[s][x].dirty
        /\ b.victims = a.victims
    BY <1>2 DEF Hit
  <2>2. \A x \in Nat : Dirty(b.c, g, x) <=> Dirty(a.c, g, x)
    BY <2>1 DEF Dirty
  <2>3. QED BY <2>1, <2>2 DEF Accounted
<1>3. CASE Skip(a, b, g, line, w)
  BY <1>3 DEF Skip
<1>4. CASE Fill(a, b, g, line, w)
  <2>1. PICK v \in Ways(g), done \in Nat :
          /\ ~Holds(a.c, g, line)
          /\ \A s \in Sets(g), x \in Ways(g) :
               b.c.way[s][x] = IF s = S /\ x = v
                                 THEN [tag |-> line, lru |-> a.c.lru_counter + 1,
                                       ready |-> done, dirty |-> FALSE]
                                 ELSE a.c.way[s][x]
          /\ b.victims = LET old == a.c.way[S][v] IN
               a.victims \cup IF g.writeback /\ old.tag # Invalid /\ old.dirty
                                THEN {old.tag} ELSE {}
    BY <1>4 DEF Fill
  <2>2. \A s \in Sets(g), x \in Ways(g) :
          /\ s = S /\ x = v => b.c.way[s][x].tag = line /\ b.c.way[s][x].dirty = FALSE
          /\ ~(s = S /\ x = v) => b.c.way[s][x] = a.c.way[s][x]
    BY <2>1
  <2> DEFINE old == a.c.way[S][v]
             out == g.writeback /\ old.tag # Invalid /\ old.dirty
  <2>3. b.victims = a.victims \cup IF out THEN {old.tag} ELSE {}
    BY <2>1
  <2>4. \A x \in Nat : Dirty(b.c, g, x) => /\ Dirty(a.c, g, x)
                                          /\ x # old.tag
    <3> SUFFICES ASSUME NEW x \in Nat, Dirty(b.c, g, x)
                 PROVE  Dirty(a.c, g, x) /\ x # old.tag
      OBVIOUS
    <3>1. PICK s \in Sets(g), z \in Ways(g) : b.c.way[s][z].tag = x /\ b.c.way[s][z].dirty
      BY DEF Dirty
    <3>2. ~(s = S /\ z = v)
      BY <3>1, <2>2
    <3>3. a.c.way[s][z].tag = x /\ a.c.way[s][z].dirty
      BY <3>1, <3>2, <2>2
    <3>4. x # Invalid
      BY DEF Invalid
    <3>5. SetOf(g, x) = s /\ \A y \in Ways(g) \ {z} : a.c.way[s][y].tag # x
      BY <3>3, <3>4 DEF Sound
    <3>6. x # old.tag
      <4>1. SUFFICES ASSUME x = old.tag PROVE FALSE
        OBVIOUS
      <4>2. s = S
        BY <4>1, <3>4, <3>5, <1>1 DEF Sound
      <4>3. QED BY <4>1, <4>2, <3>2, <3>5
    <3>7. QED BY <3>3, <3>6 DEF Dirty
  <2>5. \A x \in Nat : Dirty(a.c, g, x) => Dirty(b.c, g, x) \/ (x = old.tag /\ old.dirty)
    <3> SUFFICES ASSUME NEW x \in Nat, Dirty(a.c, g, x)
                 PROVE  Dirty(b.c, g, x) \/ (x = old.tag /\ old.dirty)
      OBVIOUS
    <3>1. PICK s \in Sets(g), z \in Ways(g) : a.c.way[s][z].tag = x /\ a.c.way[s][z].dirty
      BY DEF Dirty
    <3>2. CASE s = S /\ z = v
      BY <3>1, <3>2
    <3>3. CASE ~(s = S /\ z = v)
      BY <3>1, <3>3, <2>2 DEF Dirty
    <3>4. QED BY <3>2, <3>3
  <2>6. out => old.tag \in Nat /\ Dirty(a.c, g, old.tag)
    BY <1>1, WayIs DEF Dirty
  <2>7. \A x \in Nat : x # Invalid
    BY DEF Invalid
  <2> HIDE DEF old
  <2>8. QED BY <2>3, <2>4, <2>5, <2>6, <2>7 DEF Accounted
<1>5. QED BY <1>2, <1>3, <1>4 DEF Moves

\* No line of the request is a victim of it, and those looked up are there, if
\* the request is no longer than the sets.
Together(a, g, first, span, k, w) ==
  span <= g.sets =>
    /\ a.victims \cap LinesOf(first, span) = {}
    /\ ~w \/ g.allocate => \A x \in LinesOf(first, k) : Holds(a.c, g, x)

LEMMA TogetherStep ==
  ASSUME NEW g \in Geometry, NEW a \in Walks(g), NEW b \in Walks(g),
         NEW first \in Nat, NEW span \in Nat, NEW k \in Nat, k < span, NEW w \in BOOLEAN,
         Moves(a, b, g, first + k, w), Sound(a.c, g), Sound(b.c, g),
         Together(a, g, first, span, k, w)
  PROVE  Together(b, g, first, span, k + 1, w)
<1> SUFFICES ASSUME span <= g.sets
             PROVE  /\ b.victims \cap LinesOf(first, span) = {}
                    /\ ~w \/ g.allocate => \A x \in LinesOf(first, k + 1) : Holds(b.c, g, x)
  BY DEF Together
<1>1. /\ a.victims \cap LinesOf(first, span) = {}
      /\ ~w \/ g.allocate => \A x \in LinesOf(first, k) : Holds(a.c, g, x)
  BY DEF Together
<1> DEFINE line == first + k
           S == SetOf(g, line)
<1>2. line \in Nat /\ line # Invalid /\ a.c \in Contents(g) /\ b.c \in Contents(g)
  BY DEF Invalid, Walks
<1>3. S \in Sets(g)
  BY <1>2, SetIs
<1>4. /\ LinesOf(first, k + 1) = LinesOf(first, k) \cup {line}
      /\ LinesOf(first, span) \subseteq Nat /\ LinesOf(first, k + 1) \subseteq LinesOf(first, span)
  BY LinesGrow DEF LinesOf
<1>5. \A x \in LinesOf(first, span) : x # line => SetOf(g, x) # S
  <2> SUFFICES ASSUME NEW x \in LinesOf(first, span), x # line PROVE SetOf(g, x) # S
    OBVIOUS
  <2>1. x \in Nat /\ g.sets \in Nat
    BY <1>4 DEF Geometry
  <2>2. \/ x < line /\ line - x < g.sets
        \/ line < x /\ x - line < g.sets
    BY <2>1 DEF LinesOf
  <2>3. QED BY <2>1, <2>2, <1>2, SetsDiffer
<1>6. CASE Hit(a, b, g, line)
  <2>1. /\ \A s \in Sets(g), x \in Ways(g) : b.c.way[s][x].tag = a.c.way[s][x].tag
        /\ b.victims = a.victims
        /\ \E v \in Ways(g) : a.c.way[S][v].tag = line
    BY <1>6 DEF Hit
  <2>2. \A x \in LinesOf(first, k) : Holds(a.c, g, x) => Holds(b.c, g, x)
    BY <1>2, <1>4, <2>1, NotHeld
  <2>3. Holds(b.c, g, line)
    BY <1>3, <2>1 DEF Holds, Ways
  <2>4. QED BY <1>1, <1>4, <2>1, <2>2, <2>3
<1>7. CASE Skip(a, b, g, line, w)
  BY <1>1, <1>7 DEF Skip
<1>8. CASE Fill(a, b, g, line, w)
  <2>1. PICK v \in Ways(g), done \in Nat :
          /\ ~Holds(a.c, g, line)
          /\ \A s \in Sets(g), x \in Ways(g) :
               b.c.way[s][x] = IF s = S /\ x = v
                                 THEN [tag |-> line, lru |-> a.c.lru_counter + 1,
                                       ready |-> done, dirty |-> FALSE]
                                 ELSE a.c.way[s][x]
          /\ b.victims = LET old == a.c.way[S][v] IN
               a.victims \cup IF g.writeback /\ old.tag # Invalid /\ old.dirty
                                THEN {old.tag} ELSE {}
    BY <1>8 DEF Fill
  <2>2. a.c.way[S][v].tag \notin LinesOf(first, span)
    <3>1. SUFFICES ASSUME a.c.way[S][v].tag \in LinesOf(first, span) PROVE FALSE
      OBVIOUS
    <3>2. a.c.way[S][v].tag # Invalid
      BY <3>1, <1>4 DEF Invalid
    <3>3. SetOf(g, a.c.way[S][v].tag) = S
      BY <3>2, <1>3 DEF Sound
    <3>4. a.c.way[S][v].tag # line
      BY <2>1, <1>2, <1>3, NotHeld
    <3>5. QED BY <3>1, <3>3, <3>4, <1>5
  <2>3. b.victims \cap LinesOf(first, span) = {}
    BY <2>1, <2>2, <1>1
  <2>4. Holds(b.c, g, line)
    BY <2>1, <1>3 DEF Holds, Ways
  <2>5. \A x \in LinesOf(first, k) : Holds(a.c, g, x) => Holds(b.c, g, x)
    <3> SUFFICES ASSUME NEW x \in LinesOf(first, k), Holds(a.c, g, x) PROVE Holds(b.c, g, x)
      OBVIOUS
    <3>1. x \in Nat /\ x \in LinesOf(first, span)
      BY <1>4
    <3>2. PICK s \in Sets(g), z \in Ways(g) : a.c.way[s][z].tag = x
      BY <1>2, <3>1, NotHeld
    <3>3. ~(s = S /\ z = v)
      BY <2>2, <3>1, <3>2
    <3>4. b.c.way[s][z] = a.c.way[s][z]
      BY <2>1, <3>3
    <3>5. QED BY <1>2, <3>1, <3>2, <3>4, NotHeld
  <2>6. QED BY <1>1, <1>4, <2>3, <2>4, <2>5
<1>9. QED BY <1>6, <1>7, <1>8 DEF Moves

\* A store to a cache that does not allocate, and a request all of whose lines
\* are there, bring nothing in; the latter evicts nothing.
Calm(a, c, g, first, span, w) ==
  /\ (w /\ ~g.allocate) \/ Resident(c, g, LinesOf(first, span)) =>
       \A s \in Sets(g), v \in Ways(g) : a.c.way[s][v].tag = c.way[s][v].tag
  /\ Resident(c, g, LinesOf(first, span)) => a.victims = {}

LEMMA CalmStep ==
  ASSUME NEW g \in Geometry, NEW a \in Walks(g), NEW b \in Walks(g), NEW c \in Contents(g),
         NEW first \in Nat, NEW span \in Nat, NEW k \in Nat, k < span, NEW w \in BOOLEAN,
         Moves(a, b, g, first + k, w), Sound(c, g), Sound(a.c, g), Calm(a, c, g, first, span, w)
  PROVE  Calm(b, c, g, first, span, w)
<1> DEFINE line == first + k
<1>1. line \in Nat /\ line \in LinesOf(first, span) /\ a.c \in Contents(g)
  BY DEF LinesOf, Walks
<1>2. CASE Hit(a, b, g, line)
  BY <1>2 DEF Hit, Calm
<1>3. CASE Skip(a, b, g, line, w)
  BY <1>3 DEF Skip
<1>4. CASE Fill(a, b, g, line, w)
  <2>1. ~(w /\ ~g.allocate) /\ ~Holds(a.c, g, line)
    BY <1>4 DEF Fill
  <2>2. ~Resident(c, g, LinesOf(first, span))
    <3>1. SUFFICES ASSUME Resident(c, g, LinesOf(first, span)) PROVE FALSE
      OBVIOUS
    <3>2. Holds(c, g, line)
      BY <1>1, <3>1 DEF Resident
    <3>3. \A s \in Sets(g), v \in Ways(g) : a.c.way[s][v].tag = c.way[s][v].tag
      BY <3>1 DEF Calm
    <3>4. Holds(a.c, g, line)
      BY <1>1, <3>2, <3>3, NotHeld
    <3>5. QED BY <2>1, <3>4
  <2>3. QED BY <2>1, <2>2 DEF Calm
<1>5. QED BY <1>2, <1>3, <1>4 DEF Moves

\* A store that misses a cache that does not allocate is no use of the line.
Counts(c, g, x, w) == ~w \/ g.allocate \/ Holds(c, g, x)

\* The last uses after k lines.
UsesAfter(u, c, g, first, k, w, from) ==
  [x \in DOMAIN u |->
     IF x \in LinesOf(first, k) /\ Counts(c, g, x, w) THEN from + (x - first) + 1 ELSE u[x]]

LEMMA UsesAfterIs ==
  ASSUME NEW g, NEW c, NEW D \in SUBSET Nat, NEW from \in Nat, NEW u \in [D -> 0..from],
         NEW first \in Nat, NEW k \in Nat, NEW w
  PROVE  UsesAfter(u, c, g, first, k, w, from) \in [D -> 0..(from + k)]
<1> DEFINE v == UsesAfter(u, c, g, first, k, w, from)
<1>1. \A x \in LinesOf(first, k) : x - first + 1 \in 1..k
  BY LinesGrow
<1>2. /\ v = [x \in D |-> v[x]]
      /\ \A x \in D :
           v[x] = IF x \in LinesOf(first, k) /\ Counts(c, g, x, w)
                    THEN from + (x - first) + 1 ELSE u[x]
  BY DEF UsesAfter
<1> HIDE DEF v
<1>3. \A x \in D : v[x] \in 0..(from + k)
  <2> TAKE x \in D
  <2>1. u[x] \in 0..from
    OBVIOUS
  <2>2. CASE x \in LinesOf(first, k) /\ Counts(c, g, x, w)
    <3>1. v[x] = from + (x - first) + 1 /\ x - first + 1 \in 1..k /\ x \in Nat
      BY <1>1, <1>2, <2>2
    <3>2. QED BY <3>1
  <2>3. QED BY <1>2, <2>1, <2>2
<1>4. QED BY <1>2, <1>3 DEF v

LEMMA OneUse ==
  ASSUME NEW g, NEW c, NEW from \in Nat, NEW u, NEW first \in Nat, NEW k \in Nat,
         first + k \in DOMAIN u, NEW w, Counts(c, g, first + k, w)
  PROVE  UsesAfter(u, c, g, first, k + 1, w, from)
           = [UsesAfter(u, c, g, first, k, w, from) EXCEPT ![first + k] = from + k + 1]
<1> DEFINE v  == UsesAfter(u, c, g, first, k, w, from)
           v2 == UsesAfter(u, c, g, first, k + 1, w, from)
<1>1. LinesOf(first, k + 1) = LinesOf(first, k) \cup {first + k}
  BY LinesGrow
<1>2. /\ v = [x \in DOMAIN u |-> v[x]] /\ v2 = [x \in DOMAIN u |-> v2[x]]
      /\ \A x \in DOMAIN u :
           /\ v[x] = IF x \in LinesOf(first, k) /\ Counts(c, g, x, w)
                       THEN from + (x - first) + 1 ELSE u[x]
           /\ v2[x] = IF x \in LinesOf(first, k + 1) /\ Counts(c, g, x, w)
                        THEN from + (x - first) + 1 ELSE u[x]
  BY DEF UsesAfter
<1> HIDE DEF v, v2
<1>3. \A x \in DOMAIN u \ {first + k} : v2[x] = v[x]
  BY <1>1, <1>2
<1>4. v2[first + k] = from + k + 1
  BY <1>1, <1>2
<1>5. v2 = [v EXCEPT ![first + k] = from + k + 1]
  BY <1>2, <1>3, <1>4
<1>6. QED BY <1>5 DEF v, v2

LEMMA NoUse ==
  ASSUME NEW g, NEW c, NEW from, NEW u, NEW first \in Nat, NEW k \in Nat, NEW w,
         ~Counts(c, g, first + k, w)
  PROVE  UsesAfter(u, c, g, first, k + 1, w, from) = UsesAfter(u, c, g, first, k, w, from)
<1>1. LinesOf(first, k + 1) = LinesOf(first, k) \cup {first + k}
  BY LinesGrow
<1>2. \A x : /\ x \in LinesOf(first, k + 1) /\ Counts(c, g, x, w)
             <=> x \in LinesOf(first, k) /\ Counts(c, g, x, w)
  BY <1>1
<1>3. QED BY <1>2 DEF UsesAfter

\* Everything at once.
Along(a, c, g, t, first, span, k, w, u, from) ==
  /\ a \in Walks(g) /\ t <= a.ready /\ Sound(a.c, g)
  /\ Order(a.c, g, UsesAfter(u, c, g, first, k, w, from))
  /\ InTime(a, g, first, k)
  /\ Accounted(a, c, g)
  /\ Together(a, g, first, span, k, w)
  /\ Calm(a, c, g, first, span, w)

\* What a request is given.
Given(c, g, t, first, span, w, u, from, D) ==
  /\ g \in Geometry /\ c \in Contents(g) /\ t \in Nat /\ first \in Nat /\ span \in Nat
  /\ w \in BOOLEAN /\ from \in Nat /\ D \in SUBSET Nat /\ u \in [D -> 0..from]
  /\ LinesOf(first, span) \subseteq D /\ Sound(c, g) /\ Order(c, g, u)

LEMMA AlongFirst ==
  ASSUME NEW c, NEW g, NEW t, NEW first, NEW span, NEW w, NEW u, NEW from, NEW D,
         Given(c, g, t, first, span, w, u, from, D)
  PROVE  Along(WalkFrom(c, g, t), c, g, t, first, span, 0, w, u, from)
<1> DEFINE a == WalkFrom(c, g, t)
<1>1. /\ g \in Geometry /\ c \in Contents(g) /\ t \in Nat /\ first \in Nat /\ span \in Nat
      /\ w \in BOOLEAN /\ from \in Nat /\ D \in SUBSET Nat /\ u \in [D -> 0..from]
      /\ Sound(c, g) /\ Order(c, g, u)
  BY DEF Given
<1>2. a.c = c /\ a.ready = t + g.hit /\ a.victims = {} /\ g.hit \in Nat
  BY <1>1 DEF WalkFrom, Geometry
<1>3. a \in Walks(g)
  BY <1>1, <1>2 DEF Walks, WalkFrom
<1> HIDE DEF a
<1>4. LinesOf(first, 0) = {}
  BY <1>1, LinesGrow
<1>5. UsesAfter(u, c, g, first, 0, w, from) = u
  <2>1. UsesAfter(u, c, g, first, 0, w, from) = [x \in D |-> u[x]]
    BY <1>1, <1>4 DEF UsesAfter
  <2>2. QED BY <1>1, <2>1
<1>6. InTime(a, g, first, 0) /\ Together(a, g, first, span, 0, w)
  BY <1>2, <1>4 DEF InTime, Together
<1>7. Accounted(a, c, g) /\ Calm(a, c, g, first, span, w)
  BY <1>2 DEF Accounted, Calm
<1>8. t <= a.ready
  BY <1>1, <1>2
<1>9. QED BY <1>1, <1>2, <1>3, <1>5, <1>6, <1>7, <1>8 DEF Along, a

LEMMA AlongStep ==
  ASSUME NEW c, NEW g, NEW t, NEW first, NEW span, NEW w, NEW u, NEW from, NEW D,
         Given(c, g, t, first, span, w, u, from, D), NEW below \in Nat,
         NEW k \in Nat, k < span, NEW a, NEW b,
         Along(a, c, g, t, first, span, k, w, u, from),
         b = OneLine(a, g, t, first + k, w, below)
  PROVE  Along(b, c, g, t, first, span, k + 1, w, u, from)
<1> DEFINE line == first + k
<1>1. /\ g \in Geometry /\ c \in Contents(g) /\ t \in Nat /\ first \in Nat /\ span \in Nat
      /\ w \in BOOLEAN /\ from \in Nat /\ D \in SUBSET Nat /\ u \in [D -> 0..from]
      /\ Sound(c, g) /\ LinesOf(first, span) \subseteq D
  BY DEF Given
<1>2. line \in Nat /\ line \in D /\ line \in LinesOf(first, span)
  BY <1>1 DEF LinesOf
<1>3. /\ a \in Walks(g) /\ t <= a.ready /\ Sound(a.c, g)
      /\ Order(a.c, g, UsesAfter(u, c, g, first, k, w, from))
      /\ InTime(a, g, first, k) /\ Accounted(a, c, g) /\ Together(a, g, first, span, k, w)
      /\ Calm(a, c, g, first, span, w)
  BY DEF Along
<1>4. b \in Walks(g) /\ Moves(a, b, g, line, w)
  BY <1>1, <1>2, <1>3, OneLineIs DEF Moves
<1>5. Sound(b.c, g)
  BY <1>1, <1>2, <1>3, <1>4, SoundStep
<1>6. InTime(b, g, first, k + 1) /\ t <= b.ready
  <2>1. InTime(b, g, first, k + 1) /\ a.ready <= b.ready
    BY <1>1, <1>3, <1>4, InTimeStep
  <2>2. a.ready \in Nat /\ b.ready \in Nat
    BY <1>3, <1>4 DEF Walks
  <2>3. QED BY <2>1, <2>2, <1>1, <1>3
<1>7. Accounted(b, c, g)
  BY <1>1, <1>2, <1>3, <1>4, AccountedStep
<1>8. Together(b, g, first, span, k + 1, w)
  BY <1>1, <1>3, <1>4, <1>5, TogetherStep
<1>9. Calm(b, c, g, first, span, w)
  BY <1>1, <1>3, <1>4, CalmStep
<1>10. Order(b.c, g, UsesAfter(u, c, g, first, k + 1, w, from))
  <2> DEFINE v  == UsesAfter(u, c, g, first, k, w, from)
             v2 == UsesAfter(u, c, g, first, k + 1, w, from)
             counts == Counts(c, g, line, w)
  <2>1. /\ v \in [D -> 0..(from + k)]
        /\ counts => v2 = [v EXCEPT ![line] = from + k + 1]
        /\ ~counts => v2 = v
    <3>1. first + k \in D
      BY <1>2
    <3>2. v \in [D -> 0..(from + k)]
      BY <1>1, UsesAfterIs
    <3>3. counts => v2 = [v EXCEPT ![line] = from + k + 1]
      <4>1. line \in DOMAIN u
        BY <1>1, <3>1
      <4>2. QED BY <1>1, <4>1, OneUse
    <3>4. ~counts => v2 = v
      BY <1>1, NoUse
    <3>5. QED BY <3>2, <3>3, <3>4
  <2>2. /\ v \in [D -> Nat] /\ from + k + 1 \in Nat /\ \A x \in D : v[x] < from + k + 1
    BY <2>1, <1>1
  <2>3. Holds(a.c, g, line) => counts
    <3>1. SUFFICES ASSUME Holds(a.c, g, line), w /\ ~g.allocate PROVE Holds(c, g, line)
      BY DEF Counts
    <3>2. \A s \in Sets(g), x \in Ways(g) : a.c.way[s][x].tag = c.way[s][x].tag
      BY <3>1, <1>3 DEF Calm
    <3>3. a.c \in Contents(g)
      BY <1>3 DEF Walks
    <3>4. QED BY <3>1, <3>2, <3>3, <1>1, <1>2, <1>3, NotHeld
  <2>4. w /\ ~g.allocate /\ ~Holds(a.c, g, line) => ~counts
    <3>1. SUFFICES ASSUME ~Holds(a.c, g, line), w /\ ~g.allocate PROVE ~Holds(c, g, line)
      BY DEF Counts
    <3>2. \A s \in Sets(g), x \in Ways(g) : a.c.way[s][x].tag = c.way[s][x].tag
      BY <3>1, <1>3 DEF Calm
    <3>3. a.c \in Contents(g)
      BY <1>3 DEF Walks
    <3>4. QED BY <3>1, <3>2, <3>3, <1>1, <1>2, <1>3, NotHeld
  <2> HIDE DEF v, v2, counts, line
  <2>5. CASE Hit(a, b, g, line)
    <3>1. Holds(a.c, g, line)
      BY <2>5 DEF Hit, Holds, Ways
    <3>2. Order(b.c, g, [v EXCEPT ![line] = from + k + 1])
      BY <1>1, <1>2, <1>3, <1>4, <2>2, <2>5, OrderAtHit DEF v
    <3>3. QED BY <2>1, <2>3, <3>1, <3>2 DEF v2
  <2>6. CASE Skip(a, b, g, line, w)
    BY <2>6, <2>1, <2>4, <1>3 DEF Skip, v, v2
  <2>7. CASE Fill(a, b, g, line, w)
    <3>1. counts
      BY <2>7 DEF Fill, counts, Counts
    <3>2. Order(b.c, g, [v EXCEPT ![line] = from + k + 1])
      BY <1>1, <1>2, <1>3, <1>4, <2>2, <2>7, OrderAtFill DEF v
    <3>3. QED BY <2>1, <3>1, <3>2 DEF v2
  <2>8. QED BY <1>4, <2>5, <2>6, <2>7 DEF Moves
<1>11. QED BY <1>4, <1>5, <1>6, <1>7, <1>8, <1>9, <1>10 DEF Along

LEMMA AlongAll ==
  ASSUME NEW c, NEW g, NEW t, NEW first, NEW span, NEW w, NEW u, NEW from, NEW D,
         Given(c, g, t, first, span, w, u, from, D), NEW below \in Nat
  PROVE  Along(Walked(c, g, t, first, span, w, below), c, g, t, first, span, span, w, u, from)
<1>1. span \in Nat /\ first \in Nat
  BY DEF Given
<1>2. PICK f : /\ IsWalk(f, c, g, t, first, span, w, below)
               /\ Walked(c, g, t, first, span, w, below) = f[span]
  BY <1>1, WalkIs
<1> DEFINE Good(k) == k <= span => Along(f[k], c, g, t, first, span, k, w, u, from)
           T == {k \in Nat : Good(k)}
<1>3. 0 \in T
  BY <1>2, AlongFirst DEF IsWalk
<1>4. \A k \in T : k + 1 \in T
  <2> SUFFICES ASSUME NEW k \in T, k + 1 <= span
               PROVE  Along(f[k + 1], c, g, t, first, span, k + 1, w, u, from)
    OBVIOUS
  <2>1. k \in Nat /\ k < span
    BY <1>1
  <2>2. Along(f[k], c, g, t, first, span, k, w, u, from)
    BY <2>1, <1>1
  <2>3. f[k + 1] = OneLine(f[k], g, t, first + k, w, below)
    <3>1. k + 1 \in 1..span /\ (k + 1) - 1 = k /\ first + (k + 1) - 1 = first + k
      BY <2>1, <1>1
    <3>2. QED BY <3>1, <1>2 DEF IsWalk
  <2>4. QED BY <2>1, <2>2, <2>3, AlongStep
<1> HIDE DEF Good
<1>5. T = Nat
  BY <1>3, <1>4, Induction
<1>6. Good(span)
  BY <1>1, <1>5
<1>7. QED BY <1>1, <1>2, <1>6 DEF Good

------------------------------------------------------------------------------
(* access(), all of it.                                                    *)

LEMMA SameWays ==
  ASSUME NEW g \in Geometry, NEW c \in Contents(g), NEW d \in Contents(g), NEW u,
         d.lru_counter = c.lru_counter,
         \A s \in Sets(g), v \in Ways(g) : /\ d.way[s][v].tag = c.way[s][v].tag
                                           /\ d.way[s][v].lru = c.way[s][v].lru
  PROVE  /\ Sound(c, g) => Sound(d, g)
         /\ Order(c, g, u) => Order(d, g, u)
<1>1. Sound(c, g) => Sound(d, g)
  BY DEF Sound
<1>2. Order(c, g, u) => Order(d, g, u)
  BY DEF Order
<1>3. QED BY <1>1, <1>2

LEMMA MarkedIs ==
  ASSUME NEW g \in Geometry, NEW c \in Contents(g), NEW lines
  PROVE  /\ Marked(c, g, lines) \in Contents(g)
         /\ Marked(c, g, lines).lru_counter = c.lru_counter
         /\ \A s \in Sets(g), v \in Ways(g) :
              /\ Marked(c, g, lines).way[s][v].tag = c.way[s][v].tag
              /\ Marked(c, g, lines).way[s][v].lru = c.way[s][v].lru
              /\ Marked(c, g, lines).way[s][v].ready = c.way[s][v].ready
              /\ Marked(c, g, lines).way[s][v].dirty
                   <=> c.way[s][v].dirty \/ c.way[s][v].tag \in lines
<1> DEFINE M(s, v) == [c.way[s][v] EXCEPT !.dirty = @ \/ c.way[s][v].tag \in lines]
           way == [s \in Sets(g) |-> [v \in Ways(g) |-> M(s, v)]]
<1>1. c.way \in [Sets(g) -> [Ways(g) -> Way]]
  BY DEF Contents
<1>2. /\ DOMAIN c.way = Sets(g) /\ \A s \in Sets(g) : DOMAIN c.way[s] = Ways(g)
  BY <1>1
<1>3. Marked(c, g, lines) = [c EXCEPT !.way = way]
  BY <1>2 DEF Marked
<1>4. \A s \in Sets(g), v \in Ways(g) :
        /\ M(s, v) \in Way
        /\ M(s, v).tag = c.way[s][v].tag /\ M(s, v).lru = c.way[s][v].lru
        /\ M(s, v).ready = c.way[s][v].ready
        /\ M(s, v).dirty <=> c.way[s][v].dirty \/ c.way[s][v].tag \in lines
  <2> TAKE s \in Sets(g), v \in Ways(g)
  <2>1. c.way[s][v] \in Way
    BY WayIs
  <2>2. QED BY <2>1 DEF Way
<1> HIDE DEF M
<1>5. way \in [Sets(g) -> [Ways(g) -> Way]]
  BY <1>4
<1>6. \A s \in Sets(g), v \in Ways(g) : way[s][v] = M(s, v)
  OBVIOUS
<1> HIDE DEF way
<1>7. Marked(c, g, lines) \in Contents(g) /\ Marked(c, g, lines).way = way
      /\ Marked(c, g, lines).lru_counter = c.lru_counter
  BY <1>3, <1>5 DEF Contents
<1>8. QED BY <1>4, <1>6, <1>7

\* What a request has made of the cache.
Served(a, c, g, t, first, span, w, u, from) ==
  /\ a.c \in Contents(g) /\ a.ready \in Nat /\ t <= a.ready /\ a.victims \in SUBSET Nat
  /\ Sound(a.c, g) /\ Order(a.c, g, UsesAfter(u, c, g, first, span, w, from))
  /\ InTime(a, g, first, span)
  /\ \A x \in a.victims : Dirty(c, g, x)
  /\ ~g.writeback => a.victims = {}
  /\ span <= g.sets => a.victims \cap LinesOf(first, span) = {}
  /\ Resident(c, g, LinesOf(first, span)) => a.victims = {}
  /\ \A x \in Nat : Dirty(a.c, g, x) => \/ Dirty(c, g, x) /\ x \notin a.victims
                                        \/ w /\ g.writeback /\ x \in LinesOf(first, span)
  /\ g.writeback => \A x \in Nat : Dirty(c, g, x) => Dirty(a.c, g, x) \/ x \in a.victims
  /\ w /\ g.writeback /\ g.allocate /\ span <= g.sets =>
       \A x \in LinesOf(first, span) : Dirty(a.c, g, x)

LEMMA AccessedIs ==
  ASSUME NEW c, NEW g, NEW t, NEW first, NEW span, NEW w, NEW u, NEW from, NEW D,
         Given(c, g, t, first, span, w, u, from, D), NEW below \in Nat
  PROVE  Served(Accessed(c, g, t, first, span, w, below), c, g, t, first, span, w, u, from)
<1> DEFINE s == Walked(c, g, t, first, span, w, below)
           a == Accessed(c, g, t, first, span, w, below)
           lines == LinesOf(first, span)
<1>1. /\ g \in Geometry /\ t \in Nat /\ first \in Nat /\ span \in Nat /\ w \in BOOLEAN
      /\ lines \subseteq Nat /\ c \in Contents(g)
  BY LinesGrow DEF Given
<1>2. Along(s, c, g, t, first, span, span, w, u, from)
  BY AlongAll
<1> HIDE DEF s, a, lines
<1>3. /\ s \in Walks(g) /\ t <= s.ready /\ Sound(s.c, g)
      /\ Order(s.c, g, UsesAfter(u, c, g, first, span, w, from))
      /\ InTime(s, g, first, span) /\ Accounted(s, c, g)
      /\ Together(s, g, first, span, span, w) /\ Calm(s, c, g, first, span, w)
  BY <1>2 DEF Along
<1>4. s.c \in Contents(g) /\ s.ready \in Nat /\ s.victims \in SUBSET Nat
  BY <1>3 DEF Walks
<1>5. /\ \A x \in s.victims : Dirty(c, g, x)
      /\ \A x \in Nat : Dirty(s.c, g, x) => Dirty(c, g, x) /\ x \notin s.victims
      /\ g.writeback => \A x \in Nat : Dirty(c, g, x) => Dirty(s.c, g, x) \/ x \in s.victims
      /\ ~g.writeback => s.victims = {}
  BY <1>3 DEF Accounted
<1>6. Resident(c, g, lines) => s.victims = {}
  BY <1>3 DEF Calm, lines
<1>7. span <= g.sets => /\ s.victims \cap lines = {}
                        /\ ~w \/ g.allocate => \A x \in lines : Holds(s.c, g, x)
  BY <1>3 DEF Together, lines
<1> SUFFICES Served(a, c, g, t, first, span, w, u, from)
  BY DEF a
<1>8. CASE w /\ g.writeback
  <2>1. a = [s EXCEPT !.c = Marked(s.c, g, lines)]
    BY <1>8 DEF a, s, Accessed, lines
  <2>2. a.c = Marked(s.c, g, lines) /\ a.ready = s.ready /\ a.victims = s.victims
    BY <2>1, <1>3 DEF Walks
  <2>3. /\ a.c \in Contents(g) /\ a.c.lru_counter = s.c.lru_counter
        /\ \A x \in Sets(g), v \in Ways(g) :
             /\ a.c.way[x][v].tag = s.c.way[x][v].tag
             /\ a.c.way[x][v].lru = s.c.way[x][v].lru
             /\ a.c.way[x][v].ready = s.c.way[x][v].ready
             /\ a.c.way[x][v].dirty <=> s.c.way[x][v].dirty \/ s.c.way[x][v].tag \in lines
    BY <1>1, <1>4, <2>2, MarkedIs
  <2>4. Sound(a.c, g) /\ Order(a.c, g, UsesAfter(u, c, g, first, span, w, from))
    BY <1>1, <1>3, <1>4, <2>3, SameWays
  <2>5. InTime(a, g, first, span)
    BY <1>3, <2>2, <2>3 DEF InTime
  <2>6. \A x \in Nat : Dirty(a.c, g, x) <=> \/ Dirty(s.c, g, x)
                                            \/ x \in lines /\ Holds(s.c, g, x)
    <3> TAKE x \in Nat
    <3>1. Holds(s.c, g, x) <=> \E y \in Sets(g), v \in Ways(g) : s.c.way[y][v].tag = x
      BY <1>1, <1>3, <1>4, NotHeld
    <3>2. QED BY <3>1, <2>3 DEF Dirty
  <2>7. QED BY <1>1, <1>3, <1>4, <1>5, <1>6, <1>7, <1>8, <2>2, <2>3, <2>4, <2>5, <2>6
            DEF Served, lines
<1>9. CASE w /\ ~g.writeback
  <2> DEFINE free == Later(t, s.c.free) + g.write
             late == free - g.buffer * g.write
  <2>1. a = [s EXCEPT !.c.free = free, !.ready = Later(s.ready, late)]
    BY <1>9 DEF a, s, Accessed, Buffered
  <2>2. free \in Nat /\ late \in Int
    <3>1. s.c.free \in Nat /\ g.write \in Nat /\ g.buffer \in Nat
      BY <1>1, <1>4 DEF Contents, Geometry
    <3>2. free \in Nat
      BY <1>1, <3>1 DEF Later
    <3>3. g.buffer * g.write \in Int
      BY <3>1
    <3>4. QED BY <3>2, <3>3
  <2> HIDE DEF free, late
  <2>3. a.c = [s.c EXCEPT !.free = free] /\ a.ready = Later(s.ready, late)
        /\ a.victims = s.victims
    BY <2>1, <1>3 DEF Walks
  <2>4. /\ a.c \in Contents(g) /\ a.c.way = s.c.way /\ a.c.lru_counter = s.c.lru_counter
    BY <2>2, <2>3, <1>4 DEF Contents
  <2>5. Sound(a.c, g) /\ Order(a.c, g, UsesAfter(u, c, g, first, span, w, from))
    BY <1>1, <1>3, <1>4, <2>4, SameWays
  <2>6. a.ready \in Nat /\ s.ready <= a.ready /\ t <= a.ready
    BY <1>1, <1>3, <1>4, <2>2, <2>3 DEF Later
  <2>7. InTime(a, g, first, span)
    <3>1. \A x \in Sets(g), v \in Ways(g) : a.c.way[x][v].ready \in Nat
      BY <1>1, <2>4, WayIs
    <3>2. QED BY <1>3, <1>4, <2>4, <2>6, <3>1 DEF InTime
  <2>8. \A x : Dirty(a.c, g, x) <=> Dirty(s.c, g, x)
    BY <2>4 DEF Dirty
  <2>9. QED BY <1>1, <1>3, <1>4, <1>5, <1>6, <1>7, <1>9, <2>3, <2>4, <2>5, <2>6, <2>7, <2>8
            DEF Served, lines
<1>10. CASE ~w
  <2>1. a = s
    BY <1>10 DEF a, s, Accessed
  <2>2. QED BY <1>1, <1>3, <1>4, <1>5, <1>6, <1>7, <1>10, <2>1 DEF Served, lines
<1>11. QED BY <1>1, <1>8, <1>9, <1>10

------------------------------------------------------------------------------
(* The chain.                                                              *)

TimingTypes ==
  /\ now \in Nat /\ uses \in Nat /\ n \in Nat /\ seen.id \in Caches
  /\ DOMAIN cache = Caches /\ \A id \in Caches : cache[id] \in Contents(G[id])
  /\ DOMAIN used = Caches /\ \A id \in Caches : used[id] \in [AllLines -> 0..uses]
  /\ stores \in [AllLines -> Nat] /\ written \in [AllLines -> Nat]

\* A line is dirty in the L2 exactly while memory has not absorbed all of its
\* stores, and is never dirty in a write-through L2.
DirtyIsUnwritten ==
  \A x \in AllLines :
    /\ written[x] <= stores[x]
    /\ written[x] # stores[x] => G[L2].writeback /\ Dirty(cache[L2], G[L2], x)
    /\ Dirty(cache[L2], G[L2], x) => written[x] < stores[x]

TimingInv ==
  /\ TimingTypes
  /\ \A id \in Caches : Sound(cache[id], G[id]) /\ Order(cache[id], G[id], used[id])
  /\ DirtyIsUnwritten
  /\ LoadsWaitForRefills

LEMMA Constants ==
  /\ AllLines \in SUBSET Nat
  /\ L2 \in Caches /\ L1s \subseteq Caches /\ L2 \notin L1s
  /\ \A id \in Caches : G[id] \in Geometry /\ (G[id].writeback => G[id].allocate)
  /\ \A first \in Lines, span \in Spans :
       first \in Nat /\ span \in Nat /\ LinesOf(first, span) \subseteq AllLines
  /\ Gaps \subseteq Nat /\ MemLatencies \subseteq Nat
  /\ \A span \in Spans : span <= G[L2].sets
<1>1. \A first \in Lines, span \in Spans : first \in Nat /\ span \in Nat
  BY CachesAssumption
<1>2. \A first \in Lines, span \in Spans : LinesOf(first, span) \in SUBSET Nat
  BY <1>1, LinesGrow
<1>3. AllLines \in SUBSET Nat
  BY <1>2 DEF AllLines
<1>4. \A first \in Lines, span \in Spans : LinesOf(first, span) \subseteq AllLines
  BY DEF AllLines
<1>5. \A id \in Caches : G[id] \in Geometry /\ (G[id].writeback => G[id].allocate)
  BY CachesAssumption DEF Geometry
<1>6. QED BY <1>1, <1>3, <1>4, <1>5, CachesAssumption DEF Caches

LEMMA TimingInit ==
  ASSUME Init
  PROVE  TimingInv
<1>1. cache = [id \in Caches |-> Cache0(G[id])]
  BY DEF Init
<1>2. ASSUME NEW id \in Caches
      PROVE  /\ Cache0(G[id]) \in Contents(G[id])
             /\ \A s \in Sets(G[id]), v \in Ways(G[id]) : Cache0(G[id]).way[s][v] = Way0
  BY DEF Cache0, Contents, Sets, Ways, Way, Way0
<1>3. /\ Way0.tag = Invalid /\ Way0.lru = 0 /\ Way0.dirty = FALSE
      /\ Invalid \notin Nat
  BY DEF Way0, Invalid
<1>4. /\ used = [id \in Caches |-> [x \in AllLines |-> 0]]
      /\ stores = [x \in AllLines |-> 0] /\ written = [x \in AllLines |-> 0]
      /\ now = 0 /\ uses = 0 /\ n = 0 /\ seen.id = L2 /\ seen.lines = {}
  BY DEF Init
<1>5. TimingTypes
  BY <1>1, <1>2, <1>4, Constants DEF TimingTypes
<1>6. ASSUME NEW id \in Caches
      PROVE  Sound(cache[id], G[id]) /\ Order(cache[id], G[id], used[id])
  <2>1. \A s \in Sets(G[id]), v \in Ways(G[id]) : cache[id].way[s][v] = Way0
    BY <1>1, <1>2
  <2>2. \A x \in DOMAIN used[id] : used[id][x] = 0
    BY <1>4
  <2>3. QED BY <2>1, <2>2, <1>3 DEF Sound, Order
<1>7. \A x \in AllLines : ~Dirty(cache[L2], G[L2], x)
  BY <1>1, <1>2, <1>3, Constants DEF Dirty
<1>8. DirtyIsUnwritten
  BY <1>4, <1>7 DEF DirtyIsUnwritten
<1>9. LoadsWaitForRefills
  BY <1>4 DEF LoadsWaitForRefills
<1>10. QED BY <1>5, <1>6, <1>8, <1>9 DEF TimingInv

\* What the L2 and memory get to see of a request.
Sent(victims, id, first, span, w) ==
  IF ServedHere(cache[id], G[id], LinesOf(first, span), w) THEN {}
  ELSE (IF GoesDown(cache[L2], G[L2], LinesOf(first, span), w)
          THEN {Real(w /\ ~G[L2].writeback, LinesOf(first, span))} ELSE {})
       \cup {Real(TRUE, {x}) : x \in victims}

\* A request by what it makes of the first level, a, and would make of the L2,
\* b, at time t.
Did(a, b, t, id, first, span, w) ==
  /\ id \in L1s /\ first \in Lines /\ span \in Spans /\ w \in BOOLEAN /\ t \in Nat
  /\ Served(a, cache[id], G[id], t, first, span, w, used[id], uses)
  /\ Served(b, cache[L2], G[L2], t, first, span, w, used[L2], uses)
  /\ now' = t /\ n' = n + 1 /\ uses' = uses + span
  /\ cache' = [cache EXCEPT ![id] = a.c,
                 ![L2] = IF ServedHere(cache[id], G[id], LinesOf(first, span), w)
                           THEN cache[L2] ELSE b.c]
  /\ used' = [used EXCEPT ![id] = UsesAfter(used[id], cache[id], G[id], first, span, w, uses),
                ![L2] = IF ServedHere(cache[id], G[id], LinesOf(first, span), w) THEN used[L2]
                          ELSE UsesAfter(used[L2], cache[L2], G[L2], first, span, w, uses)]
  /\ seen' = [id |-> id, lines |-> LinesOf(first, span), w |-> w,
              traffic |-> Sent(b.victims, id, first, span, w), latency |-> a.ready - t]
  /\ stores' = [x \in AllLines |->
                  IF w /\ x \in LinesOf(first, span) THEN stores[x] + 1 ELSE stores[x]]
  /\ written' = [x \in AllLines |->
                   IF \E r \in Sent(b.victims, id, first, span, w) : r.w /\ x \in r.lines
                     THEN stores'[x] ELSE written[x]]

LEMMA RequestIs ==
  ASSUME TimingInv, NEW id \in L1s, NEW gap \in Gaps, NEW first \in Lines, NEW span \in Spans,
         NEW w \in BOOLEAN, NEW latency \in MemLatencies,
         Request(id, gap, first, span, w, latency)
  PROVE  \E a, b, t : Did(a, b, t, id, first, span, w)
<1> DEFINE lines == LinesOf(first, span)
           t == now + gap
           down == GoesDown(cache[L2], G[L2], lines, w)
           b == Accessed(cache[L2], G[L2], t, first, span, w, IF down THEN latency ELSE 0)
           l2 == L2Request(t, first, span, w, latency)
           served == ServedHere(cache[id], G[id], lines, w)
           a == Accessed(cache[id], G[id], t, first, span, w,
                         IF served THEN 0 ELSE l2.latency)
           traffic == IF served THEN {} ELSE l2.traffic
<1>1. /\ now \in Nat /\ uses \in Nat
      /\ \A c \in Caches : /\ cache[c] \in Contents(G[c]) /\ used[c] \in [AllLines -> 0..uses]
                           /\ Sound(cache[c], G[c]) /\ Order(cache[c], G[c], used[c])
      /\ DOMAIN stores = AllLines /\ DOMAIN written = AllLines
  BY DEF TimingInv, TimingTypes
<1>2. t \in Nat /\ id \in Caches /\ L2 \in Caches /\ latency \in Nat
  BY <1>1, Constants
<1>3. \A c \in Caches : Given(cache[c], G[c], t, first, span, w, used[c], uses, AllLines)
  <2> HIDE DEF t
  <2>1. QED BY <1>1, <1>2, Constants DEF Given
<1>4. Served(b, cache[L2], G[L2], t, first, span, w, used[L2], uses)
  <2> HIDE DEF t, down
  <2>1. (IF down THEN latency ELSE 0) \in Nat
    BY <1>2
  <2>2. QED BY <1>2, <1>3, <2>1, AccessedIs
<1>5. l2.latency = b.ready - t
      /\ l2.traffic = (IF down THEN {Real(w /\ ~G[L2].writeback, lines)} ELSE {})
                        \cup {Real(TRUE, {x}) : x \in b.victims}
      /\ l2.c = b.c
  <2> HIDE DEF t
  <2>1. QED BY DEF L2Request
<1>6. (IF served THEN 0 ELSE l2.latency) \in Nat
  <2>1. b.ready \in Nat /\ t <= b.ready
    BY <1>4 DEF Served
  <2> HIDE DEF t, b, l2, served
  <2>2. QED BY <2>1, <1>2, <1>5
<1>7. Served(a, cache[id], G[id], t, first, span, w, used[id], uses)
  <2> HIDE DEF t, l2, served
  <2>1. QED BY <1>2, <1>3, <1>6, AccessedIs
<1>8. /\ now' = t /\ n' = n + 1 /\ uses' = uses + span
      /\ cache' = [cache EXCEPT ![id] = a.c, ![L2] = IF served THEN @ ELSE l2.c]
      /\ seen' = [id |-> id, lines |-> lines, w |-> w, traffic |-> traffic,
                  latency |-> a.ready - t]
      /\ stores' = [x \in AllLines |-> IF w /\ x \in lines THEN stores[x] + 1 ELSE stores[x]]
      /\ written' = [x \in AllLines |->
           IF \E r \in {q \in traffic : q.w} : x \in r.lines THEN stores'[x] ELSE written[x]]
      /\ used' = [used EXCEPT ![id] = UsedAfter(id, first, span, w),
                              ![L2] = IF served THEN @ ELSE UsedAfter(L2, first, span, w)]
  <2>1. DOMAIN stores = AllLines /\ DOMAIN written = AllLines
    BY <1>1
  <2> HIDE DEF lines, l2, served
  <2>2. QED BY <2>1 DEF Request, lines, l2, served
<1> HIDE DEF t, a, b, l2, down
<1>9. traffic = Sent(b.victims, id, first, span, w)
  BY <1>5 DEF Sent, down
<1>10. id # L2
  BY Constants
<1>11. \A c \in Caches : UsedAfter(c, first, span, w)
                            = UsesAfter(used[c], cache[c], G[c], first, span, w, uses)
  BY DEF UsedAfter, UsesAfter, Counts
<1>12. DOMAIN cache = Caches /\ DOMAIN used = Caches
  BY DEF TimingInv, TimingTypes
<1> HIDE DEF served, traffic, lines
<1>13. cache' = [cache EXCEPT ![id] = a.c, ![L2] = IF served THEN cache[L2] ELSE b.c]
  BY <1>2, <1>5, <1>8, <1>10, <1>12
<1>14. used' = [used EXCEPT ![id] = UsesAfter(used[id], cache[id], G[id], first, span, w, uses),
                  ![L2] = IF served THEN used[L2]
                            ELSE UsesAfter(used[L2], cache[L2], G[L2], first, span, w, uses)]
  BY <1>2, <1>8, <1>10, <1>11, <1>12
<1>15. written' = [x \in AllLines |->
                     IF \E r \in traffic : r.w /\ x \in r.lines THEN stores'[x] ELSE written[x]]
  BY <1>8
<1>16. Did(a, b, t, id, first, span, w)
  BY <1>2, <1>4, <1>7, <1>8, <1>9, <1>13, <1>14, <1>15 DEF Did, served, lines
<1>17. QED BY <1>16

------------------------------------------------------------------------------
(* What a request preserves.                                               *)

LEMMA RequestKeepsTypes ==
  ASSUME TimingInv, NEW a, NEW b, NEW t, NEW id, NEW first, NEW span, NEW w,
         Did(a, b, t, id, first, span, w)
  PROVE  /\ TimingTypes'
         /\ \A c \in Caches : Sound(cache'[c], G[c]) /\ Order(cache'[c], G[c], used'[c])
<1>1. /\ id \in L1s /\ first \in Lines /\ span \in Spans /\ w \in BOOLEAN /\ t \in Nat
      /\ Served(a, cache[id], G[id], t, first, span, w, used[id], uses)
      /\ Served(b, cache[L2], G[L2], t, first, span, w, used[L2], uses)
  BY DEF Did
<1>2. TimingTypes /\ \A c \in Caches : Sound(cache[c], G[c]) /\ Order(cache[c], G[c], used[c])
  BY DEF TimingInv
<1> DEFINE served == ServedHere(cache[id], G[id], LinesOf(first, span), w)
           After(c) == UsesAfter(used[c], cache[c], G[c], first, span, w, uses)
<1>3. /\ first \in Nat /\ span \in Nat /\ uses \in Nat /\ AllLines \in SUBSET Nat
      /\ id \in Caches /\ L2 \in Caches /\ id # L2
      /\ DOMAIN cache = Caches /\ DOMAIN used = Caches
  BY <1>1, <1>2, Constants DEF TimingTypes
<1>4. \A c \in Caches : After(c) \in [AllLines -> 0..(uses + span)]
  BY <1>2, <1>3, UsesAfterIs DEF TimingTypes
<1>5. /\ uses' = uses + span
      /\ cache' = [cache EXCEPT ![id] = a.c, ![L2] = IF served THEN cache[L2] ELSE b.c]
      /\ used' = [used EXCEPT ![id] = After(id), ![L2] = IF served THEN used[L2] ELSE After(L2)]
  BY DEF Did
<1>6. /\ a.c \in Contents(G[id]) /\ Sound(a.c, G[id]) /\ Order(a.c, G[id], After(id))
      /\ b.c \in Contents(G[L2]) /\ Sound(b.c, G[L2]) /\ Order(b.c, G[L2], After(L2))
  BY <1>1 DEF Served
<1> HIDE DEF served, After
<1>7. DOMAIN cache' = Caches /\ DOMAIN used' = Caches
  BY <1>3, <1>5
<1>8. \A c \in Caches :
        /\ cache'[c] = IF c = id THEN a.c ELSE IF c = L2 /\ ~served THEN b.c ELSE cache[c]
        /\ used'[c] = IF c = id THEN After(id) ELSE IF c = L2 /\ ~served THEN After(L2) ELSE used[c]
  BY <1>3, <1>5
<1>9. ASSUME NEW c \in Caches
      PROVE  /\ cache'[c] \in Contents(G[c]) /\ used'[c] \in [AllLines -> 0..(uses + span)]
             /\ Sound(cache'[c], G[c]) /\ Order(cache'[c], G[c], used'[c])
  <2>1. CASE c = id
    BY <2>1, <1>4, <1>6, <1>8
  <2>2. CASE c # id /\ c = L2 /\ ~served
    BY <2>2, <1>4, <1>6, <1>8
  <2>3. CASE c # id /\ ~(c = L2 /\ ~served)
    <3>1. cache'[c] = cache[c] /\ used'[c] = used[c]
      BY <2>3, <1>8
    <3>2. used[c] \in [AllLines -> 0..uses] /\ 0..uses \subseteq 0..(uses + span)
      BY <1>2, <1>3 DEF TimingTypes
    <3>3. QED BY <3>1, <3>2, <1>2 DEF TimingTypes
  <2>4. QED BY <2>1, <2>2, <2>3
<1>10. now' \in Nat /\ uses' \in Nat /\ n' \in Nat /\ seen'.id \in Caches
  BY <1>1, <1>2, <1>3, <1>5 DEF Did, TimingTypes
<1>11. stores' \in [AllLines -> Nat] /\ written' \in [AllLines -> Nat]
  <2>1. stores \in [AllLines -> Nat] /\ written \in [AllLines -> Nat]
    BY <1>2 DEF TimingTypes
  <2>2. stores' = [x \in AllLines |->
                     IF w /\ x \in LinesOf(first, span) THEN stores[x] + 1 ELSE stores[x]]
    BY DEF Did
  <2>3. stores' \in [AllLines -> Nat]
    BY <2>1, <2>2
  <2>4. written' = [x \in AllLines |->
           IF \E r \in Sent(b.victims, id, first, span, w) : r.w /\ x \in r.lines
             THEN stores'[x] ELSE written[x]]
    BY DEF Did
  <2>5. QED BY <2>1, <2>3, <2>4
<1>12. QED BY <1>5, <1>7, <1>9, <1>10, <1>11 DEF TimingTypes

\* What memory absorbs of a request: the victims of the L2, and the store itself
\* if the L2 is write-through.
LEMMA Absorbed ==
  ASSUME TimingInv, NEW a, NEW b, NEW t, NEW id, NEW first, NEW span, NEW w,
         Did(a, b, t, id, first, span, w), NEW x
  PROVE  (\E r \in Sent(b.victims, id, first, span, w) : r.w /\ x \in r.lines) <=>
           /\ ~ServedHere(cache[id], G[id], LinesOf(first, span), w)
           /\ \/ x \in b.victims
              \/ w /\ ~G[L2].writeback /\ x \in LinesOf(first, span)
<1>1. w \in BOOLEAN /\ G[L2].writeback \in BOOLEAN
  BY Constants DEF Did, Geometry
<1> DEFINE lines == LinesOf(first, span)
           served == ServedHere(cache[id], G[id], lines, w)
           down == GoesDown(cache[L2], G[L2], lines, w)
<1>2. w /\ ~G[L2].writeback => down
  BY <1>1 DEF GoesDown
<1>3. CASE served
  BY <1>3 DEF Sent
<1>4. CASE ~served
  <2>1. Sent(b.victims, id, first, span, w)
          = (IF down THEN {Real(w /\ ~G[L2].writeback, lines)} ELSE {})
              \cup {Real(TRUE, {y}) : y \in b.victims}
    BY <1>4 DEF Sent
  <2>2. \A r : (\E y \in b.victims : r = Real(TRUE, {y})) /\ r.w /\ x \in r.lines => x \in b.victims
    BY DEF Real
  <2>3. x \in b.victims => \E r \in {Real(TRUE, {y}) : y \in b.victims} : r.w /\ x \in r.lines
    <3>1. Real(TRUE, {x}).w = TRUE /\ x \in Real(TRUE, {x}).lines
      BY DEF Real
    <3>2. x \in b.victims => Real(TRUE, {x}) \in {Real(TRUE, {y}) : y \in b.victims}
      OBVIOUS
    <3>3. QED BY <3>1, <3>2
  <2>4. PICK p \in BOOLEAN : p = (w /\ ~G[L2].writeback)
    BY <1>1
  <2>5. Real(p, lines).w = p /\ Real(p, lines).lines = lines
    BY DEF Real
  <2>6. Sent(b.victims, id, first, span, w)
          = (IF down THEN {Real(p, lines)} ELSE {}) \cup {Real(TRUE, {y}) : y \in b.victims}
    BY <2>1, <2>4
  <2> HIDE DEF down, lines, served
  <2>7. QED BY <1>2, <1>4, <2>2, <2>3, <2>4, <2>5, <2>6 DEF lines, served
<1>5. QED BY <1>3, <1>4

\* The victims of the L2 have stores memory has not absorbed.
LEMMA VictimsAreUnwritten ==
  ASSUME TimingInv, NEW a, NEW b, NEW t, NEW id, NEW first, NEW span, NEW w,
         Did(a, b, t, id, first, span, w), NEW x \in b.victims
  PROVE  x \in AllLines /\ written[x] < stores[x]
<1>1. Dirty(cache[L2], G[L2], x) /\ b.victims \in SUBSET Nat
  BY DEF Did, Served
<1>2. PICK s \in Sets(G[L2]), v \in Ways(G[L2]) : cache[L2].way[s][v].tag = x
  BY <1>1 DEF Dirty
<1>3. x # Invalid
  BY <1>1 DEF Invalid
<1>4. Order(cache[L2], G[L2], used[L2]) /\ DOMAIN used[L2] = AllLines
  BY Constants DEF TimingInv, TimingTypes
<1>5. x \in AllLines
  BY <1>2, <1>3, <1>4 DEF Order
<1>6. QED BY <1>1, <1>5 DEF TimingInv, DirtyIsUnwritten

LEMMA RequestKeepsStores ==
  ASSUME TimingInv, NEW a, NEW b, NEW t, NEW id, NEW first, NEW span, NEW w,
         Did(a, b, t, id, first, span, w)
  PROVE  DirtyIsUnwritten'
<1> DEFINE lines == LinesOf(first, span)
           served == ServedHere(cache[id], G[id], lines, w)
           g == G[L2]
<1>1. /\ id \in L1s /\ span <= g.sets /\ lines \subseteq AllLines /\ AllLines \in SUBSET Nat
      /\ w \in BOOLEAN /\ g.writeback \in BOOLEAN /\ (g.writeback => g.allocate)
      /\ id # L2 /\ L2 \in Caches
  BY Constants DEF Did, Geometry
<1>2. stores \in [AllLines -> Nat] /\ written \in [AllLines -> Nat]
  BY DEF TimingInv, TimingTypes
<1>3. /\ \A x \in b.victims : Dirty(cache[L2], g, x)
      /\ ~g.writeback => b.victims = {}
      /\ b.victims \cap lines = {}
      /\ \A x \in Nat : Dirty(b.c, g, x) => \/ Dirty(cache[L2], g, x) /\ x \notin b.victims
                                            \/ w /\ g.writeback /\ x \in lines
      /\ g.writeback => \A x \in Nat : Dirty(cache[L2], g, x) => Dirty(b.c, g, x) \/ x \in b.victims
      /\ w /\ g.writeback => \A x \in lines : Dirty(b.c, g, x)
  BY <1>1 DEF Did, Served
<1>4. cache'[L2] = IF served THEN cache[L2] ELSE b.c
  <2>1. DOMAIN cache = Caches
    BY DEF TimingInv, TimingTypes
  <2>2. QED BY <1>1, <2>1 DEF Did
<1>5. served => ~w
  BY DEF ServedHere
<1>6. \A x \in AllLines :
        /\ stores'[x] = IF w /\ x \in lines THEN stores[x] + 1 ELSE stores[x]
        /\ written'[x] = IF /\ ~served
                            /\ \/ x \in b.victims
                               \/ w /\ ~g.writeback /\ x \in lines
                           THEN stores'[x] ELSE written[x]
  <2> TAKE x \in AllLines
  <2>1. (\E r \in Sent(b.victims, id, first, span, w) : r.w /\ x \in r.lines) <=>
          /\ ~served
          /\ \/ x \in b.victims
             \/ w /\ ~g.writeback /\ x \in lines
    BY Absorbed
  <2>2. /\ stores'[x] = IF w /\ x \in lines THEN stores[x] + 1 ELSE stores[x]
        /\ written'[x] = IF \E r \in Sent(b.victims, id, first, span, w) : r.w /\ x \in r.lines
                           THEN stores'[x] ELSE written[x]
    BY DEF Did
  <2>3. QED BY <2>1, <2>2
<1>7. \A x \in AllLines :
        /\ written[x] <= stores[x]
        /\ written[x] # stores[x] => g.writeback /\ Dirty(cache[L2], g, x)
        /\ Dirty(cache[L2], g, x) => written[x] < stores[x]
  BY DEF TimingInv, DirtyIsUnwritten
<1> HIDE DEF lines, served
<1> SUFFICES ASSUME NEW x \in AllLines
             PROVE  /\ written'[x] <= stores'[x]
                    /\ written'[x] # stores'[x] => g.writeback /\ Dirty(cache'[L2], g, x)
                    /\ Dirty(cache'[L2], g, x) => written'[x] < stores'[x]
  BY DEF DirtyIsUnwritten
<1>8. x \in Nat /\ stores[x] \in Nat /\ written[x] \in Nat
  BY <1>1, <1>2
<1>9. CASE served
  <2>1. stores'[x] = stores[x] /\ written'[x] = written[x] /\ cache'[L2] = cache[L2]
    BY <1>4, <1>5, <1>6, <1>9
  <2>2. QED BY <2>1, <1>7
<1>10. CASE ~served /\ x \in b.victims
  <2>1. x \notin lines /\ g.writeback
    BY <1>3, <1>10
  <2>2. stores'[x] = stores[x] /\ written'[x] = stores'[x]
    BY <2>1, <1>6, <1>10
  <2>3. ~Dirty(cache'[L2], g, x)
    BY <2>1, <1>3, <1>4, <1>8, <1>10
  <2>4. QED BY <2>2, <2>3, <1>8
<1>11. CASE ~served /\ x \notin b.victims /\ w /\ x \in lines
  <2>1. CASE g.writeback
    <3>1. stores'[x] = stores[x] + 1 /\ written'[x] = written[x]
      BY <2>1, <1>6, <1>11
    <3>2. Dirty(cache'[L2], g, x)
      BY <2>1, <1>3, <1>4, <1>11
    <3>3. QED BY <2>1, <3>1, <3>2, <1>7, <1>8
  <2>2. CASE ~g.writeback
    <3>1. stores'[x] = stores[x] + 1 /\ written'[x] = stores'[x]
      BY <2>2, <1>6, <1>11
    <3>2. ~Dirty(cache'[L2], g, x)
      BY <2>2, <1>3, <1>4, <1>7, <1>8, <1>11
    <3>3. QED BY <3>1, <3>2, <1>8
  <2>3. QED BY <2>1, <2>2
<1>12. CASE ~served /\ x \notin b.victims /\ ~(w /\ x \in lines)
  <2>1. stores'[x] = stores[x] /\ written'[x] = written[x]
    BY <1>6, <1>12
  <2>2. Dirty(cache'[L2], g, x) => Dirty(cache[L2], g, x)
    BY <1>3, <1>4, <1>8, <1>12
  <2>3. g.writeback /\ Dirty(cache[L2], g, x) => Dirty(cache'[L2], g, x)
    BY <1>3, <1>4, <1>8, <1>12
  <2>4. QED BY <2>1, <2>2, <2>3, <1>7
<1>13. QED BY <1>9, <1>10, <1>11, <1>12

LEMMA RequestKeepsTime ==
  ASSUME TimingInv, NEW a, NEW b, NEW t, NEW id, NEW first, NEW span, NEW w,
         Did(a, b, t, id, first, span, w)
  PROVE  LoadsWaitForRefills'
<1>1. /\ id \in Caches /\ id # L2 /\ DOMAIN cache = Caches /\ G[id] \in Geometry
  BY Constants DEF Did, TimingInv, TimingTypes
<1>2. /\ cache'[id] = a.c /\ now' = t /\ t \in Nat
      /\ seen'.id = id /\ seen'.lines = LinesOf(first, span) /\ seen'.latency = a.ready - t
  BY <1>1 DEF Did
<1>3. a.c \in Contents(G[id]) /\ a.ready \in Nat /\ InTime(a, G[id], first, span)
  BY DEF Did, Served
<1>4. DOMAIN a.c.way = Sets(G[id]) /\ Ways(G[id]) = 1..G[id].ways
  BY <1>3 DEF Contents, Ways
<1>5. \A s \in Sets(G[id]), v \in Ways(G[id]) :
        a.c.way[s][v].tag \in LinesOf(first, span) => a.ready - t >= a.c.way[s][v].ready - t
  <2>1. \A s \in Sets(G[id]), v \in Ways(G[id]) : a.c.way[s][v].ready \in Nat
    BY <1>1, <1>3, WayIs
  <2>2. QED BY <2>1, <1>2, <1>3 DEF InTime
<1>6. QED BY <1>2, <1>4, <1>5 DEF LoadsWaitForRefills

LEMMA TimingNext ==
  ASSUME TimingInv, [Next]_vars
  PROVE  TimingInv'
<1>1. CASE Next
  <2>1. PICK id \in L1s, gap \in Gaps, first \in Lines, span \in Spans, w \in BOOLEAN,
             latency \in MemLatencies : Request(id, gap, first, span, w, latency)
    BY <1>1 DEF Next
  <2>2. PICK a, b, t : Did(a, b, t, id, first, span, w)
    BY <2>1, RequestIs
  <2>3. TimingTypes' /\ \A c \in Caches : Sound(cache'[c], G[c]) /\ Order(cache'[c], G[c], used'[c])
    BY <2>2, RequestKeepsTypes
  <2>4. DirtyIsUnwritten' /\ LoadsWaitForRefills'
    BY <2>2, RequestKeepsStores, RequestKeepsTime
  <2>5. QED BY <2>3, <2>4 DEF TimingInv
<1>2. CASE UNCHANGED vars
  BY <1>2 DEF vars, TimingInv, TimingTypes, DirtyIsUnwritten, LoadsWaitForRefills
<1>3. QED BY <1>1, <1>2

(* The inductive invariant.                                                *)
THEOREM TimingInductive == Spec => []TimingInv
<1>1. Init => TimingInv
  BY TimingInit
<1>2. TimingInv /\ [Next]_vars => TimingInv'
  BY TimingNext
<1>3. QED BY <1>1, <1>2, PTL DEF Spec

(* Every set of every cache holds exactly the lines of it used last, for   *)
(* all geometries, latencies and requests (lookup(), timing_cache.cpp:322).*)
THEOREM LruIsAlwaysExact == Spec => []LruIsExact
<1>1. TimingInv => LruIsExact
  <2> SUFFICES ASSUME TimingInv, NEW id \in Caches, NEW s \in DOMAIN cache[id].way
               PROVE  /\ OneWayEach(cache[id].way[s])
                      /\ UsedLast(used[id], cache[id].way[s],
                                  {x \in AllLines : SetOf(G[id], x) = s})
    BY DEF LruIsExact
  <2>1. /\ cache[id] \in Contents(G[id]) /\ used[id] \in [AllLines -> 0..uses]
        /\ Sound(cache[id], G[id]) /\ Order(cache[id], G[id], used[id])
    BY DEF TimingInv, TimingTypes
  <2>2. s \in Sets(G[id]) /\ DOMAIN cache[id].way[s] = Ways(G[id]) /\ DOMAIN used[id] = AllLines
    BY <2>1 DEF Contents
  <2>3. OneWayEach(cache[id].way[s])
    BY <2>1, <2>2 DEF Sound, OneWayEach
  <2>4. UsedLast(used[id], cache[id].way[s], {x \in AllLines : SetOf(G[id], x) = s})
    BY <2>1, <2>2 DEF Sound, Order, UsedLast
  <2>5. QED BY <2>3, <2>4
<1>2. QED BY <1>1, TimingInductive, PTL

(* No store is lost on its way to memory (timing_cache.cpp:35-46).         *)
THEOREM StoresAlwaysReachMemory == Spec => []StoresReachMemory
<1>1. TimingInv => StoresReachMemory
  <2> SUFFICES ASSUME TimingInv, NEW x \in DOMAIN stores, written[x] # stores[x]
               PROVE  /\ G[L2].writeback
                      /\ \E s \in DOMAIN cache[L2].way, w \in 1..G[L2].ways :
                           cache[L2].way[s][w].tag = x /\ cache[L2].way[s][w].dirty
    BY DEF StoresReachMemory
  <2>1. DOMAIN stores = AllLines /\ cache[L2] \in Contents(G[L2])
    BY Constants DEF TimingInv, TimingTypes
  <2>2. G[L2].writeback /\ Dirty(cache[L2], G[L2], x)
    BY <2>1 DEF TimingInv, DirtyIsUnwritten
  <2>3. DOMAIN cache[L2].way = Sets(G[L2])
    BY <2>1 DEF Contents
  <2>4. QED BY <2>2, <2>3 DEF Dirty, Ways
<1>2. QED BY <1>1, TimingInductive, PTL

(* No load is answered before the refill of its lines has arrived, whoever *)
(* started it (access(), timing_cache.cpp:453).                            *)
THEOREM LoadsAlwaysWait == Spec => []LoadsWaitForRefills
<1>1. TimingInv => LoadsWaitForRefills
  BY DEF TimingInv
<1>2. QED BY <1>1, TimingInductive, PTL

(* Memory is never written a line it already has (timing_cache.cpp:354).   *)
THEOREM OnlyStoresAreEverWritten == Spec => OnlyStoresAreWritten
<1> DEFINE A == \A r \in seen'.traffic : n' # n /\ r.w =>
                  \A x \in r.lines : written[x] < stores'[x]
<1>1. TimingInv /\ [Next]_vars => [A]_vars
  <2> SUFFICES ASSUME TimingInv, Next PROVE A
    OBVIOUS
  <2>1. PICK id \in L1s, gap \in Gaps, first \in Lines, span \in Spans, w \in BOOLEAN,
             latency \in MemLatencies : Request(id, gap, first, span, w, latency)
    BY DEF Next
  <2>2. PICK a, b, t : Did(a, b, t, id, first, span, w)
    BY <2>1, RequestIs
  <2> SUFFICES ASSUME NEW r \in seen'.traffic, r.w, NEW x \in r.lines
               PROVE  written[x] < stores'[x]
    OBVIOUS
  <2>3. r \in Sent(b.victims, id, first, span, w)
    BY <2>2 DEF Did
  <2>4. \/ x \in b.victims
        \/ w /\ x \in LinesOf(first, span)
    BY <2>2, <2>3, Absorbed
  <2>5. /\ LinesOf(first, span) \subseteq AllLines
        /\ stores \in [AllLines -> Nat] /\ written \in [AllLines -> Nat]
        /\ \A y \in AllLines :
             /\ written[y] <= stores[y]
             /\ stores'[y] = IF w /\ y \in LinesOf(first, span) THEN stores[y] + 1 ELSE stores[y]
    BY <2>1, <2>2, Constants DEF TimingInv, TimingTypes, DirtyIsUnwritten, Did
  <2>6. CASE x \in b.victims
    <3>1. x \in AllLines /\ written[x] < stores[x]
      BY <2>2, <2>6, VictimsAreUnwritten
    <3>2. QED BY <3>1, <2>5
  <2>7. CASE w /\ x \in LinesOf(first, span)
    <3>1. x \in AllLines /\ stores'[x] = stores[x] + 1 /\ written[x] <= stores[x]
      BY <2>5, <2>7
    <3>2. stores[x] \in Nat /\ written[x] \in Nat
      BY <3>1, <2>5
    <3>3. QED BY <3>1, <3>2
  <2>8. QED BY <2>4, <2>6, <2>7
<1>2. QED BY <1>1, TimingInductive, PTL DEF Spec, OnlyStoresAreWritten

(* A hit is seen by no level below it (timing_cache.cpp:649-652).          *)
THEOREM HitsAlwaysStayAbove == Spec => HitsStayAbove
<1> DEFINE A == n' # n /\ ~seen'.w =>
                  /\ seen'.lines \subseteq LinesIn(seen'.id)
                       => cache'[L2] = cache[L2] /\ seen'.traffic = {}
                  /\ seen'.lines \subseteq LinesIn(L2) => seen'.traffic = {}
<1>1. TimingInv /\ [Next]_vars => [A]_vars
  <2> SUFFICES ASSUME TimingInv, Next PROVE A
    OBVIOUS
  <2>1. PICK id \in L1s, gap \in Gaps, first \in Lines, span \in Spans, w \in BOOLEAN,
             latency \in MemLatencies : Request(id, gap, first, span, w, latency)
    BY DEF Next
  <2>2. PICK a, b, t : Did(a, b, t, id, first, span, w)
    BY <2>1, RequestIs
  <2> DEFINE lines == LinesOf(first, span)
  <2>3. /\ id \in Caches /\ L2 \in Caches /\ id # L2 /\ lines \in SUBSET Nat
        /\ DOMAIN cache = Caches
        /\ \A c \in Caches : G[c] \in Geometry /\ cache[c] \in Contents(G[c]) /\ Sound(cache[c], G[c])
    BY <2>1, Constants, LinesGrow DEF TimingInv, TimingTypes
  <2>4. /\ seen'.id = id /\ seen'.lines = lines /\ seen'.w = w
        /\ seen'.traffic = Sent(b.victims, id, first, span, w)
    BY <2>2 DEF Did
  <2> HIDE DEF lines
  <2>5. \A c \in Caches : lines \subseteq LinesIn(c) => Resident(cache[c], G[c], lines)
    <3> SUFFICES ASSUME NEW c \in Caches, NEW x \in lines, x \in LinesIn(c)
                 PROVE  Holds(cache[c], G[c], x)
      BY DEF Resident
    <3>1. DOMAIN cache[c].way = Sets(G[c]) /\ x \in Nat
      BY <2>3 DEF Contents
    <3>2. \E s \in Sets(G[c]), v \in Ways(G[c]) : cache[c].way[s][v].tag = x
      BY <3>1 DEF LinesIn, Ways
    <3>3. QED BY <2>3, <3>1, <3>2, NotHeld
  <2>6. CASE ~w
    <3>1. ServedHere(cache[id], G[id], lines, w) <=> Resident(cache[id], G[id], lines)
      BY <2>6 DEF ServedHere
    <3>2. ASSUME lines \subseteq LinesIn(id)
          PROVE  cache'[L2] = cache[L2] /\ seen'.traffic = {}
      <4>1. ServedHere(cache[id], G[id], lines, w)
        BY <2>3, <2>5, <3>1, <3>2
      <4>2. seen'.traffic = {}
        BY <2>4, <4>1 DEF Sent, lines
      <4>3. cache'[L2] = cache[L2]
        BY <2>2, <2>3, <4>1 DEF Did, lines
      <4>4. QED BY <4>2, <4>3
    <3>3. ASSUME lines \subseteq LinesIn(L2)
          PROVE  seen'.traffic = {}
      <4>1. Resident(cache[L2], G[L2], lines)
        BY <2>3, <2>5, <3>3
      <4>2. ~GoesDown(cache[L2], G[L2], lines, w)
        BY <2>6, <4>1 DEF GoesDown
      <4>3. b.victims = {}
        BY <2>2, <4>1 DEF Did, Served, lines
      <4>4. QED BY <2>4, <4>2, <4>3 DEF Sent, lines
    <3>4. QED BY <2>4, <3>2, <3>3
  <2>7. CASE w
    BY <2>4, <2>7
  <2>8. QED BY <2>1, <2>6, <2>7
<1>2. QED BY <1>1, TimingInductive, PTL DEF Spec, HitsStayAbove

=============================================================================
