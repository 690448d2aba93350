--------------------------- MODULE ClusterProofs ---------------------------
(***************************************************************************)
(* Theorems about a cluster.  For every extent, every number of compute    *)
(* cores and every heap: the shares slice() of runtime/mesh/cluster_main.c *)
(* gives the cores are a partition of the job, and what reserve_scratch()  *)
(* and stage_in() lay out in the heap stays in it and does not meet.  A    *)
(* stream programmed by the macros of runtime/snitch/snitch_ssr.h walks    *)
(* the loop nest it was given, and every kernel takes exactly as many      *)
(* elements as it has programmed.                                          *)
(***************************************************************************)
EXTENDS ClusterJob, Integers, FiniteSetTheorems, SequenceTheorems, WellFoundedInduction, TLAPS

-----------------------------------------------------------------------------
(* The slices.                                                             *)

LEMMA Division ==
  ASSUME NEW n \in Nat, NEW d \in Nat \ {0}
  PROVE  /\ n = d * (n \div d) + (n % d)
         /\ n % d \in 0..(d - 1) /\ n \div d \in Nat
BY SMT

LEMMA Quotient ==
  ASSUME NEW q \in Nat, NEW d \in Nat \ {0}, NEW r \in 0..(d - 1)
  PROVE  (d * q + r) \div d = q /\ (d * q + r) % d = r
BY SMT

LEMMA Scaling ==
  ASSUME NEW a \in Nat, NEW b \in Nat, NEW c \in Nat
  PROVE  /\ a * c \in Nat /\ a * c + b * c = (a + b) * c
         /\ a <= b => a * c <= b * c
BY SMT

\* The first item of a share, without the division.
LEMMA SliceForm ==
  ASSUME NEW n \in Nat, NEW nb \in Nat \ {0}, NEW idx \in Nat
  PROVE  \E base \in Nat, rem \in 0..(nb - 1) :
           /\ n = nb * base + rem
           /\ \A c \in Nat : /\ slice_first(n, c, nb) = c * base + (IF c < rem THEN c ELSE rem)
                             /\ slice_last(n, c, nb) = c * base + base + (IF c < rem THEN c + 1 ELSE rem)
<1>1. /\ n = nb * (n \div nb) + (n % nb)
      /\ n % nb \in 0..(nb - 1) /\ n \div nb \in Nat
  BY Division
<1>2. ASSUME NEW c \in Nat
      PROVE  /\ slice_first(n, c, nb) = c * (n \div nb) + (IF c < n % nb THEN c ELSE n % nb)
             /\ slice_last(n, c, nb)
                  = c * (n \div nb) + (n \div nb) + (IF c < n % nb THEN c + 1 ELSE n % nb)
  <2>1. c * (n \div nb) \in Nat
    BY <1>1, Scaling
  <2> QED
    BY <1>1, <2>1 DEF slice_first, slice_last
<1> QED
  BY <1>1, <1>2

\* The shares follow one another from the first item to the last: core 0 begins
\* with item 0, the last core ends with item n - 1, and every core begins where
\* the one before it stopped.
THEOREM SlicesFollow ==
  ASSUME NEW n \in Nat, NEW nb \in Nat \ {0}
  PROVE  /\ slice_first(n, 0, nb) = 0
         /\ slice_last(n, nb - 1, nb) = n
         /\ \A c \in Nat : slice_last(n, c, nb) = slice_first(n, c + 1, nb)
<1>1. PICK base \in Nat, rem \in 0..(nb - 1) :
        /\ n = nb * base + rem
        /\ \A c \in Nat : /\ slice_first(n, c, nb) = c * base + (IF c < rem THEN c ELSE rem)
                          /\ slice_last(n, c, nb) = c * base + base + (IF c < rem THEN c + 1 ELSE rem)
  BY SliceForm
<1>2. slice_first(n, 0, nb) = 0
  BY <1>1
<1>3. slice_last(n, nb - 1, nb) = n
  <2>1. (nb - 1) * base \in Nat /\ (nb - 1) * base + 1 * base = nb * base
    BY Scaling
  <2>2. nb - 1 \in Nat /\ ~(nb - 1 < rem)
    OBVIOUS
  <2>3. slice_last(n, nb - 1, nb) = (nb - 1) * base + base + rem
    BY <1>1, <2>2
  <2> QED
    BY <1>1, <2>1, <2>3
<1>4. ASSUME NEW c \in Nat PROVE slice_last(n, c, nb) = slice_first(n, c + 1, nb)
  <2>1. c * base \in Nat /\ c * base + 1 * base = (c + 1) * base
    BY Scaling
  <2>2. /\ slice_last(n, c, nb) = c * base + base + (IF c < rem THEN c + 1 ELSE rem)
        /\ slice_first(n, c + 1, nb) = (c + 1) * base + (IF c + 1 < rem THEN c + 1 ELSE rem)
    BY <1>1
  <2> QED
    BY <2>1, <2>2
<1> QED
  BY <1>2, <1>3, <1>4

\* Two cores never take the same item: the share of the higher one begins after
\* that of the lower one ends, and a share is never of negative length.
THEOREM SlicesDoNotMeet ==
  ASSUME NEW n \in Nat, NEW nb \in Nat \ {0}, NEW c \in Nat, NEW d \in Nat, c < d
  PROVE  /\ slice_first(n, c, nb) \in Nat /\ slice_last(n, c, nb) \in Nat
         /\ slice_first(n, c, nb) <= slice_last(n, c, nb)
         /\ slice_last(n, c, nb) <= slice_first(n, d, nb)
<1>1. PICK base \in Nat, rem \in 0..(nb - 1) :
        /\ n = nb * base + rem
        /\ \A k \in Nat : /\ slice_first(n, k, nb) = k * base + (IF k < rem THEN k ELSE rem)
                          /\ slice_last(n, k, nb) = k * base + base + (IF k < rem THEN k + 1 ELSE rem)
  BY SliceForm
<1>2. /\ c * base \in Nat /\ d * base \in Nat /\ c * base + 1 * base = (c + 1) * base
      /\ (c + 1) * base <= d * base
  BY Scaling
<1>3. /\ slice_first(n, c, nb) = c * base + (IF c < rem THEN c ELSE rem)
      /\ slice_last(n, c, nb) = c * base + base + (IF c < rem THEN c + 1 ELSE rem)
      /\ slice_first(n, d, nb) = d * base + (IF d < rem THEN d ELSE rem)
  BY <1>1
<1> QED
  BY <1>2, <1>3

\* Every item of a job is some core's: no row, filter or frame is left out,
\* however many cores there are.
THEOREM SlicesCover ==
  ASSUME NEW n \in Nat, NEW nb \in Nat \ {0}, NEW x \in 0..(n - 1)
  PROVE  \E c \in 0..(nb - 1) : slice_first(n, c, nb) <= x /\ x < slice_last(n, c, nb)
<1>1. PICK base \in Nat, rem \in 0..(nb - 1) :
        /\ n = nb * base + rem
        /\ \A c \in Nat : /\ slice_first(n, c, nb) = c * base + (IF c < rem THEN c ELSE rem)
                          /\ slice_last(n, c, nb) = c * base + base + (IF c < rem THEN c + 1 ELSE rem)
  BY SliceForm
<1>2. CASE x < rem * (base + 1)
  \* One of the first rem cores, which take base + 1 items each.
  <2> DEFINE c == x \div (base + 1)
  <2>1. /\ x = (base + 1) * c + (x % (base + 1))
        /\ x % (base + 1) \in 0..base /\ c \in Nat
    <3>1. x \in Nat /\ base + 1 \in Nat \ {0} /\ (base + 1) - 1 = base
      OBVIOUS
    <3> QED
      BY <3>1, Division
  <2>2. (base + 1) * c = c * base + c
    BY <2>1, Scaling, SMT
  <2>3. c < rem
    <3>1. rem <= c => rem * (base + 1) <= c * (base + 1)
      BY <2>1, Scaling
    <3> QED
      BY <1>2, <2>1, <3>1, SMT
  <2> HIDE DEF c
  <2>4. slice_first(n, c, nb) <= x /\ x < slice_last(n, c, nb)
    BY <1>1, <2>1, <2>2, <2>3
  <2> QED
    BY <2>1, <2>3, <2>4
<1>3. CASE x >= rem * (base + 1)
  \* One of the others: the items after those of the first rem cores are theirs.
  <2>1. base # 0
    BY <1>1, <1>3, SMT
  <2> DEFINE y == x - rem
             c == y \div base
  <2>2. rem * (base + 1) = rem * base + rem /\ rem * base \in Nat
    BY Scaling, SMT
  <2>3. y \in Nat
    BY <1>3, <2>2
  <2> HIDE DEF y
  <2>4. y = base * c + (y % base) /\ y % base \in 0..(base - 1) /\ c \in Nat
    BY <2>1, <2>3, Division
  <2>5. base * c = c * base
    BY <2>4, SMT
  <2>6. rem <= c
    <3>1. c + 1 <= rem => (c + 1) * base <= rem * base
      BY <2>4, Scaling
    <3>2. (c + 1) * base = c * base + base
      BY <2>4, Scaling, SMT
    <3> QED
      BY <1>3, <2>2, <2>4, <2>5, <3>1, <3>2 DEF y
  <2>7. c <= nb - 1
    <3>1. nb <= c => nb * base <= c * base
      BY <2>4, Scaling
    <3>2. y < nb * base
      BY <1>1 DEF y
    <3>3. nb * base \in Nat /\ c * base \in Nat
      BY <2>4, Scaling
    <3> QED
      BY <2>4, <2>5, <3>1, <3>2, <3>3, SMTT(20)
  <2> HIDE DEF c
  <2>8. slice_first(n, c, nb) <= x /\ x < slice_last(n, c, nb)
    BY <1>1, <2>4, <2>5, <2>6 DEF y
  <2> QED
    BY <2>4, <2>7, <2>8
<1> QED
  BY <1>2, <1>3, Scaling

-----------------------------------------------------------------------------
(* The scratch slabs.                                                      *)

LEMMA LineUp ==
  ASSUME NEW c \in Nat, Word \in Nat \ {0}, LineBytes \in Nat \ {0},
         c + LineBytes <= Word
  PROVE  AlignUp(c) \in Nat /\ c <= AlignUp(c) /\ AlignUp(c) < c + LineBytes
<1> DEFINE s == c + LineBytes - 1
<1>1. s \in Nat /\ s < Word
  OBVIOUS
<1>2. s % Word = s
  BY <1>1, Quotient, SMT
<1>3. /\ s = LineBytes * (s \div LineBytes) + (s % LineBytes)
      /\ s % LineBytes \in 0..(LineBytes - 1) /\ s \div LineBytes \in Nat
  BY <1>1, Division
<1>4. AlignUp(c) = (s \div LineBytes) * LineBytes
  BY <1>2 DEF AlignUp
<1>5. (s \div LineBytes) * LineBytes = LineBytes * (s \div LineBytes)
  BY <1>3, SMT
<1>6. LineBytes * (s \div LineBytes) = s - (s % LineBytes)
  BY <1>1, <1>3, SMT
<1> HIDE DEF s
<1>7. AlignUp(c) = s - (s % LineBytes)
  BY <1>4, <1>5, <1>6
<1> QED
  BY <1>1, <1>3, <1>7 DEF s

\* When reserve_scratch() grants scratch, the slab of every compute core is
\* inside the heap and below the cursor from which operands are staged, and no
\* two cores' slabs meet - if the sizes do not wrap, which is what the size of
\* the memories guarantees.
THEOREM SlabsDoNotMeet ==
  ASSUME NEW a, NEW nb \in Nat \ {0},
         Word \in Nat \ {0}, LineBytes \in Nat \ {0},
         HeapStart \in Nat \ {0}, HeapEnd \in Nat,
         NEW bytes \in Nat, plan_scratch(a) = bytes,
         bytes + LineBytes <= Word,
         HeapStart + LineBytes + (bytes + LineBytes) * nb <= Word,
         reserve_scratch(a, nb).base # 0
  PROVE  LET s == reserve_scratch(a, nb)
             slab(c) == s.base + c * s.stride
         IN /\ \A c \in 0..(nb - 1) : /\ HeapStart <= slab(c)
                                      /\ slab(c) + bytes <= s.cursor
            /\ s.cursor <= HeapEnd
            /\ \A c, d \in 0..(nb - 1) : c < d => slab(c) + bytes <= slab(d)
<1> DEFINE cursor == AlignUp(HeapStart)
           per == AlignUp(bytes)
           end == (cursor + per * nb) % Word
           s == reserve_scratch(a, nb)
<1>1. (bytes + LineBytes) * nb \in Nat
  BY Scaling
<1>2. /\ cursor \in Nat /\ HeapStart <= cursor /\ cursor < HeapStart + LineBytes
      /\ per \in Nat /\ bytes <= per /\ per < bytes + LineBytes
  <2>1. HeapStart + LineBytes <= Word /\ HeapStart \in Nat
    BY <1>1
  <2> QED
    BY <2>1, LineUp
<1>3. s = [base |-> cursor, stride |-> per, cursor |-> end] /\ end <= HeapEnd
  BY <1>2 DEF reserve_scratch
<1> HIDE DEF cursor, per
<1>4. end = cursor + per * nb
  <2>1. per * nb <= (bytes + LineBytes) * nb /\ per * nb \in Nat
    BY <1>2, Scaling
  <2>2. cursor + per * nb \in 0..(Word - 1)
    BY <1>1, <1>2, <2>1
  <2> QED
    BY <2>2, Quotient, SMT
<1> HIDE DEF end, s
<1>5. ASSUME NEW c \in Nat, NEW d \in Nat, c < d
      PROVE  c * per \in Nat /\ d * per \in Nat /\ c * per + bytes <= d * per
  <2>1. /\ c * per \in Nat /\ d * per \in Nat
        /\ c * per + 1 * per = (c + 1) * per /\ (c + 1) * per <= d * per
    BY <1>2, <1>5, Scaling
  <2> QED
    BY <1>2, <2>1
<1>6. nb * per = per * nb
  BY <1>2, SMT
<1>7. \A c \in 0..(nb - 1) : cursor + c * per >= HeapStart /\ cursor + c * per + bytes <= end
  BY <1>2, <1>4, <1>5, <1>6
<1>8. \A c, d \in 0..(nb - 1) : c < d => cursor + c * per + bytes <= cursor + d * per
  BY <1>2, <1>5
<1>9. s.base = cursor /\ s.stride = per /\ s.cursor = end /\ end <= HeapEnd
  BY <1>3
<1> QED
  BY <1>7, <1>8, <1>9 DEF s

-----------------------------------------------------------------------------
(* The streams.                                                            *)

VARIABLE mover                         \* a data mover in use by a kernel

\* The mover, whatever it was used for before, is given a nest of n levels and
\* a base address; then the FPU takes one element after another.
Stream(n, b, s, p, old) ==
  /\ mover = Arm(Loop(old, b, s), n, p)
  /\ [][mover.live /\ mover' = Pop(mover)]_mover

\* A loop nest of n levels: iteration counts b and strides s, innermost first.
Nest(n, b, s) ==
  /\ n \in 1..4
  /\ b \in Seq(1..Word) /\ Len(b) = n
  /\ s \in Seq(Nat) /\ Len(s) = n

\* What a mover holds, whatever kernel used it last.
Mover(d) ==
  /\ d = [bounds |-> d.bounds, strides |-> d.strides, repeat |-> d.repeat, dims |-> d.dims,
          ptr |-> d.ptr, idx |-> d.idx, rep |-> d.rep, live |-> d.live, starved |-> d.starved]
  /\ d.bounds \in [Levels -> Nat] /\ d.idx \in [Levels -> Nat]
  /\ d.repeat \in Nat /\ d.rep \in Nat /\ d.dims \in 1..4 /\ d.live \in BOOLEAN

\* The distance level l has travelled, and the address of the current element.
Steps(n, s, d, l) == IF l < n THEN d.idx[l] * s[l + 1] ELSE 0
Position(n, s, p, d) ==
  p + Steps(n, s, d, 0) + Steps(n, s, d, 1) + Steps(n, s, d, 2) + Steps(n, s, d, 3)

\* The mover is programmed with the nest, inside it, and at its element.
Walks(n, b, s, p, d) ==
  /\ Mover(d) /\ d.dims = n
  /\ \A l \in 0..(n - 1) : /\ d.bounds[l] = Minus(b[l + 1], 1)
                                /\ d.strides[l] = Minus(s[l + 1], Travelled(b, s, l))
  /\ DOMAIN d.idx = Levels
  /\ \A l \in Levels : d.idx[l] \in Nat
  /\ \A l \in 0..(n - 1) : d.idx[l] <= d.bounds[l]
  /\ d.ptr = Position(n, s, p, d) % Word

LEMMA Remainder ==
  ASSUME NEW q \in Nat, NEW d \in Nat \ {0}, NEW r \in 0..(d - 1)
  PROVE  (d * q + r) % d = r
BY SMT

LEMMA Shift ==
  ASSUME NEW k \in Int, NEW d \in Nat \ {0}, NEW z \in Nat, d * k + z \in Nat
  PROVE  (d * k + z) % d = z % d
<1>1. PICK u \in Nat, v \in 0..(d - 1) : z = d * u + v
  BY Division
<1>2. d * k + z = d * (k + u) + v
  BY <1>1, SMT
<1>3. k + u \in Nat
  <2>1. SUFFICES ASSUME k + u < 0 PROVE FALSE
    BY <1>1
  <2>2. d * (k + u) <= d * (0 - 1)
    BY <1>1, <2>1, SMT
  <2>3. d * (0 - 1) = 0 - d
    BY SMT
  <2> QED
    BY <1>1, <1>2, <2>2, <2>3, SMT
<1> QED
  BY <1>1, <1>2, <1>3, Remainder

\* One step of the address: adding the wrapped difference of x and t to an
\* address that is known modulo Word moves it by that difference.
LEMMA Delta ==
  ASSUME NEW x \in Nat, NEW t \in Nat, NEW y \in Nat, t <= y
  PROVE  ((y % Word) + Minus(x, t % Word)) % Word = (y - t + x) % Word
<1>0. Word \in Nat \ {0}
  BY WordAssumption
<1>1. PICK yq \in Nat, yr \in 0..(Word - 1) : y = Word * yq + yr /\ y % Word = yr
  BY <1>0, Division
<1>2. PICK tq \in Nat, tr \in 0..(Word - 1) : t = Word * tq + tr /\ t % Word = tr
  BY <1>0, Division
<1>3. tr % Word = tr
  BY <1>0, <1>2, Remainder, SMT
<1>4. x + Word - tr \in Nat
  BY <1>0, <1>2
<1>5. PICK q \in Nat, r \in 0..(Word - 1) :
        x + Word - tr = Word * q + r /\ (x + Word - tr) % Word = r
  BY <1>0, <1>4, Division
<1>6. Minus(x, t % Word) = r
  BY <1>2, <1>3, <1>5 DEF Minus
<1>7. y - t + x = Word * (yq - tq + q - 1) + (yr + r)
  <2>1. Word * (yq - tq + q - 1) = Word * yq - Word * tq + Word * q - Word
    BY <1>0, SMT
  <2>2. Word * yq \in Nat /\ Word * tq \in Nat /\ Word * q \in Nat
    BY <1>0, SMT
  <2> QED
    BY <1>0, <1>1, <1>2, <1>5, <2>1, <2>2
<1>8. (y - t + x) % Word = (yr + r) % Word
  <2> DEFINE k == yq - tq + q - 1
             z == yr + r
  <2>1. y - t + x \in Nat /\ k \in Int /\ z \in Nat
    OBVIOUS
  <2>2. y - t + x = Word * k + z
    BY <1>7
  <2> HIDE DEF k, z
  <2>3. (Word * k + z) % Word = z % Word
    BY <1>0, <2>1, <2>2, Shift
  <2> QED
    BY <2>2, <2>3 DEF z
<1> QED
  BY <1>1, <1>6, <1>8

LEMMA CountLessOne ==
  ASSUME NEW c \in 1..Word PROVE Minus(c, 1) = c - 1
<1>0. Word \in Nat \ {0}
  BY WordAssumption
<1>1. CASE Word = 1
  BY <1>1 DEF Minus
<1>2. CASE Word > 1
  <2>1. 1 % Word = 1
    BY <1>0, <1>2, Remainder, SMT
  <2>2. (Word * 1 + (c - 1)) % Word = c - 1
    BY <1>0, Remainder
  <2>3. c + Word - 1 = Word * 1 + (c - 1)
    BY <1>0
  <2> QED
    BY <2>1, <2>2, <2>3 DEF Minus
<1> QED
  BY <1>0, <1>1, <1>2

LEMMA NestTypes ==
  ASSUME NEW n, NEW b, NEW s, Nest(n, b, s)
  PROVE  /\ n \in 1..4
         /\ \A l \in 0..(n - 1) : /\ b[l + 1] \in 1..Word /\ s[l + 1] \in Nat
                                       /\ Minus(b[l + 1], 1) = b[l + 1] - 1
                                       /\ Leg(b, s, l + 1) \in Nat
<1>1. n \in 1..4
  BY DEF Nest
<1>2. ASSUME NEW l \in 0..(n - 1)
      PROVE  b[l + 1] \in 1..Word /\ s[l + 1] \in Nat
  <2>1. l + 1 \in 1..Len(b) /\ l + 1 \in 1..Len(s)
    BY <1>1 DEF Nest
  <2> QED
    BY <2>1, ElementOfSeq DEF Nest
<1>3. ASSUME NEW l \in 0..(n - 1)
      PROVE  Minus(b[l + 1], 1) = b[l + 1] - 1
  BY <1>2, CountLessOne
<1>4. ASSUME NEW l \in 0..(n - 1)
      PROVE  Leg(b, s, l + 1) \in Nat
  <2>1. b[l + 1] - 1 \in Nat
    BY <1>2, WordAssumption
  <2> QED
    BY <1>2, <1>3, <2>1, SMT DEF Leg
<1> QED
  BY <1>1, <1>2, <1>3, <1>4

\* What is left of the address when the levels below w start again: each has
\* travelled its whole leg.
LEMMA Rewound ==
  ASSUME NEW n, NEW b, NEW s, NEW p \in Nat, NEW d, Nest(n, b, s), Walks(n, b, s, p, d),
         NEW w \in 0..(n - 1), \A l \in 0..(w - 1) : d.idx[l] = d.bounds[l]
  PROVE  /\ \A l \in 0..(w - 1) : Steps(n, s, d, l) = Leg(b, s, l + 1)
         /\ \A l \in Levels : Steps(n, s, d, l) \in Nat
<1>1. ASSUME NEW l \in 0..(w - 1)
      PROVE  Steps(n, s, d, l) = Leg(b, s, l + 1)
  <2>1. l \in 0..(n - 1) /\ l < n
    BY NestTypes
  <2>2. d.idx[l] = Minus(b[l + 1], 1)
    BY <2>1 DEF Walks
  <2>3. /\ s[l + 1] \in Nat /\ Minus(b[l + 1], 1) \in Nat
    BY <2>1, NestTypes
  <2> QED
    BY <2>1, <2>2, <2>3, SMT DEF Steps, Leg
<1>2. ASSUME NEW l \in Levels PROVE Steps(n, s, d, l) \in Nat
  <2>1. d.idx[l] \in Nat
    BY DEF Walks
  <2>2. CASE l < n
    <3>1. l \in 0..(n - 1)
      BY <2>2, NestTypes DEF Levels
    <3>2. s[l + 1] \in Nat
      BY <3>1, NestTypes
    <3> QED
      BY <2>1, <2>2, <3>2, SMT DEF Steps
  <2>3. CASE ~(l < n)
    BY <2>3 DEF Steps
  <2> QED
    BY <2>2, <2>3
<1> QED
  BY <1>1, <1>2

\* The innermost level with an iteration to go: those inside it have none.
LEMMA Innermost ==
  ASSUME NEW n, NEW b, NEW s, NEW p, NEW d, Nest(n, b, s), Walks(n, b, s, p, d), Going(d) # {},
         NEW w, w = CHOOSE l \in Going(d) : \A k \in Going(d) : l <= k
  PROVE  /\ w \in 0..(n - 1) /\ d.idx[w] < d.bounds[w]
         /\ \A l \in 0..(w - 1) : d.idx[l] = d.bounds[l]
<1>1. Going(d) = {l \in 0..(n - 1) : d.idx[l] < d.bounds[l]}
  BY DEF Going, Walks
<1>2. n \in 1..4
  BY NestTypes
<1>3. \E l \in Going(d) : \A k \in Going(d) : l <= k
  <2>1. Going(d) \subseteq 0..3
    <3>1. SUFFICES ASSUME NEW l \in Going(d) PROVE l \in 0..3
      OBVIOUS
    <3>2. l \in 0..(n - 1)
      BY <1>1
    <3> QED
      BY <1>2, <3>2
  <2>2. CASE 0 \in Going(d)
    BY <2>1, <2>2
  <2>3. CASE 0 \notin Going(d) /\ 1 \in Going(d)
    BY <2>1, <2>3
  <2>4. CASE 0 \notin Going(d) /\ 1 \notin Going(d) /\ 2 \in Going(d)
    BY <2>1, <2>4
  <2>5. CASE 0 \notin Going(d) /\ 1 \notin Going(d) /\ 2 \notin Going(d)
    BY <2>1, <2>5
  <2> QED
    BY <2>2, <2>3, <2>4, <2>5
<1>4. w \in Going(d) /\ \A k \in Going(d) : w <= k
  BY <1>3
<1>5. ASSUME NEW l \in 0..(w - 1) PROVE d.idx[l] = d.bounds[l]
  <2>1. l \in 0..(n - 1) /\ l \notin Going(d)
    BY <1>1, <1>2, <1>4
  <2>2. /\ d.idx[l] \in Nat /\ d.idx[l] <= d.bounds[l]
        /\ d.bounds[l] = Minus(b[l + 1], 1)
    BY <1>2, <2>1 DEF Walks, Levels
  <2>3. d.bounds[l] \in Nat
    BY <2>1, <2>2, NestTypes, WordAssumption
  <2> QED
    BY <1>1, <2>1, <2>2, <2>3
<1> QED
  BY <1>1, <1>4, <1>5

\* One wrapped delta takes the address from the last element of the levels
\* below w to the next iteration of level w.
LEMMA AddressAdvances ==
  ASSUME NEW n, NEW b, NEW s, NEW p \in Nat, NEW d, Nest(n, b, s), Walks(n, b, s, p, d),
         NEW w \in 0..(n - 1), \A l \in 0..(w - 1) : d.idx[l] = d.bounds[l],
         NEW e, e.idx = [l \in Levels |-> IF l < w THEN 0
                                         ELSE IF l = w THEN d.idx[l] + 1 ELSE d.idx[l]]
  PROVE  (d.ptr + d.strides[w]) % Word = Position(n, s, p, e) % Word
<1> DEFINE St(l) == Steps(n, s, d, l)
           leg(l) == IF w > l THEN Leg(b, s, l + 1) ELSE 0
           T == leg(0) + leg(1) + leg(2)
           P == Position(n, s, p, d)
<1>1. n \in 1..4 /\ w \in 0..3 /\ w < n
  <2>1. n \in 1..4
    BY NestTypes
  <2> QED
    BY <2>1
<1>2. \A l \in Levels : St(l) \in Nat
  BY Rewound
<1>3. ASSUME NEW l \in Levels, l < w
      PROVE  St(l) = leg(l) /\ leg(l) \in Nat /\ Steps(n, s, e, l) = 0
  <2>1. l \in 0..(w - 1) /\ l \in 0..(n - 1) /\ l < n
    BY <1>1, <1>3 DEF Levels
  <2>2. s[l + 1] \in Nat
    BY <2>1, NestTypes
  <2>3. e.idx[l] = 0
    BY <1>3
  <2> QED
    BY <2>1, <2>2, <2>3, Rewound, NestTypes, SMT DEF Steps
<1>4. Steps(n, s, e, w) = St(w) + s[w + 1] /\ s[w + 1] \in Nat
  <2>1. w \in Levels /\ e.idx[w] = d.idx[w] + 1 /\ d.idx[w] \in Nat
    BY <1>1 DEF Levels, Walks
  <2>2. s[w + 1] \in Nat
    BY NestTypes
  <2>3. (d.idx[w] + 1) * s[w + 1] = d.idx[w] * s[w + 1] + s[w + 1]
    BY <2>1, <2>2, SMT
  <2> QED
    BY <1>1, <2>1, <2>2, <2>3 DEF Steps
<1>5. ASSUME NEW l \in Levels, l > w PROVE Steps(n, s, e, l) = St(l)
  <2>1. e.idx[l] = d.idx[l]
    BY <1>1, <1>5 DEF Levels
  <2> QED
    BY <2>1 DEF Steps
<1>6. T \in Nat /\ T <= P /\ Position(n, s, p, e) = P - T + s[w + 1] /\ P \in Nat
  <2>1. /\ 0 \in Levels /\ 1 \in Levels /\ 2 \in Levels /\ 3 \in Levels
    BY DEF Levels
  <2> DEFINE Se(l) == Steps(n, s, e, l)
  <2>2. /\ P = p + St(0) + St(1) + St(2) + St(3)
        /\ Position(n, s, p, e) = p + Se(0) + Se(1) + Se(2) + Se(3)
    BY DEF Position
  <2>3. St(0) \in Nat /\ St(1) \in Nat /\ St(2) \in Nat /\ St(3) \in Nat
    BY <1>2, <2>1
  <2>4. CASE w = 0
    <3>1. Se(1) = St(1) /\ Se(2) = St(2) /\ Se(3) = St(3)
      BY <1>5, <2>1, <2>4
    <3>2. leg(0) = 0 /\ leg(1) = 0 /\ leg(2) = 0 /\ Se(0) = St(0) + s[w + 1]
      BY <1>4, <2>4
    <3> HIDE DEF St, Se, leg, P
    <3> QED
      BY <1>4, <2>2, <2>3, <3>1, <3>2
  <2>5. CASE w = 1
    <3>1. leg(0) = St(0) /\ Se(0) = 0
      BY <1>3, <2>1, <2>5
    <3>2. Se(2) = St(2) /\ Se(3) = St(3)
      BY <1>5, <2>1, <2>5
    <3>3. leg(1) = 0 /\ leg(2) = 0 /\ Se(1) = St(1) + s[w + 1]
      BY <1>4, <2>5
    <3> HIDE DEF St, Se, leg, P
    <3> QED
      BY <1>4, <2>2, <2>3, <3>1, <3>2, <3>3
  <2>6. CASE w = 2
    <3>1. leg(0) = St(0) /\ Se(0) = 0 /\ leg(1) = St(1) /\ Se(1) = 0
      BY <1>3, <2>1, <2>6
    <3>2. Se(3) = St(3)
      BY <1>5, <2>1, <2>6
    <3>3. leg(2) = 0 /\ Se(2) = St(2) + s[w + 1]
      BY <1>4, <2>6
    <3> HIDE DEF St, Se, leg, P
    <3> QED
      BY <1>4, <2>2, <2>3, <3>1, <3>2, <3>3
  <2>7. CASE w = 3
    <3>1. leg(0) = St(0) /\ Se(0) = 0 /\ leg(1) = St(1) /\ Se(1) = 0 /\ leg(2) = St(2) /\ Se(2) = 0
      BY <1>3, <2>1, <2>7
    <3>2. Se(3) = St(3) + s[w + 1]
      BY <1>4, <2>7
    <3> HIDE DEF St, Se, leg, P
    <3> QED
      BY <1>4, <2>2, <2>3, <3>1, <3>2
  <2> QED
    BY <1>1, <2>4, <2>5, <2>6, <2>7
<1>7. Travelled(b, s, w) = T % Word
  BY <1>1 DEF Travelled
<1>8. d.strides[w] = Minus(s[w + 1], T % Word) /\ d.ptr = P % Word
  BY <1>7 DEF Walks
<1> HIDE DEF T, P
<1>9. ((P % Word) + Minus(s[w + 1], T % Word)) % Word = (P - T + s[w + 1]) % Word
  BY <1>4, <1>6, Delta
<1> QED
  BY <1>6, <1>8, <1>9

\* The registers a loop macro writes hold its counts and strides, whatever they held before.
LEMMA LoopTypes ==
  ASSUME NEW n, NEW b, NEW s, NEW old, Nest(n, b, s), Mover(old)
  PROVE  /\ Mover(Loop(old, b, s))
         /\ \A l \in 0..(n - 1) :
              /\ Loop(old, b, s).bounds[l] = Minus(b[l + 1], 1)
              /\ Loop(old, b, s).strides[l] = Minus(s[l + 1], Travelled(b, s, l))
<1> DEFINE B == [l \in Levels |-> IF l < Len(b) THEN Minus(b[l + 1], 1) ELSE old.bounds[l]]
           S == [l \in Levels |-> IF l < Len(b) THEN Minus(s[l + 1], Travelled(b, s, l))
                                  ELSE old.strides[l]]
<1>1. n \in 1..4 /\ Len(b) = n
  BY DEF Nest
<1>2. ASSUME NEW l \in Levels
      PROVE  B[l] \in Nat
  <2>1. CASE l < n
    <3>1. l \in 0..(n - 1)
      BY <1>1, <2>1 DEF Levels
    <3>2. Minus(b[l + 1], 1) \in Nat
      BY <3>1, NestTypes, WordAssumption
    <3> QED
      BY <1>1, <2>1, <3>2
  <2>2. CASE ~(l < n)
    BY <1>1, <2>2 DEF Mover
  <2> QED
    BY <2>1, <2>2
<1>3. B \in [Levels -> Nat]
  BY <1>2
<1>4. ASSUME NEW l \in 0..(n - 1)
      PROVE  B[l] = Minus(b[l + 1], 1) /\ S[l] = Minus(s[l + 1], Travelled(b, s, l))
  BY <1>1 DEF Levels
<1>5. Loop(old, b, s) = [old EXCEPT !.bounds = B, !.strides = S]
  BY DEF Loop
<1> HIDE DEF B, S
<1> QED
  BY <1>3, <1>4, <1>5 DEF Mover

LEMMA StreamStarts ==
  ASSUME NEW n, NEW b, NEW s, NEW p \in Nat, NEW old, Nest(n, b, s), Mover(old)
  PROVE  Walks(n, b, s, p, Arm(Loop(old, b, s), n, p))
<1> DEFINE d == Arm(Loop(old, b, s), n, p)
<1>1. n \in 1..4 /\ Len(b) = n
  BY DEF Nest
<1>2. Mover(d) /\ d.dims = n /\ d.ptr = p % Word /\ d.idx = [l \in Levels |-> 0]
  <2> DEFINE c == Loop(old, b, s)
  <2>1. Mover(c)
    BY LoopTypes
  <2> HIDE DEF c
  <2>2. n \in 1..4
    BY <1>1
  <2> DEFINE J == [l \in Levels |-> 0]
             q == p % Word
             a == Arm(c, n, p)
  <2>3. J \in [Levels -> Nat]
    OBVIOUS
  <2>4. a = [c EXCEPT !.dims = n, !.ptr = q, !.idx = J, !.rep = 0, !.live = TRUE]
    BY DEF Arm
  <2> HIDE DEF J, q, a
  <2>5. a = [bounds |-> c.bounds, strides |-> c.strides, repeat |-> c.repeat, dims |-> n,
             ptr |-> q, idx |-> J, rep |-> 0, live |-> TRUE, starved |-> c.starved]
    BY <2>1, <2>4 DEF Mover
  <2>6. Mover(a) /\ a.dims = n /\ a.ptr = q /\ a.idx = J
    BY <2>1, <2>2, <2>3, <2>5 DEF Mover
  <2> QED
    BY <2>6 DEF a, c, q, J
<1>3. ASSUME NEW l \in 0..(n - 1)
      PROVE  /\ d.bounds[l] = Minus(b[l + 1], 1) /\ d.bounds[l] \in Nat
             /\ d.strides[l] = Minus(s[l + 1], Travelled(b, s, l))
  <2>1. l \in Levels /\ l < Len(b)
    BY <1>1 DEF Levels
  <2>2. /\ d.bounds[l] = Minus(b[l + 1], 1)
        /\ d.strides[l] = Minus(s[l + 1], Travelled(b, s, l))
    <3> DEFINE c == Loop(old, b, s)
    <3>1. /\ Mover(c) /\ c.bounds[l] = Minus(b[l + 1], 1)
          /\ c.strides[l] = Minus(s[l + 1], Travelled(b, s, l))
      BY LoopTypes
    <3> HIDE DEF c
    <3>2. Arm(c, n, p).bounds = c.bounds /\ Arm(c, n, p).strides = c.strides
      BY <3>1 DEF Mover, Arm
    <3> QED
      BY <3>1, <3>2 DEF c
  <2>3. Minus(b[l + 1], 1) \in Nat
    BY NestTypes, WordAssumption
  <2> QED
    BY <2>2, <2>3
<1>4. ASSUME NEW l \in 0..(n - 1) PROVE d.idx[l] \in Nat /\ d.idx[l] <= d.bounds[l]
  <2>1. l \in Levels
    BY <1>1 DEF Levels
  <2> QED
    BY <1>2, <1>3, <2>1
<1>5. ASSUME NEW l \in Levels PROVE Steps(n, s, d, l) = 0
  <2>1. CASE l < n
    <3>1. l \in 0..(n - 1)
      BY <1>1, <2>1 DEF Levels
    <3>2. s[l + 1] \in Nat /\ d.idx[l] = 0
      BY <1>2, <3>1, NestTypes
    <3> QED
      BY <3>2 DEF Steps
  <2>2. CASE ~(l < n)
    BY <2>2 DEF Steps
  <2> QED
    BY <2>1, <2>2
<1>6. Position(n, s, p, d) = p
  <2>1. 0 \in Levels /\ 1 \in Levels /\ 2 \in Levels /\ 3 \in Levels
    BY DEF Levels
  <2> HIDE DEF d
  <2> QED
    BY <1>5, <2>1 DEF Position
<1> HIDE DEF d
<1>7. DOMAIN d.idx = Levels /\ \A l \in Levels : d.idx[l] \in Nat
  BY <1>2
<1> QED
  BY <1>2, <1>3, <1>4, <1>6, <1>7 DEF Walks, d

LEMMA StreamGoesOn ==
  ASSUME NEW n, NEW b, NEW s, NEW p \in Nat, NEW d, Nest(n, b, s), Walks(n, b, s, p, d),
         Pop(d).live, d.live
  PROVE  Walks(n, b, s, p, Pop(d))
<1>1. CASE d.rep < d.repeat
  <2> DEFINE e == Pop(d)
  <2>1. /\ e.bounds = d.bounds /\ e.strides = d.strides /\ e.dims = d.dims
        /\ e.ptr = d.ptr /\ e.idx = d.idx /\ Mover(e)
    <3>1. Mover(d)
      BY DEF Walks
    <3>2. e = [bounds |-> d.bounds, strides |-> d.strides, repeat |-> d.repeat, dims |-> d.dims,
               ptr |-> d.ptr, idx |-> d.idx, rep |-> d.rep + 1, live |-> d.live,
               starved |-> d.starved]
      BY <1>1, <3>1 DEF Pop, Mover
    <3> HIDE DEF e
    <3>3. QED BY <3>1, <3>2 DEF Mover
  <2> HIDE DEF e
  <2>2. Position(n, s, p, e) = Position(n, s, p, d)
    BY <2>1 DEF Position, Steps
  <2>3. Walks(n, b, s, p, e)
    BY <2>1, <2>2 DEF Walks
  <2> QED
    BY <2>3 DEF e
<1>2. CASE ~(d.rep < d.repeat)
  <2>1. Going(d) # {}
    <3>1. SUFFICES ASSUME Going(d) = {} PROVE ~Pop(d).live
      OBVIOUS
    <3> QED
      BY <1>2, <3>1 DEF Pop, Advance, Walks, Mover
  <2> DEFINE w == CHOOSE l \in Going(d) : \A k \in Going(d) : l <= k
             e == Pop(d)
  <2>2. e = [d EXCEPT !.rep = 0,
                      !.ptr = (@ + d.strides[w]) % Word,
                      !.idx = [l \in Levels |-> IF l < w THEN 0
                                                ELSE IF l = w THEN @[l] + 1
                                                ELSE @[l]]]
    BY <1>2, <2>1 DEF Pop, Advance
  <2>3. /\ w \in 0..(n - 1) /\ d.idx[w] < d.bounds[w]
        /\ \A l \in 0..(w - 1) : d.idx[l] = d.bounds[l]
    <3> HIDE DEF w
    <3>1. w = CHOOSE l \in Going(d) : \A k \in Going(d) : l <= k
      BY DEF w
    <3> QED
      BY <2>1, <3>1, Innermost
  <2> HIDE DEF w
  <2>4. /\ e.bounds = d.bounds /\ e.strides = d.strides /\ e.dims = d.dims /\ Mover(e)
        /\ e.ptr = (d.ptr + d.strides[w]) % Word
        /\ e.idx = [l \in Levels |-> IF l < w THEN 0
                                     ELSE IF l = w THEN d.idx[l] + 1 ELSE d.idx[l]]
    <3> DEFINE J == [l \in Levels |-> IF l < w THEN 0
                                      ELSE IF l = w THEN d.idx[l] + 1 ELSE d.idx[l]]
               q == (d.ptr + d.strides[w]) % Word
    <3>1. Mover(d) /\ w \in Levels
      BY <2>3 DEF Walks, Nest, Levels
    <3>2. \A l \in Levels : d.idx[l] \in Nat
      BY <3>1 DEF Mover
    <3>4. J \in [Levels -> Nat]
      BY <3>2
    <3>5. e = [d EXCEPT !.rep = 0, !.ptr = q, !.idx = J]
      BY <2>2
    <3> HIDE DEF J, q, e
    <3>6. /\ e.bounds = d.bounds /\ e.strides = d.strides /\ e.dims = d.dims /\ Mover(e)
          /\ e.ptr = q /\ e.idx = J
      BY <3>1, <3>4, <3>5 DEF Mover
    <3> QED
      BY <3>6 DEF J, q
  <2> HIDE DEF e
  <2>5. e.ptr = Position(n, s, p, e) % Word
    <3>1. (d.ptr + d.strides[w]) % Word = Position(n, s, p, e) % Word
      BY <2>4, <2>3, AddressAdvances
    <3> QED
      BY <2>4, <3>1
  <2>6. n \in 1..4
    BY DEF Nest
  <2>7. ASSUME NEW l \in Levels PROVE e.idx[l] \in Nat
    <3>1. d.idx[l] \in Nat
      BY DEF Walks
    <3> QED
      BY <2>4, <3>1
  <2>8. ASSUME NEW l \in 0..(n - 1) PROVE e.idx[l] <= e.bounds[l]
    <3>1. /\ l \in Levels /\ d.idx[l] \in Nat /\ d.idx[l] <= d.bounds[l]
          /\ d.bounds[l] = Minus(b[l + 1], 1)
      BY <2>6 DEF Walks, Levels
    <3>2. d.bounds[l] \in Nat
      BY <3>1, NestTypes, WordAssumption
    <3> QED
      BY <2>4, <2>3, <3>1, <3>2
  <2>9. Walks(n, b, s, p, e)
    <3>1. DOMAIN e.idx = Levels
      BY <2>4
    <3>2. \A l \in 0..(n - 1) : /\ e.bounds[l] = Minus(b[l + 1], 1)
                                /\ e.strides[l] = Minus(s[l + 1], Travelled(b, s, l))
      BY <2>4 DEF Walks
    <3>3. e.dims = n
      BY <2>4 DEF Walks
    <3> QED
      BY <2>4, <2>5, <2>7, <2>8, <3>1, <3>2, <3>3 DEF Walks
  <2> QED
    BY <2>9 DEF e
<1> QED
  BY <1>1, <1>2

\* However many elements have been taken, as long as the stream has one to give
\* its address is the base plus every level's index times its stride, and every
\* index is below its count: gemm, convolution, mel_energy and the DCT read the
\* elements their loops name.
THEOREM StreamWalksTheNest ==
  ASSUME NEW CONSTANT n, NEW CONSTANT b, NEW CONSTANT s, NEW CONSTANT p \in Nat,
         NEW CONSTANT old, Nest(n, b, s), Mover(old)
  PROVE  Stream(n, b, s, p, old) => [](mover.live => Walks(n, b, s, p, mover))
<1>1. mover = Arm(Loop(old, b, s), n, p) => (mover.live => Walks(n, b, s, p, mover))
  BY StreamStarts
<1>2. (mover.live => Walks(n, b, s, p, mover)) /\ [mover.live /\ mover' = Pop(mover)]_mover
        => (mover.live => Walks(n, b, s, p, mover))'
  <2>1. SUFFICES ASSUME mover.live => Walks(n, b, s, p, mover),
                        [mover.live /\ mover' = Pop(mover)]_mover, mover'.live
                 PROVE  Walks(n, b, s, p, mover')
    OBVIOUS
  <2>2. CASE mover.live /\ mover' = Pop(mover)
    BY <2>1, <2>2, StreamGoesOn
  <2>3. CASE mover' = mover
    BY <2>1, <2>3
  <2> QED
    BY <2>1, <2>2, <2>3
<1> QED
  BY <1>1, <1>2, PTL DEF Stream

\* Every set of naturals has a smallest member.
LEMMA Smallest ==
  ASSUME NEW T \in SUBSET Nat, T # {}
  PROVE  \E m \in T : \A i \in T : m <= i
<1> DEFINE Less == {p \in Nat \X Nat : p[1] < p[2]}
<1>1. IsWellFoundedOn(Less, Nat)
  BY NatLessThanWellFounded DEF OpToRel
<1>2. PICK m \in T : \A i \in T : ~(<<i, m>> \in Less)
  <2> HIDE DEF Less
  <2> QED BY <1>1, WFMin
<1>3. \A i \in T : i \in Nat /\ m \in Nat
  OBVIOUS
<1>4. \A i \in T : ~(i < m)
  BY <1>2, <1>3
<1>5. QED BY <1>3, <1>4

\* Induction, for a set in place of a predicate.
LEMMA Induction ==
  ASSUME NEW T \in SUBSET Nat, 0 \in T, \A k \in T : k + 1 \in T
  PROVE  T = Nat
<1>1. SUFFICES ASSUME T # Nat PROVE FALSE
  OBVIOUS
<1>2. PICK m \in Nat \ T : \A i \in Nat \ T : m <= i
  BY <1>1, Smallest
<1>3. m # 0 /\ m - 1 \in Nat /\ ~(m - 1 \in Nat \ T)
  BY <1>2
<1>4. QED BY <1>3, <1>2

-----------------------------------------------------------------------------
(* How many elements a stream has left to deliver.                         *)

\* What the counters of a mover are, whichever kernel used it last; while a
\* stream is on, they are within the bounds, and nobody waits for its elements.
Counts(d) ==
  /\ d = [bounds |-> d.bounds, strides |-> d.strides, repeat |-> d.repeat, dims |-> d.dims,
          ptr |-> d.ptr, idx |-> d.idx, rep |-> d.rep, live |-> d.live, starved |-> d.starved]
  /\ d.bounds \in [Levels -> Nat] /\ d.idx \in [Levels -> Nat]
  /\ d.repeat \in Nat /\ d.rep \in Nat /\ d.dims \in 1..4 /\ d.live \in BOOLEAN
  /\ ~d.starved
  /\ d.live => d.rep <= d.repeat /\ \A l \in 0..(d.dims - 1) : d.idx[l] <= d.bounds[l]

\* The iterations of level l and those inside it that are still to come, after
\* the one it is in.
ToGo(d, l) == IF l < d.dims THEN d.bounds[l] - d.idx[l] ELSE 0
After3(d) == ToGo(d, 3)
After2(d) == ToGo(d, 2) + (d.bounds[2] + 1) * After3(d)
After1(d) == ToGo(d, 1) + (d.bounds[1] + 1) * After2(d)
After0(d) == ToGo(d, 0) + (d.bounds[0] + 1) * After1(d)
Left(d) == IF d.live THEN (d.repeat - d.rep + 1) + (d.repeat + 1) * After0(d) ELSE 0

\* A product with one factor less.
LEMMA OneLess ==
  ASSUME NEW a \in Nat, NEW x \in Nat
  PROVE  /\ a * x \in Nat /\ (a + 1) * x \in Nat /\ (a + 1) * (x - 1) = (a + 1) * x - (a + 1)
         /\ ((a + 1) * x = 0 => x = 0)
BY SMT

\* The numbers of iterations to come are naturals.
LEMMA AftersAre ==
  ASSUME NEW d, Counts(d), d.live
  PROVE  /\ \A l \in Levels : d.bounds[l] \in Nat /\ d.idx[l] \in Nat /\ ToGo(d, l) \in Nat
         /\ After3(d) \in Nat /\ After2(d) \in Nat /\ After1(d) \in Nat /\ After0(d) \in Nat
         /\ Left(d) = (d.repeat - d.rep + 1) + (d.repeat + 1) * After0(d)
         /\ (d.repeat + 1) * After0(d) \in Nat /\ Left(d) \in Nat \ {0}
<1>1. \A l \in Levels : d.bounds[l] \in Nat /\ d.idx[l] \in Nat
  BY DEF Counts
<1>2. \A l \in Levels : ToGo(d, l) \in Nat
  <2>1. SUFFICES ASSUME NEW l \in Levels, l < d.dims PROVE d.bounds[l] - d.idx[l] \in Nat
    BY DEF ToGo
  <2>2. l \in 0..(d.dims - 1)
    BY <2>1 DEF Counts, Levels
  <2>3. d.idx[l] <= d.bounds[l]
    BY <2>2 DEF Counts
  <2>4. QED BY <1>1, <2>3
<1>3. 0 \in Levels /\ 1 \in Levels /\ 2 \in Levels /\ 3 \in Levels
  BY DEF Levels
<1>4. After3(d) \in Nat
  BY <1>2, <1>3 DEF After3
<1>5. After2(d) \in Nat
  <2>1. (d.bounds[2] + 1) * After3(d) \in Nat
    BY <1>1, <1>3, <1>4, OneLess
  <2>2. QED BY <2>1, <1>2, <1>3 DEF After2
<1>6. After1(d) \in Nat
  <2>1. (d.bounds[1] + 1) * After2(d) \in Nat
    BY <1>1, <1>3, <1>5, OneLess
  <2>2. QED BY <2>1, <1>2, <1>3 DEF After1
<1>7. After0(d) \in Nat
  <2>1. (d.bounds[0] + 1) * After1(d) \in Nat
    BY <1>1, <1>3, <1>6, OneLess
  <2>2. QED BY <2>1, <1>2, <1>3 DEF After0
<1>8. d.repeat \in Nat /\ d.rep \in Nat /\ d.rep <= d.repeat
  BY DEF Counts
<1>9. (d.repeat + 1) * After0(d) \in Nat
  BY <1>7, <1>8, OneLess
<1>10. Left(d) = (d.repeat - d.rep + 1) + (d.repeat + 1) * After0(d)
  BY DEF Left
<1>11. QED BY <1>1, <1>2, <1>4, <1>5, <1>6, <1>7, <1>8, <1>9, <1>10

\* Levels that cannot go on have none to come; the innermost that can.
LEMMA NoneGoes ==
  ASSUME NEW d, Counts(d), d.live, Going(d) = {}
  PROVE  After0(d) = 0
<1>1. \A l \in Levels : ToGo(d, l) = 0
  <2>1. SUFFICES ASSUME NEW l \in Levels, l < d.dims PROVE d.bounds[l] - d.idx[l] = 0
    BY DEF ToGo
  <2>2. l \in 0..(d.dims - 1) /\ ~(l \in Going(d))
    BY <2>1 DEF Counts, Levels
  <2>3. ~(d.idx[l] < d.bounds[l]) /\ d.idx[l] <= d.bounds[l]
    BY <2>2 DEF Counts, Going
  <2>4. d.idx[l] \in Nat /\ d.bounds[l] \in Nat
    BY AftersAre
  <2>5. QED BY <2>3, <2>4
<1>2. /\ ToGo(d, 0) = 0 /\ ToGo(d, 1) = 0 /\ ToGo(d, 2) = 0 /\ ToGo(d, 3) = 0
      /\ d.bounds[0] \in Nat /\ d.bounds[1] \in Nat /\ d.bounds[2] \in Nat
  BY <1>1, AftersAre DEF Levels
<1>3. After3(d) = 0 /\ After2(d) = 0
  BY <1>2 DEF After3, After2
<1>4. After1(d) = 0
  BY <1>2, <1>3 DEF After1
<1>5. QED BY <1>2, <1>4 DEF After0

LEMMA SomeGoes ==
  ASSUME NEW d, Counts(d), Going(d) # {},
         NEW w, w = CHOOSE l \in Going(d) : \A k \in Going(d) : l <= k
  PROVE  /\ w \in Levels /\ w < d.dims /\ d.idx[w] < d.bounds[w]
         /\ \A l \in 0..(w - 1) : ~(d.idx[l] < d.bounds[l])
<1>1. Going(d) \subseteq Levels /\ d.dims \in 1..4
  BY DEF Counts, Going, Levels
<1>2. \E l \in Going(d) : \A k \in Going(d) : l <= k
  BY <1>1, Smallest DEF Levels
<1>3. w \in Going(d) /\ \A k \in Going(d) : w <= k
  BY <1>2
<1>4. w \in 0..(d.dims - 1) /\ d.idx[w] < d.bounds[w]
  BY <1>3 DEF Going
<1>5. ASSUME NEW l \in 0..(w - 1), d.idx[l] < d.bounds[l] PROVE FALSE
  <2>1. l \in 0..(d.dims - 1)
    BY <1>1, <1>4
  <2>2. l \in Going(d)
    BY <2>1, <1>5 DEF Going
  <2>3. w <= l
    BY <2>2, <1>3
  <2>4. QED BY <2>3, <1>4, <1>1
<1>6. QED BY <1>1, <1>4, <1>5 DEF Levels

\* One more iteration of level w, with those inside it started again, leaves
\* one less to come.
LEMMA OneIteration ==
  ASSUME NEW d, Counts(d), d.live, NEW w \in Levels, w < d.dims, d.idx[w] < d.bounds[w],
         \A l \in 0..(w - 1) : ~(d.idx[l] < d.bounds[l]),
         NEW e, Counts(e), e.live, e.bounds = d.bounds, e.dims = d.dims,
         \A l \in Levels : e.idx[l] = IF l < w THEN 0
                                      ELSE IF l = w THEN d.idx[l] + 1 ELSE d.idx[l]
  PROVE  After0(e) = After0(d) - 1
<1>1. \A l \in Levels : d.bounds[l] \in Nat /\ ToGo(d, l) \in Nat /\ d.idx[l] \in Nat
  BY AftersAre
<1>2. d.dims \in 1..4 /\ w \in 0..3
  BY DEF Counts, Levels
<1>3. ASSUME NEW l \in Levels, l < w PROVE ToGo(d, l) = 0 /\ ToGo(e, l) = d.bounds[l]
  <2>1. l \in 0..(w - 1) /\ l \in 0..(d.dims - 1)
    BY <1>2, <1>3 DEF Levels
  <2>2. ~(d.idx[l] < d.bounds[l]) /\ d.idx[l] <= d.bounds[l]
    BY <2>1 DEF Counts
  <2>3. ToGo(d, l) = d.bounds[l] - d.idx[l] /\ ToGo(e, l) = d.bounds[l] - 0
    BY <2>1, <1>2, <1>3 DEF ToGo
  <2>4. QED BY <2>2, <2>3, <1>1
<1>4. ToGo(e, w) = ToGo(d, w) - 1 /\ ToGo(d, w) >= 1
  <2>1. e.idx[w] = d.idx[w] + 1
    BY <1>2
  <2>2. ToGo(e, w) = d.bounds[w] - (d.idx[w] + 1) /\ ToGo(d, w) = d.bounds[w] - d.idx[w]
    BY <2>1 DEF ToGo
  <2>3. QED BY <2>2, <1>1
<1>5. \A l \in Levels : l > w => ToGo(e, l) = ToGo(d, l)
  BY <1>2 DEF ToGo, Levels
<1>6. 0 \in Levels /\ 1 \in Levels /\ 2 \in Levels /\ 3 \in Levels
  BY DEF Levels
<1>7. /\ After3(d) \in Nat /\ After2(d) \in Nat /\ After1(d) \in Nat /\ After0(d) \in Nat
  BY AftersAre
<1>8. ASSUME NEW l \in Levels, l < w, NEW x \in Nat, NEW y, x >= 1, y = x - 1
      PROVE  /\ ToGo(e, l) + (d.bounds[l] + 1) * y = (ToGo(d, l) + (d.bounds[l] + 1) * x) - 1
             /\ ToGo(d, l) + (d.bounds[l] + 1) * x >= 1
  <2>1. (d.bounds[l] + 1) * y = (d.bounds[l] + 1) * x - (d.bounds[l] + 1) /\ (d.bounds[l] + 1) * x \in Nat
        /\ ((d.bounds[l] + 1) * x = 0 => x = 0)
    BY <1>1, <1>8, OneLess
  <2>2. QED BY <2>1, <1>1, <1>3, <1>8
<1>9. /\ After3(e) = ToGo(e, 3) /\ After3(d) = ToGo(d, 3)
      /\ After2(e) = ToGo(e, 2) + (d.bounds[2] + 1) * After3(e)
      /\ After2(d) = ToGo(d, 2) + (d.bounds[2] + 1) * After3(d)
      /\ After1(e) = ToGo(e, 1) + (d.bounds[1] + 1) * After2(e)
      /\ After1(d) = ToGo(d, 1) + (d.bounds[1] + 1) * After2(d)
      /\ After0(e) = ToGo(e, 0) + (d.bounds[0] + 1) * After1(e)
      /\ After0(d) = ToGo(d, 0) + (d.bounds[0] + 1) * After1(d)
  BY DEF After3, After2, After1, After0
<1>10. /\ (d.bounds[2] + 1) * After3(d) \in Nat /\ (d.bounds[1] + 1) * After2(d) \in Nat
       /\ (d.bounds[0] + 1) * After1(d) \in Nat
  BY <1>1, <1>6, <1>7, OneLess
\* From level w outwards to the innermost.
<1>11. w = 3 => After3(e) = After3(d) - 1 /\ After3(d) >= 1
  BY <1>4, <1>9
<1>12. w < 3 => After3(e) = After3(d)
  BY <1>2, <1>5, <1>6, <1>9
<1>13. w >= 2 => After2(e) = After2(d) - 1 /\ After2(d) >= 1
  <2>1. CASE w = 3
    <3>1. /\ After3(d) \in Nat /\ After3(d) >= 1 /\ After3(e) = After3(d) - 1 /\ 2 < w
      BY <2>1, <1>7, <1>11
    <3>2. /\ ToGo(e, 2) + (d.bounds[2] + 1) * After3(e) = (ToGo(d, 2) + (d.bounds[2] + 1) * After3(d)) - 1
          /\ ToGo(d, 2) + (d.bounds[2] + 1) * After3(d) >= 1
      BY <3>1, <1>6, <1>8
    <3>3. QED BY <3>2, <1>9
  <2>2. CASE w = 2
    <3>1. After3(e) = After3(d) /\ ToGo(e, 2) = ToGo(d, 2) - 1 /\ ToGo(d, 2) >= 1
      BY <2>2, <1>4, <1>12
    <3>2. /\ (d.bounds[2] + 1) * After3(e) = (d.bounds[2] + 1) * After3(d)
          /\ (d.bounds[2] + 1) * After3(d) \in Nat /\ ToGo(d, 2) \in Nat
      BY <3>1, <1>1, <1>6, <1>10
    <3>3. /\ ToGo(e, 2) + (d.bounds[2] + 1) * After3(e)
            = (ToGo(d, 2) + (d.bounds[2] + 1) * After3(d)) - 1
          /\ ToGo(d, 2) + (d.bounds[2] + 1) * After3(d) >= 1
      BY <3>1, <3>2
    <3>4. QED BY <3>3, <1>9
  <2>3. QED BY <2>1, <2>2, <1>2
<1>14. w < 2 => After2(e) = After2(d)
  <2>1. w < 2 => After3(e) = After3(d) /\ ToGo(e, 2) = ToGo(d, 2)
    BY <1>2, <1>5, <1>6, <1>12
  <2>2. QED BY <2>1, <1>9
<1>15. w >= 1 => After1(e) = After1(d) - 1 /\ After1(d) >= 1
  <2>1. CASE w >= 2
    <3>1. /\ After2(d) \in Nat /\ After2(d) >= 1 /\ After2(e) = After2(d) - 1 /\ 1 < w
      BY <2>1, <1>2, <1>7, <1>13
    <3>2. /\ ToGo(e, 1) + (d.bounds[1] + 1) * After2(e) = (ToGo(d, 1) + (d.bounds[1] + 1) * After2(d)) - 1
          /\ ToGo(d, 1) + (d.bounds[1] + 1) * After2(d) >= 1
      BY <3>1, <1>6, <1>8
    <3>3. QED BY <3>2, <1>9
  <2>2. CASE w = 1
    <3>1. After2(e) = After2(d) /\ ToGo(e, 1) = ToGo(d, 1) - 1 /\ ToGo(d, 1) >= 1
      BY <2>2, <1>4, <1>14
    <3>2. /\ (d.bounds[1] + 1) * After2(e) = (d.bounds[1] + 1) * After2(d)
          /\ (d.bounds[1] + 1) * After2(d) \in Nat /\ ToGo(d, 1) \in Nat
      BY <3>1, <1>1, <1>6, <1>10
    <3>3. /\ ToGo(e, 1) + (d.bounds[1] + 1) * After2(e)
            = (ToGo(d, 1) + (d.bounds[1] + 1) * After2(d)) - 1
          /\ ToGo(d, 1) + (d.bounds[1] + 1) * After2(d) >= 1
      BY <3>1, <3>2
    <3>4. QED BY <3>3, <1>9
  <2>3. QED BY <2>1, <2>2, <1>2
<1>16. w = 0 => After1(e) = After1(d)
  <2>1. w = 0 => After2(e) = After2(d) /\ ToGo(e, 1) = ToGo(d, 1)
    BY <1>2, <1>5, <1>6, <1>14
  <2>2. QED BY <2>1, <1>9
<1>17. CASE w >= 1
  <2>1. /\ After1(d) \in Nat /\ After1(d) >= 1 /\ After1(e) = After1(d) - 1 /\ 0 < w
    BY <1>17, <1>2, <1>7, <1>15
  <2>2. ToGo(e, 0) + (d.bounds[0] + 1) * After1(e) = (ToGo(d, 0) + (d.bounds[0] + 1) * After1(d)) - 1
    BY <2>1, <1>6, <1>8
  <2>3. QED BY <2>2, <1>9
<1>18. CASE w = 0
  <2>1. After1(e) = After1(d) /\ ToGo(e, 0) = ToGo(d, 0) - 1
    BY <1>18, <1>4, <1>16
  <2>2. /\ (d.bounds[0] + 1) * After1(e) = (d.bounds[0] + 1) * After1(d)
        /\ (d.bounds[0] + 1) * After1(d) \in Nat /\ ToGo(d, 0) \in Nat
    BY <2>1, <1>1, <1>6, <1>10
  <2>3. /\ ToGo(e, 0) + (d.bounds[0] + 1) * After1(e)
          = (ToGo(d, 0) + (d.bounds[0] + 1) * After1(d)) - 1
    BY <2>1, <2>2
  <2>4. QED BY <2>3, <1>9
<1>19. QED BY <1>17, <1>18, <1>2

\* Reading the register takes one element.
LEMMA PopTakesOne ==
  ASSUME NEW d, Counts(d), d.live
  PROVE  /\ Counts(Pop(d)) /\ Left(Pop(d)) = Left(d) - 1
         /\ Pop(d).repeat = d.repeat /\ Pop(d).bounds = d.bounds /\ Pop(d).dims = d.dims
<1> DEFINE e == Pop(d)
<1>1. /\ d.bounds \in [Levels -> Nat] /\ d.idx \in [Levels -> Nat] /\ d.repeat \in Nat
      /\ d.rep \in Nat /\ d.rep <= d.repeat /\ d.dims \in 1..4
      /\ \A l \in 0..(d.dims - 1) : d.idx[l] <= d.bounds[l]
  BY DEF Counts
<1>2. /\ Left(d) = (d.repeat - d.rep + 1) + (d.repeat + 1) * After0(d)
      /\ After0(d) \in Nat /\ (d.repeat + 1) * After0(d) \in Nat
  BY AftersAre
<1>3. CASE d.rep < d.repeat
  <2>1. e = [bounds |-> d.bounds, strides |-> d.strides, repeat |-> d.repeat, dims |-> d.dims,
             ptr |-> d.ptr, idx |-> d.idx, rep |-> d.rep + 1, live |-> TRUE, starved |-> d.starved]
    BY <1>3 DEF Pop, Counts
  <2> HIDE DEF e
  <2>2. Counts(e) /\ e.repeat = d.repeat /\ e.bounds = d.bounds /\ e.dims = d.dims
    BY <2>1, <1>1, <1>3 DEF Counts
  <2>3. After0(e) = After0(d)
    BY <2>1 DEF After0, After1, After2, After3, ToGo
  <2>4. Left(e) = (d.repeat - (d.rep + 1) + 1) + (d.repeat + 1) * After0(d)
    BY <2>1, <2>3 DEF Left
  <2>5. QED BY <2>2, <2>4, <1>1, <1>2 DEF e
<1>4. CASE ~(d.rep < d.repeat) /\ Going(d) = {}
  <2>1. e = [bounds |-> d.bounds, strides |-> d.strides, repeat |-> d.repeat, dims |-> d.dims,
             ptr |-> d.ptr, idx |-> d.idx, rep |-> 0, live |-> FALSE, starved |-> d.starved]
    BY <1>4 DEF Pop, Advance, Counts
  <2> HIDE DEF e
  <2>2. Counts(e) /\ e.repeat = d.repeat /\ e.bounds = d.bounds /\ e.dims = d.dims
    BY <2>1, <1>1 DEF Counts
  <2>3. After0(d) = 0
    BY <1>4, NoneGoes
  <2>4. Left(d) = 1
    BY <2>3, <1>1, <1>2, <1>4
  <2>5. Left(e) = 0
    BY <2>1 DEF Left
  <2>6. QED BY <2>2, <2>4, <2>5 DEF e
<1>5. CASE ~(d.rep < d.repeat) /\ Going(d) # {}
  <2> DEFINE w == CHOOSE l \in Going(d) : \A k \in Going(d) : l <= k
             J == [l \in Levels |-> IF l < w THEN 0 ELSE IF l = w THEN d.idx[l] + 1 ELSE d.idx[l]]
             q == (d.ptr + d.strides[w]) % Word
  <2>1. e = [d EXCEPT !.rep = 0, !.ptr = q, !.idx = J]
    BY <1>5 DEF Pop, Advance
  <2>2. /\ w \in Levels /\ w < d.dims /\ d.idx[w] < d.bounds[w]
        /\ \A l \in 0..(w - 1) : ~(d.idx[l] < d.bounds[l])
    <3> HIDE DEF w
    <3>1. w = CHOOSE l \in Going(d) : \A k \in Going(d) : l <= k
      BY DEF w
    <3>2. QED BY <3>1, <1>5, SomeGoes
  <2> HIDE DEF w, q
  <2>3. \A l \in Levels : J[l] = IF l < w THEN 0 ELSE IF l = w THEN d.idx[l] + 1 ELSE d.idx[l]
    OBVIOUS
  <2>4. J \in [Levels -> Nat]
    BY <1>1
  <2> HIDE DEF J
  <2>5. e = [bounds |-> d.bounds, strides |-> d.strides, repeat |-> d.repeat, dims |-> d.dims,
             ptr |-> q, idx |-> J, rep |-> 0, live |-> TRUE, starved |-> d.starved]
    BY <2>1 DEF Counts
  <2> HIDE DEF e
  <2>6. ASSUME NEW l \in 0..(d.dims - 1) PROVE J[l] <= d.bounds[l]
    <3>1. l \in Levels /\ d.idx[l] <= d.bounds[l] /\ d.idx[l] \in Nat /\ d.bounds[l] \in Nat
      BY <1>1 DEF Levels
    <3>2. QED BY <3>1, <2>2, <2>3
  <2>7. Counts(e) /\ e.repeat = d.repeat /\ e.bounds = d.bounds /\ e.dims = d.dims /\ e.live
        /\ e.rep = 0 /\ e.idx = J
    BY <2>5, <2>4, <2>6, <1>1 DEF Counts
  <2>8. After0(e) = After0(d) - 1
    BY <2>2, <2>3, <2>7, OneIteration
  <2>9. (d.repeat + 1) * (After0(d) - 1) = (d.repeat + 1) * After0(d) - (d.repeat + 1)
    BY <1>1, <1>2, OneLess
  <2>10. Left(e) = (d.repeat - 0 + 1) + (d.repeat + 1) * (After0(d) - 1)
    BY <2>7, <2>8 DEF Left
  <2>11. Left(d) = 1 + (d.repeat + 1) * After0(d)
    BY <1>1, <1>2, <1>5
  <2>12. QED BY <2>7, <2>9, <2>10, <2>11, <1>1, <1>2 DEF e
<1>6. QED BY <1>3, <1>4, <1>5

\* ssr_loop_*: bounds are counts less one.
LEMMA LoopIs ==
  ASSUME NEW d, Counts(d), ~d.live, NEW n \in 1..4, NEW b, NEW s, Len(b) = n,
         \A l \in 0..(n - 1) : b[l + 1] \in 1..Word
  PROVE  LET e == Loop(d, b, s) IN
         /\ Counts(e) /\ ~e.live /\ e.repeat = d.repeat
         /\ \A l \in 0..(n - 1) : e.bounds[l] = b[l + 1] - 1
<1> DEFINE B == [l \in Levels |-> IF l < n THEN Minus(b[l + 1], 1) ELSE d.bounds[l]]
           S == [l \in Levels |-> IF l < n THEN Minus(s[l + 1], Travelled(b, s, l)) ELSE d.strides[l]]
           e == Loop(d, b, s)
<1>1. \A l \in 0..(n - 1) : l \in Levels /\ l < n
  BY DEF Levels
<1>2. \A l \in 0..(n - 1) : B[l] = b[l + 1] - 1 /\ B[l] \in Nat
  <2> TAKE l \in 0..(n - 1)
  <2>1. B[l] = Minus(b[l + 1], 1)
    BY <1>1
  <2>2. b[l + 1] \in 1..Word /\ Minus(b[l + 1], 1) = b[l + 1] - 1
    BY CountLessOne
  <2> HIDE DEF B
  <2>3. QED BY <2>1, <2>2
<1>3. B \in [Levels -> Nat]
  <2>1. ASSUME NEW l \in Levels PROVE B[l] \in Nat
    <3>1. CASE l < n
      <4>1. l \in 0..(n - 1)
        BY <3>1 DEF Levels
      <4> HIDE DEF B
      <4>2. QED BY <4>1, <1>2
    <3>2. CASE ~(l < n)
      BY <3>2 DEF Counts
    <3>3. QED BY <3>1, <3>2
  <2>2. B = [l \in Levels |-> B[l]]
    OBVIOUS
  <2> HIDE DEF B
  <2>3. QED BY <2>1, <2>2
<1>4. e = [d EXCEPT !.bounds = B, !.strides = S]
  BY DEF Loop
<1> HIDE DEF B, S
<1>5. e = [bounds |-> B, strides |-> S, repeat |-> d.repeat, dims |-> d.dims,
           ptr |-> d.ptr, idx |-> d.idx, rep |-> d.rep, live |-> d.live, starved |-> d.starved]
  BY <1>4 DEF Counts
<1> HIDE DEF e
<1>6. Counts(e) /\ ~e.live /\ e.repeat = d.repeat /\ e.bounds = B
  BY <1>3, <1>5 DEF Counts
<1>7. QED BY <1>2, <1>6 DEF e

\* ssr_repeat.
LEMMA RepeatIs ==
  ASSUME NEW d, Counts(d), ~d.live, NEW k \in 1..Word
  PROVE  LET e == Repeat(d, k) IN
         Counts(e) /\ ~e.live /\ e.repeat = k - 1 /\ e.bounds = d.bounds
<1> DEFINE e == Repeat(d, k)
<1>1. Minus(k, 1) = k - 1 /\ k - 1 \in Nat
  BY CountLessOne
<1>2. e = [bounds |-> d.bounds, strides |-> d.strides, repeat |-> k - 1, dims |-> d.dims,
           ptr |-> d.ptr, idx |-> d.idx, rep |-> d.rep, live |-> d.live, starved |-> d.starved]
  BY <1>1 DEF Repeat, Counts
<1> HIDE DEF e
<1>3. Counts(e) /\ ~e.live /\ e.repeat = k - 1 /\ e.bounds = d.bounds
  BY <1>1, <1>2 DEF Counts
<1>4. QED BY <1>3 DEF e

\* ssr_read: the stream delivers every element of the nest repeat + 1 times.
Turns(d, n) ==
  CASE n = 1 -> d.bounds[0] + 1
    [] n = 2 -> (d.bounds[0] + 1) * (d.bounds[1] + 1)
    [] n = 3 -> (d.bounds[0] + 1) * ((d.bounds[1] + 1) * (d.bounds[2] + 1))
    [] n = 4 -> (d.bounds[0] + 1) * ((d.bounds[1] + 1) * ((d.bounds[2] + 1) * (d.bounds[3] + 1)))

LEMMA OneMore ==
  ASSUME NEW b \in Nat, NEW x \in Nat, NEW y, y = x + 1
  PROVE  b + (b + 1) * x + 1 = (b + 1) * y /\ b + (b + 1) * x \in Nat
BY SMT

LEMMA ArmIs ==
  ASSUME NEW d, Counts(d), NEW n \in 1..4, NEW p
  PROVE  LET e == Arm(d, n, p) IN
         /\ Counts(e) /\ e.live /\ e.repeat = d.repeat /\ e.bounds = d.bounds
         /\ Left(e) = (d.repeat + 1) * Turns(d, n)
<1> DEFINE q == p % Word
           J == [l \in Levels |-> 0]
           e == Arm(d, n, p)
<1>1. e = [bounds |-> d.bounds, strides |-> d.strides, repeat |-> d.repeat, dims |-> n,
           ptr |-> q, idx |-> J, rep |-> 0, live |-> TRUE, starved |-> d.starved]
  <2>1. e = [d EXCEPT !.dims = n, !.ptr = q, !.idx = J, !.rep = 0, !.live = TRUE]
    BY DEF Arm
  <2> HIDE DEF q, J, e
  <2>2. QED BY <2>1 DEF Counts
<1>2. J \in [Levels -> Nat] /\ \A l \in Levels : J[l] = 0
  BY Zenon
<1>3. \A l \in 0..(n - 1) : l \in Levels /\ 0 <= d.bounds[l]
  BY DEF Counts, Levels
<1> HIDE DEF q, J, e
<1>4. /\ Counts(e) /\ e.live /\ e.repeat = d.repeat /\ e.bounds = d.bounds /\ e.rep = 0
      /\ e.dims = n /\ e.idx = J
  BY <1>1, <1>2, <1>3 DEF Counts
<1>5. \A l \in Levels : ToGo(e, l) = IF l < n THEN d.bounds[l] ELSE 0
  BY <1>2, <1>4 DEF ToGo, Counts
<1>6. 0 \in Levels /\ 1 \in Levels /\ 2 \in Levels /\ 3 \in Levels
  BY DEF Levels
<1>7. /\ d.bounds[0] \in Nat /\ d.bounds[1] \in Nat /\ d.bounds[2] \in Nat /\ d.bounds[3] \in Nat
      /\ d.repeat \in Nat
  BY <1>6 DEF Counts
<1>8. /\ After3(e) \in Nat /\ After2(e) \in Nat /\ After1(e) \in Nat /\ After0(e) \in Nat
  BY <1>4, AftersAre
<1>9. /\ After2(e) = ToGo(e, 2) + (d.bounds[2] + 1) * After3(e)
      /\ After1(e) = ToGo(e, 1) + (d.bounds[1] + 1) * After2(e)
      /\ After0(e) = ToGo(e, 0) + (d.bounds[0] + 1) * After1(e)
      /\ After3(e) = ToGo(e, 3)
  BY <1>4 DEF After2, After1, After0, After3
<1>10. After3(e) + 1 = IF n > 3 THEN d.bounds[3] + 1 ELSE 1
  BY <1>5, <1>6, <1>7, <1>9
<1>11. After2(e) + 1 = IF n > 2 THEN (d.bounds[2] + 1) * (After3(e) + 1) ELSE 1
  <2>1. CASE n > 2
    <3>1. ToGo(e, 2) = d.bounds[2]
      BY <2>1, <1>5, <1>6
    <3>2. d.bounds[2] + (d.bounds[2] + 1) * After3(e) + 1 = (d.bounds[2] + 1) * (After3(e) + 1)
      BY <1>7, <1>8, OneMore
    <3>3. QED BY <2>1, <3>1, <3>2, <1>9
  <2>2. CASE ~(n > 2)
    <3>1. ToGo(e, 2) = 0 /\ After3(e) = 0
      BY <2>2, <1>5, <1>6, <1>9
    <3>2. QED BY <2>2, <3>1, <1>7, <1>9
  <2>3. QED BY <2>1, <2>2
<1>12. After1(e) + 1 = IF n > 1 THEN (d.bounds[1] + 1) * (After2(e) + 1) ELSE 1
  <2>1. CASE n > 1
    <3>1. ToGo(e, 1) = d.bounds[1]
      BY <2>1, <1>5, <1>6
    <3>2. d.bounds[1] + (d.bounds[1] + 1) * After2(e) + 1 = (d.bounds[1] + 1) * (After2(e) + 1)
      BY <1>7, <1>8, OneMore
    <3>3. QED BY <2>1, <3>1, <3>2, <1>9
  <2>2. CASE ~(n > 1)
    <3>1. ToGo(e, 1) = 0 /\ After2(e) + 1 = 1
      BY <2>2, <1>5, <1>6, <1>11
    <3>2. After2(e) = 0
      BY <3>1, <1>8
    <3>3. QED BY <2>2, <3>1, <3>2, <1>7, <1>9
  <2>3. QED BY <2>1, <2>2
<1>13. After0(e) + 1 = (d.bounds[0] + 1) * (After1(e) + 1)
  <2>1. ToGo(e, 0) = d.bounds[0]
    BY <1>5, <1>6
  <2>2. d.bounds[0] + (d.bounds[0] + 1) * After1(e) + 1 = (d.bounds[0] + 1) * (After1(e) + 1)
    BY <1>7, <1>8, OneMore
  <2>3. QED BY <2>1, <2>2, <1>9
<1>14. After0(e) + 1 = Turns(d, n)
  <2>1. CASE n = 1
    BY <2>1, <1>7, <1>12, <1>13 DEF Turns
  <2>2. CASE n = 2
    BY <2>2, <1>7, <1>11, <1>12, <1>13 DEF Turns
  <2>3. CASE n = 3
    BY <2>3, <1>7, <1>10, <1>11, <1>12, <1>13 DEF Turns
  <2>4. CASE n = 4
    BY <2>4, <1>7, <1>10, <1>11, <1>12, <1>13 DEF Turns
  <2>5. QED BY <2>1, <2>2, <2>3, <2>4
<1>15. Left(e) = (d.repeat - 0 + 1) + (d.repeat + 1) * After0(e)
  BY <1>4 DEF Left
<1>16. (d.repeat + 1) * (After0(e) + 1) = (d.repeat + 1) + (d.repeat + 1) * After0(e)
       /\ (d.repeat + 1) * After0(e) \in Nat
  BY <1>7, <1>8, OneMore, SMT
<1>17. Left(e) = (d.repeat + 1) * Turns(d, n)
  BY <1>7, <1>14, <1>15, <1>16
<1>18. QED BY <1>4, <1>17 DEF e

\* A mover after some pops, of which it has so many elements left.
After(e, d, k) ==
  /\ Counts(e) /\ Left(e) = Left(d) - k
  /\ e.repeat = d.repeat /\ e.bounds = d.bounds

\* L multiply-adds, one after another, into u accumulators in turn.
Runs(f, m, u, L) == \A t \in 1..L : f[t] = Fma(m, f[t - 1], (t - 1) % u)

\* FREP is one multiply-add after another.
LEMMA FrepRuns ==
  ASSUME NEW m, NEW d, NEW n \in Nat, NEW u \in Nat, n * u \in Nat, NEW acc
  PROVE  \E f : /\ Frep(m, d, n, u, acc) = f[n * u]
                /\ f[0] = [d |-> d, acc |-> acc] /\ Runs(f, m, u, n * u)
<1> DEFINE N == n * u
           s0 == [d |-> d, acc |-> acc]
           Is(f, k) == f = [t \in 0..k |-> IF t = 0 THEN s0 ELSE Fma(m, f[t - 1], (t - 1) % u)]
           f0 == CHOOSE f : Is(f, N)
<1>1. Frep(m, d, n, u, acc) = f0[N]
  BY DEF Frep
<1>2. \E f : Is(f, N)
  <2> DEFINE T == {k \in Nat : \E f : Is(f, k)}
  <2> HIDE DEF N, s0
  <2>1. 0 \in T
    <3> DEFINE f == [t \in 0..0 |-> s0]
    <3>1. Is(f, 0)
      BY SMT
    <3>2. QED BY <3>1
  <2>2. \A k \in T : k + 1 \in T
    <3> SUFFICES ASSUME NEW k \in T PROVE \E f : Is(f, k + 1)
      <4> HIDE DEF Is
      <4> QED OBVIOUS
    <3>1. PICK h : Is(h, k)
      <4> HIDE DEF Is
      <4> QED OBVIOUS
    <3> DEFINE f == [t \in 0..(k + 1) |-> IF t = k + 1 THEN Fma(m, h[k], k % u) ELSE h[t]]
    <3>2. \A t \in 0..k : h[t] = IF t = 0 THEN s0 ELSE Fma(m, h[t - 1], (t - 1) % u)
      BY <3>1
    <3>3. \A t \in 0..(k + 1) : f[t] = IF t = 0 THEN s0 ELSE Fma(m, f[t - 1], (t - 1) % u)
      <4> TAKE t \in 0..(k + 1)
      <4>1. CASE t = k + 1
        <5>1. f[t] = Fma(m, h[k], k % u) /\ t # 0 /\ t - 1 = k /\ f[t - 1] = h[k]
          BY <4>1
        <5>2. QED BY <5>1
      <4>2. CASE t \in 0..k
        <5>1. t # 0 => t - 1 \in 0..k
          BY <4>2
        <5>2. QED BY <4>2, <5>1, <3>2
      <4>3. QED BY <4>1, <4>2
    <3>4. f = [t \in 0..(k + 1) |-> f[t]]
      OBVIOUS
    <3> HIDE DEF f
    <3>5. Is(f, k + 1)
      BY <3>3, <3>4
    <3>6. QED BY <3>5
  <2>3. T = Nat
    BY <2>1, <2>2, Induction
  <2>4. QED BY <2>3 DEF N
<1>3. f0[0] = s0 /\ \A t \in 1..N : f0[t] = Fma(m, f0[t - 1], (t - 1) % u)
  <2>1. Is(f0, N)
    BY <1>2
  <2>2. N \in Nat
    OBVIOUS
  <2> HIDE DEF f0, N
  <2>3. QED BY <2>1, <2>2
<1> HIDE DEF f0
<1>4. QED BY <1>1, <1>3 DEF N, s0, Runs

\* What n replays for so many accumulators leave of the two streams.
LEMMA FrepTakes ==
  ASSUME NEW m, NEW d, d = <<d[1], d[2]>>, Counts(d[1]), Counts(d[2]), NEW n \in Nat, NEW u \in Nat, n * u \in Nat,
         n * u <= Left(d[1]), n * u <= Left(d[2]), NEW acc
  PROVE  LET e == Frep(m, d, n, u, acc).d IN
         /\ e = <<e[1], e[2]>>
         /\ After(e[1], d[1], n * u) /\ After(e[2], d[2], n * u)
<1> DEFINE N == n * u
           s0 == [d |-> d, acc |-> acc]
<1>1. PICK f0 : Frep(m, d, n, u, acc) = f0[N] /\ f0[0] = s0 /\ Runs(f0, m, u, N)
  BY FrepRuns
<1>2. N \in Nat /\ N <= Left(d[1]) /\ N <= Left(d[2])
  OBVIOUS
<1>3. Left(d[1]) \in Nat /\ Left(d[2]) \in Nat
  BY AftersAre DEF Left
<1>5. f0[0] = s0 /\ \A t \in 1..N : f0[t] = Fma(m, f0[t - 1], (t - 1) % u)
  BY <1>1 DEF Runs
<1> HIDE DEF N
<1> DEFINE P(k) == /\ After(f0[k].d[1], d[1], k) /\ After(f0[k].d[2], d[2], k)
                   /\ f0[k].d = <<f0[k].d[1], f0[k].d[2]>>
           T == {k \in Nat : k <= N => P(k)}
<1>6. 0 \in T
  BY <1>3, <1>5 DEF After
<1>7. \A k \in T : k + 1 \in T
  <2> SUFFICES ASSUME NEW k \in T, k + 1 <= N PROVE P(k + 1)
    OBVIOUS
  <2>1. P(k)
    BY <1>2
  <2>2. k + 1 \in 1..N /\ (k + 1) - 1 = k
    BY <1>2
  <2>3. f0[k + 1] = Fma(m, f0[k], k % u)
    BY <1>5, <2>2
  <2>4. f0[k + 1].d = <<Pop(f0[k].d[1]), Pop(f0[k].d[2])>>
    BY <2>3 DEF Fma
  <2>5. ASSUME NEW x, NEW y, After(x, y, k), k + 1 <= Left(y), Left(y) \in Nat
        PROVE  After(Pop(x), y, k + 1)
    <3>1. x.live
      BY <2>5 DEF After, Left
    <3>2. /\ Counts(Pop(x)) /\ Left(Pop(x)) = Left(x) - 1
          /\ Pop(x).repeat = x.repeat /\ Pop(x).bounds = x.bounds
      BY <2>5, <3>1, PopTakesOne DEF After
    <3>3. QED BY <2>5, <3>2 DEF After
  <2>6. k + 1 <= Left(d[1]) /\ k + 1 <= Left(d[2])
    BY <1>2, <1>3
  <2>7. After(Pop(f0[k].d[1]), d[1], k + 1) /\ After(Pop(f0[k].d[2]), d[2], k + 1)
    BY <2>1, <2>5, <2>6, <1>3
  <2>8. QED BY <2>4, <2>7
<1>8. T = Nat
  <2> HIDE DEF P
  <2> QED BY <1>6, <1>7, Induction
<1>9. P(N)
  BY <1>2, <1>8
<1>10. QED BY <1>1, <1>9 DEF N

-----------------------------------------------------------------------------
(* The invariant of the streams.  A call to a streamed product keeps both  *)
(* streams from row to row: what they have left is what the blocks to come *)
(* will take.  Every other call finds and leaves both of them spent.       *)

Names == {"none", "gemm", "gemm_generic", "rvv", "conv", "conv_generic", "mfcc"}

\* The calls that go on from step to step have the fields their kernels change.
GemmFields(g) ==
  g = [fn |-> g.fn, A |-> g.A, B |-> g.B, C |-> g.C, Y |-> g.Y, M |-> g.M, N |-> g.N,
       O |-> g.O, tA |-> g.tA, tB |-> g.tB, i |-> g.i, j |-> g.j]
ConvFields(k) ==
  k = [fn |-> k.fn, A |-> k.A, B |-> k.B, bias |-> k.bias, Y |-> k.Y, C |-> k.C, H |-> k.H,
       W |-> k.W, P |-> k.P, Q |-> k.Q, SP |-> k.SP, SQ |-> k.SQ, has_bias |-> k.has_bias,
       F |-> k.F, f |-> k.f, h |-> k.h, w |-> k.w]
MfccFields(k) ==
  k = [fn |-> k.fn, audio |-> k.audio, Y |-> k.Y, frames |-> k.frames, re |-> k.re,
       im |-> k.im, mel |-> k.mel, at |-> k.at, t |-> k.t, m |-> k.m, off |-> k.off, c |-> k.c]

\* A core's movers: only the kernels' first stream delivers an element twice.
MoversOK(ms) ==
  /\ ms = <<ms[1], ms[2]>>
  /\ Counts(ms[1]) /\ Counts(ms[2]) /\ ms[2].repeat = 0
Spent(ms) == ~ms[1].live /\ ~ms[2].live

\* In row g.i of a streamed product q blocks are done: what the others and
\* those of the rows below take is what the streams have left.
Blocks(g) == g.O \div GEMM_UNROLL
GemmLeft(g, ms) ==
  /\ GemmFields(g) /\ g.fn = "gemm"
  /\ g.N \in Nat /\ g.O \in Nat /\ g.M \in Nat \ {0} /\ g.i \in 0..(g.M - 1) /\ g.j \in Nat
  /\ \E q \in 0..Blocks(g) :
       /\ q < Blocks(g) => g.j = q * GEMM_UNROLL
       /\ q = Blocks(g) => g.j >= Blocks(g) * GEMM_UNROLL
       /\ \A i \in 1..2 :
            Left(ms[i]) = (g.N * GEMM_UNROLL) * ((g.M - 1 - g.i) * Blocks(g) + (Blocks(g) - q))

\* The loops a convolution has programmed, for every pixel to come.
ConvReady(k, ms) ==
  /\ ConvFields(k) /\ k.fn = "conv"
  /\ k.C \in Nat \ {0} /\ k.P \in Nat \ {0} /\ k.Q \in Nat \ {0}
  /\ ms[1].repeat = F_UNROLL - 1
  /\ ms[1].bounds[0] = k.Q - 1 /\ ms[1].bounds[1] = k.P - 1 /\ ms[1].bounds[2] = k.C - 1
  /\ ms[2].bounds[0] = F_UNROLL - 1 /\ ms[2].bounds[1] = Taps(k) - 1

\* The filters an MFCC call counts through are those of the job.
MfccReady(k) ==
  /\ MfccFields(k) /\ k.fn = "mfcc" /\ job.kernel = "mfcc"
  /\ k.at = "mel" => k.m \in 0..(NbMel(job) - 1)

CallOK(k, ms) ==
  /\ k.fn \in Names
  /\ k.fn # "gemm" => Spent(ms)
  /\ k.fn = "gemm" => GemmLeft(k, ms)
  /\ k.fn = "conv" => ConvReady(k, ms)
  /\ k.fn = "mfcc" => MfccReady(k)
  /\ k.fn = "rvv" => GemmFields(k)
  
\* Calls are made by cores let into the job, and only while it runs.
PhaseOK ==
  /\ phase \in {"idle", "stage_in", "run", "stage_out", "done"}
  /\ phase # "idle" => job \in Jobs
  /\ todo \subseteq Cores
  /\ \A c \in Cores : phase # "run" \/ c \in todo => call[c] = NoCall

StreamInv ==
  /\ PhaseOK
  /\ movers = [c \in Cores |-> movers[c]] /\ call = [c \in Cores |-> call[c]]
  /\ \A c \in Cores : MoversOK(movers[c]) /\ CallOK(call[c], movers[c])

\* A step of one core that is in a call, or begins one.
LEMMA CoreStep ==
  ASSUME StreamInv, NEW c \in Cores, phase = "run", todo' \subseteq todo, ~(c \in todo'),
         NEW k, NEW ms, call' = [call EXCEPT ![c] = k], movers' = [movers EXCEPT ![c] = ms],
         phase' = phase, job' = job, MoversOK(ms), CallOK(k, ms)
  PROVE  StreamInv'
<1>1. /\ PhaseOK /\ movers = [x \in Cores |-> movers[x]] /\ call = [x \in Cores |-> call[x]]
      /\ \A x \in Cores : MoversOK(movers[x]) /\ CallOK(call[x], movers[x])
  BY DEF StreamInv
<1>2. /\ \A x \in Cores : /\ call'[x] = IF x = c THEN k ELSE call[x]
                          /\ movers'[x] = IF x = c THEN ms ELSE movers[x]
      /\ movers' = [x \in Cores |-> movers'[x]] /\ call' = [x \in Cores |-> call'[x]]
  BY <1>1
<1>3. PhaseOK'
  BY <1>1, <1>2 DEF PhaseOK
<1>4. ASSUME NEW x \in Cores PROVE MoversOK(movers'[x]) /\ CallOK(call'[x], movers'[x])
  BY <1>1, <1>2
<1>5. ASSUME NEW x, NEW y, CallOK(x, y) PROVE CallOK(x, y)'
  BY <1>5 DEF CallOK, GemmLeft, ConvReady, MfccReady, Blocks
<1>6. QED BY <1>2, <1>3, <1>4, <1>5 DEF StreamInv

\* A step that leaves every call and every stream alone.
LEMMA CoresRest ==
  ASSUME StreamInv, PhaseOK', movers' = movers, call' = call,
         \A c \in Cores : job' = job \/ call[c] = NoCall
  PROVE  StreamInv'
<1>1. /\ movers = [x \in Cores |-> movers[x]] /\ call = [x \in Cores |-> call[x]]
      /\ \A x \in Cores : MoversOK(movers[x]) /\ CallOK(call[x], movers[x])
  BY DEF StreamInv
<1>2. ASSUME NEW x \in Cores PROVE CallOK(call[x], movers[x])'
  <2>1. CASE job' = job
    BY <2>1, <1>1 DEF CallOK, GemmLeft, ConvReady, MfccReady, Blocks
  <2>2. CASE call[x] = NoCall
    BY <2>2, <1>1 DEF CallOK, NoCall, Names
  <2>3. QED BY <2>1, <2>2
<1>3. QED BY <1>1, <1>2 DEF StreamInv

\* A core with no call to go on with.
LEMMA NoCallOK ==
  ASSUME NEW ms, Spent(ms)
  PROVE  CallOK(NoCall, ms)
BY DEF CallOK, NoCall, Names

\* A mover with nothing left is spent.
LEMMA NothingLeft ==
  ASSUME NEW ms, MoversOK(ms), Left(ms[1]) = 0, Left(ms[2]) = 0
  PROVE  Spent(ms)
<1>1. ASSUME NEW d, Counts(d), d.live PROVE Left(d) # 0
  BY <1>1, AftersAre
<1>2. QED BY <1>1 DEF Spent, MoversOK

LEMMA StreamInitially == Init => StreamInv
<1> SUFFICES ASSUME Init PROVE StreamInv
  OBVIOUS
<1>1. Counts(ResetMover) /\ ResetMover.repeat = 0 /\ ~ResetMover.live
  <2>1. /\ [l \in Levels |-> 0] \in [Levels -> Nat]
    BY Zenon
  <2> DEFINE Z == [l \in Levels |-> 0]
  <2> HIDE DEF Z
  <2>2. ResetMover = [bounds |-> Z, strides |-> Z, repeat |-> 0, dims |-> 1, ptr |-> 0,
                      idx |-> Z, rep |-> 0, live |-> FALSE, starved |-> FALSE]
    BY DEF ResetMover, Z
  <2>3. Z \in [Levels -> Nat]
    BY <2>1 DEF Z
  <2>4. QED BY <2>2, <2>3 DEF Counts
<1> DEFINE ms == <<ResetMover, ResetMover>>
<1> HIDE DEF ResetMover
<1>2. MoversOK(ms) /\ Spent(ms)
  BY <1>1 DEF MoversOK, Spent
<1> HIDE DEF ms
<1>3. movers = [c \in Cores |-> ms] /\ call = [c \in Cores |-> NoCall]
  BY DEF Init, ms
<1>4. PhaseOK
  BY <1>3 DEF Init, PhaseOK
<1>5. CallOK(NoCall, ms)
  BY <1>2, NoCallOK
<1>6. QED BY <1>2, <1>3, <1>4, <1>5 DEF StreamInv

-----------------------------------------------------------------------------
(* Streamed products.                                                      *)

\* A core's share of n items is some of them.
LEMMA ShareWithin ==
  ASSUME NEW n \in Nat, NEW c \in Cores
  PROVE  /\ slice_first(n, c, NbCompute) \in Nat /\ slice_last(n, c, NbCompute) \in Nat
         /\ slice_first(n, c, NbCompute) <= slice_last(n, c, NbCompute)
         /\ slice_last(n, c, NbCompute) <= n
<1>1. NbCompute \in Nat \ {0} /\ c \in Nat /\ c <= NbCompute - 1 /\ NbCompute - 1 \in Nat
  BY MachineAssumption DEF Cores
<1>2. /\ slice_first(n, c, NbCompute) \in Nat /\ slice_last(n, c, NbCompute) \in Nat
      /\ slice_first(n, c, NbCompute) <= slice_last(n, c, NbCompute)
  BY <1>1, SlicesDoNotMeet, c + 1 \in Nat, c < c + 1
<1>3. slice_last(n, NbCompute - 1, NbCompute) = n
  BY <1>1, SlicesFollow
<1>4. CASE c = NbCompute - 1
  BY <1>2, <1>3, <1>4
<1>5. CASE c < NbCompute - 1
  <2>1. slice_last(n, c, NbCompute) <= slice_first(n, NbCompute - 1, NbCompute)
    BY <1>1, <1>5, SlicesDoNotMeet
  <2>2. /\ slice_first(n, NbCompute - 1, NbCompute) \in Nat
        /\ slice_first(n, NbCompute - 1, NbCompute) <= slice_last(n, NbCompute - 1, NbCompute)
    <3>1. NbCompute \in Nat /\ NbCompute - 1 < NbCompute
      BY <1>1
    <3>2. QED BY <3>1, <1>1, SlicesDoNotMeet
  <2>3. QED BY <1>2, <1>3, <2>1, <2>2
<1>6. QED BY <1>1, <1>2, <1>4, <1>5

\* The share of a product that a core is called with.
LEMMA GemmShareIs ==
  ASSUME NEW c \in Cores, job \in Jobs, job.kernel \in {"matmul", "gemm"},
         ~(GemmRows(c).last <= GemmRows(c).first), NEW fn
  PROVE  LET g == GemmShare(c, fn) IN
         /\ GemmFields(g) /\ g.fn = fn /\ g.i = 0 /\ g.j = 0
         /\ g.M \in 1..Word /\ g.N = job.N /\ g.O = job.O
         /\ g.N \in 0..(Word - 1) /\ g.O \in 0..(Word - 1)
<1> DEFINE g == GemmShare(c, fn)
           r == GemmRows(c)
<1>1. job.M \in 0..(Word - 1) /\ job.N \in 0..(Word - 1) /\ job.O \in 0..(Word - 1)
  BY JobsAssumption DEF Extents
<1>2. r.last \in Nat /\ r.first \in Nat /\ r.last <= job.M
  <2>1. CASE job.kernel = "gemm" /\ job.tA
    BY <2>1, <1>1 DEF GemmRows
  <2>2. CASE ~(job.kernel = "gemm" /\ job.tA)
    <3>1. /\ r.first = slice_first(job.M, c, NbCompute)
          /\ r.last = slice_last(job.M, c, NbCompute)
      BY <2>2 DEF GemmRows
    <3>2. QED BY <3>1, <1>1, ShareWithin
  <2>3. QED BY <2>1, <2>2
<1>3. /\ GemmFields(g) /\ g.fn = fn /\ g.i = 0 /\ g.j = 0 /\ g.M = r.last - r.first
      /\ g.N = job.N /\ g.O = job.O
  BY DEF GemmShare, GemmFields
<1> HIDE DEF g, r
<1>4. g.M \in 1..Word
  BY <1>1, <1>2, <1>3, WordAssumption DEF r
<1>5. QED BY <1>1, <1>3, <1>4 DEF g

\* A product of four counts, taken in the order either stream takes them.
LEMMA SameProduct ==
  ASSUME NEW u \in Nat, NEW n \in Nat, NEW b \in Nat, NEW m \in Nat
  PROVE  /\ u * (n * (b * m)) = (n * u) * (m * b)
         /\ b * m \in Nat /\ n * (b * m) \in Nat /\ u * (n * (b * m)) \in Nat
<1>1. b * m \in Nat /\ b * m = m * b
  BY SMT
<1> DEFINE x == b * m
<1> HIDE DEF x
<1>2. x \in Nat
  BY <1>1 DEF x
<1>3. u * (n * x) = (n * u) * x /\ n * x \in Nat /\ u * (n * x) \in Nat
  BY <1>2, SMT
<1>4. QED BY <1>1, <1>3 DEF x

\* Both streams of a product begin with what all its blocks take.
LEMMA GemmStart ==
  ASSUME NEW ms, MoversOK(ms), Spent(ms), NEW g, g.N \in 1..Word, g.M \in 1..Word,
         g.O \in Nat, Blocks(g) \in 1..Word
  PROVE  LET e == GemmStreams(ms, g) IN
         /\ MoversOK(e)
         /\ \A i \in 1..2 : Left(e[i]) = (g.N * GEMM_UNROLL) * (g.M * Blocks(g))
<1> DEFINE e == GemmStreams(ms, g)
           U == GEMM_UNROLL
           B == Blocks(g)
<1>1. U \in 1..Word
  BY MachineAssumption
<1>2. PICK s1, s2 : e = <<Arm(Repeat(Loop(ms[1], <<g.N, B, g.M>>, s1), U), 3, g.A),
                          Arm(Loop(ms[2], <<U, g.N, B, g.M>>, s2), 4, g.B)>>
  BY DEF GemmStreams, GemmLoops, Blocks
<1> HIDE DEF e, U, B
<1> DEFINE b1 == <<g.N, B, g.M>>
           b2 == <<U, g.N, B, g.M>>
           a1 == Loop(ms[1], b1, s1)
           a2 == Loop(ms[2], b2, s2)
           r1 == Repeat(a1, U)
<1>3. g.N \in 1..Word /\ B \in 1..Word /\ g.M \in 1..Word
  BY DEF B
<1>4. /\ Len(b1) = 3 /\ b1[1] = g.N /\ b1[2] = B /\ b1[3] = g.M
      /\ Len(b2) = 4 /\ b2[1] = U /\ b2[2] = g.N /\ b2[3] = B /\ b2[4] = g.M
  OBVIOUS
<1> HIDE DEF b1, b2
<1>5. /\ Counts(a1) /\ ~a1.live /\ a1.bounds[0] = g.N - 1 /\ a1.bounds[1] = B - 1
      /\ a1.bounds[2] = g.M - 1
  <2>1. \A l \in 0..2 : b1[l + 1] \in 1..Word
    BY <1>3, <1>4
  <2>2. /\ Counts(a1) /\ ~a1.live /\ \A l \in 0..2 : a1.bounds[l] = b1[l + 1] - 1
    <3>1. Counts(ms[1]) /\ ~ms[1].live /\ 3 \in 1..4 /\ 3 - 1 = 2
      BY DEF MoversOK, Spent
    <3>2. QED BY <3>1, <2>1, <1>4, LoopIs
  <2> HIDE DEF a1
  <2>3. QED BY <2>2, <1>4
<1>6. /\ Counts(a2) /\ ~a2.live /\ a2.repeat = 0 /\ a2.bounds[0] = U - 1
      /\ a2.bounds[1] = g.N - 1 /\ a2.bounds[2] = B - 1 /\ a2.bounds[3] = g.M - 1
  <2>1. \A l \in 0..3 : b2[l + 1] \in 1..Word
    BY <1>1, <1>3, <1>4
  <2>2. /\ Counts(a2) /\ ~a2.live /\ a2.repeat = 0 /\ \A l \in 0..3 : a2.bounds[l] = b2[l + 1] - 1
    <3>1. Counts(ms[2]) /\ ~ms[2].live /\ ms[2].repeat = 0 /\ 4 \in 1..4 /\ 4 - 1 = 3
      BY DEF MoversOK, Spent
    <3>2. QED BY <3>1, <2>1, <1>4, LoopIs
  <2> HIDE DEF a2
  <2>3. QED BY <2>2, <1>4
<1> HIDE DEF a1, a2
<1>7. Counts(r1) /\ ~r1.live /\ r1.repeat = U - 1 /\ r1.bounds = a1.bounds
  BY <1>1, <1>5, RepeatIs
<1> HIDE DEF r1
<1> DEFINE e1 == Arm(r1, 3, g.A)
           e2 == Arm(a2, 4, g.B)
<1>8. Counts(e1) /\ Left(e1) = (r1.repeat + 1) * Turns(r1, 3)
  BY <1>7, ArmIs, 3 \in 1..4
<1>9. Counts(e2) /\ e2.repeat = 0 /\ Left(e2) = (a2.repeat + 1) * Turns(a2, 4)
  BY <1>6, ArmIs, 4 \in 1..4
<1> HIDE DEF e1, e2
<1>10. e = <<e1, e2>>
  BY <1>2 DEF e1, e2, r1, a1, a2, b1, b2
<1>11. Turns(r1, 3) = g.N * (B * g.M)
  <2>1. /\ r1.bounds[0] + 1 = g.N /\ r1.bounds[1] + 1 = B /\ r1.bounds[2] + 1 = g.M
    BY <1>3, <1>5, <1>7
  <2>2. Turns(r1, 3) = (r1.bounds[0] + 1) * ((r1.bounds[1] + 1) * (r1.bounds[2] + 1))
    BY DEF Turns
  <2>3. QED BY <2>1, <2>2
<1>12. Turns(a2, 4) = U * (g.N * (B * g.M))
  <2>1. /\ a2.bounds[0] + 1 = U /\ a2.bounds[1] + 1 = g.N /\ a2.bounds[2] + 1 = B
        /\ a2.bounds[3] + 1 = g.M
    BY <1>1, <1>3, <1>6
  <2>2. Turns(a2, 4) = (a2.bounds[0] + 1) * ((a2.bounds[1] + 1)
                         * ((a2.bounds[2] + 1) * (a2.bounds[3] + 1)))
    BY DEF Turns
  <2>3. QED BY <2>1, <2>2
<1>13. /\ U * (g.N * (B * g.M)) = (g.N * U) * (g.M * B) /\ g.N * (B * g.M) \in Nat
       /\ U * (g.N * (B * g.M)) \in Nat
  BY <1>1, <1>3, SameProduct
<1>14. r1.repeat + 1 = U /\ a2.repeat + 1 = 1
  BY <1>1, <1>6, <1>7
<1>15. Left(e1) = (g.N * U) * (g.M * B)
  BY <1>8, <1>11, <1>13, <1>14
<1>16. Left(e2) = (g.N * U) * (g.M * B)
  BY <1>9, <1>12, <1>13, <1>14
<1>17. QED BY <1>8, <1>9, <1>10, <1>15, <1>16 DEF MoversOK, e, U, B

\* A product's call moved to another element.
MovedTo(g, i, j) == [g EXCEPT !.i = i, !.j = j]
LEMMA GemmMoved ==
  ASSUME NEW g, GemmFields(g), NEW i, NEW j
  PROVE  LET h == MovedTo(g, i, j) IN
         /\ GemmFields(h) /\ h.fn = g.fn /\ h.M = g.M /\ h.N = g.N /\ h.O = g.O
         /\ h.i = i /\ h.j = j
<1> DEFINE h1 == [g EXCEPT !.i = i]
           h2 == [h1 EXCEPT !.j = j]
<1>1. h1 = [fn |-> g.fn, A |-> g.A, B |-> g.B, C |-> g.C, Y |-> g.Y, M |-> g.M, N |-> g.N,
            O |-> g.O, tA |-> g.tA, tB |-> g.tB, i |-> i, j |-> g.j]
  BY DEF GemmFields
<1> HIDE DEF h1
<1>2. h2 = [fn |-> g.fn, A |-> g.A, B |-> g.B, C |-> g.C, Y |-> g.Y, M |-> g.M, N |-> g.N,
            O |-> g.O, tA |-> g.tA, tB |-> g.tB, i |-> i, j |-> j]
  BY <1>1
<1> HIDE DEF h2
<1>3. /\ GemmFields(h2) /\ h2.fn = g.fn /\ h2.M = g.M /\ h2.N = g.N /\ h2.O = g.O
      /\ h2.i = i /\ h2.j = j
  BY <1>2 DEF GemmFields
<1>4. h2 = MovedTo(g, i, j)
  BY DEF h1, h2, MovedTo
<1>5. QED BY <1>3, <1>4

\* What the loops of a product go on to after n columns of row g.i, when q1
\* blocks of the row are done.
LEMMA ColumnsGoOn ==
  ASSUME NEW g, NEW ms, MoversOK(ms), GemmFields(g), g.fn = "gemm", g.N \in Nat, g.O \in Nat,
         g.M \in Nat \ {0}, g.i \in 0..(g.M - 1), g.j \in Nat, NEW n \in Nat \ {0},
         NEW q \in 0..Blocks(g), q < Blocks(g) => g.j + n = q * GEMM_UNROLL,
         q = Blocks(g) => g.j + n >= Blocks(g) * GEMM_UNROLL,
         \A i \in 1..2 :
            Left(ms[i]) = (g.N * GEMM_UNROLL) * ((g.M - 1 - g.i) * Blocks(g) + (Blocks(g) - q))
  PROVE  CallOK(AfterColumns(g, n), ms)
<1> DEFINE U == GEMM_UNROLL
           B == Blocks(g)
<1>1. U \in Nat \ {0} /\ B \in Nat /\ B * U \in Nat /\ B * U <= g.O
  <2>1. U \in Nat \ {0}
    BY MachineAssumption
  <2>2. g.O = U * B + (g.O % U) /\ g.O % U \in 0..(U - 1) /\ B \in Nat
    BY <2>1, Division DEF Blocks
  <2> HIDE DEF B, U
  <2>3. U * B = B * U /\ B * U \in Nat
    BY <2>1, <2>2, SMT
  <2>4. QED BY <2>1, <2>2, <2>3
<1>2. CASE g.j + n < g.O
  <2> DEFINE k == [g EXCEPT !.j = g.j + n]
  <2>1. AfterColumns(g, n) = k
    BY <1>2 DEF AfterColumns
  <2>2. /\ GemmFields(k) /\ k.fn = "gemm" /\ k.N = g.N /\ k.O = g.O /\ k.M = g.M /\ k.i = g.i
        /\ k.j = g.j + n
    BY DEF GemmFields
  <2> HIDE DEF k
  <2>3. GemmLeft(k, ms)
    <3>1. Blocks(k) = Blocks(g)
      BY <2>2 DEF Blocks
    <3>2. QED BY <2>2, <3>1 DEF GemmLeft
  <2>4. QED BY <2>1, <2>2, <2>3 DEF CallOK, Names
<1>3. CASE ~(g.j + n < g.O)
  <2>1. q = B
    <3>1. SUFFICES ASSUME q < B PROVE FALSE
      <4>1. q \in 0..B
        OBVIOUS
      <4> HIDE DEF B
      <4>2. QED BY <4>1, <1>1
    <3>2. q \in Nat /\ q + 1 <= B /\ (q + 1) * U <= B * U /\ q * U + 1 * U = (q + 1) * U
          /\ q * U \in Nat
      BY <3>1, <1>1, Scaling
    <3>3. g.j + n = q * U
      BY <3>1
    <3> HIDE DEF U, B
    <3>4. 1 * U = U
      BY <1>1
    <3>5. QED BY <3>2, <3>3, <3>4, <1>1, <1>3
  <2>2. \A i \in 1..2 : Left(ms[i]) = (g.N * U) * ((g.M - 1 - g.i) * B)
    <3>1. (g.M - 1 - g.i) * B \in Nat
      <4>1. g.M - 1 - g.i \in Nat
        OBVIOUS
      <4> HIDE DEF B
      <4>2. QED BY <4>1, <1>1, Scaling
    <3>2. (g.M - 1 - g.i) * B + (B - q) = (g.M - 1 - g.i) * B
      BY <3>1, <2>1, <1>1
    <3>3. QED BY <3>2
  <2>3. CASE g.i + 1 < g.M
    <3> DEFINE k == MovedTo(g, g.i + 1, 0)
    <3>1. AfterColumns(g, n) = k
      BY <1>3, <2>3, Zenon DEF AfterColumns, MovedTo
    <3>2. /\ GemmFields(k) /\ k.fn = "gemm" /\ k.N = g.N /\ k.O = g.O /\ k.M = g.M
          /\ k.i = g.i + 1 /\ k.j = 0
      BY GemmMoved
    <3> HIDE DEF k
    <3>3. Blocks(k) = B
      BY <3>2 DEF Blocks
    <3>4. (g.M - 1 - k.i) * B + (B - 0) = (g.M - 1 - g.i) * B
      <4> DEFINE x == g.M - 1 - k.i
      <4>1. x \in Nat /\ g.M - 1 - g.i = x + 1
        BY <2>3, <3>2
      <4> HIDE DEF x, B
      <4>2. x * B + 1 * B = (x + 1) * B /\ x * B \in Nat /\ 1 * B = B /\ B - 0 = B
        BY <4>1, <1>1, Scaling
      <4>3. QED BY <4>1, <4>2 DEF x
    <3>5. 0 * U = 0 /\ 0 \in 0..B
      BY <1>1
    <3>6. k.i \in 0..(g.M - 1)
      BY <2>3, <3>2
    <3> HIDE DEF U, B
    <3>7. /\ 0 < B => k.j = 0 * U
          /\ 0 = B => k.j >= B * U
          /\ \A i \in 1..2 : Left(ms[i]) = (k.N * U) * ((k.M - 1 - k.i) * B + (B - 0))
      <4>1. 0 = B => B * U = 0
        BY <3>5
      <4>2. 0 = B => k.j >= B * U
        BY <4>1, <3>2
      <4>3. QED BY <4>2, <2>2, <3>2, <3>4, <3>5
    <3>8. GemmLeft(k, ms)
      BY <3>2, <3>3, <3>5, <3>6, <3>7 DEF GemmLeft, U
    <3>9. QED BY <3>1, <3>2, <3>8 DEF CallOK, Names
  <2>4. CASE ~(g.i + 1 < g.M)
    <3>1. AfterColumns(g, n) = NoCall
      BY <1>3, <2>4 DEF AfterColumns
    <3>2. g.M - 1 - g.i = 0
      BY <2>4
    <3>3. 0 * B = 0 /\ (g.N * U) * 0 = 0
      <4>1. g.N * U \in Nat
        BY <1>1, Scaling
      <4> DEFINE x == g.N * U
      <4> HIDE DEF x, B
      <4>2. x \in Nat
        BY <4>1 DEF x
      <4>3. 0 * B = 0 /\ x * 0 = 0
        BY <4>2, <1>1
      <4>4. QED BY <4>3 DEF x
    <3>4. Left(ms[1]) = 0 /\ Left(ms[2]) = 0
      BY <2>2, <3>2, <3>3
    <3>5. QED BY <3>1, <3>4, NothingLeft, NoCallOK
  <2>5. QED BY <2>3, <2>4
<1>4. QED BY <1>2, <1>3

\* In a step of a core in a call the job runs, and the call and the streams are
\* as the invariant says.
LEMMA InCall ==
  ASSUME StreamInv, NEW c \in Cores, call[c].fn # "none"
  PROVE  /\ phase = "run" /\ ~(c \in todo) /\ job \in Jobs
         /\ MoversOK(movers[c]) /\ CallOK(call[c], movers[c])
         /\ movers = [movers EXCEPT ![c] = movers[c]]
<1>1. PhaseOK /\ movers = [x \in Cores |-> movers[x]]
  BY DEF StreamInv
<1>2. call[c] # NoCall
  BY DEF NoCall
<1>3. movers = [movers EXCEPT ![c] = movers[c]]
  BY <1>1
<1>4. QED BY <1>1, <1>2, <1>3 DEF StreamInv, PhaseOK

\* Steps that leave the streams and end the call.
LEMMA CallEnds ==
  ASSUME StreamInv, NEW c \in Cores, call[c].fn \notin {"none", "gemm"},
         Enter(c, NoCall), UNCHANGED movers, Held
  PROVE  StreamInv'
<1>1. /\ phase = "run" /\ ~(c \in todo) /\ MoversOK(movers[c]) /\ CallOK(call[c], movers[c])
      /\ movers = [movers EXCEPT ![c] = movers[c]]
  BY InCall
<1>2. CallOK(NoCall, movers[c])
  BY <1>1, NoCallOK DEF CallOK
<1>3. phase' = phase /\ job' = job /\ todo' = todo
  BY DEF Held
<1>4. QED BY <1>1, <1>2, <1>3, CoreStep DEF Enter

LEMMA GemmBlockStreams ==
  ASSUME StreamInv, NEW c \in Cores, GemmBlock(c)
  PROVE  StreamInv'
<1> DEFINE g == call[c]
           ms == movers[c]
           B == Blocks(g)
           U == GEMM_UNROLL
<1>1. g.fn = "gemm" /\ phase' = phase /\ job' = job /\ todo' = todo
  BY DEF GemmBlock, In, Held
<1>2. /\ phase = "run" /\ ~(c \in todo) /\ MoversOK(ms) /\ GemmLeft(g, ms)
  <2>1. phase = "run" /\ ~(c \in todo) /\ MoversOK(ms) /\ CallOK(g, ms)
    BY <1>1, InCall
  <2>2. QED BY <2>1, <1>1 DEF CallOK
<1>3. PICK start :
        /\ g.j < B * U
        /\ movers' = [movers EXCEPT ![c] = Frep(mem, ms, g.N, U, start).d]
        /\ call' = [call EXCEPT ![c] = AfterColumns(g, U)]
  BY DEF GemmBlock, Blocks, Enter
<1> DEFINE e == Frep(mem, ms, g.N, U, start).d
<1> HIDE DEF g, ms, B, U
<1>4. /\ GemmFields(g) /\ g.N \in Nat /\ g.O \in Nat /\ g.M \in Nat \ {0}
      /\ g.i \in 0..(g.M - 1) /\ g.j \in Nat
  BY <1>2 DEF GemmLeft
<1>5. PICK q \in 0..B :
        /\ q < B => g.j = q * U
        /\ q = B => g.j >= B * U
        /\ \A i \in 1..2 : Left(ms[i]) = (g.N * U) * ((g.M - 1 - g.i) * B + (B - q))
  BY <1>2 DEF GemmLeft, B, U
<1>6. U \in Nat \ {0} /\ B \in Nat
  <2>1. U \in Nat \ {0}
    BY MachineAssumption DEF U
  <2>2. QED BY <2>1, <1>4, Division DEF B, Blocks, U
<1>7. B * U \in Nat
  BY <1>6, Scaling
<1>8. q < B /\ q + 1 \in 0..B
  BY <1>3, <1>4, <1>5, <1>6, <1>7
<1> DEFINE x == (g.M - 1 - g.i) * B + (B - q)
           y == (g.M - 1 - g.i) * B + (B - (q + 1))
<1>9. x \in Nat /\ y \in Nat /\ x = y + 1
  <2>1. (g.M - 1 - g.i) * B \in Nat
    BY <1>4, <1>6, Scaling
  <2>2. QED BY <2>1, <1>6, <1>8
<1>10. /\ g.N * U \in Nat /\ (g.N * U) * x = (g.N * U) * y + g.N * U
       /\ (g.N * U) * y \in Nat
  <2>1. g.N * U \in Nat
    BY <1>4, <1>6, Scaling
  <2> DEFINE z == g.N * U
  <2> HIDE DEF x, y, z
  <2>2. z * (y + 1) = z * y + z /\ z * y \in Nat
    BY <2>1, <1>9, SMT DEF z
  <2>3. QED BY <2>1, <2>2, <1>9 DEF z
<1> HIDE DEF x, y
<1>11. Left(ms[1]) = (g.N * U) * x /\ Left(ms[2]) = (g.N * U) * x
  BY <1>5 DEF x
<1>12. ms = <<ms[1], ms[2]>> /\ Counts(ms[1]) /\ Counts(ms[2]) /\ ms[2].repeat = 0
  BY <1>2 DEF MoversOK
<1>13. /\ e = <<e[1], e[2]>>
       /\ After(e[1], ms[1], g.N * U) /\ After(e[2], ms[2], g.N * U)
  <2>1. g.N * U <= Left(ms[1]) /\ g.N * U <= Left(ms[2])
    BY <1>10, <1>11
  <2>2. QED BY <2>1, <1>4, <1>6, <1>10, <1>12, FrepTakes
<1> HIDE DEF e
<1>15. MoversOK(e)
  BY <1>12, <1>13 DEF MoversOK, After
<1>16. \A i \in 1..2 : Left(e[i]) = (g.N * U) * y
  <2>1. Left(e[1]) = (g.N * U) * y
    BY <1>10, <1>11, <1>13 DEF After
  <2>2. Left(e[2]) = (g.N * U) * y
    BY <1>10, <1>11, <1>13 DEF After
  <2>3. QED BY <2>1, <2>2
<1>17. g.j + U = (q + 1) * U
  <2>1. q * U + 1 * U = (q + 1) * U /\ 1 * U = U /\ q \in Nat
    BY <1>6, <1>8, Scaling
  <2>2. QED BY <2>1, <1>5, <1>8
<1>18. CallOK(AfterColumns(g, U), e)
  <2>1. /\ q + 1 < B => g.j + U = (q + 1) * U
        /\ q + 1 = B => g.j + U >= B * U
    BY <1>7, <1>17
  <2>2. \A i \in 1..2 : Left(e[i]) = (g.N * GEMM_UNROLL)
                          * ((g.M - 1 - g.i) * Blocks(g) + (Blocks(g) - (q + 1)))
    BY <1>16 DEF y, B, U
  <2>3. QED BY <2>1, <2>2, <1>1, <1>4, <1>6, <1>8, <1>15, ColumnsGoOn DEF B, U
<1>19. movers' = [movers EXCEPT ![c] = e] /\ call' = [call EXCEPT ![c] = AfterColumns(g, U)]
  BY <1>3 DEF e
<1>20. QED BY <1>1, <1>2, <1>15, <1>18, <1>19, CoreStep

LEMMA GemmTailStreams ==
  ASSUME StreamInv, NEW c \in Cores, GemmTail(c)
  PROVE  StreamInv'
<1> DEFINE g == call[c]
           ms == movers[c]
           B == Blocks(g)
           U == GEMM_UNROLL
<1>1. /\ g.fn = "gemm" /\ phase' = phase /\ job' = job /\ todo' = todo /\ movers' = movers
      /\ g.j >= B * U /\ call' = [call EXCEPT ![c] = AfterColumns(g, 1)]
  BY DEF GemmTail, In, Held, Enter, Blocks
<1>2. /\ phase = "run" /\ ~(c \in todo) /\ MoversOK(ms) /\ GemmLeft(g, ms)
      /\ movers = [movers EXCEPT ![c] = ms]
  <2>1. /\ phase = "run" /\ ~(c \in todo) /\ MoversOK(ms) /\ CallOK(g, ms)
        /\ movers = [movers EXCEPT ![c] = ms]
    BY <1>1, InCall
  <2>2. QED BY <2>1, <1>1 DEF CallOK
<1> HIDE DEF g, ms, B, U
<1>3. /\ GemmFields(g) /\ g.N \in Nat /\ g.O \in Nat /\ g.M \in Nat \ {0}
      /\ g.i \in 0..(g.M - 1) /\ g.j \in Nat
  BY <1>2 DEF GemmLeft
<1>4. PICK q \in 0..B :
        /\ q < B => g.j = q * U
        /\ q = B => g.j >= B * U
        /\ \A i \in 1..2 : Left(ms[i]) = (g.N * U) * ((g.M - 1 - g.i) * B + (B - q))
  BY <1>2 DEF GemmLeft, B, U
<1>5. U \in Nat \ {0} /\ B \in Nat
  <2>1. U \in Nat \ {0}
    BY MachineAssumption DEF U
  <2>2. QED BY <2>1, <1>3, Division DEF B, Blocks, U
<1>6. B * U \in Nat
  BY <1>5, Scaling
<1>7. q = B
  <2>1. SUFFICES ASSUME q < B PROVE FALSE
    BY <1>5
  <2>2. q \in Nat /\ q + 1 <= B /\ (q + 1) * U <= B * U /\ q * U + 1 * U = (q + 1) * U
        /\ q * U \in Nat /\ 1 * U = U
    BY <2>1, <1>5, Scaling
  <2>3. QED BY <2>1, <2>2, <1>1, <1>4, <1>5, <1>6
<1>8. CallOK(AfterColumns(g, 1), ms)
  <2>1. /\ q < B => g.j + 1 = q * U
        /\ q = B => g.j + 1 >= B * U
    BY <1>1, <1>3, <1>6, <1>7
  <2>2. \A i \in 1..2 : Left(ms[i]) = (g.N * GEMM_UNROLL)
                          * ((g.M - 1 - g.i) * Blocks(g) + (Blocks(g) - q))
    BY <1>4 DEF B, U
  <2>3. QED BY <2>1, <2>2, <1>1, <1>2, <1>3, ColumnsGoOn DEF B, U
<1>9. movers' = [movers EXCEPT ![c] = ms] /\ call' = [call EXCEPT ![c] = AfterColumns(g, 1)]
  BY <1>1, <1>2
<1>10. QED BY <1>1, <1>2, <1>8, <1>9, CoreStep

LEMMA GemmGenericStreams ==
  ASSUME StreamInv, NEW c \in Cores, GemmGeneric(c)
  PROVE  StreamInv'
<1>1. call[c].fn = "gemm_generic" /\ Enter(c, NoCall) /\ UNCHANGED movers /\ Held
  BY DEF GemmGeneric, In
<1>2. QED BY <1>1, CallEnds

LEMMA RvvStreams ==
  ASSUME StreamInv, NEW c \in Cores, RvvBlock(c)
  PROVE  StreamInv'
<1> DEFINE g == call[c]
<1>1. /\ g.fn = "rvv" /\ movers' = movers /\ phase' = phase /\ job' = job /\ todo' = todo
  BY DEF RvvBlock, In, Held
<1>2. PICK vl : call' = [call EXCEPT ![c] = IF g.j + vl < g.O THEN [g EXCEPT !.j = g.j + vl]
                                     ELSE IF g.i + ROWS < g.M
                                          THEN MovedTo(g, g.i + ROWS, 0)
                                          ELSE NoCall]
  BY Zenon DEF RvvBlock, Enter, MovedTo
<1>3. /\ phase = "run" /\ ~(c \in todo) /\ MoversOK(movers[c]) /\ CallOK(g, movers[c])
      /\ movers = [movers EXCEPT ![c] = movers[c]]
  BY <1>1, InCall
<1> DEFINE k == IF g.j + vl < g.O THEN [g EXCEPT !.j = g.j + vl]
                ELSE IF g.i + ROWS < g.M THEN MovedTo(g, g.i + ROWS, 0) ELSE NoCall
<1> HIDE DEF g
<1>4. GemmFields(g) /\ Spent(movers[c])
  BY <1>1, <1>3 DEF CallOK
<1>5. k = NoCall \/ (k.fn = "rvv" /\ GemmFields(k))
  <2>1. ASSUME NEW i, NEW j
        PROVE  MovedTo(g, i, j).fn = "rvv" /\ GemmFields(MovedTo(g, i, j))
    BY <1>1, <1>4, GemmMoved
  <2>2. ASSUME NEW j
        PROVE  LET h == [g EXCEPT !.j = j] IN h.fn = "rvv" /\ GemmFields(h)
    BY <1>1, <1>4 DEF GemmFields
  <2>3. QED BY <2>1, <2>2
<1>6. call' = [call EXCEPT ![c] = k]
  BY <1>2 DEF g
<1> HIDE DEF k
<1>7. CallOK(k, movers[c])
  <2>1. CASE k = NoCall
    BY <2>1, <1>4, NoCallOK
  <2>2. CASE k.fn = "rvv" /\ GemmFields(k)
    BY <2>2, <1>4 DEF CallOK, Names
  <2>3. QED BY <2>1, <2>2, <1>5
<1>8. movers' = [movers EXCEPT ![c] = movers[c]]
  BY <1>1, <1>3
<1>9. QED BY <1>1, <1>3, <1>6, <1>7, <1>8, CoreStep

-----------------------------------------------------------------------------
(* The calls of a job.                                                     *)

\* A core that has not made its call has spent its streams.
LEMMA BeforeTheCall ==
  ASSUME StreamInv, NEW c \in todo, phase = "run"
  PROVE  /\ c \in Cores /\ job \in Jobs /\ call[c] = NoCall
         /\ MoversOK(movers[c]) /\ Spent(movers[c])
         /\ movers = [movers EXCEPT ![c] = movers[c]]
<1>1. c \in Cores /\ job \in Jobs /\ call[c] = NoCall
  BY DEF StreamInv, PhaseOK
<1>2. MoversOK(movers[c]) /\ CallOK(call[c], movers[c]) /\ movers = [x \in Cores |-> movers[x]]
  BY <1>1 DEF StreamInv
<1>3. movers = [movers EXCEPT ![c] = movers[c]]
  BY <1>1, <1>2
<1>4. Spent(movers[c])
  BY <1>1, <1>2 DEF CallOK, NoCall
<1>5. QED BY <1>1, <1>2, <1>3, <1>4

\* A product whose streams have just been programmed is in row 0, block 0.
LEMMA GemmBegins ==
  ASSUME NEW ms, MoversOK(ms), Spent(ms), NEW g, GemmFields(g), g.fn = "gemm", g.i = 0, g.j = 0,
         g.N \in 0..(Word - 1), g.O \in 0..(Word - 1), g.M \in 1..Word, g.N # 0,
         g.O >= GEMM_UNROLL
  PROVE  MoversOK(GemmStreams(ms, g)) /\ CallOK(g, GemmStreams(ms, g))
<1> DEFINE e == GemmStreams(ms, g)
           U == GEMM_UNROLL
           B == Blocks(g)
<1>1. U \in Nat \ {0} /\ Word \in Nat
  BY MachineAssumption, WordAssumption
<1>2. g.O \in Nat /\ g.N \in 1..Word /\ g.O < Word
  BY <1>1
<1>3. B \in 1..Word
  <2>1. g.O = U * B + (g.O % U) /\ g.O % U \in 0..(U - 1) /\ B \in Nat
    BY <1>1, <1>2, Division DEF Blocks
  <2> HIDE DEF B, U
  <2>2. B # 0
    <3>1. U * 0 = 0
      BY <1>1
    <3>2. U <= g.O
      BY DEF U
    <3>3. QED BY <2>1, <3>1, <3>2, <1>1
  <2>3. B <= U * B
    BY <1>1, <2>1, SMT
  <2>4. U * B \in Nat
    BY <1>1, <2>1, SMT
  <2>5. QED BY <1>1, <1>2, <2>1, <2>2, <2>3, <2>4
<1> HIDE DEF e, B, U
<1>4. /\ MoversOK(e)
      /\ \A i \in 1..2 : Left(e[i]) = (g.N * U) * (g.M * B)
  BY <1>2, <1>3, GemmStart DEF e, U, B
<1>5. g.M * B = (g.M - 1 - 0) * B + (B - 0)
  <2> DEFINE x == g.M - 1
  <2>1. x \in Nat /\ g.M = x + 1 /\ g.M - 1 - 0 = x
    OBVIOUS
  <2> HIDE DEF x
  <2>2. x * B + 1 * B = (x + 1) * B /\ 1 * B = B /\ x * B \in Nat /\ B - 0 = B
    BY <1>3, <2>1, Scaling
  <2>3. QED BY <2>1, <2>2
<1>6. /\ 0 \in 0..B /\ (0 < B => g.j = 0 * U) /\ (0 = B => g.j >= B * U)
  BY <1>1, <1>3
<1>7. GemmLeft(g, e)
  <2>1. \A i \in 1..2 : Left(e[i]) = (g.N * U) * ((g.M - 1 - g.i) * B + (B - 0))
    BY <1>4, <1>5
  <2>2. g.N \in Nat /\ g.O \in Nat /\ g.M \in Nat \ {0} /\ g.i \in 0..(g.M - 1) /\ g.j \in Nat
    BY <1>2
  <2>3. QED BY <1>6, <2>1, <2>2 DEF GemmLeft, U, B
<1>8. QED BY <1>4, <1>7 DEF CallOK, Names, e

LEMMA RunGemmStreams ==
  ASSUME StreamInv, NEW c \in todo, phase = "run", todo' = todo \ {c}, phase' = phase,
         job' = job, RunGemm(c)
  PROVE  StreamInv'
<1>1. /\ c \in Cores /\ job \in Jobs /\ MoversOK(movers[c]) /\ Spent(movers[c])
      /\ movers = [movers EXCEPT ![c] = movers[c]]
  BY BeforeTheCall
<1>2. job.kernel \in {"matmul", "gemm"}
  BY DEF RunGemm
<1> DEFINE empty == GemmRows(c).last <= GemmRows(c).first
           g == GemmShare(c, "gemm")
           streams == engine = "snitch" /\ g.N # 0 /\ g.O >= GEMM_UNROLL
<1>3. CASE empty
  <2>1. call' = [call EXCEPT ![c] = NoCall] /\ movers' = movers
    BY <1>3 DEF RunGemm, Enter
  <2>2. CallOK(NoCall, movers[c])
    BY <1>1, NoCallOK
  <2>3. QED BY <1>1, <2>1, <2>2, CoreStep
<1>4. CASE ~empty /\ streams
  <2>1. call' = [call EXCEPT ![c] = g] /\ movers' = [movers EXCEPT ![c] = GemmStreams(movers[c], g)]
    BY <1>4 DEF RunGemm, Enter
  <2>2. /\ GemmFields(g) /\ g.fn = "gemm" /\ g.i = 0 /\ g.j = 0 /\ g.M \in 1..Word
        /\ g.N \in 0..(Word - 1) /\ g.O \in 0..(Word - 1)
    BY <1>1, <1>2, <1>4, GemmShareIs
  <2>3. g.N # 0 /\ g.O >= GEMM_UNROLL
    BY <1>4
  <2> HIDE DEF g
  <2>4. MoversOK(GemmStreams(movers[c], g)) /\ CallOK(g, GemmStreams(movers[c], g))
    BY <1>1, <2>2, <2>3, GemmBegins
  <2>5. QED BY <1>1, <2>1, <2>4, CoreStep
<1>5. CASE ~empty /\ ~streams
  <2>1. PICK fn \in {"rvv", "gemm_generic"} :
          call' = [call EXCEPT ![c] = GemmShare(c, fn)] /\ movers' = movers
    BY <1>5 DEF RunGemm, Enter
  <2>2. GemmFields(GemmShare(c, fn)) /\ GemmShare(c, fn).fn = fn
    BY <1>1, <1>2, <1>5, GemmShareIs
  <2>3. CallOK(GemmShare(c, fn), movers[c])
    BY <1>1, <2>1, <2>2 DEF CallOK, Names
  <2>4. QED BY <1>1, <2>1, <2>3, CoreStep
<1>6. QED BY <1>3, <1>4, <1>5

\* A product of naturals that is not 0, and the order of its factors.
LEMMA ThreeFactors ==
  ASSUME NEW a \in Nat, NEW b \in Nat, NEW d \in Nat
  PROVE  /\ a * b * d \in Nat /\ (a * b * d # 0 => a # 0 /\ b # 0 /\ d # 0)
         /\ d * (b * a) = a * b * d
<1> DEFINE x == a * b
<1>1. x \in Nat /\ b * a = x /\ (x # 0 => a # 0 /\ b # 0)
  BY SMT
<1> HIDE DEF x
<1>2. x * d \in Nat /\ d * x = x * d /\ (x * d # 0 => x # 0 /\ d # 0)
  BY <1>1, SMT
<1>3. QED BY <1>1, <1>2 DEF x

\* The share of a convolution that a core is called with.
LEMMA ConvShareIs ==
  ASSUME NEW c \in Cores, job \in Jobs, job.kernel = "conv"
  PROVE  LET k == ConvShare(c) IN
         /\ ConvFields(k) /\ k.fn \in {"conv", "conv_generic"}
         /\ k.C = job.C /\ k.P = job.P /\ k.Q = job.Q
         /\ k.fn = "conv" => /\ k.F # 0
                             /\ k.C \in 1..Word /\ k.P \in 1..Word /\ k.Q \in 1..Word
                             /\ Taps(k) \in 1..Word
<1> DEFINE k == ConvShare(c)
<1>1. /\ job.C \in 0..(Word - 1) /\ job.P \in 0..(Word - 1) /\ job.Q \in 0..(Word - 1)
      /\ job.F \in 0..(Word - 1) /\ Taps(job) < Word
  BY JobsAssumption DEF Extents, Taps
<1>2. F_UNROLL \in Nat \ {0} /\ Word \in Nat \ {0}
  BY MachineAssumption, WordAssumption
<1>3. /\ ConvFields(k) /\ k.fn \in {"conv", "conv_generic"}
      /\ k.C = job.C /\ k.P = job.P /\ k.Q = job.Q
      /\ k.fn = "conv" => k.F >= F_UNROLL /\ Taps(job) # 0
  BY DEF ConvShare, ConvFields
<1> HIDE DEF k
<1>4. Taps(k) = Taps(job)
  BY <1>3 DEF Taps
<1>5. Taps(job) \in Nat /\ (Taps(job) # 0 => job.C # 0 /\ job.P # 0 /\ job.Q # 0)
  BY <1>1, <1>2, ThreeFactors DEF Taps
<1>6. ASSUME k.fn = "conv"
      PROVE  /\ k.F # 0 /\ k.C \in 1..Word /\ k.P \in 1..Word /\ k.Q \in 1..Word
             /\ Taps(k) \in 1..Word
  BY <1>1, <1>2, <1>3, <1>4, <1>5, <1>6
<1>7. QED BY <1>3, <1>6 DEF k

LEMMA RunConvStreams ==
  ASSUME StreamInv, NEW c \in todo, phase = "run", todo' = todo \ {c}, phase' = phase,
         job' = job, RunConv(c)
  PROVE  StreamInv'
<1> DEFINE k == ConvShare(c)
           ms == movers[c]
           U == F_UNROLL
<1>1. /\ c \in Cores /\ job \in Jobs /\ MoversOK(ms) /\ Spent(ms)
      /\ movers = [movers EXCEPT ![c] = ms]
  BY BeforeTheCall
<1>2. /\ ConvFields(k) /\ k.fn \in {"conv", "conv_generic"}
      /\ k.fn = "conv" => /\ k.F # 0
                          /\ k.C \in 1..Word /\ k.P \in 1..Word /\ k.Q \in 1..Word
                          /\ Taps(k) \in 1..Word
  <2>1. job.kernel = "conv"
    BY DEF RunConv
  <2>2. QED BY <1>1, <2>1, ConvShareIs
<1>3. /\ call' = [call EXCEPT ![c] = IF k.F = 0 THEN NoCall ELSE k]
      /\ movers' = IF k.fn = "conv" THEN [movers EXCEPT ![c] = ConvLoops(ms, k)] ELSE movers
  BY DEF RunConv, Enter
<1> HIDE DEF k
<1>4. CASE k.fn = "conv_generic"
  <2>1. CallOK(IF k.F = 0 THEN NoCall ELSE k, ms)
    <3>1. CallOK(NoCall, ms) /\ CallOK(k, ms)
      BY <1>1, <1>4, NoCallOK DEF CallOK, Names
    <3>2. QED BY <3>1
  <2>2. movers' = [movers EXCEPT ![c] = ms]
    BY <1>1, <1>3, <1>4
  <2> HIDE DEF ms
  <2>3. QED BY <1>1, <1>3, <2>1, <2>2, CoreStep
<1>5. CASE k.fn = "conv"
  <2>1. PICK s1, s2 : ConvLoops(ms, k) = <<Repeat(Loop(ms[1], <<k.Q, k.P, k.C>>, s1), U),
                                           Loop(ms[2], <<U, Taps(k)>>, s2)>>
    BY DEF ConvLoops
  <2>2. U \in 1..Word
    BY MachineAssumption
  <2> HIDE DEF U, ms
  <2> DEFINE b1 == <<k.Q, k.P, k.C>>
             b2 == <<U, Taps(k)>>
             a1 == Loop(ms[1], b1, s1)
             a2 == Loop(ms[2], b2, s2)
             r1 == Repeat(a1, U)
  <2>3. /\ Len(b1) = 3 /\ b1[1] = k.Q /\ b1[2] = k.P /\ b1[3] = k.C
        /\ Len(b2) = 2 /\ b2[1] = U /\ b2[2] = Taps(k)
    OBVIOUS
  <2> HIDE DEF b1, b2
  <2>4. /\ Counts(a1) /\ ~a1.live /\ a1.bounds[0] = k.Q - 1 /\ a1.bounds[1] = k.P - 1
        /\ a1.bounds[2] = k.C - 1
    <3>1. \A l \in 0..2 : b1[l + 1] \in 1..Word
      BY <1>2, <1>5, <2>3
    <3>2. /\ Counts(a1) /\ ~a1.live /\ \A l \in 0..2 : a1.bounds[l] = b1[l + 1] - 1
      <4>1. Counts(ms[1]) /\ ~ms[1].live /\ 3 \in 1..4 /\ 3 - 1 = 2
        BY <1>1 DEF MoversOK, Spent
      <4>2. QED BY <4>1, <3>1, <2>3, LoopIs
    <3> HIDE DEF a1
    <3>3. QED BY <3>2, <2>3
  <2>5. /\ Counts(a2) /\ ~a2.live /\ a2.repeat = 0 /\ a2.bounds[0] = U - 1
        /\ a2.bounds[1] = Taps(k) - 1
    <3>1. \A l \in 0..1 : b2[l + 1] \in 1..Word
      BY <1>2, <1>5, <2>2, <2>3
    <3>2. /\ Counts(a2) /\ ~a2.live /\ a2.repeat = 0 /\ \A l \in 0..1 : a2.bounds[l] = b2[l + 1] - 1
      <4>1. Counts(ms[2]) /\ ~ms[2].live /\ ms[2].repeat = 0 /\ 2 \in 1..4 /\ 2 - 1 = 1
        BY <1>1 DEF MoversOK, Spent
      <4>2. QED BY <4>1, <3>1, <2>3, LoopIs
    <3> HIDE DEF a2
    <3>3. QED BY <3>2, <2>3
  <2> HIDE DEF a1, a2
  <2>6. Counts(r1) /\ ~r1.live /\ r1.repeat = U - 1 /\ r1.bounds = a1.bounds
    BY <2>2, <2>4, RepeatIs
  <2> HIDE DEF r1
  <2> DEFINE e == <<r1, a2>>
  <2>7. ConvLoops(ms, k) = e
    BY <2>1 DEF r1, a1, a2, b1, b2
  <2>8. e[1] = r1 /\ e[2] = a2 /\ e = <<e[1], e[2]>>
    OBVIOUS
  <2> HIDE DEF e
  <2>9. MoversOK(e) /\ Spent(e)
    BY <2>5, <2>6, <2>8 DEF MoversOK, Spent
  <2>10. ConvReady(k, e)
    <3>1. k.C \in Nat \ {0} /\ k.P \in Nat \ {0} /\ k.Q \in Nat \ {0}
      BY <1>2, <1>5
    <3>2. QED BY <1>2, <1>5, <3>1, <2>4, <2>5, <2>6, <2>8 DEF ConvReady, U
  <2>11. CallOK(k, e)
    BY <1>5, <2>9, <2>10 DEF CallOK, Names
  <2>12. call' = [call EXCEPT ![c] = k] /\ movers' = [movers EXCEPT ![c] = e]
    BY <1>2, <1>3, <1>5, <2>7
  <2>13. QED BY <1>1, <2>9, <2>11, <2>12, CoreStep
<1>6. QED BY <1>2, <1>4, <1>5

LEMMA RunMfccStreams ==
  ASSUME StreamInv, NEW c \in todo, phase = "run", todo' = todo \ {c}, phase' = phase,
         job' = job, RunMfcc(c)
  PROVE  StreamInv'
<1>1. /\ c \in Cores /\ job \in Jobs /\ MoversOK(movers[c]) /\ Spent(movers[c])
      /\ movers = [movers EXCEPT ![c] = movers[c]]
  BY BeforeTheCall
<1>2. /\ job.kernel = "mfcc" /\ movers' = movers
      /\ \/ call' = [call EXCEPT ![c] = NoCall]
         \/ \E audio, y, frames, re, im, mel :
              call' = [call EXCEPT ![c] =
                        [fn |-> "mfcc", audio |-> audio, Y |-> y, frames |-> frames, re |-> re,
                         im |-> im, mel |-> mel, at |-> "window", t |-> 0, m |-> 0, off |-> 0,
                         c |-> 0]]
  BY DEF RunMfcc, Enter
<1>3. CASE call' = [call EXCEPT ![c] = NoCall]
  <2>1. CallOK(NoCall, movers[c])
    BY <1>1, NoCallOK
  <2>2. QED BY <1>1, <1>2, <1>3, <2>1, CoreStep
<1>4. ASSUME NEW k, MfccFields(k), k.fn = "mfcc", k.at = "window", call' = [call EXCEPT ![c] = k]
      PROVE  StreamInv'
  <2>1. CallOK(k, movers[c])
    BY <1>1, <1>2, <1>4 DEF CallOK, MfccReady, Names
  <2>2. QED BY <1>1, <1>2, <1>4, <2>1, CoreStep
<1>5. ASSUME NEW audio, NEW y, NEW frames, NEW re, NEW im, NEW mel,
             call' = [call EXCEPT ![c] =
                       [fn |-> "mfcc", audio |-> audio, Y |-> y, frames |-> frames, re |-> re,
                        im |-> im, mel |-> mel, at |-> "window", t |-> 0, m |-> 0, off |-> 0,
                        c |-> 0]]
      PROVE  StreamInv'
  <2> DEFINE k == [fn |-> "mfcc", audio |-> audio, Y |-> y, frames |-> frames, re |-> re,
                   im |-> im, mel |-> mel, at |-> "window", t |-> 0, m |-> 0, off |-> 0, c |-> 0]
  <2>1. MfccFields(k) /\ k.fn = "mfcc" /\ k.at = "window"
    BY DEF MfccFields
  <2>2. call' = [call EXCEPT ![c] = k]
    BY <1>5
  <2> HIDE DEF k
  <2>3. QED BY <2>1, <2>2, <1>4
<1>6. QED BY <1>2, <1>3, <1>5

LEMMA RunSliceStreams ==
  ASSUME StreamInv, NEW c \in Cores, RunSlice(c)
  PROVE  StreamInv'
<1>1. /\ phase = "run" /\ c \in todo /\ todo' = todo \ {c} /\ phase' = phase /\ job' = job
  BY DEF RunSlice
<1>2. CASE error # "none"
  <2>1. movers' = movers /\ call' = call
    BY <1>2 DEF RunSlice
  <2>2. PhaseOK
    BY DEF StreamInv
  <2>3. PhaseOK'
    BY <1>1, <2>1, <2>2 DEF PhaseOK
  <2>4. QED BY <1>1, <2>1, <2>3, CoresRest
<1>3. CASE error = "none"
  <2>1. RunGemm(c) \/ RunConv(c) \/ RunMfcc(c)
    BY <1>3 DEF RunSlice
  <2>2. QED BY <1>1, <2>1, RunGemmStreams, RunConvStreams, RunMfccStreams
<1>4. QED BY <1>2, <1>3

-----------------------------------------------------------------------------
(* Convolutions and the MFCC front-end.                                    *)

\* What the steps of a convolution change of its call.
WithW(k, w) == [k EXCEPT !.w = w]
WithH(k, h) == [k EXCEPT !.h = h]
WithF(k, f) == [k EXCEPT !.f = f]

\* A call to conv with other counters is ready for the same loops.
LEMMA ConvMoved ==
  ASSUME NEW k, NEW ms, ConvReady(k, ms), NEW v
  PROVE  ConvReady(WithW(k, v), ms) /\ ConvReady(WithH(k, v), ms) /\ ConvReady(WithF(k, v), ms)
<1> DEFINE R(f, h, w) ==
             [fn |-> k.fn, A |-> k.A, B |-> k.B, bias |-> k.bias, Y |-> k.Y, C |-> k.C,
              H |-> k.H, W |-> k.W, P |-> k.P, Q |-> k.Q, SP |-> k.SP, SQ |-> k.SQ,
              has_bias |-> k.has_bias, F |-> k.F, f |-> f, h |-> h, w |-> w]
<1>1. k = R(k.f, k.h, k.w)
  BY DEF ConvReady, ConvFields
<1>2. WithW(k, v) = R(k.f, k.h, v)
  BY <1>1 DEF WithW
<1>3. WithH(k, v) = R(k.f, v, k.w)
  BY <1>1 DEF WithH
<1>4. WithF(k, v) = R(v, k.h, k.w)
  BY <1>1 DEF WithF
<1>5. ASSUME NEW f, NEW h, NEW w PROVE ConvReady(R(f, h, w), ms)
  <2> DEFINE x == R(f, h, w)
  <2>1. /\ ConvFields(x) /\ x.fn = k.fn /\ x.C = k.C /\ x.P = k.P /\ x.Q = k.Q
    BY DEF ConvFields
  <2> HIDE DEF x
  <2>2. Taps(x) = Taps(k)
    BY <2>1 DEF Taps
  <2>3. ConvReady(x, ms)
    BY <2>1, <2>2 DEF ConvReady
  <2>4. QED BY <2>3 DEF x
<1> HIDE DEF R
<1>6. QED BY <1>2, <1>3, <1>4, <1>5

\* After a pixel the call is over, or ready for the next one.
LEMMA PixelsGoOn ==
  ASSUME NEW k, NEW ms, ConvReady(k, ms), Spent(ms), NEW n, NEW filters
  PROVE  CallOK(AfterPixel(k, n, filters), ms)
<1>1. \/ AfterPixel(k, n, filters) = WithW(k, k.w + 1)
      \/ AfterPixel(k, n, filters) = WithW(WithH(k, k.h + 1), 0)
      \/ AfterPixel(k, n, filters) = WithW(WithH(WithF(k, k.f + n), 0), 0)
      \/ AfterPixel(k, n, filters) = NoCall
  BY Zenon DEF AfterPixel, WithW, WithH, WithF
<1>2. ASSUME NEW h, ConvReady(h, ms) PROVE CallOK(h, ms)
  BY <1>2 DEF CallOK, ConvReady, Names
<1>3. QED BY <1>1, <1>2, ConvMoved, NoCallOK

\* An FREP over as many elements as both streams have left spends them.
LEMMA FrepSpends ==
  ASSUME NEW m, NEW d, d = <<d[1], d[2]>>, Counts(d[1]), Counts(d[2]), d[2].repeat = 0,
         NEW n \in Nat, NEW u \in Nat,
         n * u \in Nat, Left(d[1]) = n * u, Left(d[2]) = n * u, NEW acc
  PROVE  LET e == Frep(m, d, n, u, acc).d IN
         /\ MoversOK(e) /\ Spent(e) /\ e[1].repeat = d[1].repeat
         /\ e[1].bounds = d[1].bounds /\ e[2].bounds = d[2].bounds
<1> DEFINE e == Frep(m, d, n, u, acc).d
<1>1. n * u <= Left(d[1]) /\ n * u <= Left(d[2])
  OBVIOUS
<1>2. e = <<e[1], e[2]>> /\ After(e[1], d[1], n * u) /\ After(e[2], d[2], n * u)
  BY <1>1, FrepTakes
<1> HIDE DEF e
<1> DEFINE x == n * u
<1>3. x \in Nat /\ Left(d[1]) = x /\ Left(d[2]) = x
  OBVIOUS
<1>4. After(e[1], d[1], x) /\ After(e[2], d[2], x)
  BY <1>2
<1> HIDE DEF x
<1>5. Left(e[1]) = 0 /\ Left(e[2]) = 0
  BY <1>3, <1>4 DEF After
<1>6. MoversOK(e)
  BY <1>2, <1>4 DEF MoversOK, After
<1>7. Spent(e)
  BY <1>5, <1>6, NothingLeft
<1>8. QED BY <1>4, <1>6, <1>7 DEF e, After

\* The taps of a convolution, and the elements of every pixel.
LEMMA TapsAre ==
  ASSUME NEW k, NEW ms, ConvReady(k, ms)
  PROVE  LET T == Taps(k)
             U == F_UNROLL
         IN /\ U \in Nat \ {0} /\ T \in Nat \ {0} /\ k.Q * (k.P * k.C) = T
            /\ T * U = U * T /\ T * U \in Nat
<1> DEFINE T == Taps(k)
           U == F_UNROLL
<1>1. U \in Nat \ {0}
  BY MachineAssumption
<1>2. k.C \in Nat /\ k.P \in Nat /\ k.Q \in Nat
  BY DEF ConvReady
<1> HIDE DEF U, T
<1>3. T \in Nat /\ k.Q * (k.P * k.C) = T
  BY <1>2, ThreeFactors DEF T, Taps
<1>4. T * U = U * T /\ T * U \in Nat
  BY <1>1, <1>3, SMT
<1>5. T # 0
  <2> DEFINE x == k.C * k.P
  <2>1. x \in Nat /\ x # 0
    BY SMT DEF ConvReady
  <2> HIDE DEF x
  <2>2. x * k.Q # 0
    BY <2>1, SMT DEF ConvReady
  <2>3. QED BY <2>2 DEF x, T, Taps
<1>6. QED BY <1>1, <1>3, <1>4, <1>5 DEF T, U

\* Both streams as a pixel starts them: they have its taps to deliver.
LEMMA PixelBegins ==
  ASSUME NEW k, NEW ms, MoversOK(ms), ConvReady(k, ms), NEW p1, NEW p2
  PROVE  LET d == <<Arm(ms[1], 3, p1), Arm(ms[2], 2, p2)>>
         IN /\ d = <<d[1], d[2]>> /\ Counts(d[1]) /\ Counts(d[2]) /\ d[2].repeat = 0
            /\ Left(d[1]) = Taps(k) * F_UNROLL /\ Left(d[2]) = Taps(k) * F_UNROLL
            /\ d[1].repeat = ms[1].repeat
            /\ d[1].bounds = ms[1].bounds /\ d[2].bounds = ms[2].bounds
<1> DEFINE U == F_UNROLL
           T == Taps(k)
           d1 == Arm(ms[1], 3, p1)
           d2 == Arm(ms[2], 2, p2)
           d == <<d1, d2>>
<1>1. /\ U \in Nat \ {0} /\ T \in Nat \ {0} /\ k.Q * (k.P * k.C) = T
      /\ T * U = U * T /\ T * U \in Nat
  BY TapsAre
<1> HIDE DEF U, T
<1>2. k.C \in Nat /\ k.P \in Nat /\ k.Q \in Nat
  BY DEF ConvReady
<1>3. /\ Counts(d1) /\ d1.repeat = ms[1].repeat /\ d1.bounds = ms[1].bounds
      /\ Left(d1) = (ms[1].repeat + 1) * Turns(ms[1], 3)
      /\ Counts(d2) /\ d2.repeat = ms[2].repeat /\ d2.bounds = ms[2].bounds
      /\ Left(d2) = (ms[2].repeat + 1) * Turns(ms[2], 2)
  <2>1. Counts(ms[1]) /\ Counts(ms[2]) /\ 3 \in 1..4 /\ 2 \in 1..4
    BY DEF MoversOK
  <2>2. QED BY <2>1, ArmIs
<1> HIDE DEF d1, d2
<1>4. Left(d1) = T * U
  <2>1. /\ ms[1].bounds[0] + 1 = k.Q /\ ms[1].bounds[1] + 1 = k.P /\ ms[1].bounds[2] + 1 = k.C
        /\ ms[1].repeat + 1 = U
    BY <1>1, <1>2 DEF ConvReady, U
  <2>2. Turns(ms[1], 3) = (ms[1].bounds[0] + 1) * ((ms[1].bounds[1] + 1) * (ms[1].bounds[2] + 1))
    BY DEF Turns
  <2>3. QED BY <1>1, <1>3, <2>1, <2>2
<1>5. Left(d2) = T * U
  <2>1. /\ ms[2].bounds[0] + 1 = U /\ ms[2].bounds[1] + 1 = T /\ ms[2].repeat + 1 = 1
    BY <1>1 DEF ConvReady, MoversOK, U, T
  <2>2. Turns(ms[2], 2) = (ms[2].bounds[0] + 1) * (ms[2].bounds[1] + 1)
    BY DEF Turns
  <2>3. 1 * (U * T) = U * T
    BY <1>1
  <2>4. QED BY <1>1, <1>3, <2>1, <2>2, <2>3
<1>6. d = <<d[1], d[2]>> /\ d[1] = d1 /\ d[2] = d2
  OBVIOUS
<1> HIDE DEF d
<1>7. d[2].repeat = 0
  BY <1>3, <1>6 DEF MoversOK
<1>8. QED BY <1>3, <1>4, <1>5, <1>6, <1>7 DEF d, d1, d2, T, U

LEMMA ConvPixelStreams ==
  ASSUME StreamInv, NEW c \in Cores, ConvPixel(c)
  PROVE  StreamInv'
<1> DEFINE k == call[c]
           ms == movers[c]
           U == F_UNROLL
           T == Taps(k)
<1>1. k.fn = "conv" /\ phase' = phase /\ job' = job /\ todo' = todo
  BY DEF ConvPixel, In, Held
<1>2. PICK p1, p2, start :
        /\ movers' = [movers EXCEPT
                       ![c] = Frep(mem, <<Arm(ms[1], 3, p1), Arm(ms[2], 2, p2)>>, T, U, start).d]
        /\ call' = [call EXCEPT ![c] = AfterPixel(k, U, k.F)]
  BY DEF ConvPixel, Enter
<1>3. /\ phase = "run" /\ ~(c \in todo) /\ MoversOK(ms) /\ ConvReady(k, ms) /\ Spent(ms)
  <2>1. /\ phase = "run" /\ ~(c \in todo) /\ MoversOK(ms) /\ CallOK(k, ms)
    BY <1>1, InCall
  <2>2. QED BY <1>1, <2>1 DEF CallOK
<1> HIDE DEF k, ms
<1>4. U \in Nat /\ T \in Nat /\ T * U \in Nat
  BY <1>3, TapsAre
<1> DEFINE d == <<Arm(ms[1], 3, p1), Arm(ms[2], 2, p2)>>
           e == Frep(mem, d, T, U, start).d
<1>5. /\ d = <<d[1], d[2]>> /\ Counts(d[1]) /\ Counts(d[2]) /\ d[2].repeat = 0
      /\ Left(d[1]) = T * U /\ Left(d[2]) = T * U
      /\ d[1].repeat = ms[1].repeat /\ d[1].bounds = ms[1].bounds /\ d[2].bounds = ms[2].bounds
  BY <1>3, PixelBegins
<1>6. movers' = [movers EXCEPT ![c] = e]
  BY <1>2
<1> HIDE DEF d, U, T
<1>7. /\ MoversOK(e) /\ Spent(e) /\ e[1].repeat = d[1].repeat
      /\ e[1].bounds = d[1].bounds /\ e[2].bounds = d[2].bounds
  BY <1>4, <1>5, FrepSpends
<1> HIDE DEF e
<1>8. ConvReady(k, e)
  BY <1>3, <1>5, <1>7 DEF ConvReady
<1>9. CallOK(AfterPixel(k, U, k.F), e)
  BY <1>7, <1>8, PixelsGoOn
<1>10. QED BY <1>1, <1>2, <1>3, <1>6, <1>7, <1>9, CoreStep

LEMMA ConvTailStreams ==
  ASSUME StreamInv, NEW c \in Cores, ConvTail(c)
  PROVE  StreamInv'
<1> DEFINE k == call[c]
           ms == movers[c]
<1>1. /\ k.fn = "conv" /\ phase' = phase /\ job' = job /\ todo' = todo /\ movers' = movers
      /\ call' = [call EXCEPT ![c] = AfterPixel(k, 1, k.F)]
  BY DEF ConvTail, In, Held, Enter
<1>2. /\ phase = "run" /\ ~(c \in todo) /\ MoversOK(ms) /\ ConvReady(k, ms) /\ Spent(ms)
      /\ movers = [movers EXCEPT ![c] = ms]
  <2>1. /\ phase = "run" /\ ~(c \in todo) /\ MoversOK(ms) /\ CallOK(k, ms)
        /\ movers = [movers EXCEPT ![c] = ms]
    BY <1>1, InCall
  <2>2. QED BY <1>1, <2>1 DEF CallOK
<1> HIDE DEF k, ms
<1>3. CallOK(AfterPixel(k, 1, k.F), ms)
  BY <1>2, PixelsGoOn
<1>4. QED BY <1>1, <1>2, <1>3, CoreStep

LEMMA ConvGenericStreams ==
  ASSUME StreamInv, NEW c \in Cores, ConvGeneric(c)
  PROVE  StreamInv'
<1>1. call[c].fn = "conv_generic" /\ Enter(c, NoCall) /\ UNCHANGED movers /\ Held
  BY DEF ConvGeneric, In
<1>2. QED BY <1>1, CallEnds

\* What the steps of the MFCC front-end change of its call.
WithAt(k, at) == [k EXCEPT !.at = at]
WithM(k, m) == [k EXCEPT !.m = m]
WithOff(k, off) == [k EXCEPT !.off = off]
WithC(k, c) == [k EXCEPT !.c = c]
WithT(k, t) == [k EXCEPT !.t = t]

LEMMA MfccMoved ==
  ASSUME NEW k, MfccFields(k), k.fn = "mfcc", NEW v
  PROVE  /\ \A h \in {WithAt(k, v), WithM(k, v), WithOff(k, v), WithC(k, v), WithT(k, v)} :
              MfccFields(h) /\ h.fn = "mfcc"
         /\ WithAt(k, v).at = v /\ WithAt(k, v).m = k.m
         /\ WithM(k, v).m = v /\ WithM(k, v).at = k.at
         /\ WithOff(k, v).m = k.m /\ WithOff(k, v).at = k.at
         /\ WithC(k, v).m = k.m /\ WithC(k, v).at = k.at
         /\ WithT(k, v).m = k.m /\ WithT(k, v).at = k.at
<1> DEFINE R(at, t, m, off, c) ==
             [fn |-> k.fn, audio |-> k.audio, Y |-> k.Y, frames |-> k.frames, re |-> k.re,
              im |-> k.im, mel |-> k.mel, at |-> at, t |-> t, m |-> m, off |-> off, c |-> c]
<1>1. k = R(k.at, k.t, k.m, k.off, k.c)
  BY DEF MfccFields
<1>2. WithAt(k, v) = R(v, k.t, k.m, k.off, k.c)
  BY <1>1 DEF WithAt
<1>3. WithM(k, v) = R(k.at, k.t, v, k.off, k.c)
  BY <1>1 DEF WithM
<1>4. WithOff(k, v) = R(k.at, k.t, k.m, v, k.c)
  BY <1>1 DEF WithOff
<1>5. WithC(k, v) = R(k.at, k.t, k.m, k.off, v)
  BY <1>1 DEF WithC
<1>6. WithT(k, v) = R(k.at, v, k.m, k.off, k.c)
  BY <1>1 DEF WithT
<1>7. ASSUME NEW at, NEW t, NEW m, NEW off, NEW c
      PROVE  LET h == R(at, t, m, off, c) IN
             MfccFields(h) /\ h.fn = "mfcc" /\ h.at = at /\ h.m = m
  BY DEF MfccFields
<1> HIDE DEF R
<1>8. QED BY <1>2, <1>3, <1>4, <1>5, <1>6, <1>7

\* The step of a core in the front-end.
LEMMA MfccInCall ==
  ASSUME StreamInv, NEW c \in Cores, call[c].fn = "mfcc"
  PROVE  /\ phase = "run" /\ ~(c \in todo) /\ job \in Jobs /\ job.kernel = "mfcc"
         /\ MoversOK(movers[c]) /\ Spent(movers[c]) /\ MfccFields(call[c])
         /\ (call[c].at = "mel" => call[c].m \in 0..(NbMel(job) - 1))
         /\ movers = [movers EXCEPT ![c] = movers[c]]
         /\ NbMel(job) \in 1..Word /\ job.mel_len \in Seq(0..(Word - 1))
<1>1. /\ phase = "run" /\ ~(c \in todo) /\ job \in Jobs
      /\ MoversOK(movers[c]) /\ CallOK(call[c], movers[c])
      /\ movers = [movers EXCEPT ![c] = movers[c]]
  BY InCall
<1>2. MfccReady(call[c]) /\ Spent(movers[c])
  BY <1>1 DEF CallOK
<1>3. NbMel(job) \in (0..(Word - 1)) \ {0} /\ job.mel_len \in Seq(0..(Word - 1))
  BY <1>1, <1>2, JobsAssumption DEF Extents, MfccReady
<1>4. QED BY <1>1, <1>2, <1>3, WordAssumption DEF MfccReady

\* A step of the front-end.
LEMMA MfccStep ==
  ASSUME StreamInv, NEW c \in Cores, call[c].fn = "mfcc", Held, NEW k, NEW ms,
         Enter(c, k), movers' = [movers EXCEPT ![c] = ms], MoversOK(ms), Spent(ms),
         \/ k = NoCall
         \/ /\ MfccFields(k) /\ k.fn = "mfcc"
            /\ k.at = "mel" => k.m \in 0..(NbMel(job) - 1)
  PROVE  StreamInv'
<1>1. phase = "run" /\ ~(c \in todo) /\ job.kernel = "mfcc"
  BY MfccInCall
<1>2. phase' = phase /\ job' = job /\ todo' = todo /\ call' = [call EXCEPT ![c] = k]
  BY DEF Held, Enter
<1>3. CallOK(k, ms)
  <2>1. CASE k = NoCall
    BY <2>1, NoCallOK
  <2>2. CASE k # NoCall
    BY <2>2, <1>1 DEF CallOK, MfccReady, Names
  <2>3. QED BY <2>1, <2>2
<1>4. QED BY <1>1, <1>2, <1>3, CoreStep

LEMMA MfccWindowStreams ==
  ASSUME StreamInv, NEW c \in Cores, MfccWindow(c)
  PROVE  StreamInv'
<1> DEFINE k == call[c]
<1>1. k.fn = "mfcc" /\ Held /\ movers' = movers /\ Enter(c, WithAt(k, "spectrum"))
  BY DEF MfccWindow, In, WithAt
<1>2. MoversOK(movers[c]) /\ Spent(movers[c]) /\ MfccFields(k)
      /\ movers' = [movers EXCEPT ![c] = movers[c]]
  BY <1>1, MfccInCall
<1> HIDE DEF k
<1>3. /\ MfccFields(WithAt(k, "spectrum")) /\ WithAt(k, "spectrum").fn = "mfcc"
      /\ WithAt(k, "spectrum").at = "spectrum"
  BY <1>1, <1>2, MfccMoved
<1>4. QED BY <1>1, <1>2, <1>3, MfccStep DEF k

LEMMA MfccSpectrumStreams ==
  ASSUME StreamInv, NEW c \in Cores, MfccSpectrum(c)
  PROVE  StreamInv'
<1> DEFINE k == call[c]
           k1 == WithAt(k, "mel")
           k2 == WithM(k1, 0)
           k3 == WithOff(k2, 0)
<1>1. k.fn = "mfcc" /\ Held /\ movers' = movers /\ Enter(c, k3)
  BY Zenon DEF MfccSpectrum, In, WithAt, WithM, WithOff
<1>2. /\ MoversOK(movers[c]) /\ Spent(movers[c]) /\ MfccFields(k)
      /\ movers' = [movers EXCEPT ![c] = movers[c]] /\ NbMel(job) \in 1..Word
  BY <1>1, MfccInCall
<1> HIDE DEF k
<1>3. MfccFields(k1) /\ k1.fn = "mfcc"
  BY <1>1, <1>2, MfccMoved
<1> HIDE DEF k1
<1>4. MfccFields(k2) /\ k2.fn = "mfcc" /\ k2.m = 0
  BY <1>3, MfccMoved
<1> HIDE DEF k2
<1>5. MfccFields(k3) /\ k3.fn = "mfcc" /\ k3.m = 0
  BY <1>4, MfccMoved
<1> HIDE DEF k3
<1>6. 0 \in 0..(NbMel(job) - 1)
  BY <1>2
<1>7. QED BY <1>1, <1>2, <1>5, <1>6, MfccStep DEF k

\* A stream of n elements, each taken once.
LEMMA UnitStreamIs ==
  ASSUME NEW d, Counts(d), ~d.live, NEW n \in 1..Word, NEW p
  PROVE  LET e == UnitStream(Repeat(d, 1), n, p) IN
         Counts(e) /\ e.repeat = 0 /\ Left(e) = n
<1> DEFINE r == Repeat(d, 1)
           b == <<n>>
           a == Loop(r, b, <<FloatBytes>>)
           e == Arm(a, 1, p)
<1>1. Counts(r) /\ ~r.live /\ r.repeat = 0
  BY RepeatIs, WordAssumption, 1 \in 1..Word
<1> HIDE DEF r
<1>2. Len(b) = 1 /\ b[1] = n
  OBVIOUS
<1>3. Counts(a) /\ ~a.live /\ a.repeat = 0 /\ a.bounds[0] = n - 1
  <2> HIDE DEF b
  <2>1. 1 \in 1..4 /\ 1 - 1 = 0 /\ 0 \in 0..0 /\ \A l \in 0..0 : b[l + 1] \in 1..Word
    BY <1>2
  <2>2. Counts(a) /\ ~a.live /\ a.repeat = r.repeat /\ \A l \in 0..0 : a.bounds[l] = b[l + 1] - 1
    BY <1>1, <1>2, <2>1, LoopIs
  <2> HIDE DEF a
  <2>3. QED BY <1>1, <1>2, <2>1, <2>2
<1> HIDE DEF a
<1>4. Counts(e) /\ e.repeat = 0 /\ Left(e) = (a.repeat + 1) * Turns(a, 1)
  BY <1>3, ArmIs, 1 \in 1..4
<1> HIDE DEF e
<1>5. Turns(a, 1) = n
  BY <1>3 DEF Turns
<1>6. Left(e) = n
  BY <1>3, <1>4, <1>5
<1>7. e = UnitStream(Repeat(d, 1), n, p)
  BY DEF e, a, b, r, UnitStream
<1>8. QED BY <1>4, <1>6, <1>7

\* A mel filter of a job has a count of coefficients that a register holds.
LEMMA EntryIs ==
  ASSUME job.mel_len \in Seq(0..(Word - 1)), NEW m \in 0..(NbMel(job) - 1)
  PROVE  Entry("mel_len", m) \in 0..(Word - 1)
<1>1. NbMel(job) = Len(job.mel_len) /\ Len(job.mel_len) \in Nat
  BY DEF NbMel
<1>2. m + 1 \in 1..Len(job.mel_len)
  BY <1>1
<1>3. job.mel_len[m + 1] \in 0..(Word - 1)
  <2> DEFINE S == 0..(Word - 1)
             l == job.mel_len
  <2>1. l \in Seq(S) /\ m + 1 \in 1..Len(l)
    BY <1>2
  <2> HIDE DEF S, l
  <2>2. l[m + 1] \in S
    BY <2>1
  <2>3. QED BY <2>2 DEF S, l
<1>4. 0 \in 0..(Word - 1)
  BY WordAssumption
<1>5. Entry("mel_len", m) \in {job["mel_len"][m + 1], 0}
  BY DEF Entry
<1>6. QED BY <1>3, <1>4, <1>5

\* Whole blocks are no more than the items they are cut from.
LEMMA BlocksWithin ==
  ASSUME NEW n \in Nat
  PROVE  /\ MfccBlocks(n) \in Nat /\ MfccBlocks(n) * MFCC_UNROLL \in Nat
         /\ MfccBlocks(n) * MFCC_UNROLL <= n
<1>1. MFCC_UNROLL \in Nat \ {0}
  BY MachineAssumption
<1>2. CASE engine = "snitch"
  <2> DEFINE B == n \div MFCC_UNROLL
  <2>1. n = MFCC_UNROLL * B + (n % MFCC_UNROLL) /\ n % MFCC_UNROLL \in 0..(MFCC_UNROLL - 1)
        /\ B \in Nat
    BY <1>1, Division
  <2>2. MfccBlocks(n) = B
    BY <1>2 DEF MfccBlocks
  <2> HIDE DEF B
  <2>3. MFCC_UNROLL * B = B * MFCC_UNROLL /\ B * MFCC_UNROLL \in Nat
    BY <1>1, <2>1, SMT
  <2>4. QED BY <1>1, <2>1, <2>2, <2>3
<1>3. CASE engine # "snitch"
  <2>1. MfccBlocks(n) = 0
    BY <1>3 DEF MfccBlocks
  <2>2. 0 * MFCC_UNROLL = 0
    BY <1>1
  <2>3. QED BY <2>1, <2>2
<1>4. QED BY <1>2, <1>3

LEMMA MelFilterStreams ==
  ASSUME StreamInv, NEW c \in Cores, MelFilter(c)
  PROVE  StreamInv'
<1> DEFINE k == call[c]
           ms == movers[c]
           U == MFCC_UNROLL
           n == Entry("mel_len", k.m)
           full == MfccBlocks(n) * U
           k1 == WithOff(WithM(k, k.m + 1), k.off + n)
           k2 == WithC(WithAt(k1, "dct"), 0)
           e0 == IF k.m + 1 < NbMel(job) THEN k1 ELSE k2
<1>1. k.fn = "mfcc" /\ k.at = "mel" /\ Held
  BY DEF MelFilter, In
<1>2. Enter(c, e0)
  BY Zenon DEF MelFilter, WithAt, WithM, WithOff, WithC
<1>3. PICK p, q, start :
        movers' = IF full # 0
                  THEN [movers EXCEPT ![c] = Frep(mem, MelStreams(ms, full, p, q),
                                                  MfccBlocks(n), U, start).d]
                  ELSE movers
  BY DEF MelFilter
<1>4. /\ MoversOK(ms) /\ Spent(ms) /\ MfccFields(k) /\ k.m \in 0..(NbMel(job) - 1)
      /\ movers = [movers EXCEPT ![c] = ms]
      /\ NbMel(job) \in 1..Word /\ job.mel_len \in Seq(0..(Word - 1))
  BY <1>1, MfccInCall
<1> HIDE DEF k, ms
<1>5. n \in 0..(Word - 1)
  BY <1>4, EntryIs
<1> HIDE DEF n
<1>6. /\ MfccFields(e0) /\ e0.fn = "mfcc"
      /\ e0.at = "mel" => e0.m \in 0..(NbMel(job) - 1)
  <2> DEFINE h == WithM(k, k.m + 1)
  <2>1. MfccFields(h) /\ h.fn = "mfcc" /\ h.m = k.m + 1
    BY <1>1, <1>4, MfccMoved
  <2> HIDE DEF h
  <2>2. MfccFields(k1) /\ k1.fn = "mfcc" /\ k1.m = k.m + 1
    BY <2>1, MfccMoved DEF h
  <2> HIDE DEF k1
  <2> DEFINE g == WithAt(k1, "dct")
  <2>3. MfccFields(g) /\ g.fn = "mfcc" /\ g.at = "dct"
    BY <2>2, MfccMoved
  <2> HIDE DEF g
  <2>4. MfccFields(k2) /\ k2.fn = "mfcc" /\ k2.at = "dct"
    BY <2>3, MfccMoved DEF g
  <2> HIDE DEF k2
  <2>5. CASE k.m + 1 < NbMel(job)
    <3>1. k1.m \in 0..(NbMel(job) - 1)
      BY <1>4, <2>2, <2>5
    <3>2. QED BY <2>2, <2>5, <3>1
  <2>6. CASE ~(k.m + 1 < NbMel(job))
    BY <2>4, <2>6
  <2>7. QED BY <2>5, <2>6
<1> HIDE DEF e0
<1>7. CASE full = 0
  <2>1. movers' = [movers EXCEPT ![c] = ms]
    BY <1>3, <1>4, <1>7
  <2>2. QED BY <1>1, <1>2, <1>4, <1>6, <2>1, MfccStep DEF k
<1>8. CASE full # 0
  <2>1. /\ U \in Nat /\ MfccBlocks(n) \in Nat /\ full \in Nat /\ full <= n
        /\ n \in Nat /\ n < Word
    <3>1. n \in Nat /\ n < Word
      BY <1>5, WordAssumption
    <3>2. U \in Nat
      BY MachineAssumption
    <3>3. QED BY <3>1, <3>2, BlocksWithin
  <2>2. full \in 1..Word
    BY <2>1, <1>8, WordAssumption
  <2> DEFINE d1 == UnitStream(Repeat(ms[1], 1), full, p)
             d2 == UnitStream(Repeat(ms[2], 1), full, q)
             d == <<d1, d2>>
             N == MfccBlocks(n)
  <2>3. /\ Counts(d1) /\ d1.repeat = 0 /\ Left(d1) = full
        /\ Counts(d2) /\ d2.repeat = 0 /\ Left(d2) = full
    <3>1. Counts(ms[1]) /\ ~ms[1].live /\ Counts(ms[2]) /\ ~ms[2].live
      BY <1>4 DEF MoversOK, Spent
    <3> HIDE DEF full
    <3>2. QED BY <2>2, <3>1, UnitStreamIs
  <2>4. d = MelStreams(ms, full, p, q)
    BY DEF MelStreams
  <2> HIDE DEF d1, d2
  <2>5. d = <<d[1], d[2]>> /\ d[1] = d1 /\ d[2] = d2
    OBVIOUS
  <2> HIDE DEF d
  <2>6. N \in Nat /\ N * U \in Nat /\ N * U = full
    BY <2>1
  <2> HIDE DEF N, U
  <2> DEFINE e == Frep(mem, d, N, U, start).d
  <2>7. MoversOK(e) /\ Spent(e)
    <3>1. Left(d[1]) = N * U /\ Left(d[2]) = N * U
      BY <2>3, <2>5, <2>6
    <3>2. Counts(d[1]) /\ Counts(d[2]) /\ d[2].repeat = 0 /\ U \in Nat
      BY <2>1, <2>3, <2>5
    <3> HIDE DEF full
    <3>3. QED BY <2>5, <2>6, <3>1, <3>2, FrepSpends
  <2>8. movers' = [movers EXCEPT ![c] = e]
    BY <1>3, <1>8, <2>4 DEF N
  <2> HIDE DEF e
  <2>9. QED BY <1>1, <1>2, <1>6, <2>7, <2>8, MfccStep DEF k
<1>9. QED BY <1>7, <1>8

\* After some cepstra the call is over, or goes on in this frame or the next.
LEMMA CepstraGoOn ==
  ASSUME NEW k, MfccFields(k), k.fn = "mfcc", k.at = "dct", NEW n
  PROVE  \/ AfterCepstra(k, n) = NoCall
         \/ /\ MfccFields(AfterCepstra(k, n)) /\ AfterCepstra(k, n).fn = "mfcc"
            /\ AfterCepstra(k, n).at # "mel"
<1> DEFINE h == WithT(k, k.t + 1)
<1>1. \/ AfterCepstra(k, n) = WithC(k, k.c + n)
      \/ AfterCepstra(k, n) = WithAt(h, "window")
      \/ AfterCepstra(k, n) = NoCall
  BY Zenon DEF AfterCepstra, WithC, WithAt, WithT
<1>2. MfccFields(h) /\ h.fn = "mfcc"
  BY MfccMoved
<1> HIDE DEF h
<1>3. MfccFields(WithAt(h, "window")) /\ WithAt(h, "window").fn = "mfcc"
      /\ WithAt(h, "window").at = "window"
  BY <1>2, MfccMoved
<1>4. MfccFields(WithC(k, k.c + n)) /\ WithC(k, k.c + n).fn = "mfcc"
      /\ WithC(k, k.c + n).at = "dct"
  BY MfccMoved
<1>5. QED BY <1>1, <1>3, <1>4

LEMMA DctBlockStreams ==
  ASSUME StreamInv, NEW c \in Cores, DctBlock(c)
  PROVE  StreamInv'
<1> DEFINE k == call[c]
           ms == movers[c]
           U == MFCC_UNROLL
           N == NbMel(job)
<1>1. k.fn = "mfcc" /\ k.at = "dct" /\ Held /\ Enter(c, AfterCepstra(k, U))
  BY DEF DctBlock, In
<1>2. PICK s1, s2, p1, p2, start :
        movers' = [movers EXCEPT ![c] =
                    Frep(mem, <<Arm(Loop(Repeat(ms[1], U), <<N>>, s1), 1, p1),
                                Arm(Loop(Repeat(ms[2], 1), <<U, N>>, s2), 2, p2)>>,
                         N, U, start).d]
  BY DEF DctBlock
<1>3. MoversOK(ms) /\ Spent(ms) /\ MfccFields(k) /\ N \in 1..Word
  BY <1>1, MfccInCall
<1>4. U \in 1..Word
  BY MachineAssumption
<1> HIDE DEF k, ms, U, N
<1> DEFINE r1 == Repeat(ms[1], U)
           r2 == Repeat(ms[2], 1)
           b1 == <<N>>
           b2 == <<U, N>>
           a1 == Loop(r1, b1, s1)
           a2 == Loop(r2, b2, s2)
           d1 == Arm(a1, 1, p1)
           d2 == Arm(a2, 2, p2)
           d == <<d1, d2>>
<1>5. /\ Counts(ms[1]) /\ ~ms[1].live /\ Counts(ms[2]) /\ ~ms[2].live
  BY <1>3 DEF MoversOK, Spent
<1>6. Counts(r1) /\ ~r1.live /\ r1.repeat = U - 1
  BY <1>4, <1>5, RepeatIs
<1>7. Counts(r2) /\ ~r2.live /\ r2.repeat = 0
  BY <1>5, RepeatIs, WordAssumption, 1 \in 1..Word
<1> HIDE DEF r1, r2
<1>8. Len(b1) = 1 /\ b1[1] = N /\ Len(b2) = 2 /\ b2[1] = U /\ b2[2] = N
  OBVIOUS
<1> HIDE DEF b1, b2
<1>9. Counts(a1) /\ ~a1.live /\ a1.repeat = U - 1 /\ a1.bounds[0] = N - 1
  <2>1. 1 \in 1..4 /\ 1 - 1 = 0 /\ 0 \in 0..0 /\ \A l \in 0..0 : b1[l + 1] \in 1..Word
    BY <1>3, <1>8
  <2>2. Counts(a1) /\ ~a1.live /\ a1.repeat = r1.repeat /\ \A l \in 0..0 : a1.bounds[l] = b1[l + 1] - 1
    BY <1>6, <1>8, <2>1, LoopIs
  <2> HIDE DEF a1
  <2>3. QED BY <1>6, <1>8, <2>1, <2>2
<1>10. /\ Counts(a2) /\ ~a2.live /\ a2.repeat = 0 /\ a2.bounds[0] = U - 1
       /\ a2.bounds[1] = N - 1
  <2>1. 2 \in 1..4 /\ 2 - 1 = 1 /\ \A l \in 0..1 : b2[l + 1] \in 1..Word
    BY <1>3, <1>4, <1>8
  <2>2. Counts(a2) /\ ~a2.live /\ a2.repeat = r2.repeat /\ \A l \in 0..1 : a2.bounds[l] = b2[l + 1] - 1
    BY <1>7, <1>8, <2>1, LoopIs
  <2> HIDE DEF a2
  <2>3. QED BY <1>7, <1>8, <2>1, <2>2
<1> HIDE DEF a1, a2
<1>11. /\ Counts(d1) /\ Left(d1) = (a1.repeat + 1) * Turns(a1, 1)
       /\ Counts(d2) /\ d2.repeat = 0 /\ Left(d2) = (a2.repeat + 1) * Turns(a2, 2)
  <2>1. 1 \in 1..4 /\ 2 \in 1..4
    OBVIOUS
  <2>2. QED BY <1>9, <1>10, <2>1, ArmIs
<1> HIDE DEF d1, d2
<1>12. N \in Nat /\ U \in Nat /\ N * U = U * N /\ N * U \in Nat /\ 1 * (U * N) = U * N
  <2>1. N \in Nat /\ U \in Nat
    BY <1>3, <1>4
  <2>2. N * U = U * N /\ N * U \in Nat
    BY <2>1, SMT
  <2>3. QED BY <2>1, <2>2
<1>13. Left(d1) = N * U
  <2>1. Turns(a1, 1) = N /\ a1.repeat + 1 = U
    BY <1>9, <1>12 DEF Turns
  <2>2. QED BY <1>11, <1>12, <2>1
<1>14. Left(d2) = N * U
  <2>1. a2.bounds[0] + 1 = U /\ a2.bounds[1] + 1 = N /\ a2.repeat + 1 = 1
    BY <1>10, <1>12
  <2>2. Turns(a2, 2) = (a2.bounds[0] + 1) * (a2.bounds[1] + 1)
    BY DEF Turns
  <2>3. QED BY <1>11, <1>12, <2>1, <2>2
<1>15. d = <<d[1], d[2]>> /\ d[1] = d1 /\ d[2] = d2
  OBVIOUS
<1> HIDE DEF d
<1> DEFINE e == Frep(mem, d, N, U, start).d
<1>16. MoversOK(e) /\ Spent(e)
  <2>1. Left(d[1]) = N * U /\ Left(d[2]) = N * U /\ Counts(d[1]) /\ Counts(d[2])
        /\ d[2].repeat = 0
    BY <1>11, <1>13, <1>14, <1>15
  <2>2. QED BY <1>12, <1>15, <2>1, FrepSpends
<1>17. movers' = [movers EXCEPT ![c] = e]
  BY <1>2 DEF d, d1, d2, a1, a2, r1, r2, b1, b2
<1> HIDE DEF e
<1>18. \/ AfterCepstra(k, U) = NoCall
       \/ /\ MfccFields(AfterCepstra(k, U)) /\ AfterCepstra(k, U).fn = "mfcc"
          /\ AfterCepstra(k, U).at # "mel"
  BY <1>1, <1>3, CepstraGoOn
<1>19. QED BY <1>1, <1>16, <1>17, <1>18, MfccStep DEF k

LEMMA DctTailStreams ==
  ASSUME StreamInv, NEW c \in Cores, DctTail(c)
  PROVE  StreamInv'
<1> DEFINE k == call[c]
<1>1. k.fn = "mfcc" /\ k.at = "dct" /\ Held /\ movers' = movers /\ Enter(c, AfterCepstra(k, 1))
  BY DEF DctTail, In
<1>2. MoversOK(movers[c]) /\ Spent(movers[c]) /\ MfccFields(k)
      /\ movers' = [movers EXCEPT ![c] = movers[c]]
  BY <1>1, MfccInCall
<1> HIDE DEF k
<1>3. \/ AfterCepstra(k, 1) = NoCall
      \/ /\ MfccFields(AfterCepstra(k, 1)) /\ AfterCepstra(k, 1).fn = "mfcc"
         /\ AfterCepstra(k, 1).at # "mel"
  BY <1>1, <1>2, CepstraGoOn
<1>4. QED BY <1>1, <1>2, <1>3, MfccStep DEF k

-----------------------------------------------------------------------------
(* The theorem of the streams.                                             *)

\* The DMA core's steps, and its engine's.
LEMMA DmaCoreStreams ==
  ASSUME StreamInv, (\E a \in Jobs : Serve(a)) \/ Transfer \/ Release \/ StageOut \/ Publish
  PROVE  StreamInv'
<1>1. PhaseOK
  BY DEF StreamInv
<1>2. CASE \E a \in Jobs : Serve(a)
  <2>1. PICK a \in Jobs : Serve(a)
    BY <1>2
  <2>2. /\ phase \in {"idle", "done"} /\ phase' = "stage_in" /\ job' = a /\ todo' = todo
        /\ movers' = movers /\ call' = call
    BY <2>1 DEF Serve
  <2>3. \A c \in Cores : call[c] = NoCall
    BY <1>1, <2>2 DEF PhaseOK
  <2>4. PhaseOK'
    BY <1>1, <2>2, <2>3 DEF PhaseOK
  <2>5. QED BY <2>2, <2>3, <2>4, CoresRest
<1>3. CASE Transfer
  <2>1. phase' = phase /\ job' = job /\ todo' = todo /\ movers' = movers /\ call' = call
    BY <1>3 DEF Transfer
  <2>2. PhaseOK'
    BY <1>1, <2>1 DEF PhaseOK
  <2>3. QED BY <2>1, <2>2, CoresRest
<1>4. CASE Release
  <2>1. /\ phase = "stage_in" /\ phase' = "run" /\ todo' = Cores /\ job' = job
        /\ movers' = movers /\ call' = call
    BY <1>4 DEF Release
  <2>2. PhaseOK'
    BY <1>1, <2>1 DEF PhaseOK
  <2>3. QED BY <2>1, <2>2, CoresRest
<1>5. CASE StageOut
  <2>1. /\ \A c \in Cores : call[c] = NoCall
        /\ phase = "run" /\ phase' = "stage_out" /\ todo' = todo /\ job' = job
        /\ movers' = movers /\ call' = call
    BY <1>5 DEF StageOut
  <2>2. PhaseOK'
    BY <1>1, <2>1 DEF PhaseOK
  <2>3. QED BY <2>1, <2>2, CoresRest
<1>6. CASE Publish
  <2>1. /\ phase = "stage_out" /\ phase' = "done" /\ todo' = todo /\ job' = job
        /\ movers' = movers /\ call' = call
    BY <1>6 DEF Publish
  <2>2. PhaseOK'
    BY <1>1, <2>1 DEF PhaseOK
  <2>3. QED BY <2>1, <2>2, CoresRest
<1>7. QED BY <1>2, <1>3, <1>4, <1>5, <1>6

LEMMA StreamsKept == StreamInv /\ [Next]_vars => StreamInv'
<1> SUFFICES ASSUME StreamInv, [Next]_vars PROVE StreamInv'
  OBVIOUS
<1>1. CASE UNCHANGED vars
  <2>1. phase' = phase /\ job' = job /\ todo' = todo /\ movers' = movers /\ call' = call
    BY <1>1 DEF vars
  <2>2. PhaseOK /\ PhaseOK'
    BY <2>1 DEF StreamInv, PhaseOK
  <2>3. QED BY <2>1, <2>2, CoresRest
<1>2. CASE (\E a \in Jobs : Serve(a)) \/ Transfer \/ Release \/ StageOut \/ Publish
  BY <1>2, DmaCoreStreams
<1>3. ASSUME NEW c \in Cores, Step(c) PROVE StreamInv'
  BY <1>3, RunSliceStreams, GemmBlockStreams, GemmTailStreams, GemmGenericStreams, RvvStreams,
     ConvPixelStreams, ConvTailStreams, ConvGenericStreams, MfccWindowStreams,
     MfccSpectrumStreams, MelFilterStreams, DctBlockStreams, DctTailStreams DEF Step
<1>4. QED BY <1>1, <1>2, <1>3 DEF Next

\* No core waits for an element of a stream that has none left.
LEMMA NoneStarves ==
  ASSUME StreamInv, NEW c \in Cores
  PROVE  ~Starved(c)
<1>1. MoversOK(movers[c])
  BY DEF StreamInv
<1>2. ASSUME NEW d, Counts(d) PROVE ~d.starved
  BY <1>2 DEF Counts
<1>3. \A i \in 1..2 : Counts(movers[c][i])
  BY <1>1 DEF MoversOK
<1>4. QED BY <1>2, <1>3 DEF Starved

\* The counts of loops and FREP agree: no core ever waits for an element of a
\* stream that has none left, and between calls every core's streams are spent.
\* Each kernel takes exactly as many elements as the loops it programs with the
\* macros of snitch_ssr.h give it, for all extents, sharing, and whatever the
\* movers were left with.
THEOREM StreamsTheorem == Spec => []StreamsAreSpent
<1>1. StreamInv => StreamsAreSpent
  <2>1. SUFFICES ASSUME StreamInv, NEW c \in Cores
                 PROVE  /\ ~Starved(c)
                        /\ call[c] = NoCall => \A i \in 1..2 : ~movers[c][i].live
    BY DEF StreamsAreSpent
  <2>2. MoversOK(movers[c]) /\ CallOK(call[c], movers[c])
    BY <2>1 DEF StreamInv
  <2>3. ~Starved(c)
    BY <2>1, NoneStarves
  <2>4. ASSUME call[c] = NoCall, NEW i \in 1..2 PROVE ~movers[c][i].live
    <3>1. Spent(movers[c])
      BY <2>2, <2>4 DEF CallOK, NoCall
    <3>2. QED BY <3>1 DEF Spent
  <2>5. QED BY <2>3, <2>4
<1>2. QED BY <1>1, StreamInitially, StreamsKept, PTL DEF Spec

\* A product's FREP never waits for an element: while a row has blocks to go,
\* both streams have at least what one block of gemm_ssr takes.
NoBlockStarves ==
  \A c \in Cores :
    In(c, "gemm") /\ call[c].j < (call[c].O \div GEMM_UNROLL) * GEMM_UNROLL
      => \A i \in 1..2 : Left(movers[c][i]) >= call[c].N * GEMM_UNROLL

\* No kernel that streams a product ever finds a stream with nothing to deliver
\* in the middle of an FREP, which would read the register behind it.
THEOREM NoBlockStarvesTheorem == Spec => []NoBlockStarves
<1>1. StreamInv => NoBlockStarves
  <2>1. SUFFICES ASSUME StreamInv, NEW c \in Cores, call[c].fn = "gemm",
                        call[c].j < (call[c].O \div GEMM_UNROLL) * GEMM_UNROLL
                 PROVE  \A i \in 1..2 : Left(movers[c][i]) >= call[c].N * GEMM_UNROLL
    BY DEF NoBlockStarves, In
  <2> DEFINE g == call[c]
             ms == movers[c]
             U == GEMM_UNROLL
             B == Blocks(g)
  <2>2. GemmLeft(g, ms)
    <3>1. CallOK(g, ms)
      BY <2>1 DEF StreamInv
    <3>2. QED BY <2>1, <3>1 DEF CallOK
  <2>3. g.j < B * U
    BY <2>1 DEF Blocks
  <2> HIDE DEF g, ms, U, B
  <2>4. g.N \in Nat /\ g.O \in Nat /\ g.M \in Nat /\ g.i \in 0..(g.M - 1) /\ g.j \in Nat
    BY <2>2 DEF GemmLeft
  <2>5. PICK q \in 0..B :
          /\ q = B => g.j >= B * U
          /\ \A i \in 1..2 : Left(ms[i]) = (g.N * U) * ((g.M - 1 - g.i) * B + (B - q))
    BY <2>2 DEF GemmLeft, B, U
  <2>6. U \in Nat \ {0} /\ B \in Nat
    <3>1. U \in Nat \ {0}
      BY MachineAssumption DEF U
    <3>2. QED BY <3>1, <2>4, Division DEF B, Blocks, U
  <2>7. B * U \in Nat /\ (g.M - 1 - g.i) * B \in Nat /\ g.N * U \in Nat
    <3>1. g.M - 1 - g.i \in Nat
      BY <2>4
    <3>2. QED BY <3>1, <2>4, <2>6, Scaling
  <2>8. q < B
    BY <2>3, <2>4, <2>5, <2>6, <2>7
  <2> DEFINE x == (g.M - 1 - g.i) * B + (B - q)
             z == g.N * U
  <2>9. x \in Nat /\ 1 <= x
    BY <2>6, <2>7, <2>8
  <2>10. \A i \in 1..2 : Left(ms[i]) = z * x
    BY <2>5
  <2>11. z \in Nat
    BY <2>7
  <2> HIDE DEF x, z
  <2>12. z * x >= z
    <3>1. 1 * z <= x * z
      BY <2>9, <2>11, Scaling
    <3>2. 1 * z = z /\ x * z = z * x
      BY <2>9, <2>11, SMT
    <3>3. z * x \in Nat
      BY <2>9, <2>11, SMT
    <3>4. QED BY <3>1, <3>2, <3>3, <2>11
  <2>13. \A i \in 1..2 : Left(ms[i]) >= z
    BY <2>10, <2>12
  <2>14. QED BY <2>13 DEF z, U, g, ms
<1>2. QED BY <1>1, StreamInitially, StreamsKept, PTL DEF Spec

-----------------------------------------------------------------------------
(* The layout of a job in the heap.                                        *)

\* stage_in() places each operand on the line after the one before it.
LEMMA PlacesAre ==
  ASSUME NEW ops, Len(ops) \in Nat, NEW cursor
  PROVE  \A i \in 1..Len(ops) :
           Places(ops, cursor)[i] =
             IF i = 1 THEN AlignUp(cursor)
             ELSE AlignUp((Places(ops, cursor)[i - 1] + ops[i - 1].bytes) % Word)
<1> DEFINE N == Len(ops)
           After1st(x, i) == AlignUp((x + ops[i].bytes) % Word)
           Is(f, k) == f = [i \in 1..k |-> IF i = 1 THEN AlignUp(cursor)
                                           ELSE After1st(f[i - 1], i - 1)]
           f0 == CHOOSE f : Is(f, N)
<1>1. Places(ops, cursor) = f0
  BY DEF Places
<1> HIDE DEF After1st
<1>2. \E f : Is(f, N)
  <2> DEFINE T == {k \in Nat : \E f : Is(f, k)}
  <2> HIDE DEF N
  <2>1. 0 \in T
    <3> DEFINE f == [i \in 1..0 |-> 0]
    <3>1. Is(f, 0)
      BY SMT
    <3>2. QED BY <3>1
  <2>2. \A k \in T : k + 1 \in T
    <3> SUFFICES ASSUME NEW k \in T PROVE \E f : Is(f, k + 1)
      <4> HIDE DEF Is
      <4> QED OBVIOUS
    <3>1. PICK h : Is(h, k)
      <4> HIDE DEF Is
      <4> QED OBVIOUS
    <3> DEFINE f == [i \in 1..(k + 1) |-> IF i = k + 1
                                          THEN IF k = 0 THEN AlignUp(cursor) ELSE After1st(h[k], k)
                                          ELSE h[i]]
    <3>2. \A i \in 1..k : h[i] = IF i = 1 THEN AlignUp(cursor) ELSE After1st(h[i - 1], i - 1)
      BY <3>1
    <3>3. \A i \in 1..(k + 1) :
            f[i] = IF i = 1 THEN AlignUp(cursor) ELSE After1st(f[i - 1], i - 1)
      <4> TAKE i \in 1..(k + 1)
      <4>1. CASE i = k + 1
        <5>1. CASE k = 0
          BY <4>1, <5>1
        <5>2. CASE k # 0
          <6>1. f[i] = After1st(h[k], k) /\ i # 1 /\ i - 1 = k /\ f[i - 1] = h[k]
            BY <4>1, <5>2
          <6>2. QED BY <6>1
        <5>3. QED BY <5>1, <5>2
      <4>2. CASE i \in 1..k
        <5>1. i # 1 => i - 1 \in 1..k
          BY <4>2
        <5>2. QED BY <4>2, <5>1, <3>2
      <4>3. QED BY <4>1, <4>2
    <3>4. f = [i \in 1..(k + 1) |-> f[i]]
      OBVIOUS
    <3> HIDE DEF f
    <3>5. Is(f, k + 1)
      BY <3>3, <3>4
    <3>6. QED BY <3>5
  <2>3. T = Nat
    BY <2>1, <2>2, Induction
  <2>4. QED BY <2>3 DEF N
<1>3. Is(f0, N)
  BY <1>2
<1> HIDE DEF f0
<1>4. \A i \in 1..N : f0[i] = IF i = 1 THEN AlignUp(cursor) ELSE After1st(f0[i - 1], i - 1)
  BY <1>3
<1>5. QED BY <1>1, <1>4 DEF After1st, N

\* Operands of sizes that do not wrap, and that fit as stage_in() asks.
Placed(ops, cursor) ==
  /\ Len(ops) \in Nat /\ cursor \in Nat /\ cursor < HeapEnd + LineBytes
  /\ \A i \in 1..Len(ops) :
       /\ ops[i].bytes \in Nat /\ HeapEnd + 2 * LineBytes + ops[i].bytes <= Word
       /\ (Places(ops, cursor)[i] + ops[i].bytes) % Word <= HeapEnd

\* They follow each other in the heap.
LEMMA PlacesInOrder ==
  ASSUME NEW ops, NEW cursor, Placed(ops, cursor)
  PROVE  LET at == Places(ops, cursor) IN
         /\ \A i \in 1..Len(ops) :
              at[i] \in Nat /\ cursor <= at[i] /\ at[i] + ops[i].bytes <= HeapEnd
         /\ \A i, j \in 1..Len(ops) : i < j => at[i] + ops[i].bytes <= at[j]
<1> DEFINE at == Places(ops, cursor)
           N == Len(ops)
           b(i) == ops[i].bytes
<1>1. /\ HeapEnd \in Nat /\ LineBytes \in Nat \ {0} /\ Word \in Nat \ {0} /\ N \in Nat
      /\ cursor \in Nat /\ cursor < HeapEnd + LineBytes
      /\ \A i \in 1..N : b(i) \in Nat /\ HeapEnd + 2 * LineBytes + b(i) <= Word
  BY MachineAssumption, WordAssumption DEF Placed
<1>2. \A i \in 1..N : at[i] = IF i = 1 THEN AlignUp(cursor) ELSE AlignUp((at[i - 1] + b(i - 1)) % Word)
  BY PlacesAre DEF Placed
<1>3. \A i \in 1..N : (at[i] + b(i)) % Word <= HeapEnd
  BY DEF Placed
<1> HIDE DEF at, N, b
<1>4. ASSUME NEW c \in Nat, c < HeapEnd + LineBytes, NEW i \in 1..N,
             (AlignUp(c) + b(i)) % Word <= HeapEnd
      PROVE  AlignUp(c) \in Nat /\ c <= AlignUp(c) /\ AlignUp(c) + b(i) <= HeapEnd
  <2>1. HeapEnd + 2 * LineBytes <= Word /\ b(i) \in Nat /\ HeapEnd + 2 * LineBytes + b(i) <= Word
    BY <1>1
  <2>2. c + LineBytes <= Word
    BY <1>1, <1>4, <2>1
  <2>3. AlignUp(c) \in Nat /\ c <= AlignUp(c) /\ AlignUp(c) < c + LineBytes
    BY <1>1, <2>2, LineUp
  <2> DEFINE x == AlignUp(c) + b(i)
  <2>4. x \in 0..(Word - 1)
    <3>1. /\ HeapEnd \in Nat /\ LineBytes \in Nat /\ Word \in Nat
          /\ c < HeapEnd + LineBytes
      BY <1>1, <1>4
    <3>2. QED BY <2>1, <2>3, <3>1
  <2>5. x % Word <= HeapEnd
    BY <1>4
  <2> HIDE DEF x
  <2>6. x % Word = x
    <3>1. Word \in Nat \ {0}
      BY <1>1
    <3>2. QED BY <2>4, <3>1
  <2>7. QED BY <2>3, <2>5, <2>6 DEF x
<1> DEFINE P(i) == at[i] \in Nat /\ cursor <= at[i] /\ at[i] + b(i) <= HeapEnd
<1>5. ASSUME NEW i \in 1..N, i + 1 \in 1..N, P(i)
      PROVE  P(i + 1) /\ at[i] + b(i) <= at[i + 1]
  <2> DEFINE c == at[i] + b(i)
  <2>1. c \in Nat /\ c <= HeapEnd /\ cursor <= c
    <3>1. b(i) \in Nat /\ cursor \in Nat
      BY <1>1
    <3>2. QED BY <1>5, <3>1
  <2>2. c % Word = c
    <3>1. /\ HeapEnd \in Nat /\ LineBytes \in Nat \ {0} /\ Word \in Nat \ {0} /\ b(i) \in Nat
          /\ HeapEnd + 2 * LineBytes + b(i) <= Word
      BY <1>1
    <3> HIDE DEF c
    <3>2. c \in 0..(Word - 1)
      BY <2>1, <3>1
    <3>3. QED BY <3>1, <3>2
  <2>3. at[i + 1] = AlignUp(c)
    <3>1. i + 1 # 1 /\ (i + 1) - 1 = i
      OBVIOUS
    <3>2. at[i + 1] = AlignUp(c % Word)
      BY <1>2, <1>5, <3>1
    <3> HIDE DEF c
    <3>3. QED BY <2>2, <3>2
  <2> HIDE DEF c
  <2>4. /\ AlignUp(c) \in Nat /\ c <= AlignUp(c) /\ AlignUp(c) + b(i + 1) <= HeapEnd
    <3>1. (AlignUp(c) + b(i + 1)) % Word <= HeapEnd
      BY <1>3, <1>5, <2>3
    <3>2. c < HeapEnd + LineBytes
      BY <1>1, <2>1
    <3>3. QED BY <1>4, <1>5, <2>1, <3>1, <3>2
  <2>5. cursor <= AlignUp(c)
    BY <1>1, <2>1, <2>4
  <2>6. QED BY <2>3, <2>4, <2>5 DEF c
<1>6. \A i \in 1..N : P(i)
  <2> DEFINE T == {k \in Nat : k + 1 <= N => P(k + 1)}
  <2>1. 0 \in T
    <3>1. SUFFICES ASSUME 1 <= N PROVE P(1)
      BY 0 + 1 = 1
    <3>2. 1 \in 1..N
      BY <1>1, <3>1
    <3>3. at[1] = AlignUp(cursor)
      BY <1>2, <3>2
    <3>4. (AlignUp(cursor) + b(1)) % Word <= HeapEnd
      BY <1>3, <3>2, <3>3
    <3>5. QED BY <1>1, <1>4, <3>2, <3>3, <3>4
  <2>2. \A k \in T : k + 1 \in T
    <3> SUFFICES ASSUME NEW k \in T, (k + 1) + 1 <= N PROVE P((k + 1) + 1)
      OBVIOUS
    <3>1. k + 1 \in 1..N /\ (k + 1) + 1 \in 1..N /\ k + 1 <= N
      BY <1>1
    <3>2. P(k + 1)
      BY <3>1
    <3> HIDE DEF P
    <3>3. QED BY <1>5, <3>1, <3>2
  <2> HIDE DEF P
  <2>3. T = Nat
    BY <2>1, <2>2, Induction
  <2>4. ASSUME NEW i \in 1..N PROVE P(i)
    <3>1. i - 1 \in Nat /\ (i - 1) + 1 = i /\ i <= N
      BY <1>1
    <3>2. i - 1 \in T
      BY <2>3, <3>1
    <3>3. QED BY <3>1, <3>2
  <2>5. QED BY <2>4
<1>7. ASSUME NEW i \in 1..N PROVE \A j \in 1..N : i < j => at[i] + b(i) <= at[j]
  <2> DEFINE T == {k \in Nat : (i + 1) + k <= N => at[i] + b(i) <= at[(i + 1) + k]}
  <2>1. 0 \in T
    <3>1. SUFFICES ASSUME i + 1 <= N PROVE at[i] + b(i) <= at[i + 1]
      BY (i + 1) + 0 = i + 1
    <3>2. i + 1 \in 1..N
      BY <1>1, <3>1
    <3>3. QED BY <1>5, <1>6, <3>2
  <2>2. \A k \in T : k + 1 \in T
    <3> SUFFICES ASSUME NEW k \in T, (i + 1) + (k + 1) <= N
                 PROVE  at[i] + b(i) <= at[(i + 1) + (k + 1)]
      OBVIOUS
    <3> DEFINE j == (i + 1) + k
    <3>1. j \in 1..N /\ j + 1 \in 1..N /\ j <= N /\ (i + 1) + (k + 1) = j + 1
      BY <1>1
    <3>2. at[i] + b(i) <= at[j]
      BY <3>1
    <3> HIDE DEF j
    <3>3. P(j) /\ P(j + 1) /\ P(i) /\ at[j] + b(j) <= at[j + 1]
      BY <1>5, <1>6, <3>1
    <3>4. b(i) \in Nat /\ b(j) \in Nat
      BY <1>1, <3>1
    <3>5. at[i] + b(i) <= at[j + 1]
      BY <3>2, <3>3, <3>4
    <3>6. QED BY <3>1, <3>5
  <2>3. T = Nat
    BY <2>1, <2>2, Induction
  <2>4. ASSUME NEW j \in 1..N, i < j PROVE at[i] + b(i) <= at[j]
    <3>1. j - (i + 1) \in Nat /\ (i + 1) + (j - (i + 1)) = j /\ j <= N
      BY <1>1, <2>4
    <3>2. j - (i + 1) \in T
      BY <2>3, <3>1
    <3>3. QED BY <3>1, <3>2
  <2>5. QED BY <2>4
<1>8. QED BY <1>6, <1>7 DEF at, N, b

\* No two operands of a job are the same argument of its kernel.
LEMMA ArgumentsDiffer ==
  ASSUME NEW a \in Jobs
  PROVE  LET ops == plan_operands(a) IN
         /\ Len(ops) \in Nat /\ DOMAIN ops = 1..Len(ops)
         /\ \A i, j \in DOMAIN ops : ops[i].arg = ops[j].arg => i = j
<1>1. \/ a.kernel \in {"matmul", "gemm"}
      \/ a.kernel = "conv" /\ a.has_bias \in BOOLEAN
      \/ a.kernel = "mfcc"
  BY JobsAssumption
<1>2. \A n, b : Input(n, b).arg = n /\ Output(n, b).arg = n
  BY DEF Input, Output
<1> DEFINE ops == plan_operands(a)
<1>3. CASE a.kernel = "matmul"
  <2>1. PICK x, y, z : ops = <<Input("A", x), Input("B", y), Output("Y", z)>>
    BY <1>3 DEF plan_operands
  <2> HIDE DEF ops
  <2>2. /\ Len(ops) = 3 /\ DOMAIN ops = 1..3
        /\ ops[1].arg = "A" /\ ops[2].arg = "B" /\ ops[3].arg = "Y"
    BY <1>2, <2>1
  <2>3. \A i \in 1..3 : i = 1 \/ i = 2 \/ i = 3
    OBVIOUS
  <2>4. QED BY <2>2, <2>3 DEF ops
<1>4. CASE a.kernel = "gemm"
  <2>1. PICK x, y, z, w : ops = <<Input("A", x), Input("B", y), Input("C", w), Output("Y", z)>>
    BY <1>4 DEF plan_operands
  <2> HIDE DEF ops
  <2>2. /\ Len(ops) = 4 /\ DOMAIN ops = 1..4
        /\ ops[1].arg = "A" /\ ops[2].arg = "B" /\ ops[3].arg = "C" /\ ops[4].arg = "Y"
    BY <1>2, <2>1
  <2>3. \A i \in 1..4 : i = 1 \/ i = 2 \/ i = 3 \/ i = 4
    OBVIOUS
  <2>4. QED BY <2>2, <2>3 DEF ops
<1>5. CASE a.kernel = "conv"
  <2>1. PICK x, y, z, w : ops = <<Input("A", x), Input("B", y), Output("Y", z)>>
                                \o (IF a.has_bias THEN <<Input("bias", w)>> ELSE << >>)
    BY <1>5 DEF plan_operands
  <2> HIDE DEF ops
  <2>2. CASE a.has_bias
    <3> DEFINE S == {Input("A", x), Input("B", y), Output("Y", z), Input("bias", w)}
               s1 == <<Input("A", x), Input("B", y), Output("Y", z)>>
               s2 == <<Input("bias", w)>>
    <3>1. s1 \in Seq(S) /\ s2 \in Seq(S) /\ ops = s1 \o s2
      <4>1. ops = s1 \o s2
        BY <2>1, <2>2
      <4>2. Input("A", x) \in S /\ Input("B", y) \in S /\ Output("Y", z) \in S /\ Input("bias", w) \in S
        OBVIOUS
      <4> HIDE DEF S
      <4>3. s1 \in Seq(S) /\ s2 \in Seq(S)
        BY <4>2
      <4>4. QED BY <4>1, <4>3
    <3>2. /\ Len(ops) = 4 /\ DOMAIN ops = 1..4
          /\ ops[1].arg = "A" /\ ops[2].arg = "B" /\ ops[3].arg = "Y" /\ ops[4].arg = "bias"
      <4>1. Len(s1) = 3 /\ Len(s2) = 1 /\ s1[1].arg = "A" /\ s1[2].arg = "B" /\ s1[3].arg = "Y"
            /\ s2[1].arg = "bias"
        BY <1>2
      <4> HIDE DEF S, s1, s2
      <4>2. /\ ops \in Seq(S) /\ Len(ops) = Len(s1) + Len(s2)
            /\ \A i \in 1..(Len(s1) + Len(s2)) :
                 ops[i] = IF i <= Len(s1) THEN s1[i] ELSE s2[i - Len(s1)]
        BY <3>1, ConcatProperties
      <4>3. ops[1] = s1[1] /\ ops[2] = s1[2] /\ ops[3] = s1[3] /\ ops[4] = s2[1]
        BY <4>1, <4>2
      <4>4. QED BY <4>1, <4>2, <4>3
    <3>3. \A i \in 1..4 : i = 1 \/ i = 2 \/ i = 3 \/ i = 4
      OBVIOUS
    <3>4. QED BY <3>2, <3>3 DEF ops
  <2>3. CASE ~a.has_bias
    <3>1. ops = <<Input("A", x), Input("B", y), Output("Y", z)>>
      <4>1. ASSUME NEW p, NEW q, NEW r PROVE <<p, q, r>> \o << >> = <<p, q, r>>
        <5> DEFINE S == {p, q, r}
        <5>1. <<p, q, r>> \in Seq(S)
          <6>1. p \in S /\ q \in S /\ r \in S
            OBVIOUS
          <6> HIDE DEF S
          <6>2. QED BY <6>1
        <5>2. QED BY <5>1, ConcatEmptySeq
      <4>2. QED BY <2>1, <2>3, <4>1
    <3>2. /\ Len(ops) = 3 /\ DOMAIN ops = 1..3
          /\ ops[1].arg = "A" /\ ops[2].arg = "B" /\ ops[3].arg = "Y"
      BY <1>2, <3>1
    <3>3. \A i \in 1..3 : i = 1 \/ i = 2 \/ i = 3
      OBVIOUS
    <3>4. QED BY <3>2, <3>3 DEF ops
  <2>4. QED BY <2>2, <2>3
<1>6. CASE a.kernel = "mfcc"
  <2>1. PICK b1, b2, b3, b4, b5, b6, b7, b8 :
          ops = <<Input("audio", b1), Output("Y", b2), Input("window", b3),
                  Input("twiddles", b4), Input("mel_coeff", b5), Input("mel_start", b6),
                  Input("mel_len", b7), Input("dct", b8)>>
    BY <1>6, Zenon DEF plan_operands
  <2> HIDE DEF ops
  <2>2. /\ Len(ops) = 8 /\ DOMAIN ops = 1..8
        /\ ops[1].arg = "audio" /\ ops[2].arg = "Y" /\ ops[3].arg = "window"
        /\ ops[4].arg = "twiddles" /\ ops[5].arg = "mel_coeff" /\ ops[6].arg = "mel_start"
        /\ ops[7].arg = "mel_len" /\ ops[8].arg = "dct"
    BY <1>2, <2>1
  <2>3. \A i \in 1..8 : i = 1 \/ i = 2 \/ i = 3 \/ i = 4 \/ i = 5 \/ i = 6 \/ i = 7 \/ i = 8
    OBVIOUS
  <2>4. QED BY <2>2, <2>3 DEF ops
<1>7. QED BY <1>1, <1>3, <1>4, <1>5, <1>6

\* What Serve decided stays as it is until the next job.
PlanInv ==
  phase # "idle" /\ error = "none" =>
    /\ job \in Jobs /\ scratch = reserve_scratch(job, NbCompute)
    /\ plan_scratch(job) # 0 => scratch.base # 0
    /\ staged => LET ops == plan_operands(job)
                     local == Places(ops, scratch.cursor)
                 IN Fits(ops, local) /\ args = Pointers(ops, local)

LEMMA PlanKept == (Init => PlanInv) /\ (PlanInv /\ [Next]_vars => PlanInv')
<1>1. Init => PlanInv
  BY DEF Init, PlanInv
<1>2. ASSUME PlanInv, [Next]_vars PROVE PlanInv'
  <2>1. CASE \E a \in Jobs : Serve(a)
    <3>1. PICK a \in Jobs : Serve(a)
      BY <2>1
    <3>2. /\ job' = a /\ scratch' = reserve_scratch(a, NbCompute)
          /\ LET ops == plan_operands(a)
                 local == Places(ops, reserve_scratch(a, NbCompute).cursor)
             IN staged' => Fits(ops, local) /\ args' = Pointers(ops, local)
          /\ error' = "none" =>
               ~(plan_scratch(a) # 0 /\ reserve_scratch(a, NbCompute).base = 0)
      BY <3>1, Zenon DEF Serve
    <3>3. QED BY <3>1, <3>2, Zenon DEF PlanInv
  <2>2. CASE /\ job' = job /\ error' = error /\ staged' = staged /\ args' = args
             /\ scratch' = scratch /\ (phase # "idle" \/ phase' = phase)
    <3>1. CASE phase' # "idle" /\ error' = "none"
      <4>1. phase # "idle" /\ error = "none"
        BY <2>2, <3>1
      <4>2. QED BY <1>2, <2>2, <4>1, Zenon DEF PlanInv
    <3>2. CASE ~(phase' # "idle" /\ error' = "none")
      BY <3>2 DEF PlanInv
    <3>3. QED BY <3>1, <3>2
  <2>3. ASSUME NEW c \in Cores, Step(c)
        PROVE  /\ job' = job /\ error' = error /\ staged' = staged /\ args' = args
               /\ scratch' = scratch /\ phase' = phase
    BY <2>3, Zenon DEF Step, Held, RunSlice, GemmBlock, GemmTail, GemmGeneric, RvvBlock, ConvPixel,
       ConvTail, ConvGeneric, MfccWindow, MfccSpectrum, MelFilter, DctBlock, DctTail
  <2>4. CASE Transfer \/ Release \/ StageOut \/ Publish
    BY <2>2, <2>4 DEF Transfer, Release, StageOut, Publish
  <2>5. CASE UNCHANGED vars
    BY <2>2, <2>5 DEF vars
  <2>6. QED BY <1>2, <2>1, <2>2, <2>3, <2>4, <2>5 DEF Next
<1>3. QED BY <1>1, <1>2

\* reserve_scratch() leaves the cursor in the heap or on the first line after it,
\* above the slabs it has cut.
LEMMA SlabsPlaced ==
  ASSUME NEW a \in Jobs
  PROVE  LET s == reserve_scratch(a, NbCompute)
             bytes == plan_scratch(a)
             slab(c) == s.base + c * s.stride
         IN /\ bytes \in Nat
            /\ s.cursor \in Nat /\ HeapStart <= s.cursor /\ s.cursor < HeapEnd + LineBytes
            /\ bytes # 0 /\ s.base # 0 =>
                 /\ \A c \in Cores : /\ slab(c) \in Nat /\ HeapStart <= slab(c)
                                     /\ slab(c) + bytes <= s.cursor
                 /\ s.cursor <= HeapEnd
                 /\ \A c, d \in Cores : c < d => slab(c) + bytes <= slab(d)
<1> DEFINE s == reserve_scratch(a, NbCompute)
           bytes == plan_scratch(a)
           cursor == AlignUp(HeapStart)
           per == AlignUp(bytes)
           end == (cursor + per * NbCompute) % Word
           room == (bytes + LineBytes) * NbCompute
<1>1. /\ HeapStart \in Nat \ {0} /\ HeapEnd \in Nat /\ HeapStart <= HeapEnd
      /\ LineBytes \in Nat \ {0} /\ NbCompute \in Nat \ {0} /\ Word \in Nat \ {0}
  BY MachineAssumption, WordAssumption
<1>2. bytes \in Nat /\ HeapStart + LineBytes + room <= Word
  BY NothingWraps
<1>3. bytes + LineBytes \in Nat /\ room \in Nat /\ bytes + LineBytes <= room
  <2> DEFINE x == bytes + LineBytes
  <2>1. x \in Nat
    BY <1>1, <1>2
  <2> HIDE DEF x
  <2>2. x * NbCompute \in Nat /\ x <= x * NbCompute
    BY <1>1, <2>1, SMT
  <2>3. QED BY <2>1, <2>2 DEF x
<1> HIDE DEF room, bytes
<1>4. HeapStart + LineBytes <= Word /\ bytes + LineBytes <= Word
  BY <1>1, <1>2, <1>3
<1>5. /\ cursor \in Nat /\ HeapStart <= cursor /\ cursor < HeapStart + LineBytes
      /\ per \in Nat
  BY <1>1, <1>2, <1>4, LineUp
<1>6. s = IF bytes = 0 \/ end > HeapEnd THEN [base |-> 0, stride |-> 0, cursor |-> cursor]
          ELSE [base |-> cursor, stride |-> per, cursor |-> end]
  BY DEF reserve_scratch, bytes
<1> HIDE DEF cursor, per, end, s
<1>7. CASE bytes = 0 \/ s.base = 0
  <2>1. s.cursor = cursor
    <3>1. cursor # 0
      BY <1>1, <1>5
    <3>2. QED BY <1>6, <1>7, <3>1
  <2>2. QED BY <1>1, <1>2, <1>5, <1>7, <2>1 DEF s, bytes
<1>8. CASE bytes # 0 /\ s.base # 0
  <2>1. /\ \A c \in 0..(NbCompute - 1) : /\ HeapStart <= s.base + c * s.stride
                                         /\ (s.base + c * s.stride) + bytes <= s.cursor
        /\ s.cursor <= HeapEnd
        /\ \A c, d \in 0..(NbCompute - 1) :
             c < d => (s.base + c * s.stride) + bytes <= s.base + d * s.stride
    <3>1. reserve_scratch(a, NbCompute).base # 0
      BY <1>8 DEF s
    <3>2. HeapStart + LineBytes + (bytes + LineBytes) * NbCompute <= Word
      BY <1>2 DEF room
    <3>3. QED BY <1>1, <1>2, <1>4, <3>1, <3>2, SlabsDoNotMeet DEF s, bytes
  <2>2. s.base = cursor /\ s.stride = per /\ s.cursor = end /\ end <= HeapEnd
    <3>1. end > HeapEnd => s.base = 0
      BY <1>6
    <3>2. end \in Nat
      <4> DEFINE y == cursor + per * NbCompute
      <4>1. y \in Nat
        BY <1>1, <1>5, Scaling
      <4> HIDE DEF y
      <4>2. y % Word \in Nat
        BY <1>1, <4>1
      <4>3. QED BY <4>2 DEF y, end
    <3>3. QED BY <1>1, <1>6, <1>8, <3>1, <3>2
  <2>3. \A c \in Cores : s.base + c * s.stride \in Nat
    <3>1. SUFFICES ASSUME NEW c \in Cores PROVE cursor + c * per \in Nat
      BY <2>2
    <3>2. c \in Nat
      BY <1>1 DEF Cores
    <3>3. c * per \in Nat
      BY <1>1, <1>5, <3>2, Scaling
    <3>4. QED BY <1>5, <3>3
  <2>4. 0 \in Cores
    BY <1>1 DEF Cores
  <2>5. s.cursor \in Nat /\ HeapStart <= s.cursor
    <3> DEFINE y == s.base + 0 * s.stride
    <3>1. y \in Nat /\ HeapStart <= y /\ y + bytes <= s.cursor
      BY <2>1, <2>3, <2>4 DEF Cores
    <3>2. s.cursor \in Int
      <4>1. (cursor + per * NbCompute) % Word \in Int
        <5> DEFINE z == cursor + per * NbCompute
        <5>1. z \in Nat
          BY <1>1, <1>5, Scaling
        <5> HIDE DEF z
        <5>2. z % Word \in Int
          BY <1>1, <5>1
        <5>3. QED BY <5>2 DEF z
      <4>2. QED BY <2>2, <4>1 DEF end
    <3> HIDE DEF y
    <3>3. QED BY <1>1, <1>2, <3>1, <3>2
  <2>6. s.cursor < HeapEnd + LineBytes
    BY <1>1, <2>1, <2>5
  <2>7. QED BY <1>2, <2>1, <2>3, <2>5, <2>6 DEF s, bytes, Cores
<1>9. QED BY <1>7, <1>8

\* What reserve_scratch() returns are naturals.
LEMMA ReservedIs ==
  ASSUME NEW a \in Jobs
  PROVE  reserve_scratch(a, NbCompute).base \in Nat /\ reserve_scratch(a, NbCompute).stride \in Nat
<1> DEFINE bytes == plan_scratch(a)
           room == (bytes + LineBytes) * NbCompute
<1>1. /\ HeapStart \in Nat /\ LineBytes \in Nat \ {0} /\ NbCompute \in Nat \ {0}
      /\ Word \in Nat \ {0}
  BY MachineAssumption, WordAssumption
<1>2. bytes \in Nat /\ HeapStart + LineBytes + room <= Word
  BY NothingWraps
<1>3. room \in Nat /\ bytes + LineBytes <= room
  <2> DEFINE x == bytes + LineBytes
  <2>1. x \in Nat
    BY <1>1, <1>2
  <2> HIDE DEF x
  <2>2. x * NbCompute \in Nat /\ x <= x * NbCompute
    BY <1>1, <2>1, SMT
  <2>3. QED BY <2>2 DEF x
<1> HIDE DEF room, bytes
<1>4. HeapStart + LineBytes <= Word /\ bytes + LineBytes <= Word
  BY <1>1, <1>2, <1>3
<1>5. AlignUp(HeapStart) \in Nat /\ AlignUp(bytes) \in Nat
  BY <1>1, <1>2, <1>4, LineUp
<1>6. /\ reserve_scratch(a, NbCompute).base \in {0, AlignUp(HeapStart)}
      /\ reserve_scratch(a, NbCompute).stride \in {0, AlignUp(bytes)}
  BY DEF reserve_scratch, bytes
<1>7. QED BY <1>5, <1>6

\* As many slabs as cores.
LEMMA OneSlabEach ==
  ASSUME NEW base \in Nat, NEW stride \in Nat, NEW bytes \in Nat \ {0},
         \A c \in Cores : base + c * stride \in Nat,
         \A c, d \in Cores : c < d => (base + c * stride) + bytes <= base + d * stride
  PROVE  Cardinality({<<base + c * stride, bytes>> : c \in Cores}) = NbCompute
<1> DEFINE slab(c) == base + c * stride
           slabs == {<<slab(c), bytes>> : c \in Cores}
           f == [c \in Cores |-> <<slab(c), bytes>>]
<1>1. NbCompute \in Nat \ {0}
  BY MachineAssumption
<1>2. /\ \A c \in Cores : slab(c) \in Nat
      /\ \A c, d \in Cores : c < d => slab(c) + bytes <= slab(d)
  OBVIOUS
<1> HIDE DEF slab
<1>3. ASSUME NEW c \in Cores, NEW d \in Cores, f[c] = f[d] PROVE c = d
  <2>1. slab(c) = slab(d)
    BY <1>3
  <2>2. c \in Int /\ d \in Int
    BY DEF Cores
  <2>3. ~(c < d) /\ ~(d < c)
    BY <1>2, <2>1
  <2>4. QED BY <2>2, <2>3
<1>4. f \in Bijection(Cores, slabs)
  <2>1. f \in [Cores -> slabs] /\ \A t \in slabs : \E c \in Cores : f[c] = t
    OBVIOUS
  <2>2. \A c, d \in Cores : f[c] = f[d] => c = d
    BY <1>3
  <2> HIDE DEF f, slabs
  <2>3. f \in Injection(Cores, slabs) /\ f \in Surjection(Cores, slabs)
    BY <2>1, <2>2 DEF Injection, Surjection, IsInjective
  <2>4. QED BY <2>3 DEF Bijection
<1>5. IsFiniteSet(Cores) /\ Cardinality(Cores) = NbCompute
  <2>1. /\ IsFiniteSet(0..(NbCompute - 1))
        /\ Cardinality(0..(NbCompute - 1)) = IF 0 > NbCompute - 1 THEN 0
                                             ELSE ((NbCompute - 1) - 0) + 1
    BY <1>1, FS_Interval
  <2>2. QED BY <1>1, <2>1 DEF Cores
<1>6. Cardinality(slabs) = Cardinality(Cores)
  BY <1>4, <1>5, FS_Bijection DEF ExistsBijection
<1>7. QED BY <1>5, <1>6 DEF slab

\* What Serve laid out is there until the job is done.
LEMMA LaidOut ==
  ASSUME PlanInv, phase # "idle", error = "none"
  PROVE  LET ops == plan_operands(job)
             at == Places(ops, scratch.cursor)
             bytes == plan_scratch(job)
             slab(c) == scratch.base + c * scratch.stride
         IN /\ job \in Jobs /\ scratch = reserve_scratch(job, NbCompute)
            /\ bytes \in Nat /\ scratch.cursor \in Nat /\ HeapStart <= scratch.cursor
            /\ scratch.cursor < HeapEnd + LineBytes
            /\ bytes # 0 => /\ \A c \in Cores : /\ slab(c) \in Nat /\ HeapStart <= slab(c)
                                                /\ slab(c) + bytes <= scratch.cursor
                            /\ scratch.cursor <= HeapEnd
                            /\ \A c, d \in Cores : c < d => slab(c) + bytes <= slab(d)
            /\ Len(ops) \in Nat /\ DOMAIN ops = 1..Len(ops)
            /\ \A i \in 1..Len(ops) : ops[i].bytes \in Nat
            /\ staged =>
                 /\ \A i \in 1..Len(ops) : /\ args[ops[i].arg] = at[i]
                                            /\ at[i] \in Nat /\ scratch.cursor <= at[i]
                                            /\ at[i] + ops[i].bytes <= HeapEnd
                 /\ \A i, j \in 1..Len(ops) : i < j => at[i] + ops[i].bytes <= at[j]
<1> DEFINE ops == plan_operands(job)
           at == Places(ops, scratch.cursor)
           N == Len(ops)
           bytes == plan_scratch(job)
           slab(c) == scratch.base + c * scratch.stride
<1>1. /\ job \in Jobs /\ scratch = reserve_scratch(job, NbCompute)
      /\ bytes # 0 => scratch.base # 0
      /\ staged => Fits(ops, at) /\ args = Pointers(ops, at)
  BY DEF PlanInv
<1>2. /\ bytes \in Nat
      /\ scratch.cursor \in Nat /\ HeapStart <= scratch.cursor
      /\ scratch.cursor < HeapEnd + LineBytes
      /\ bytes # 0 => /\ \A c \in Cores : /\ slab(c) \in Nat /\ HeapStart <= slab(c)
                                          /\ slab(c) + bytes <= scratch.cursor
                      /\ scratch.cursor <= HeapEnd
                      /\ \A c, d \in Cores : c < d => slab(c) + bytes <= slab(d)
  BY <1>1, SlabsPlaced
<1>3. /\ N \in Nat /\ DOMAIN ops = 1..N
      /\ \A i, j \in 1..N : ops[i].arg = ops[j].arg => i = j
  <2>1. /\ N \in Nat /\ DOMAIN ops = 1..N
        /\ \A i, j \in DOMAIN ops : ops[i].arg = ops[j].arg => i = j
    BY <1>1, ArgumentsDiffer
  <2>2. QED BY <2>1
<1>4. \A i \in 1..N : ops[i].bytes \in Nat /\ HeapEnd + 2 * LineBytes + ops[i].bytes <= Word
  BY <1>1, <1>3, NothingWraps
<1>5. ASSUME staged
      PROVE  /\ \A i \in 1..N : args[ops[i].arg] = at[i]
             /\ \A i \in 1..N : /\ at[i] \in Nat /\ scratch.cursor <= at[i]
                                /\ at[i] + ops[i].bytes <= HeapEnd
             /\ \A i, j \in 1..N : i < j => at[i] + ops[i].bytes <= at[j]
  <2>1. Fits(ops, at) /\ args = Pointers(ops, at)
    BY <1>1, <1>5
  <2>2. \A i \in 1..N : (at[i] + ops[i].bytes) % Word <= HeapEnd
    BY <1>3, <2>1 DEF Fits
  <2>3. Placed(ops, scratch.cursor)
    <3> HIDE DEF ops
    <3>1. QED BY <1>2, <1>3, <1>4, <2>2 DEF Placed
  <2>4. \A i \in 1..N : args[ops[i].arg] = at[i]
    <3> HIDE DEF ops, at, N
    <3>1. SUFFICES ASSUME NEW i \in 1..N PROVE args[ops[i].arg] = at[i]
      OBVIOUS
    <3>2. args[ops[i].arg] = at[CHOOSE j \in DOMAIN ops : ops[j].arg = ops[i].arg]
      BY <1>3, <2>1 DEF Pointers
    <3>3. (CHOOSE j \in DOMAIN ops : ops[j].arg = ops[i].arg) = i
      BY <1>3
    <3>4. QED BY <3>2, <3>3
  <2>5. QED BY <2>3, <2>4, PlacesInOrder
<1> HIDE DEF ops, at, N, bytes
<1>6. QED BY <1>1, <1>2, <1>3, <1>4, <1>5 DEF ops, at, N, bytes

\* The layout the invariant speaks of, operand by operand and slab by slab.
LEMMA PlanIsLaidOut ==
  ASSUME PlanInv, phase # "idle", error = "none"
  PROVE  PlanIsSound
<1> DEFINE ops == plan_operands(job)
           at == Places(ops, scratch.cursor)
           N == Len(ops)
           bytes == plan_scratch(job)
           slab(c) == scratch.base + c * scratch.stride
           operands == IF staged
                       THEN {<<args[ops[i].arg], ops[i].bytes>> : i \in DOMAIN ops} ELSE {}
           slabs == IF bytes = 0 THEN {} ELSE {<<slab(c), bytes>> : c \in Cores}
           pieces == {p \in operands \cup slabs : p[2] > 0}
<1>1. /\ job \in Jobs /\ scratch = reserve_scratch(job, NbCompute)
      /\ bytes \in Nat /\ scratch.cursor \in Nat /\ HeapStart <= scratch.cursor
      /\ bytes # 0 => /\ \A c \in Cores : /\ slab(c) \in Nat /\ HeapStart <= slab(c)
                                          /\ slab(c) + bytes <= scratch.cursor
                      /\ scratch.cursor <= HeapEnd
                      /\ \A c, d \in Cores : c < d => slab(c) + bytes <= slab(d)
      /\ N \in Nat /\ DOMAIN ops = 1..N
      /\ \A i \in 1..N : ops[i].bytes \in Nat
      /\ staged => /\ \A i \in 1..N : /\ args[ops[i].arg] = at[i]
                                       /\ at[i] \in Nat /\ scratch.cursor <= at[i]
                                       /\ at[i] + ops[i].bytes <= HeapEnd
                   /\ \A i, j \in 1..N : i < j => at[i] + ops[i].bytes <= at[j]
  BY LaidOut
<1>2. HeapStart \in Nat /\ HeapEnd \in Nat
  BY MachineAssumption
<1> HIDE DEF ops, at, N, bytes, slab
<1>3. \A p \in operands :
        \E i \in 1..N : staged /\ p = <<at[i], ops[i].bytes>>
  BY <1>1
<1>4. \A p \in slabs : \E c \in Cores : bytes # 0 /\ p = <<slab(c), bytes>>
  OBVIOUS
<1> HIDE DEF operands, slabs
<1>5. ASSUME NEW p \in operands
      PROVE  /\ p[1] \in Nat /\ p[2] \in Nat /\ scratch.cursor <= p[1] /\ p[1] + p[2] <= HeapEnd
  <2>1. PICK i \in 1..N : staged /\ p = <<at[i], ops[i].bytes>>
    BY <1>3
  <2>2. p[1] = at[i] /\ p[2] = ops[i].bytes
    BY <2>1
  <2>3. QED BY <1>1, <2>1, <2>2
<1>6. ASSUME NEW p \in slabs
       PROVE  /\ p[1] \in Nat /\ p[2] \in Nat /\ HeapStart <= p[1]
              /\ p[1] + p[2] <= scratch.cursor /\ scratch.cursor <= HeapEnd
  <2>1. PICK c \in Cores : bytes # 0 /\ p = <<slab(c), bytes>>
    BY <1>4
  <2>2. p[1] = slab(c) /\ p[2] = bytes
    BY <2>1
  <2>3. QED BY <1>1, <2>1, <2>2
<1>7. ASSUME NEW p \in operands, NEW q \in operands, p # q
       PROVE  p[1] + p[2] <= q[1] \/ q[1] + q[2] <= p[1]
  <2>1. PICK i \in 1..N : staged /\ p = <<at[i], ops[i].bytes>>
    BY <1>3
  <2>2. PICK j \in 1..N : staged /\ q = <<at[j], ops[j].bytes>>
    BY <1>3
  <2>3. i < j \/ j < i
    <3>1. i # j
      BY <1>7, <2>1, <2>2
    <3>2. i \in Int /\ j \in Int
      BY <1>1
    <3>3. QED BY <3>1, <3>2
  <2>4. p[1] = at[i] /\ p[2] = ops[i].bytes /\ q[1] = at[j] /\ q[2] = ops[j].bytes
    BY <2>1, <2>2
  <2>5. QED BY <1>1, <2>1, <2>3, <2>4
<1>8. ASSUME NEW p \in slabs, NEW q \in slabs, p # q
       PROVE  p[1] + p[2] <= q[1] \/ q[1] + q[2] <= p[1]
  <2>1. PICK c \in Cores : bytes # 0 /\ p = <<slab(c), bytes>>
    BY <1>4
  <2>2. PICK d \in Cores : bytes # 0 /\ q = <<slab(d), bytes>>
    BY <1>4
  <2>3. c < d \/ d < c
    <3>1. c # d
      BY <1>8, <2>1, <2>2
    <3>2. c \in Int /\ d \in Int
      BY DEF Cores
    <3>3. QED BY <3>1, <3>2
  <2>4. p[1] = slab(c) /\ p[2] = bytes /\ q[1] = slab(d) /\ q[2] = bytes
    BY <2>1, <2>2
  <2>5. QED BY <1>1, <2>1, <2>3, <2>4
<1>9. ASSUME NEW p \in operands, NEW q \in slabs
       PROVE  q[1] + q[2] <= p[1]
  BY <1>1, <1>5, <1>6
<1>10. \A p \in pieces : HeapStart <= p[1] /\ p[1] + p[2] <= HeapEnd
  BY <1>1, <1>2, <1>5, <1>6
<1>11. \A p, q \in pieces : p # q => p[1] + p[2] <= q[1] \/ q[1] + q[2] <= p[1]
  BY <1>7, <1>8, <1>9
<1>12. Cardinality(slabs) \in {0, NbCompute}
  <2>1. CASE bytes = 0
    <3>1. slabs = {}
      BY <2>1 DEF slabs
    <3>2. QED BY <3>1, FS_EmptySet
  <2>2. CASE bytes # 0
    <3>1. slabs = {<<scratch.base + c * scratch.stride, bytes>> : c \in Cores}
      BY <2>2 DEF slabs, slab
    <3>2. scratch.base \in Nat /\ scratch.stride \in Nat
      BY <1>1, ReservedIs
    <3>3. /\ \A c \in Cores : scratch.base + c * scratch.stride \in Nat
          /\ \A c, d \in Cores : c < d => (scratch.base + c * scratch.stride) + bytes
                                           <= scratch.base + d * scratch.stride
      BY <1>1, <2>2 DEF slab
    <3>4. bytes \in Nat \ {0}
      BY <1>1, <2>2
    <3>5. QED BY <3>1, <3>2, <3>3, <3>4, OneSlabEach
  <2>3. QED BY <2>1, <2>2
<1>13. QED BY <1>10, <1>11, <1>12, Zenon DEF PlanIsSound, operands, slabs, slab, ops, bytes

\* While a job runs, its operands and the slabs of its cores, as stage_in() and
\* reserve_scratch() laid them out, do not meet and are in the heap: for every
\* job whose sizes do not wrap, every heap and every number of cores.
THEOREM PlanTheorem == Spec => []PlanIsSound
<1>1. PlanInv => PlanIsSound
  <2>1. CASE phase = "run" /\ error = "none"
    BY <2>1, PlanIsLaidOut
  <2>2. CASE ~(phase = "run" /\ error = "none")
    BY <2>2 DEF PlanIsSound
  <2>3. QED BY <2>1, <2>2
<1>2. QED BY <1>1, PlanKept, PTL DEF Spec
=============================================================================
