---------------------------- MODULE KernelProofs ----------------------------
(***************************************************************************)
(* What the kernels of ClusterJob compute and where they store it: which   *)
(* element every read of a stream delivers, what an FREP leaves in its     *)
(* accumulators, and that a block of a product and a pixel of a            *)
(* convolution store what the loops of the portable kernels would; that    *)
(* every core stores in its own share of the output and its own slab, and  *)
(* disturbs nothing another core of a staged job reads.                    *)
(***************************************************************************)
EXTENDS ClusterProofs

-----------------------------------------------------------------------------
(* What the blocks of a streamed product add up: which element each read   *)
(* of a stream delivers, and so what an FREP leaves in its accumulators.   *)

\* A number has one digit and one rest.
LEMMA OneDigit ==
  ASSUME NEW u \in Nat \ {0}, NEW x \in 0..(u - 1), NEW y \in 0..(u - 1), NEW k \in Nat, NEW l \in Nat,
         x + u * k = y + u * l
  PROVE  x = y /\ k = l
<1>1. u * k \in Nat /\ u * l \in Nat
  BY SMT
<1>2. u * k + x = u * l + y
  BY <1>1
<1>3. (u * k + x) \div u = k /\ (u * k + x) % u = x
  BY Quotient
<1>4. (u * l + y) \div u = l /\ (u * l + y) % u = y
  BY Quotient
<1>5. QED BY <1>2, <1>3, <1>4

\* A number of four digits, in the radices u, n and b, and one more.  Equal ones are
\* equal digit by digit.
Number(u, n, b, d, d0, d1, d2) == 1 + d + u * (d0 + n * (d1 + b * d2))
Digits(u, n, b, d, d0, d1, d2) ==
  /\ u \in Nat \ {0} /\ n \in Nat \ {0} /\ b \in Nat \ {0}
  /\ d \in 0..(u - 1) /\ d0 \in 0..(n - 1) /\ d1 \in 0..(b - 1) /\ d2 \in Nat
LEMMA FourDigits ==
  ASSUME NEW U, NEW N, NEW B, NEW xr, NEW x0, NEW x1, NEW x2, NEW yr, NEW y0, NEW y1, NEW y2,
         Digits(U, N, B, xr, x0, x1, x2), Digits(U, N, B, yr, y0, y1, y2),
         Number(U, N, B, xr, x0, x1, x2) = Number(U, N, B, yr, y0, y1, y2)
  PROVE  xr = yr /\ x0 = y0 /\ x1 = y1 /\ x2 = y2
<1> DEFINE X == x1 + B * x2
           Y == y1 + B * y2
           V == x0 + N * X
           W == y0 + N * Y
<1>0. /\ U \in Nat \ {0} /\ N \in Nat \ {0} /\ B \in Nat \ {0}
      /\ xr \in 0..(U - 1) /\ x0 \in 0..(N - 1) /\ x1 \in 0..(B - 1) /\ x2 \in Nat
      /\ yr \in 0..(U - 1) /\ y0 \in 0..(N - 1) /\ y1 \in 0..(B - 1) /\ y2 \in Nat
  BY DEF Digits
<1>1. X \in Nat /\ Y \in Nat
  <2>1. B * x2 \in Nat /\ B * y2 \in Nat
    BY <1>0, SMT
  <2>2. QED BY <1>0, <2>1
<1> HIDE DEF X, Y
<1>2. V \in Nat /\ W \in Nat
  <2>1. N * X \in Nat /\ N * Y \in Nat
    BY <1>0, <1>1, SMT
  <2>2. QED BY <1>0, <2>1
<1> HIDE DEF V, W
<1>3. xr + U * V = yr + U * W
  <2>1. U * V \in Nat /\ U * W \in Nat
    BY <1>0, <1>2, SMT
  <2>2. 1 + xr + U * V = 1 + yr + U * W
    BY <1>0 DEF V, W, X, Y, Number
  <2>3. QED BY <1>0, <2>1, <2>2
<1>4. xr = yr /\ V = W
  BY <1>0, <1>2, <1>3, OneDigit
<1>5. x0 = y0 /\ X = Y
  BY <1>0, <1>1, <1>4, OneDigit DEF V, W
<1>6. x1 = y1 /\ x2 = y2
  BY <1>0, <1>5, OneDigit DEF X, Y
<1>7. QED BY <1>4, <1>5, <1>6

\* The reads that are left from element k of block q of row i on, as a number
\* in the digits of the loops: the reads of this element, the elements of this
\* block, the blocks of this row, the rows.
LEMMA LeftInDigits ==
  ASSUME NEW U \in Nat, NEW N \in Nat, NEW B \in Nat, NEW r \in Nat,
         NEW b \in Nat, NEW k \in Nat, NEW u \in Nat
  PROVE  (N * U) * (r * B + (b + 1)) - (k * U + u)
           = 1 + (U - 1 - u) + U * ((N - 1 - k) + N * (b + B * r))
<1>1. r * B \in Nat /\ r * B = B * r
  BY SMT
<1> DEFINE z == B * r + b
<1>2. z \in Nat /\ r * B + (b + 1) = z + 1 /\ b + B * r = z
  BY <1>1
<1> HIDE DEF z
<1>3. (N * U) * (z + 1) = U * (N * z) + U * N /\ U * (N * z) \in Nat /\ U * N \in Nat /\ N * z \in Nat
  BY <1>2, SMT
<1>4. U * ((N - 1 - k) + N * z) = U * N - U - U * k + U * (N * z) /\ k * U = U * k /\ U * k \in Nat
  BY <1>2, SMT
<1>5. QED BY <1>2, <1>3, <1>4

\* A stream that has left, of the reads of m rows of b blocks of n elements for u
\* accumulators, those from accumulator v's read of element k of block q of row i on.
HasLeft(d, u, n, b, m, i, q, k, v) ==
  Left(d) = (n * u) * ((m - 1 - i) * b + (b - q)) - (k * u + v)

\* Where the first stream of a product stands, by what it has left.
GivenA(d, u, n, b, m) ==
  /\ d.live /\ d.dims = 3 /\ d.repeat = u - 1
  /\ d.bounds[0] = n - 1 /\ d.bounds[1] = b - 1 /\ d.bounds[2] = m - 1
GivenB(d, u, n, b, m) ==
  /\ d.live /\ d.dims = 4 /\ d.repeat = 0 /\ d.bounds[0] = u - 1
  /\ d.bounds[1] = n - 1 /\ d.bounds[2] = b - 1 /\ d.bounds[3] = m - 1
LEMMA StandsInA ==
  ASSUME NEW d, Counts(d), NEW U \in Nat \ {0}, NEW N \in Nat \ {0}, NEW B \in Nat \ {0},
         NEW M \in Nat \ {0}, GivenA(d, U, N, B, M),
         NEW i \in 0..(M - 1), NEW q \in 0..(B - 1), NEW k \in 0..(N - 1), NEW u \in 0..(U - 1),
         HasLeft(d, U, N, B, M, i, q, k, u)
  PROVE  d.idx[0] = k /\ d.idx[1] = q /\ d.idx[2] = i
<1>0. /\ d.live /\ d.dims = 3 /\ d.repeat = U - 1
      /\ d.bounds[0] = N - 1 /\ d.bounds[1] = B - 1 /\ d.bounds[2] = M - 1
      /\ Left(d) = (N * U) * ((M - 1 - i) * B + (B - q)) - (k * U + u)
  BY DEF GivenA, HasLeft
<1>1. /\ d.idx \in [Levels -> Nat] /\ d.rep \in 0..(U - 1) /\ 0 \in Levels /\ 1 \in Levels /\ 2 \in Levels
      /\ d.idx[0] \in 0..(N - 1) /\ d.idx[1] \in 0..(B - 1) /\ d.idx[2] \in 0..(M - 1)
      /\ d.bounds[3] \in Nat
  <2>1. /\ d.idx \in [Levels -> Nat] /\ d.bounds \in [Levels -> Nat] /\ d.rep \in Nat /\ d.rep <= d.repeat
        /\ \A l \in 0..2 : d.idx[l] <= d.bounds[l]
    BY <1>0 DEF Counts
  <2>2. 0 \in Levels /\ 1 \in Levels /\ 2 \in Levels /\ 3 \in Levels
    BY DEF Levels
  <2>3. QED BY <1>0, <2>1, <2>2
<1> DEFINE xr == U - 1 - d.rep
           x0 == N - 1 - d.idx[0]
           x1 == B - 1 - d.idx[1]
           x2 == M - 1 - d.idx[2]
           y0 == N - 1 - k
           y1 == B - 1 - q
           y2 == M - 1 - i
           yr == U - 1 - u
<1>2. /\ xr \in 0..(U - 1) /\ x0 \in 0..(N - 1) /\ x1 \in 0..(B - 1) /\ x2 \in Nat
      /\ yr \in 0..(U - 1) /\ y0 \in 0..(N - 1) /\ y1 \in 0..(B - 1) /\ y2 \in Nat
  BY <1>0, <1>1
<1>3. Left(d) = 1 + xr + U * (x0 + N * (x1 + B * x2))
  <2>1. After3(d) = 0
    BY <1>0 DEF After3, ToGo
  <2>2. After2(d) = x2
    <3>1. (d.bounds[2] + 1) * 0 = 0
      BY <1>0, SMT
    <3>2. QED BY <1>0, <2>1, <3>1, <1>1, <1>2 DEF After2, ToGo
  <2>3. After1(d) = x1 + B * x2
    <3>1. ToGo(d, 1) = x1 /\ d.bounds[1] + 1 = B
      BY <1>0, <1>1 DEF ToGo
    <3>2. QED BY <1>0, <2>2, <3>1 DEF After1
  <2>4. After0(d) = x0 + N * (x1 + B * x2)
    <3>1. ToGo(d, 0) = x0 /\ d.bounds[0] + 1 = N
      BY <1>0, <1>1 DEF ToGo
    <3>2. QED BY <1>0, <2>3, <3>1 DEF After0
  <2>5. d.repeat - d.rep + 1 = 1 + xr /\ d.repeat + 1 = U
    BY <1>0, <1>1
  <2>6. QED BY <1>0, <2>4, <2>5 DEF Left
<1>4. Left(d) = 1 + yr + U * (y0 + N * (y1 + B * y2))
  <2>1. B - q = y1 + 1 /\ k \in Nat /\ u \in Nat
    BY <1>0, <1>1
  <2> HIDE DEF y1
  <2>2. QED BY <1>0, <1>2, <2>1, LeftInDigits
<1>5. x0 = y0 /\ x1 = y1 /\ x2 = y2
  <2> HIDE DEF xr, x0, x1, x2, yr, y0, y1, y2
  <2>1. Number(U, N, B, xr, x0, x1, x2) = Number(U, N, B, yr, y0, y1, y2)
    BY <1>0, <1>3, <1>4 DEF Number
  <2>2. Digits(U, N, B, xr, x0, x1, x2) /\ Digits(U, N, B, yr, y0, y1, y2)
    BY <1>0, <1>2 DEF Digits
  <2>3. QED BY <1>0, <2>1, <2>2, FourDigits
<1>6. QED BY <1>0, <1>1, <1>5

\* Where the second stands: it has a level more, and delivers no element twice.
LEMMA StandsInB ==
  ASSUME NEW d, Counts(d), NEW U \in Nat \ {0}, NEW N \in Nat \ {0}, NEW B \in Nat \ {0},
         NEW M \in Nat \ {0}, GivenB(d, U, N, B, M),
         NEW i \in 0..(M - 1), NEW q \in 0..(B - 1), NEW k \in 0..(N - 1), NEW u \in 0..(U - 1),
         HasLeft(d, U, N, B, M, i, q, k, u)
  PROVE  d.idx[0] = u /\ d.idx[1] = k /\ d.idx[2] = q /\ d.idx[3] = i
<1>0. /\ d.live /\ d.dims = 4 /\ d.repeat = 0 /\ d.bounds[0] = U - 1
      /\ d.bounds[1] = N - 1 /\ d.bounds[2] = B - 1 /\ d.bounds[3] = M - 1
      /\ Left(d) = (N * U) * ((M - 1 - i) * B + (B - q)) - (k * U + u)
  BY DEF GivenB, HasLeft
<1>1. /\ d.idx \in [Levels -> Nat] /\ d.rep = 0
      /\ d.idx[0] \in 0..(U - 1) /\ d.idx[1] \in 0..(N - 1) /\ d.idx[2] \in 0..(B - 1)
      /\ d.idx[3] \in 0..(M - 1)
  <2>1. /\ d.idx \in [Levels -> Nat] /\ d.bounds \in [Levels -> Nat] /\ d.rep \in Nat /\ d.rep <= d.repeat
        /\ \A l \in 0..3 : d.idx[l] <= d.bounds[l]
    BY <1>0 DEF Counts
  <2>2. 0 \in Levels /\ 1 \in Levels /\ 2 \in Levels /\ 3 \in Levels
    BY DEF Levels
  <2>3. QED BY <1>0, <2>1, <2>2
<1> DEFINE xr == U - 1 - d.idx[0]
           x0 == N - 1 - d.idx[1]
           x1 == B - 1 - d.idx[2]
           x2 == M - 1 - d.idx[3]
           y0 == N - 1 - k
           y1 == B - 1 - q
           y2 == M - 1 - i
           yr == U - 1 - u
<1>2. /\ xr \in 0..(U - 1) /\ x0 \in 0..(N - 1) /\ x1 \in 0..(B - 1) /\ x2 \in Nat
      /\ yr \in 0..(U - 1) /\ y0 \in 0..(N - 1) /\ y1 \in 0..(B - 1) /\ y2 \in Nat
  BY <1>0, <1>1
<1>3. Left(d) = 1 + xr + U * (x0 + N * (x1 + B * x2))
  <2>1. After3(d) = x2
    BY <1>0, <1>1 DEF After3, ToGo
  <2>2. After2(d) = x1 + B * x2
    <3>1. ToGo(d, 2) = x1 /\ d.bounds[2] + 1 = B
      BY <1>0, <1>1 DEF ToGo
    <3>2. QED BY <1>0, <2>1, <3>1 DEF After2
  <2>3. After1(d) = x0 + N * (x1 + B * x2)
    <3>1. ToGo(d, 1) = x0 /\ d.bounds[1] + 1 = N
      BY <1>0, <1>1 DEF ToGo
    <3>2. QED BY <1>0, <2>2, <3>1 DEF After1
  <2>4. After0(d) = xr + U * (x0 + N * (x1 + B * x2))
    <3>1. ToGo(d, 0) = xr /\ d.bounds[0] + 1 = U
      BY <1>0, <1>1 DEF ToGo
    <3>2. QED BY <1>0, <2>3, <3>1 DEF After0
  <2>5. After0(d) \in Nat
    BY <1>0, AftersAre
  <2>6. Left(d) = 1 + After0(d)
    BY <1>0, <1>1, <2>5 DEF Left
  <2> DEFINE z == U * (x0 + N * (x1 + B * x2))
  <2>7. Left(d) = 1 + (xr + z) /\ z \in Nat
    <3>1. B * x2 \in Nat
      BY <1>0, <1>2, SMT
    <3>2. x1 + B * x2 \in Nat
      BY <1>0, <1>2, <3>1
    <3> DEFINE v == x1 + B * x2
    <3> HIDE DEF v
    <3>3. N * v \in Nat
      BY <1>0, <3>2, SMT DEF v
    <3> DEFINE w == x0 + N * v
    <3>4. w \in Nat
      BY <1>0, <1>2, <3>3
    <3> HIDE DEF w
    <3>5. U * w \in Nat
      BY <1>0, <3>4, SMT
    <3>6. QED BY <1>0, <2>4, <2>6, <3>5 DEF v, w
  <2> HIDE DEF z, xr
  <2>8. Left(d) = 1 + xr + z
    BY <1>0, <1>2, <2>7
  <2>9. QED BY <1>0, <2>8 DEF z
<1>4. Left(d) = 1 + yr + U * (y0 + N * (y1 + B * y2))
  <2>1. B - q = y1 + 1 /\ k \in Nat /\ u \in Nat
    BY <1>0, <1>1
  <2> HIDE DEF y1
  <2>2. QED BY <1>0, <1>2, <2>1, LeftInDigits
<1>5. xr = yr /\ x0 = y0 /\ x1 = y1 /\ x2 = y2
  <2> HIDE DEF xr, x0, x1, x2, yr, y0, y1, y2
  <2>1. Number(U, N, B, xr, x0, x1, x2) = Number(U, N, B, yr, y0, y1, y2)
    BY <1>0, <1>3, <1>4 DEF Number
  <2>2. Digits(U, N, B, xr, x0, x1, x2) /\ Digits(U, N, B, yr, y0, y1, y2)
    BY <1>0, <1>2 DEF Digits
  <2>3. QED BY <1>0, <2>1, <2>2, FourDigits
<1>6. \A x, y, z \in Int : z - 1 - x = z - 1 - y => x = y
  OBVIOUS
<1>7. /\ d.idx[0] \in Int /\ d.idx[1] \in Int /\ d.idx[2] \in Int /\ d.idx[3] \in Int
  BY <1>0, <1>1
<1>8. QED BY <1>0, <1>5, <1>6, <1>7

\* The next index.
LEMMA OneOn ==
  ASSUME NEW t \in Nat, NEW n \in Nat, t < n
  PROVE  t + 1 <= n /\ t + 1 \in 1..n /\ (t + 1) - 1 = t /\ t \in 0..n /\ t \in 0..(n - 1)
OBVIOUS

\* A stream with a nest it was given stays in it, for as long as it has elements.
Keeps(d, n, b, s, p) == d.live => Walks(n, b, s, p, d)

\* A pop leaves it there.
LEMMA PopKeeps ==
  ASSUME NEW d, d.live, NEW n, NEW b, NEW s, NEW p \in Nat, Nest(n, b, s), Keeps(d, n, b, s, p)
  PROVE  Keeps(Pop(d), n, b, s, p)
<1>1. Walks(n, b, s, p, d)
  BY DEF Keeps
<1>2. QED BY <1>1, StreamGoesOn DEF Keeps

\* After t of L pops both streams d are t elements on, in the nests they were given.
BothWalk(f, L, d, n1, b1, s1, p1, n2, b2, s2, p2) ==
  \A t \in 0..L :
    /\ f[t].d = <<f[t].d[1], f[t].d[2]>>
    /\ After(f[t].d[1], d[1], t) /\ Keeps(f[t].d[1], n1, b1, s1, p1)
    /\ After(f[t].d[2], d[2], t) /\ Keeps(f[t].d[2], n2, b2, s2, p2)

\* The states an FREP goes through: one multiply-add after another, which take
\* an element from either stream and leave it in its nest.
LEMMA FrepWalks ==
  ASSUME NEW d, d = <<d[1], d[2]>>, Counts(d[1]), Counts(d[2]), NEW m, NEW u, NEW L \in Nat,
         L <= Left(d[1]), L <= Left(d[2]),
         NEW n1, NEW b1, NEW s1, NEW p1 \in Nat, Nest(n1, b1, s1), Keeps(d[1], n1, b1, s1, p1),
         NEW n2, NEW b2, NEW s2, NEW p2 \in Nat, Nest(n2, b2, s2), Keeps(d[2], n2, b2, s2, p2),
         NEW f, f[0].d = d, Runs(f, m, u, L)
  PROVE  BothWalk(f, L, d, n1, b1, s1, p1, n2, b2, s2, p2)
<1>1. Left(d[1]) \in Nat /\ Left(d[2]) \in Nat
  BY AftersAre DEF Left
<1> DEFINE P(t) == /\ f[t].d = <<f[t].d[1], f[t].d[2]>>
                   /\ After(f[t].d[1], d[1], t) /\ Keeps(f[t].d[1], n1, b1, s1, p1)
                   /\ After(f[t].d[2], d[2], t) /\ Keeps(f[t].d[2], n2, b2, s2, p2)
           T == {t \in Nat : t <= L => P(t)}
<1>2. 0 \in T
  BY <1>1 DEF After
<1>3. \A t \in T : t + 1 \in T
  <2> SUFFICES ASSUME NEW t \in T, t + 1 <= L PROVE P(t + 1)
    OBVIOUS
  <2>1. P(t) /\ t + 1 \in 1..L /\ (t + 1) - 1 = t
    OBVIOUS
  <2>2. f[t + 1].d = <<Pop(f[t].d[1]), Pop(f[t].d[2])>>
    <3>1. f[t + 1] = Fma(m, f[t], t % u)
      BY <2>1 DEF Runs
    <3>2. QED BY <3>1 DEF Fma
  <2>3. ASSUME NEW x, NEW y, After(x, y, t), t + 1 <= Left(y), Left(y) \in Nat
        PROVE  x.live /\ After(Pop(x), y, t + 1)
    <3>1. x.live
      BY <2>3 DEF After, Left
    <3>2. /\ Counts(Pop(x)) /\ Left(Pop(x)) = Left(x) - 1
          /\ Pop(x).repeat = x.repeat /\ Pop(x).bounds = x.bounds
      BY <2>3, <3>1, PopTakesOne DEF After
    <3>3. QED BY <2>3, <3>1, <3>2 DEF After
  <2>4. t + 1 <= Left(d[1]) /\ t + 1 <= Left(d[2])
    BY <1>1
  <2>5. /\ f[t].d[1].live /\ After(Pop(f[t].d[1]), d[1], t + 1)
        /\ f[t].d[2].live /\ After(Pop(f[t].d[2]), d[2], t + 1)
    BY <2>1, <2>3, <2>4, <1>1
  <2>6. Keeps(Pop(f[t].d[1]), n1, b1, s1, p1) /\ Keeps(Pop(f[t].d[2]), n2, b2, s2, p2)
    BY <2>1, <2>5, PopKeeps
  <2>7. QED BY <2>2, <2>5, <2>6
<1>4. T = Nat
  <2> HIDE DEF P
  <2> QED BY <1>2, <1>3, Induction
<1>5. QED BY <1>4 DEF BothWalk

\* Where a stream of two levels stands, which delivers no element twice.
LEMMA StandsInFilters ==
  ASSUME NEW d, Counts(d), d.live, d.dims = 2, d.repeat = 0, NEW U \in Nat \ {0}, NEW T \in Nat \ {0},
         d.bounds[0] = U - 1, d.bounds[1] = T - 1,
         NEW k \in 0..(T - 1), NEW v \in 0..(U - 1), Left(d) = T * U - (k * U + v)
  PROVE  d.idx[0] = v /\ d.idx[1] = k
<1>1. /\ d.rep = 0 /\ d.bounds[2] \in Nat /\ d.bounds[3] \in Nat
      /\ d.idx[0] \in 0..(U - 1) /\ d.idx[1] \in 0..(T - 1)
  <2>1. /\ d.idx \in [Levels -> Nat] /\ d.bounds \in [Levels -> Nat] /\ d.rep \in Nat /\ d.rep <= d.repeat
        /\ \A l \in 0..1 : d.idx[l] <= d.bounds[l]
    BY DEF Counts
  <2>2. 0 \in Levels /\ 1 \in Levels /\ 2 \in Levels /\ 3 \in Levels
    BY DEF Levels
  <2>3. QED BY <2>1, <2>2
<1> DEFINE x0 == U - 1 - d.idx[0]
           x1 == T - 1 - d.idx[1]
           y0 == U - 1 - v
           y1 == T - 1 - k
<1>2. x0 \in 0..(U - 1) /\ x1 \in Nat /\ y0 \in 0..(U - 1) /\ y1 \in Nat
  BY <1>1
<1>3. Left(d) = 1 + (x0 + U * x1)
  <2>1. After3(d) = 0
    BY DEF After3, ToGo
  <2>2. After2(d) = 0
    <3>1. (d.bounds[2] + 1) * 0 = 0
      BY <1>1, SMT
    <3>2. QED BY <2>1, <3>1 DEF After2, ToGo
  <2>3. After1(d) = x1
    <3>1. ToGo(d, 1) = x1 /\ T * 0 = 0
      BY <1>1 DEF ToGo
    <3>2. d.bounds[1] + 1 = T
      OBVIOUS
    <3>3. QED BY <1>2, <2>2, <3>1, <3>2 DEF After1
  <2>4. After0(d) = x0 + U * x1
    <3>1. ToGo(d, 0) = x0 /\ d.bounds[0] + 1 = U
      BY <1>1 DEF ToGo
    <3>2. QED BY <2>3, <3>1 DEF After0
  <2>5. After0(d) \in Nat
    BY AftersAre
  <2>6. Left(d) = 1 + After0(d)
    BY <1>1, <2>5 DEF Left
  <2>7. QED BY <2>4, <2>6
<1>4. Left(d) = 1 + (y0 + U * y1)
  <2>1. T * U = y1 * U + (k * U + U) /\ y1 * U = U * y1 /\ U * y1 \in Nat /\ k * U \in Nat
    <3>1. T = y1 + (k + 1) /\ k + 1 \in Nat /\ k \in Nat
      BY <1>2
    <3> HIDE DEF y1
    <3>2. (y1 + (k + 1)) * U = y1 * U + (k + 1) * U /\ (k + 1) * U = k * U + U
      BY <1>2, <3>1, SMT
    <3>3. y1 * U = U * y1 /\ U * y1 \in Nat /\ k * U \in Nat
      BY <1>2, <3>1, SMT
    <3>4. QED BY <3>1, <3>2, <3>3
  <2> DEFINE a == T * U
             b == U * y1
             e == k * U
  <2>2. a = b + (e + U) /\ b \in Nat /\ e \in Nat /\ Left(d) = a - (e + v)
    BY <2>1
  <2> HIDE DEF a, b, e
  <2>3. Left(d) = 1 + (y0 + b)
    BY <2>2
  <2>4. QED BY <2>3 DEF b
<1>5. x0 + U * x1 = y0 + U * y1
  <2>1. U * x1 \in Nat /\ U * y1 \in Nat
    <3> HIDE DEF x1, y1
    <3>1. QED BY <1>2, SMT
  <2> HIDE DEF x0, x1, y0, y1
  <2>2. QED BY <1>2, <1>3, <1>4, <2>1
<1>6. x0 = y0 /\ x1 = y1
  <2> HIDE DEF x0, x1, y0, y1
  <2>1. QED BY <1>2, <1>5, OneDigit
<1>7. \A x, y, z \in Int : z - 1 - x = z - 1 - y => x = y
  OBVIOUS
<1>8. d.idx[0] \in Int /\ d.idx[1] \in Int
  BY <1>1
<1>9. QED BY <1>6, <1>7, <1>8

\* What is programmed stays as it is while elements are read.
LEMMA StridesStay ==
  ASSUME NEW d, d = <<d[1], d[2]>>, NEW m, NEW u, NEW L \in Nat,
         NEW f, f[0].d = d, Runs(f, m, u, L),
         \A t \in 0..L : Counts(f[t].d[1]) /\ Counts(f[t].d[2])
  PROVE  f[L].d[1].strides = d[1].strides /\ f[L].d[2].strides = d[2].strides
<1> DEFINE T == {t \in Nat : t <= L => f[t].d[1].strides = d[1].strides
                                       /\ f[t].d[2].strides = d[2].strides}
<1>1. 0 \in T
  OBVIOUS
<1>2. \A t \in T : t + 1 \in T
  <2> SUFFICES ASSUME NEW t \in T, t + 1 <= L
               PROVE  f[t + 1].d[1].strides = d[1].strides /\ f[t + 1].d[2].strides = d[2].strides
    OBVIOUS
  <2>1. /\ f[t].d[1].strides = d[1].strides /\ f[t].d[2].strides = d[2].strides
        /\ t + 1 \in 1..L /\ (t + 1) - 1 = t /\ t \in 0..L
    OBVIOUS
  <2>2. f[t + 1].d[1] = Pop(f[t].d[1]) /\ f[t + 1].d[2] = Pop(f[t].d[2])
    <3>1. f[t + 1] = Fma(m, f[t], t % u)
      BY <2>1 DEF Runs
    <3>2. f[t + 1].d = <<Pop(f[t].d[1]), Pop(f[t].d[2])>>
      BY <3>1 DEF Fma
    <3>3. QED BY <3>2
  <2>3. ASSUME NEW x, Counts(x) PROVE Pop(x).strides = x.strides
    <3>1. CASE x.live /\ x.rep < x.repeat
      BY <2>3, <3>1 DEF Pop, Counts
    <3>2. CASE x.live /\ ~(x.rep < x.repeat) /\ Going(x) = {}
      BY <2>3, <3>2 DEF Pop, Advance, Counts
    <3>3. CASE x.live /\ ~(x.rep < x.repeat) /\ Going(x) # {}
      <4>1. PICK q, J : Pop(x) = [x EXCEPT !.rep = 0, !.ptr = q, !.idx = J]
        BY <3>3, Zenon DEF Pop, Advance
      <4>2. QED BY <2>3, <4>1 DEF Counts
    <3>4. CASE ~x.live
      BY <2>3, <3>4 DEF Pop, Counts
    <3>5. QED BY <3>1, <3>2, <3>3, <3>4
  <2>4. QED BY <2>1, <2>2, <2>3
<1>3. T = Nat
  BY <1>1, <1>2, Induction
<1>4. QED BY <1>3

\* What a kernel's scalar loop adds to start: the products of the floats at
\* a[0], b[0], then a[1], b[1] and so on, n of them.
ScalarSum(m, n, a, b, start) ==
  LET s[k \in 0..n] == IF k = 0 THEN start
                       ELSE s[k - 1] \o Times(Read(m, a[k - 1]), Read(m, b[k - 1]))
  IN s[n]

\* It is what one product after another makes of it.
AddsUp(s, m, n, a, b, start) ==
  /\ ScalarSum(m, n, a, b, start) = s[n] /\ s[0] = start
  /\ \A k \in 1..n : s[k] = s[k - 1] \o Times(Read(m, a[k - 1]), Read(m, b[k - 1]))
LEMMA SumRuns ==
  ASSUME NEW m, NEW n \in Nat, NEW a, NEW b, NEW start
  PROVE  \E s : AddsUp(s, m, n, a, b, start)
<1> DEFINE Add(v, k) == v \o Times(Read(m, a[k]), Read(m, b[k]))
           Is(f, l) == f = [k \in 0..l |-> IF k = 0 THEN start ELSE Add(f[k - 1], k - 1)]
           s0 == CHOOSE f : Is(f, n)
<1>1. ScalarSum(m, n, a, b, start) = s0[n]
  BY DEF ScalarSum
<1>2. \A v, k : Add(v, k) = v \o Times(Read(m, a[k]), Read(m, b[k]))
  OBVIOUS
<1>3. \E f : Is(f, n)
  <2> DEFINE T == {k \in Nat : \E f : Is(f, k)}
  <2> HIDE DEF Add
  <2>1. 0 \in T
    <3> DEFINE f == [k \in 0..0 |-> start]
    <3>1. Is(f, 0)
      BY SMT
    <3>2. QED BY <3>1
  <2>2. \A k \in T : k + 1 \in T
    <3> SUFFICES ASSUME NEW k \in T PROVE \E f : Is(f, k + 1)
      <4> HIDE DEF Is
      <4> QED OBVIOUS
    <3>1. PICK h : Is(h, k)
      <4> HIDE DEF Is
      <4> QED OBVIOUS
    <3> DEFINE f == [t \in 0..(k + 1) |-> IF t = k + 1 THEN Add(h[k], k) ELSE h[t]]
    <3>2. \A t \in 0..k : h[t] = IF t = 0 THEN start ELSE Add(h[t - 1], t - 1)
      BY <3>1
    <3>3. \A t \in 0..(k + 1) : f[t] = IF t = 0 THEN start ELSE Add(f[t - 1], t - 1)
      <4> TAKE t \in 0..(k + 1)
      <4>1. CASE t = k + 1
        <5>1. f[t] = Add(h[k], k) /\ t # 0 /\ t - 1 = k /\ f[t - 1] = h[k]
          BY <4>1
        <5>2. QED BY <5>1
      <4>2. CASE t \in 0..k
        <5>1. t # 0 => t - 1 \in 0..k
          BY <4>2
        <5>2. QED BY <4>2, <5>1, <3>2
      <4>3. QED BY <4>1, <4>2
    <3>4. f = [t \in 0..(k + 1) |-> f[t]]
      OBVIOUS
    <3> HIDE DEF f
    <3>5. Is(f, k + 1)
      BY <3>3, <3>4
    <3>6. QED BY <3>5
  <2>3. T = Nat
    BY <2>1, <2>2, Induction
  <2>4. QED BY <2>3
<1>4. s0[0] = start /\ \A k \in 1..n : s0[k] = Add(s0[k - 1], k - 1)
  <2>1. Is(s0, n)
    BY <1>3
  <2> HIDE DEF s0, Add
  <2>2. QED BY <2>1
<1> HIDE DEF s0, Add
<1>5. QED BY <1>1, <1>2, <1>4 DEF AddsUp

\* A multiple and the next one.
LEMMA NextMultiple ==
  ASSUME NEW u \in Nat, NEW y \in Nat
  PROVE  (y + 1) * u = y * u + u /\ y * u \in Nat
BY SMT

\* The multiply-adds of an FREP go to its accumulators in turn: t of them have
\* brought accumulator v as far as k products just when t lies in its k-th turn.
InTurn(t, u, v, k) == k * u + v - u < t /\ t <= k * u + v

\* One more multiply-add is the next product of the accumulator whose turn it is.
LEMMA TurnEnds ==
  ASSUME NEW u \in Nat \ {0}, NEW x \in Nat, NEW v \in 0..(u - 1), NEW k \in Nat
  PROVE  LET t == x * u + v IN
         /\ t \in Nat /\ t % u = v /\ InTurn(t, u, v, x)
         /\ InTurn(t + 1, u, v, k) => k = x + 1
<1>1. x * u \in Nat /\ k * u \in Nat /\ x * u = u * x /\ k * u = u * k /\ (x + 1) * u = x * u + u
  BY SMT
<1>2. (u * x + v) % u = v
  BY Remainder
<1>3. InTurn(x * u + v, u, v, x)
  BY <1>1 DEF InTurn
<1>4. ASSUME InTurn(x * u + v + 1, u, v, k) PROVE k = x + 1
  <2>1. k * u - u < x * u + 1 /\ x * u + 1 <= k * u
    BY <1>1, <1>4 DEF InTurn
  <2>2. k # 0
    <3>1. 0 * u = 0
      BY SMT
    <3>2. QED BY <1>1, <2>1, <3>1
  <2> DEFINE y == k - 1
  <2>3. y \in Nat /\ k = y + 1
    BY <2>2
  <2> HIDE DEF y
  <2>4. (y + 1) * u = y * u + u /\ y * u \in Nat
    BY <2>3, NextMultiple
  <2>5. y * u <= x * u /\ x * u < y * u + u
    BY <1>1, <2>1, <2>3, <2>4
  <2>6. ~(x <= y - 1)
    <3>1. SUFFICES ASSUME x + 1 <= y PROVE FALSE
      BY <2>3
    <3>2. (x + 1) * u <= y * u
      BY <2>3, <3>1, Scaling
    <3>3. QED BY <1>1, <2>4, <2>5, <3>2
  <2>7. ~(y + 1 <= x)
    <3>1. SUFFICES ASSUME y + 1 <= x PROVE FALSE
      OBVIOUS
    <3>2. (y + 1) * u <= x * u
      BY <2>3, <3>1, Scaling
    <3>3. QED BY <1>1, <2>4, <2>5, <3>2
  <2>8. QED BY <2>3, <2>6, <2>7
<1>5. QED BY <1>1, <1>2, <1>3, <1>4

\* The others stay where they are.
LEMMA TurnGoesOn ==
  ASSUME NEW u \in Nat \ {0}, NEW x \in Nat, NEW w \in 0..(u - 1), NEW v \in 0..(u - 1), v # w,
         NEW k \in Nat, InTurn(x * u + w + 1, u, v, k)
  PROVE  InTurn(x * u + w, u, v, k)
<1>1. x * u \in Nat /\ k * u \in Nat /\ x * u = u * x
  BY SMT
<1>2. k * u + v - u < x * u + w + 1 /\ x * u + w + 1 <= k * u + v
  BY <1>1 DEF InTurn
<1>3. k * u + v - u # x * u + w
  <2> SUFFICES ASSUME k * u + v - u = x * u + w PROVE FALSE
    OBVIOUS
  <2>1. k # 0
    <3>1. 0 * u = 0
      BY SMT
    <3>2. QED BY <1>1, <3>1
  <2> DEFINE y == k - 1
  <2>2. y \in Nat /\ k = y + 1
    BY <2>1
  <2> HIDE DEF y
  <2>3. (y + 1) * u = y * u + u /\ y * u \in Nat /\ y * u = u * y
    BY <2>2, SMT
  <2>4. v + u * y = w + u * x
    BY <1>1, <2>2, <2>3
  <2>5. QED BY <2>2, <2>4, OneDigit
<1>4. QED BY <1>1, <1>2, <1>3 DEF InTurn

\* When accumulator v's turn comes for the k-th time the streams deliver the floats
\* at a[v][k] and b[v][k].
Delivers(f, m, n, u, a, b) ==
  \A k \in 0..(n - 1) : \A v \in 0..(u - 1) :
    /\ Deliver(m, f[k * u + v].d[1]) = Read(m, a[v][k])
    /\ Deliver(m, f[k * u + v].d[2]) = Read(m, b[v][k])

\* Every accumulator has had n products added to it.
AllAdded(g, m, n, u, a, b, acc) ==
  \A v \in 0..(u - 1) : g[v] = ScalarSum(m, n, a[v], b[v], acc[v])

\* An FREP over streams that deliver, whenever accumulator v's turn comes for the
\* k-th time, the floats at a[v][k] and b[v][k] leaves in every accumulator what
\* the scalar loop over these adds to it.
LEMMA FrepSums ==
  ASSUME NEW m, NEW n \in Nat, NEW u \in Nat \ {0}, NEW acc,
         acc = [v \in 0..(u - 1) |-> acc[v]], NEW a, NEW b,
         NEW f, f[0].acc = acc, Runs(f, m, u, n * u), Delivers(f, m, n, u, a, b)
  PROVE  AllAdded(f[n * u].acc, m, n, u, a, b, acc)
<1> DEFINE S == [v \in 0..(u - 1) |-> CHOOSE s : AddsUp(s, m, n, a[v], b[v], acc[v])]
<1>1. \A v \in 0..(u - 1) : AddsUp(S[v], m, n, a[v], b[v], acc[v])
  <2> TAKE v \in 0..(u - 1)
  <2>1. \E s : AddsUp(s, m, n, a[v], b[v], acc[v])
    BY SumRuns
  <2>2. QED BY <2>1
<1> HIDE DEF S
<1> DEFINE N == n * u
<1>0. N \in Nat /\ \A t \in 1..N : f[t] = Fma(m, f[t - 1], (t - 1) % u)
  BY Scaling DEF Runs
<1> HIDE DEF N
<1> DEFINE P(t) == /\ f[t].acc = [v \in 0..(u - 1) |-> f[t].acc[v]]
                   /\ \A v \in 0..(u - 1) : \A k \in 0..n :
                        InTurn(t, u, v, k) => f[t].acc[v] = S[v][k]
           T == {t \in Nat : t <= N => P(t)}
<1>2. 0 \in T
  <2>1. ASSUME NEW v \in 0..(u - 1), NEW k \in 0..n, InTurn(0, u, v, k) PROVE k = 0
    <3>1. k * u - u + v < 0 /\ k * u \in Nat
      <4>1. k * u \in Nat
        BY SMT
      <4>2. QED BY <2>1, <4>1 DEF InTurn
    <3>2. SUFFICES ASSUME k # 0 PROVE FALSE
      OBVIOUS
    <3> DEFINE y == k - 1
    <3>3. y \in Nat /\ k = y + 1
      BY <3>2
    <3> HIDE DEF y
    <3>4. (y + 1) * u = y * u + u /\ y * u \in Nat
      BY <3>3, NextMultiple
    <3>5. QED BY <3>1, <3>3, <3>4
  <2>2. \A v \in 0..(u - 1) : S[v][0] = acc[v]
    BY <1>1 DEF AddsUp
  <2>3. P(0)
    BY <2>1, <2>2
  <2>4. QED BY <2>3
<1>3. \A t \in T : t + 1 \in T
  <2> SUFFICES ASSUME NEW t \in Nat, t \in T, t + 1 <= N PROVE P(t + 1)
    <3> HIDE DEF P
    <3> QED BY <1>0
  <2>0. t < N
    BY <1>0
  <2> DEFINE x == t \div u
             w == t % u
  <2>1. t = u * x + w /\ w \in 0..(u - 1) /\ x \in Nat
    BY Division
  <2> HIDE DEF x, w
  <2>2. u * x = x * u /\ x * u \in Nat /\ x < n
    <3>1. u * x = x * u /\ x * u \in Nat
      BY <2>1, SMT
    <3>2. SUFFICES ASSUME n <= x PROVE FALSE
      BY <2>1, <3>1
    <3>3. n * u <= x * u
      BY <2>1, <3>2, Scaling
    <3>4. t >= x * u
      BY <2>1, <3>1
    <3>5. t + 1 <= n * u
      BY DEF N
    <3>6. QED BY <3>1, <3>3, <3>4, <3>5
  <2>3. t = x * u + w
    BY <2>1, <2>2
  <2>4. P(t)
    <3> HIDE DEF P
    <3> QED BY <1>0
  <2>5. f[t + 1] = Fma(m, f[t], w)
    <3>1. t + 1 \in 1..N /\ (t + 1) - 1 = t
      BY <2>0, <1>0, OneOn
    <3> DEFINE r == t + 1
    <3>2. r \in 1..N /\ r - 1 = t
      BY <3>1
    <3> HIDE DEF r
    <3>4. f[r] = Fma(m, f[r - 1], (r - 1) % u)
      BY <3>2, <1>0
    <3>5. f[t + 1] = Fma(m, f[t], t % u)
      BY <3>2, <3>4 DEF r
    <3>6. QED BY <3>5 DEF w
  <2> DEFINE h == Times(Deliver(m, f[t].d[1]), Deliver(m, f[t].d[2]))
  <2>6. f[t + 1].acc = [f[t].acc EXCEPT ![w] = @ \o h]
    BY <2>5 DEF Fma
  <2>7. h = Times(Read(m, a[w][x]), Read(m, b[w][x]))
    <3>1. x \in 0..(n - 1)
      BY <2>1, <2>2
    <3>2. /\ Deliver(m, f[x * u + w].d[1]) = Read(m, a[w][x])
          /\ Deliver(m, f[x * u + w].d[2]) = Read(m, b[w][x])
      BY <2>1, <3>1 DEF Delivers
    <3>3. QED BY <2>3, <3>2
  <2> HIDE DEF h
  <2>8. /\ f[t + 1].acc = [v \in 0..(u - 1) |-> f[t + 1].acc[v]]
        /\ f[t + 1].acc[w] = f[t].acc[w] \o h
        /\ \A v \in 0..(u - 1) : v # w => f[t + 1].acc[v] = f[t].acc[v]
    <3> DEFINE y == f[t].acc
               z == f[t + 1].acc
    <3>1. y = [v \in 0..(u - 1) |-> y[v]] /\ z = [y EXCEPT ![w] = @ \o h]
      BY <2>4, <2>6
    <3> HIDE DEF y, z
    <3>2. /\ z = [v \in 0..(u - 1) |-> z[v]] /\ z[w] = y[w] \o h
          /\ \A v \in 0..(u - 1) : v # w => z[v] = y[v]
      BY <2>1, <3>1
    <3>3. QED BY <3>2 DEF y, z
  <2>9. ASSUME NEW k \in 0..n, InTurn(t + 1, u, w, k) PROVE f[t + 1].acc[w] = S[w][k]
    <3>1. k \in Nat /\ InTurn(x * u + w + 1, u, w, k)
      BY <2>3, <2>9
    <3>2. k = x + 1 /\ InTurn(t, u, w, x)
      BY <2>1, <2>3, <3>1, TurnEnds
    <3>3. x \in 0..n /\ k \in 1..n /\ k - 1 = x
      BY <2>1, <2>2, <3>2, OneOn
    <3>4. f[t].acc[w] = S[w][x]
      BY <2>1, <2>4, <3>2, <3>3
    <3>5. S[w][k] = S[w][x] \o h
      BY <2>1, <1>1, <2>7, <3>3 DEF AddsUp
    <3>6. QED BY <2>8, <3>4, <3>5
  <2>10. ASSUME NEW v \in 0..(u - 1), v # w, NEW k \in 0..n, InTurn(t + 1, u, v, k)
         PROVE  f[t + 1].acc[v] = S[v][k]
    <3>1. k \in Nat /\ InTurn(x * u + w + 1, u, v, k)
      BY <2>3, <2>10
    <3>2. InTurn(t, u, v, k)
      BY <2>1, <2>3, <2>10, <3>1, TurnGoesOn
    <3>3. QED BY <2>4, <2>8, <2>10, <3>2
  <2>11. QED BY <2>8, <2>9, <2>10
<1>4. T = Nat
  <2> HIDE DEF P
  <2> QED BY <1>2, <1>3, Induction
<1>5. P(N)
  <2> HIDE DEF P
  <2> QED BY <1>0, <1>4
<1>6. \A v \in 0..(u - 1) : InTurn(N, u, v, n) /\ n \in 0..n
  BY DEF InTurn, N
<1>7. \A v \in 0..(u - 1) : ScalarSum(m, n, a[v], b[v], acc[v]) = S[v][n]
  BY <1>1 DEF AddsUp
<1>8. QED BY <1>0, <1>5, <1>6, <1>7 DEF N, AllAdded

-----------------------------------------------------------------------------
(* What a block of gemm_ssr computes.                                      *)

\* The loops of the two streams of a product, and the distances they step.
LoopsA(g) == <<g.N, Blocks(g), g.M>>
LoopsB(g) == <<GEMM_UNROLL, g.N, Blocks(g), g.M>>
StridesA(g) == IF g.tA THEN <<g.M * FloatBytes, 0, FloatBytes>>
               ELSE <<FloatBytes, 0, g.N * FloatBytes>>
StridesB(g) == IF g.tB THEN <<g.N * FloatBytes, FloatBytes, GEMM_UNROLL * g.N * FloatBytes, 0>>
               ELSE <<FloatBytes, g.O * FloatBytes, GEMM_UNROLL * FloatBytes, 0>>

\* Where the scalar loops find factor k of an element in row i, or in column j.
AddressA(g, i, k) == At(g.A, IF g.tA THEN k * g.M + i ELSE i * g.N + k) % Word
AddressB(g, j, k) == At(g.B, IF g.tB THEN j * g.N + k ELSE k * g.O + j) % Word

\* The extents of a streamed product and the pointers it was called with.
Streamable(g) ==
  /\ g.A \in Nat /\ g.B \in Nat /\ g.O \in Nat
  /\ g.N \in 1..Word /\ g.M \in 1..Word /\ Blocks(g) \in 1..Word

LEMMA DistanceA ==
  ASSUME NEW p \in Nat, NEW f \in Nat, NEW n \in Nat, NEW m \in Nat,
         NEW k \in Nat, NEW q \in Nat, NEW i \in Nat
  PROVE  /\ p + k * (m * f) + q * 0 + i * f + 0 = p + (k * m + i) * f
         /\ p + k * f + q * 0 + i * (n * f) + 0 = p + (i * n + k) * f
<1>1. k * (m * f) = (k * m) * f /\ (k * m + i) * f = (k * m) * f + i * f /\ q * 0 = 0
      /\ (k * m) * f \in Nat /\ i * f \in Nat
  BY SMT
<1>2. i * (n * f) = (i * n) * f /\ (i * n + k) * f = (i * n) * f + k * f /\ q * 0 = 0
      /\ (i * n) * f \in Nat /\ k * f \in Nat
  BY SMT
<1>3. QED BY <1>1, <1>2

LEMMA DistanceB ==
  ASSUME NEW p \in Nat, NEW f \in Nat, NEW n \in Nat, NEW o \in Nat, NEW u \in Nat,
         NEW v \in Nat, NEW k \in Nat, NEW q \in Nat, NEW i \in Nat
  PROVE  /\ p + v * (n * f) + k * f + q * (u * n * f) + i * 0 = p + ((q * u + v) * n + k) * f
         /\ p + v * f + k * (o * f) + q * (u * f) + i * 0 = p + (k * o + (q * u + v)) * f
<1>1. i * 0 = 0 /\ v * f \in Nat /\ k * f \in Nat
  BY SMT
<1> DEFINE x == q * u
<1>2. x \in Nat /\ q * (u * f) = x * f /\ x * f \in Nat
  BY SMT
<1>3. q * (u * n * f) = x * (n * f)
  <2> DEFINE y == n * f
  <2>1. y \in Nat /\ u * n * f = u * y
    BY SMT
  <2> HIDE DEF y
  <2>2. q * (u * y) = x * y
    BY <2>1, SMT
  <2>3. QED BY <2>1, <2>2 DEF y
<1> HIDE DEF x
<1>4. /\ x * (n * f) = (x * n) * f /\ v * (n * f) = (v * n) * f
      /\ (x * n) * f \in Nat /\ (v * n) * f \in Nat
  BY <1>2, SMT
<1>5. ((x + v) * n + k) * f = (x * n) * f + (v * n) * f + k * f
  <2>1. (x + v) * n = x * n + v * n /\ x * n \in Nat /\ v * n \in Nat
    BY <1>2, SMT
  <2> DEFINE y == x * n
             z == v * n
  <2> HIDE DEF y, z
  <2>2. y \in Nat /\ z \in Nat
    BY <2>1 DEF y, z
  <2>3. (y + z + k) * f = y * f + z * f + k * f
    BY <2>2, SMT
  <2>4. QED BY <2>1, <2>3 DEF y, z
<1>6. k * (o * f) = (k * o) * f /\ (k * o) * f \in Nat /\ k * o \in Nat
  BY SMT
<1>7. (k * o + (x + v)) * f = (k * o) * f + x * f + v * f
  <2> DEFINE y == k * o
  <2>1. y \in Nat
    BY <1>6
  <2> HIDE DEF y
  <2>2. (y + (x + v)) * f = y * f + x * f + v * f
    BY <1>2, <2>1, SMT
  <2>3. QED BY <2>2 DEF y
<1>8. QED BY <1>1, <1>2, <1>3, <1>4, <1>5, <1>6, <1>7 DEF x

\* The element the first stream stands at is the one the scalar loop reads.
LEMMA ReadsA ==
  ASSUME NEW g, Streamable(g), NEW d, Walks(3, LoopsA(g), StridesA(g), g.A, d),
         NEW i \in Nat, NEW k \in Nat, d.idx[0] = k, d.idx[2] = i
  PROVE  d.ptr = AddressA(g, i, k)
<1> DEFINE f == FloatBytes
           q == d.idx[1]
           s == StridesA(g)
<1>1. f \in Nat /\ q \in Nat /\ g.A \in Nat /\ g.N \in Nat /\ g.M \in Nat
  <2>1. 1 \in Levels
    BY DEF Levels
  <2>2. QED BY <2>1, MachineAssumption, WordAssumption DEF Walks, Streamable
<1>2. d.ptr = (g.A + k * s[1] + q * s[2] + i * s[3] + 0) % Word
  <2>1. d.ptr = Position(3, s, g.A, d) % Word
    BY DEF Walks
  <2>2. Position(3, s, g.A, d) = g.A + k * s[1] + q * s[2] + i * s[3] + 0
    BY DEF Position, Steps
  <2>3. QED BY <2>1, <2>2
<1> HIDE DEF f, q, s
<1>3. CASE g.tA
  <2>1. s[1] = g.M * f /\ s[2] = 0 /\ s[3] = f
    BY <1>3 DEF s, f, StridesA
  <2>2. g.A + k * s[1] + q * s[2] + i * s[3] + 0 = g.A + (k * g.M + i) * f
    BY <1>1, <2>1, DistanceA
  <2>3. QED BY <1>2, <1>3, <2>2 DEF AddressA, At, f
<1>4. CASE ~g.tA
  <2>1. s[1] = f /\ s[2] = 0 /\ s[3] = g.N * f
    BY <1>4 DEF s, f, StridesA
  <2>2. g.A + k * s[1] + q * s[2] + i * s[3] + 0 = g.A + (i * g.N + k) * f
    BY <1>1, <2>1, DistanceA
  <2>3. QED BY <1>2, <1>4, <2>2 DEF AddressA, At, f
<1>5. QED BY <1>3, <1>4

\* So is the second's, v columns into block q.
LEMMA ReadsB ==
  ASSUME NEW g, Streamable(g), NEW d, Walks(4, LoopsB(g), StridesB(g), g.B, d),
         NEW q \in Nat, NEW k \in Nat, NEW v \in Nat, d.idx[0] = v, d.idx[1] = k, d.idx[2] = q
  PROVE  d.ptr = AddressB(g, q * GEMM_UNROLL + v, k)
<1> DEFINE f == FloatBytes
           i == d.idx[3]
           s == StridesB(g)
           u == GEMM_UNROLL
<1>1. f \in Nat /\ i \in Nat /\ g.B \in Nat /\ g.N \in Nat /\ g.O \in Nat /\ u \in Nat
  <2>1. 3 \in Levels
    BY DEF Levels
  <2>2. QED BY <2>1, MachineAssumption, WordAssumption DEF Walks, Streamable
<1>2. d.ptr = (g.B + v * s[1] + k * s[2] + q * s[3] + i * s[4]) % Word
  <2>1. d.ptr = Position(4, s, g.B, d) % Word
    BY DEF Walks
  <2>2. Position(4, s, g.B, d) = g.B + v * s[1] + k * s[2] + q * s[3] + i * s[4]
    BY DEF Position, Steps
  <2>3. QED BY <2>1, <2>2
<1> HIDE DEF f, i, s, u
<1>3. CASE g.tB
  <2>1. s[1] = g.N * f /\ s[2] = f /\ s[3] = u * g.N * f /\ s[4] = 0
    BY <1>3 DEF s, f, u, StridesB
  <2>2. g.B + v * s[1] + k * s[2] + q * s[3] + i * s[4] = g.B + ((q * u + v) * g.N + k) * f
    BY <1>1, <2>1, DistanceB
  <2>3. QED BY <1>2, <1>3, <2>2 DEF AddressB, At, f, u
<1>4. CASE ~g.tB
  <2>1. s[1] = f /\ s[2] = g.O * f /\ s[3] = u * f /\ s[4] = 0
    BY <1>4 DEF s, f, u, StridesB
  <2>2. g.B + v * s[1] + k * s[2] + q * s[3] + i * s[4] = g.B + (k * g.O + (q * u + v)) * f
    BY <1>1, <2>1, DistanceB
  <2>3. QED BY <1>2, <1>4, <2>2 DEF AddressB, At, f, u
<1>5. QED BY <1>3, <1>4

\* Both streams of a product are in the nests gemm_ssr gave them.
GemmWalks(g, ms) ==
  /\ Streamable(g) /\ g.Y \in Nat /\ ms[1].repeat = GEMM_UNROLL - 1
  /\ Keeps(ms[1], 3, LoopsA(g), StridesA(g), g.A)
  /\ Keeps(ms[2], 4, LoopsB(g), StridesB(g), g.B)

LEMMA NestsOfProduct ==
  ASSUME NEW g, Streamable(g)
  PROVE  /\ Nest(3, LoopsA(g), StridesA(g)) /\ Nest(4, LoopsB(g), StridesB(g))
         /\ LoopsA(g)[1] = g.N /\ LoopsA(g)[2] = Blocks(g) /\ LoopsA(g)[3] = g.M
         /\ LoopsB(g)[1] = GEMM_UNROLL /\ LoopsB(g)[2] = g.N /\ LoopsB(g)[3] = Blocks(g)
         /\ LoopsB(g)[4] = g.M
<1> DEFINE f == FloatBytes
           B == Blocks(g)
           U == GEMM_UNROLL
<1>1. /\ f \in Nat /\ U \in 1..Word /\ B \in 1..Word /\ g.N \in 1..Word /\ g.M \in 1..Word
      /\ g.N \in Nat /\ g.M \in Nat /\ g.O \in Nat /\ U \in Nat
  BY MachineAssumption, WordAssumption DEF Streamable
<1> HIDE DEF f, B, U
<1>2. /\ g.M * f \in Nat /\ g.N * f \in Nat /\ g.O * f \in Nat /\ U * f \in Nat
      /\ U * g.N * f \in Nat
  <2>1. g.M * f \in Nat /\ g.N * f \in Nat /\ g.O * f \in Nat /\ U * f \in Nat /\ U * g.N \in Nat
    BY <1>1, Scaling
  <2> DEFINE x == U * g.N
  <2> HIDE DEF x
  <2>2. x * f \in Nat
    BY <1>1, <2>1, Scaling DEF x
  <2>3. QED BY <2>1, <2>2 DEF x
<1>3. LoopsA(g) = <<g.N, B, g.M>> /\ LoopsB(g) = <<U, g.N, B, g.M>>
  BY DEF LoopsA, LoopsB, B, U
<1>4. /\ StridesA(g) = (IF g.tA THEN <<g.M * f, 0, f>> ELSE <<f, 0, g.N * f>>)
      /\ StridesB(g) = (IF g.tB THEN <<g.N * f, f, U * g.N * f, 0>> ELSE <<f, g.O * f, U * f, 0>>)
  BY DEF StridesA, StridesB, f, U
<1>5. StridesA(g) \in Seq(Nat) /\ Len(StridesA(g)) = 3
  BY <1>1, <1>2, <1>4
<1>6. StridesB(g) \in Seq(Nat) /\ Len(StridesB(g)) = 4
  <2> DEFINE a == g.N * f
             b == U * g.N * f
             c == g.O * f
             d == U * f
  <2>1. a \in Nat /\ b \in Nat /\ c \in Nat /\ d \in Nat
    BY <1>2
  <2>2. StridesB(g) = (IF g.tB THEN <<a, f, b, 0>> ELSE <<f, c, d, 0>>)
    BY <1>4
  <2> HIDE DEF a, b, c, d
  <2>3. QED BY <1>1, <2>1, <2>2
<1>7. LoopsA(g) \in Seq(1..Word) /\ Len(LoopsA(g)) = 3 /\ LoopsB(g) \in Seq(1..Word) /\ Len(LoopsB(g)) = 4
  BY <1>1, <1>3
<1>8. Nest(3, LoopsA(g), StridesA(g)) /\ Nest(4, LoopsB(g), StridesB(g))
  <2>1. 3 \in 1..4 /\ 4 \in 1..4
    OBVIOUS
  <2>2. QED BY <1>5, <1>6, <1>7, <2>1 DEF Nest
<1>9. QED BY <1>3, <1>8 DEF B, U

\* The floats a scalar loop multiplies for row i, or column j.
RowOfA(g, i) == [k \in 0..(g.N - 1) |-> AddressA(g, i, k)]
ColumnOfB(g, j) == [k \in 0..(g.N - 1) |-> AddressB(g, j, k)]

\* The block a product is at, and what it and those after it take.
LEMMA BlockToDo ==
  ASSUME NEW U \in Nat, NEW B \in Nat, NEW n \in Nat, NEW h \in Nat, NEW j \in Nat,
         NEW q \in 0..B, q < B => j = q * U, q = B => j >= B * U, j < B * U
  PROVE  /\ q \in 0..(B - 1) /\ j = q * U /\ n * U \in Nat
         /\ (n * U) * (h * B + (B - q)) \in Nat /\ n * U <= (n * U) * (h * B + (B - q))
<1>1. B * U \in Nat /\ n * U \in Nat /\ h * B \in Nat
  BY Scaling
<1>2. q # B
  BY <1>1
<1>3. q < B
  BY <1>2
<1> DEFINE y == h * B + (B - q)
           z == n * U
<1>4. y \in Nat /\ 1 <= y /\ z \in Nat
  BY <1>1, <1>3
<1> HIDE DEF y, z
<1>5. z * y \in Nat /\ z <= z * y
  <2>1. 1 * z <= y * z
    BY <1>4, Scaling
  <2>2. 1 * z = z /\ y * z = z * y /\ z * y \in Nat
    BY <1>4, SMT
  <2>3. QED BY <2>1, <2>2
<1>6. QED BY <1>1, <1>3, <1>5 DEF y, z

\* A read of an element, in the order the stream delivers them.
LEMMA ReadWithin ==
  ASSUME NEW U \in Nat, NEW n \in Nat, NEW k \in 0..(n - 1), NEW v \in 0..(U - 1)
  PROVE  k * U + v \in Nat /\ k * U + v < n * U /\ n * U \in Nat
<1>1. k \in Nat /\ k + 1 \in Nat /\ k + 1 <= n
  OBVIOUS
<1>2. (k + 1) * U <= n * U /\ n * U \in Nat
  BY <1>1, Scaling
<1>3. (k + 1) * U = k * U + U /\ k * U \in Nat
  BY <1>1, NextMultiple
<1>4. QED BY <1>2, <1>3

\* The row a product is in has blocks to come.
MoreBlocks(g) == g.j < Blocks(g) * GEMM_UNROLL

\* What a block that starts from acc leaves in its accumulators.
BlockAdds(g, m, acc, end) ==
  \A v \in 0..(GEMM_UNROLL - 1) :
    end[v] = ScalarSum(m, g.N, RowOfA(g, g.i), ColumnOfB(g, g.j + v), acc[v])

\* A block of a product leaves in its accumulators what the scalar loops over its
\* columns add up, and both streams where the next block finds them.
LEMMA BlockSums ==
  ASSUME NEW g, NEW ms, MoversOK(ms), GemmLeft(g, ms), GemmWalks(g, ms),
         MoreBlocks(g), NEW m, NEW acc,
         acc = [v \in 0..(GEMM_UNROLL - 1) |-> acc[v]]
  PROVE  LET r == Frep(m, ms, g.N, GEMM_UNROLL, acc) IN
         BlockAdds(g, m, acc, r.acc) /\ GemmWalks(g, r.d)
<1> DEFINE U == GEMM_UNROLL
           B == Blocks(g)
           n == g.N
           i == g.i
           x == (g.M - 1 - i) * B
<1>1. /\ U \in Nat \ {0} /\ B \in Nat \ {0} /\ n \in Nat \ {0} /\ g.M \in Nat \ {0}
      /\ i \in 0..(g.M - 1) /\ g.j \in Nat /\ g.O \in Nat /\ Streamable(g) /\ g.A \in Nat /\ g.B \in Nat
  <2>1. U \in Nat \ {0}
    BY MachineAssumption
  <2>2. \A z \in 1..Word : z \in Nat \ {0}
    BY WordAssumption
  <2>3. /\ Streamable(g) /\ g.A \in Nat /\ g.B \in Nat /\ g.O \in Nat
        /\ B \in 1..Word /\ n \in 1..Word /\ g.M \in 1..Word
    BY DEF GemmWalks, Streamable
  <2>4. i \in 0..(g.M - 1) /\ g.j \in Nat
    BY DEF GemmLeft
  <2> HIDE DEF U, B, n, i
  <2>5. QED BY <2>1, <2>2, <2>3, <2>4
<1>2. PICK q \in 0..B :
        /\ q < B => g.j = q * U
        /\ q = B => g.j >= B * U
        /\ \A l \in 1..2 : Left(ms[l]) = (n * U) * (x + (B - q))
  BY DEF GemmLeft
<1> HIDE DEF U, B, n, i
<1>4. /\ q \in 0..(B - 1) /\ g.j = q * U /\ n * U \in Nat
      /\ (n * U) * (x + (B - q)) \in Nat /\ n * U <= (n * U) * (x + (B - q))
  <2> DEFINE h == g.M - 1 - i
             j == g.j
  <2>1. h \in Nat /\ U \in Nat /\ B \in Nat /\ n \in Nat /\ j \in Nat
    BY <1>1
  <2>2. j < B * U
    BY DEF U, B, MoreBlocks
  <2>3. (q < B => j = q * U) /\ (q = B => j >= B * U)
    BY <1>2
  <2> HIDE DEF h, j
  <2>4. /\ q \in 0..(B - 1) /\ j = q * U /\ n * U \in Nat
        /\ (n * U) * (h * B + (B - q)) \in Nat /\ n * U <= (n * U) * (h * B + (B - q))
    BY <2>1, <2>2, <2>3, BlockToDo
  <2>5. QED BY <2>4 DEF h, j
<1>3. n * U \in Nat
  BY <1>4
<1>14. q \in 0..(B - 1)
  BY <1>4
<1> HIDE DEF x
<1>5. \A l \in 1..2 : n * U <= Left(ms[l]) /\ Left(ms[l]) \in Nat
  BY <1>2, <1>4
<1>6. PICK f : /\ Frep(m, ms, n, U, acc) = f[n * U] /\ f[0] = [d |-> ms, acc |-> acc]
               /\ Runs(f, m, U, n * U)
  <2>1. n \in Nat /\ U \in Nat
    BY <1>1
  <2>2. QED BY <1>3, <2>1, FrepRuns
<1>7. /\ ms = <<ms[1], ms[2]>> /\ Counts(ms[1]) /\ Counts(ms[2]) /\ ms[2].repeat = 0
      /\ ms[1].repeat = U - 1
      /\ Keeps(ms[1], 3, LoopsA(g), StridesA(g), g.A)
      /\ Keeps(ms[2], 4, LoopsB(g), StridesB(g), g.B)
  BY DEF MoversOK, GemmWalks, U
<1>8. \A t \in 0..(n * U) :
        /\ f[t].d = <<f[t].d[1], f[t].d[2]>>
        /\ After(f[t].d[1], ms[1], t) /\ Keeps(f[t].d[1], 3, LoopsA(g), StridesA(g), g.A)
        /\ After(f[t].d[2], ms[2], t) /\ Keeps(f[t].d[2], 4, LoopsB(g), StridesB(g), g.B)
  <2>1. f[0].d = ms /\ n * U <= Left(ms[1]) /\ n * U <= Left(ms[2])
    BY <1>5, <1>6
  <2>2. Nest(3, LoopsA(g), StridesA(g)) /\ Nest(4, LoopsB(g), StridesB(g))
    BY <1>1, NestsOfProduct
  <2>3. g.A \in Nat /\ g.B \in Nat
    BY <1>1
  <2> DEFINE L == n * U
             A1 == LoopsA(g)
             A2 == StridesA(g)
             A3 == g.A
             B1 == LoopsB(g)
             B2 == StridesB(g)
             B3 == g.B
  <2> HIDE DEF L, A1, A2, A3, B1, B2, B3
  <2>4. /\ L \in Nat /\ L <= Left(ms[1]) /\ L <= Left(ms[2]) /\ A3 \in Nat /\ B3 \in Nat
        /\ Nest(3, A1, A2) /\ Nest(4, B1, B2) /\ Keeps(ms[1], 3, A1, A2, A3)
        /\ Keeps(ms[2], 4, B1, B2, B3)
        /\ Runs(f, m, U, L)
    BY <1>3, <1>6, <1>7, <2>1, <2>2, <2>3 DEF L, A1, A2, A3, B1, B2, B3
  <2>5. BothWalk(f, L, ms, 3, A1, A2, A3, 4, B1, B2, B3)
    <3>1. f[0].d = ms
      BY <2>1
    <3>2. QED BY <1>7, <2>4, <3>1, FrepWalks
  <2>6. QED BY <2>5 DEF L, A1, A2, A3, B1, B2, B3, BothWalk
<1>9. ASSUME NEW k \in 0..(n - 1), NEW v \in 0..(U - 1)
      PROVE  /\ Deliver(m, f[k * U + v].d[1]) = Read(m, AddressA(g, i, k))
             /\ Deliver(m, f[k * U + v].d[2]) = Read(m, AddressB(g, g.j + v, k))
  <2> DEFINE t == k * U + v
             d == f[t].d[1]
             e == f[t].d[2]
  <2>1. t \in Nat /\ t < n * U
    <3>1. U \in Nat /\ n \in Nat
      BY <1>1
    <3>2. QED BY <3>1, ReadWithin
  <2>2. t \in 0..(n * U)
    BY <1>3, <2>1
  <2>3. /\ After(d, ms[1], t) /\ Keeps(d, 3, LoopsA(g), StridesA(g), g.A)
        /\ After(e, ms[2], t) /\ Keeps(e, 4, LoopsB(g), StridesB(g), g.B)
    <3> HIDE DEF t
    <3>1. QED BY <1>8, <2>2
  <2>4. /\ Left(d) = (n * U) * (x + (B - q)) - (k * U + v)
        /\ Left(e) = (n * U) * (x + (B - q)) - (k * U + v)
    <3>1. Left(ms[1]) = (n * U) * (x + (B - q)) /\ Left(ms[2]) = (n * U) * (x + (B - q))
      BY <1>2 DEF x
    <3> HIDE DEF d, e
    <3>2. QED BY <2>3, <3>1 DEF After
  <2>5. d.live /\ e.live
    <3>1. Left(d) > 0 /\ Left(e) > 0
      <4> HIDE DEF t, d, e
      <4>1. QED BY <1>3, <1>5, <2>1, <2>3 DEF After
    <3> HIDE DEF d, e
    <3>2. QED BY <3>1 DEF Left
  <2> HIDE DEF t, d, e
  <2>6. Walks(3, LoopsA(g), StridesA(g), g.A, d) /\ Walks(4, LoopsB(g), StridesB(g), g.B, e)
    BY <2>3, <2>5 DEF Keeps
  <2>7. /\ d.dims = 3 /\ d.bounds[0] = n - 1 /\ d.bounds[1] = B - 1 /\ d.bounds[2] = g.M - 1
        /\ e.dims = 4 /\ e.bounds[0] = U - 1 /\ e.bounds[1] = n - 1 /\ e.bounds[2] = B - 1
        /\ e.bounds[3] = g.M - 1
    <3>1. /\ n \in 1..Word /\ B \in 1..Word /\ g.M \in 1..Word /\ U \in 1..Word
      BY <1>1, MachineAssumption DEF Streamable, n, B, U
    <3>2. /\ Minus(n, 1) = n - 1 /\ Minus(B, 1) = B - 1 /\ Minus(g.M, 1) = g.M - 1
          /\ Minus(U, 1) = U - 1
      BY <3>1, CountLessOne
    <3>3. /\ LoopsA(g)[0 + 1] = n /\ LoopsA(g)[1 + 1] = B /\ LoopsA(g)[2 + 1] = g.M
          /\ LoopsB(g)[0 + 1] = U /\ LoopsB(g)[1 + 1] = n /\ LoopsB(g)[2 + 1] = B
          /\ LoopsB(g)[3 + 1] = g.M
      BY <1>1, NestsOfProduct DEF n, B, U
    <3>4. /\ d.dims = 3 /\ \A l \in 0..(3 - 1) : d.bounds[l] = Minus(LoopsA(g)[l + 1], 1)
          /\ e.dims = 4 /\ \A l \in 0..(4 - 1) : e.bounds[l] = Minus(LoopsB(g)[l + 1], 1)
      BY <2>6 DEF Walks
    <3>5. 0 \in 0..(3 - 1) /\ 1 \in 0..(3 - 1) /\ 2 \in 0..(3 - 1)
          /\ 0 \in 0..(4 - 1) /\ 1 \in 0..(4 - 1) /\ 2 \in 0..(4 - 1) /\ 3 \in 0..(4 - 1)
      OBVIOUS
    <3>6. QED BY <3>2, <3>3, <3>4, <3>5
  <2>8. Counts(d) /\ Counts(e) /\ d.repeat = U - 1 /\ e.repeat = 0
    BY <1>7, <2>3 DEF After
  <2>14. /\ GivenA(d, U, n, B, g.M) /\ HasLeft(d, U, n, B, g.M, i, q, k, v)
         /\ GivenB(e, U, n, B, g.M) /\ HasLeft(e, U, n, B, g.M, i, q, k, v)
    BY <2>4, <2>5, <2>7, <2>8 DEF GivenA, GivenB, HasLeft, x
  <2>15. /\ U \in Nat \ {0} /\ B \in Nat \ {0} /\ n \in Nat \ {0} /\ g.M \in Nat \ {0}
         /\ i \in 0..(g.M - 1) /\ q \in 0..(B - 1)
    BY <1>1, <1>14
  <2>9. d.idx[0] = k /\ d.idx[1] = q /\ d.idx[2] = i
    <3>1. Counts(d) /\ GivenA(d, U, n, B, g.M) /\ HasLeft(d, U, n, B, g.M, i, q, k, v)
      BY <2>8, <2>14
    <3>2. QED BY <2>15, <3>1, StandsInA
  <2>10. e.idx[0] = v /\ e.idx[1] = k /\ e.idx[2] = q
    <3>1. Counts(e) /\ GivenB(e, U, n, B, g.M) /\ HasLeft(e, U, n, B, g.M, i, q, k, v)
      BY <2>8, <2>14
    <3>2. QED BY <2>15, <3>1, StandsInB
  <2>11. d.ptr = AddressA(g, i, k)
    <3>1. i \in Nat /\ k \in Nat
      BY <1>1
    <3>2. Streamable(g)
      BY <1>1
    <3>3. QED BY <2>6, <2>9, <3>1, <3>2, ReadsA
  <2>12. e.ptr = AddressB(g, g.j + v, k)
    <3>1. q \in Nat /\ k \in Nat /\ v \in Nat
      BY <1>1, <1>4
    <3>2. e.ptr = AddressB(g, q * GEMM_UNROLL + v, k)
      <4>1. Streamable(g)
        BY <1>1
      <4>2. QED BY <2>6, <2>10, <3>1, <4>1, ReadsB
    <3>3. QED BY <1>4, <3>2 DEF U
  <2>13. QED BY <2>5, <2>11, <2>12 DEF Deliver, d, e, t
<1> DEFINE a == [v \in 0..(U - 1) |-> RowOfA(g, i)]
           b == [v \in 0..(U - 1) |-> ColumnOfB(g, g.j + v)]
<1>10. AllAdded(f[n * U].acc, m, n, U, a, b, acc)
  <2>1. \A k \in 0..(n - 1) : \A v \in 0..(U - 1) :
          /\ a[v][k] = AddressA(g, i, k) /\ b[v][k] = AddressB(g, g.j + v, k)
    BY DEF RowOfA, ColumnOfB, n
  <2> HIDE DEF a, b
  <2>2. Delivers(f, m, n, U, a, b)
    BY <1>9, <2>1 DEF Delivers
  <2>3. f[0].acc = acc /\ n \in Nat
    BY <1>1, <1>6
  <2>4. acc = [v \in 0..(U - 1) |-> acc[v]]
    BY DEF U
  <2>5. U \in Nat \ {0} /\ Runs(f, m, U, n * U)
    BY <1>1, <1>6
  <2>6. QED BY <2>2, <2>3, <2>4, <2>5, FrepSums
<1>11. \A v \in 0..(U - 1) :
         f[n * U].acc[v] = ScalarSum(m, n, RowOfA(g, i), ColumnOfB(g, g.j + v), acc[v])
  BY <1>10 DEF AllAdded
<1>12. GemmWalks(g, f[n * U].d)
  <2>1. n * U \in 0..(n * U)
    BY <1>3
  <2> DEFINE e == f[n * U].d
  <2>2. /\ After(e[1], ms[1], n * U) /\ Keeps(e[1], 3, LoopsA(g), StridesA(g), g.A)
        /\ Keeps(e[2], 4, LoopsB(g), StridesB(g), g.B)
    BY <1>8, <2>1
  <2> HIDE DEF e
  <2>3. e[1].repeat = GEMM_UNROLL - 1
    BY <1>7, <2>2 DEF After, U
  <2>4. GemmWalks(g, e)
    BY <2>2, <2>3 DEF GemmWalks
  <2>5. QED BY <2>4 DEF e
<1>13. QED BY <1>6, <1>11, <1>12 DEF U, n, i, BlockAdds

-----------------------------------------------------------------------------
(* What a pixel of conv2d_ssr computes.                                    *)

\* The loops of the two streams of a convolution, and the distances they step.
LoopsX(k) == <<k.Q, k.P, k.C>>
LoopsF(k) == <<F_UNROLL, Taps(k)>>
StridesX(k) == <<FloatBytes, k.W * FloatBytes, k.H * k.W * FloatBytes>>
StridesF(k) == <<Taps(k) * FloatBytes, FloatBytes>>

\* Where the scalar loops find tap n of the window of pixel (h, w), and of filter f.
AddressX(k, h, w, n) ==
  At(k.A, (n \div (k.P * k.Q)) * k.H * k.W + (h * k.SP + ((n \div k.Q) % k.P)) * k.W
          + w * k.SQ + (n % k.Q)) % Word
AddressF(k, f, n) == At(k.B, f * Taps(k) + n) % Word
WindowOf(k, h, w) == [n \in 0..(Taps(k) - 1) |-> AddressX(k, h, w, n)]
FilterOf(k, f) == [n \in 0..(Taps(k) - 1) |-> AddressF(k, f, n)]

\* The extents of a streamed convolution and the pointers it was called with.
Convolvable(k) ==
  /\ k.A \in Nat /\ k.B \in Nat /\ k.Y \in Nat
  /\ {k.H, k.W, k.SP, k.SQ} \subseteq Nat
  /\ k.C \in 1..Word /\ k.P \in 1..Word /\ k.Q \in 1..Word /\ Taps(k) \in 1..Word
  /\ OutH(k) \in Nat \ {0} /\ OutW(k) \in Nat \ {0}

\* Tap n is the one of channel c, row p and column q of a filter.
TapAt(n, C, P, Q, c, p, q) ==
  /\ c \in 0..(C - 1) /\ p \in 0..(P - 1) /\ q \in 0..(Q - 1)
  /\ n = (c * P + p) * Q + q
LEMMA TapDigits ==
  ASSUME NEW C \in Nat \ {0}, NEW P \in Nat \ {0}, NEW Q \in Nat \ {0}, NEW n \in Nat, n < C * P * Q
  PROVE  TapAt(n, C, P, Q, n \div (P * Q), (n \div Q) % P, n % Q)
<1> DEFINE q == n % Q
           m == n \div Q
           p == m % P
           c == m \div P
           R == P * Q
<1>1. n = Q * m + q /\ q \in 0..(Q - 1) /\ m \in Nat
  BY Division
<1> HIDE DEF q, m
<1>2. m = P * c + p /\ p \in 0..(P - 1) /\ c \in Nat
  BY <1>1, Division
<1> HIDE DEF p, c
<1>3. R \in Nat \ {0} /\ P * c = c * P /\ c * P \in Nat
  BY <1>2, SMT
<1>4. Q * m = (c * P) * Q + p * Q /\ Q * m = (c * P + p) * Q /\ p * Q \in Nat
  <2> DEFINE x == c * P
  <2>1. x \in Nat /\ m = x + p
    BY <1>2, <1>3
  <2> HIDE DEF x
  <2>2. Q * (x + p) = x * Q + p * Q /\ Q * (x + p) = (x + p) * Q /\ p * Q \in Nat
    BY <1>2, <2>1, SMT
  <2>3. QED BY <2>1, <2>2 DEF x
<1>5. (c * P) * Q = R * c /\ R * c \in Nat
  <2>1. (c * P) * Q = c * (P * Q)
    BY <1>2, SMT
  <2> DEFINE x == P * Q
  <2> HIDE DEF x
  <2>2. c * x = x * c /\ x * c \in Nat
    BY <1>2, <1>3, SMT DEF x
  <2>3. QED BY <2>1, <2>2 DEF x
<1>6. p * Q + q \in 0..(R - 1)
  <2>1. p + 1 <= P /\ p + 1 \in Nat
    BY <1>2
  <2>2. (p + 1) * Q <= P * Q
    BY <2>1, Scaling
  <2>3. (p + 1) * Q = p * Q + Q
    BY <1>2, NextMultiple
  <2>4. R = P * Q
    OBVIOUS
  <2> HIDE DEF R
  <2>5. QED BY <1>1, <1>3, <1>4, <2>2, <2>3, <2>4
<1>7. n = R * c + (p * Q + q)
  <2> HIDE DEF R
  <2>1. QED BY <1>1, <1>4, <1>5
<1>8. n \div R = c
  <2> DEFINE r == p * Q + q
  <2>1. n = R * c + r /\ r \in 0..(R - 1)
    BY <1>6, <1>7
  <2> HIDE DEF R, r
  <2>2. QED BY <1>2, <1>3, <2>1, Quotient
<1>9. c \in 0..(C - 1)
  <2> SUFFICES ASSUME C <= c PROVE FALSE
    BY <1>2
  <2>1. C * R <= c * R /\ c * R = R * c
    <3> HIDE DEF R
    <3>1. QED BY <1>2, <1>3, Scaling, SMT
  <2>2. C * R = C * P * Q
    BY SMT
  <2> HIDE DEF R
  <2>3. C * P * Q <= n
    BY <1>1, <1>4, <1>5, <1>7, <2>1, <2>2
  <2> DEFINE x == C * P * Q
  <2>4. x \in Nat
    BY ThreeFactors
  <2> HIDE DEF x
  <2>5. n < x /\ x <= n
    BY <2>3 DEF x
  <2>6. QED BY <2>4, <2>5
<1>10. n = (c * P + p) * Q + q
  BY <1>1, <1>4
<1>11. QED BY <1>1, <1>2, <1>8, <1>9, <1>10 DEF TapAt, R, q, m, p, c

\* What the window still has to deliver when it comes to a tap.
LEMMA TapsLeft ==
  ASSUME NEW U \in Nat, NEW C \in Nat \ {0}, NEW P \in Nat \ {0}, NEW Q \in Nat \ {0},
         NEW c, NEW p, NEW q, NEW n, TapAt(n, C, P, Q, c, p, q), NEW v \in Nat,
         NEW d, Left(d) = (C * P * Q) * U - (n * U + v)
  PROVE  HasLeft(d, U, Q, P, C, c, p, q, v)
<1>0. /\ c \in Nat /\ p \in Nat /\ q \in Nat /\ c <= C - 1 /\ p <= P - 1
      /\ n = (c * P + p) * Q + q
  BY DEF TapAt
<1> DEFINE X == C * P
           Y == c * P + p
           Z == X - Y
<1>1. X \in Nat /\ Y \in Nat /\ (C - 1 - c) * P + (P - p) = Z /\ Z \in Nat
  <2>1. C - 1 - c \in Nat /\ C = (C - 1 - c) + (c + 1)
    BY <1>0
  <2> DEFINE e == C - 1 - c
  <2> HIDE DEF e
  <2>2. e \in Nat /\ C = e + (c + 1)
    BY <2>1 DEF e
  <2>3. (e + (c + 1)) * P = e * P + (c * P + P) /\ e * P \in Nat /\ c * P \in Nat
    BY <1>0, <2>2, SMT
  <2>4. X = e * P + (c * P + P)
    BY <2>2, <2>3
  <2> HIDE DEF X
  <2> DEFINE a == e * P
             b == c * P
  <2>5. a \in Nat /\ b \in Nat /\ X = a + (b + P) /\ Y = b + p
    BY <2>3, <2>4
  <2> HIDE DEF a, b, Y
  <2>6. X \in Nat /\ Y \in Nat /\ a + (P - p) = X - Y /\ X - Y \in Nat
    BY <1>0, <2>5
  <2>7. QED BY <2>6 DEF a, e
<1>2. C * P * Q = X * Q /\ n = Y * Q + q
  BY <1>0
<1> HIDE DEF X, Y
<1>3. X = Y + Z
  BY <1>1
<1> HIDE DEF Z
<1>4. (X * Q) * U = (Y * Q) * U + (Q * U) * Z /\ (Y * Q) * U \in Nat /\ (Q * U) * Z \in Nat
  <2>1. X * Q = Y * Q + Z * Q /\ Y * Q \in Nat /\ Z * Q \in Nat
    BY <1>1, <1>3, SMT
  <2> DEFINE a == Y * Q
             b == Z * Q
  <2>2. a \in Nat /\ b \in Nat /\ X * Q = a + b
    BY <2>1
  <2>3. b * U = (Q * U) * Z
    BY <1>1, SMT
  <2> HIDE DEF a, b
  <2>4. (a + b) * U = a * U + b * U /\ a * U \in Nat /\ b * U \in Nat
    BY <2>2, SMT
  <2>5. QED BY <2>2, <2>3, <2>4 DEF a
<1>5. n * U = (Y * Q) * U + q * U /\ q * U \in Nat
  <2> DEFINE a == Y * Q
  <2>1. a \in Nat /\ n = a + q
    BY <1>0, <1>1, <1>2, SMT
  <2> HIDE DEF a
  <2>2. (a + q) * U = a * U + q * U /\ q * U \in Nat
    BY <1>0, <2>1, SMT
  <2>3. QED BY <2>1, <2>2 DEF a
<1> DEFINE a == (Y * Q) * U
           b == (Q * U) * Z
           e == q * U
<1>6. a \in Nat /\ b \in Nat /\ e \in Nat /\ (C * P * Q) * U = a + b /\ n * U = a + e
  BY <1>2, <1>4, <1>5
<1> HIDE DEF a, b, e
<1>7. (C * P * Q) * U - (n * U + v) = b - (e + v)
  BY <1>6
<1>8. (C - 1 - c) * P + (P - p) = Z
  BY <1>1
<1>9. QED BY <1>7, <1>8 DEF b, e, HasLeft

LEMMA DistanceX ==
  ASSUME NEW a \in Nat, NEW f \in Nat, NEW H \in Nat, NEW W \in Nat, NEW S \in Nat, NEW z \in Nat,
         NEW h \in Nat, NEW c \in Nat, NEW p \in Nat, NEW q \in Nat
  PROVE  a + (h * S * W + z) * f + q * f + p * (W * f) + c * (H * W * f) + 0
           = a + (c * H * W + (h * S + p) * W + z + q) * f
<1> DEFINE x == h * S
           y == c * H
<1>1. x \in Nat /\ y \in Nat
  BY SMT
<1>2. c * (H * W * f) = (y * W) * f
  <2> DEFINE e == H * W
  <2>1. c * (e * f) = (c * e) * f
    <3>1. e \in Nat
      BY SMT
    <3> HIDE DEF e
    <3>2. QED BY <3>1, SMT
  <2>2. c * e = y * W
    BY SMT
  <2>3. QED BY <2>1, <2>2
<1> HIDE DEF x, y
<1> DEFINE i == x * W
           j == y * W
           l == p * W
<1>3. i \in Nat /\ j \in Nat /\ l \in Nat /\ (x + p) * W = i + l /\ p * (W * f) = l * f
  BY <1>1, SMT
<1> HIDE DEF i, j, l
<1>4. /\ (i + z) * f = i * f + z * f
      /\ (j + (i + l) + z + q) * f = j * f + i * f + l * f + z * f + q * f
      /\ i * f \in Nat /\ j * f \in Nat /\ l * f \in Nat /\ z * f \in Nat /\ q * f \in Nat
  BY <1>3, SMT
<1>5. a + (i + z) * f + q * f + l * f + j * f + 0 = a + (j + (i + l) + z + q) * f
  BY <1>4
<1>6. QED BY <1>2, <1>3, <1>5 DEF i, j, x, y

LEMMA DistanceF ==
  ASSUME NEW b \in Nat, NEW e \in Nat, NEW T \in Nat, NEW f \in Nat, NEW v \in Nat, NEW n \in Nat
  PROVE  b + (f * T) * e + v * (T * e) + n * e + 0 + 0 = b + ((f + v) * T + n) * e
<1> DEFINE x == f * T
           y == v * T
<1>1. x \in Nat /\ y \in Nat /\ (f + v) * T = x + y /\ v * (T * e) = y * e
  BY SMT
<1> HIDE DEF x, y
<1>2. /\ (x + y + n) * e = x * e + y * e + n * e
      /\ x * e \in Nat /\ y * e \in Nat /\ n * e \in Nat
  BY <1>1, SMT
<1>3. QED BY <1>1, <1>2 DEF x

\* The pointers written for a pixel of F_UNROLL filters.
WindowAt(k) == At(k.A, k.h * k.SP * k.W + k.w * k.SQ)
FiltersAt(k) == At(k.B, k.f * Taps(k))
AtPixel(k) == k.f \in Nat /\ k.h \in Nat /\ k.w \in Nat

LEMMA PointersOfPixel ==
  ASSUME NEW k, Convolvable(k), AtPixel(k)
  PROVE  /\ WindowAt(k) \in Nat /\ FiltersAt(k) \in Nat
         /\ k.h * k.SP \in Nat /\ k.w * k.SQ \in Nat
<1>1. /\ k.A \in Nat /\ k.B \in Nat /\ k.W \in Nat /\ k.SP \in Nat /\ k.SQ \in Nat
      /\ k.f \in Nat /\ k.h \in Nat /\ k.w \in Nat /\ Taps(k) \in Nat /\ FloatBytes \in Nat
  BY MachineAssumption, WordAssumption DEF Convolvable, AtPixel
<1> DEFINE x == k.h * k.SP
           z == k.w * k.SQ
<1>2. x \in Nat /\ z \in Nat
  BY <1>1, Scaling
<1> HIDE DEF x, z
<1>3. x * k.W \in Nat /\ k.f * Taps(k) \in Nat
  BY <1>1, <1>2, Scaling
<1> DEFINE y == x * k.W + z
           t == k.f * Taps(k)
<1>4. y \in Nat /\ t \in Nat
  BY <1>2, <1>3
<1> HIDE DEF y, t
<1>5. y * FloatBytes \in Nat /\ t * FloatBytes \in Nat
  BY <1>1, <1>4, Scaling
<1>6. WindowAt(k) = k.A + y * FloatBytes /\ FiltersAt(k) = k.B + t * FloatBytes
  BY DEF WindowAt, FiltersAt, At, x, y, z, t
<1>7. QED BY <1>1, <1>2, <1>5, <1>6 DEF x, z

\* The element the first stream stands at is the one the scalar loop reads.
LEMMA ReadsX ==
  ASSUME NEW k, Convolvable(k), AtPixel(k),
         NEW d, Walks(3, LoopsX(k), StridesX(k), WindowAt(k), d),
         NEW n \in Nat, d.idx[0] = n % k.Q, d.idx[1] = (n \div k.Q) % k.P,
         d.idx[2] = n \div (k.P * k.Q)
  PROVE  d.ptr = AddressX(k, k.h, k.w, n)
<1> DEFINE f == FloatBytes
           q == d.idx[0]
           p == d.idx[1]
           c == d.idx[2]
           s == StridesX(k)
           z == k.w * k.SQ
           a == WindowAt(k)
<1>1. /\ f \in Nat /\ k.A \in Nat /\ k.H \in Nat /\ k.W \in Nat /\ k.SP \in Nat /\ k.h \in Nat
      /\ z \in Nat
  BY MachineAssumption, PointersOfPixel DEF Convolvable, AtPixel
<1>2. q \in Nat /\ p \in Nat /\ c \in Nat
  <2>1. 0 \in Levels /\ 1 \in Levels /\ 2 \in Levels
    BY DEF Levels
  <2>2. QED BY <2>1 DEF Walks
<1>3. d.ptr = (a + q * s[1] + p * s[2] + c * s[3] + 0) % Word
  <2>1. d.ptr = Position(3, s, a, d) % Word
    BY DEF Walks
  <2>2. Position(3, s, a, d) = a + q * s[1] + p * s[2] + c * s[3] + 0
    BY DEF Position, Steps
  <2>3. QED BY <2>1, <2>2
<1>4. s[1] = f /\ s[2] = k.W * f /\ s[3] = k.H * k.W * f
  BY DEF StridesX
<1>5. a = k.A + (k.h * k.SP * k.W + z) * f
  BY DEF WindowAt, At
<1>6. AddressX(k, k.h, k.w, n)
        = (k.A + (c * k.H * k.W + (k.h * k.SP + p) * k.W + z + q) * f) % Word
  BY DEF AddressX, At
<1> HIDE DEF f, q, p, c, s, z, a
<1>7. a + q * s[1] + p * s[2] + c * s[3] + 0
        = k.A + (c * k.H * k.W + (k.h * k.SP + p) * k.W + z + q) * f
  BY <1>1, <1>2, <1>4, <1>5, DistanceX
<1>8. QED BY <1>3, <1>6, <1>7

\* So is the second's, v filters on.
LEMMA ReadsF ==
  ASSUME NEW k, Convolvable(k), AtPixel(k),
         NEW d, Walks(2, LoopsF(k), StridesF(k), FiltersAt(k), d),
         NEW n \in Nat, NEW v \in Nat, d.idx[0] = v, d.idx[1] = n
  PROVE  d.ptr = AddressF(k, k.f + v, n)
<1> DEFINE e == FloatBytes
           s == StridesF(k)
           b == FiltersAt(k)
           T == Taps(k)
<1>1. e \in Nat /\ k.B \in Nat /\ T \in Nat /\ k.f \in Nat
  BY MachineAssumption, WordAssumption DEF Convolvable, AtPixel
<1>2. d.ptr = (b + v * s[1] + n * s[2] + 0 + 0) % Word
  <2>1. d.ptr = Position(2, s, b, d) % Word
    BY DEF Walks
  <2>2. Position(2, s, b, d) = b + v * s[1] + n * s[2] + 0 + 0
    BY DEF Position, Steps
  <2>3. QED BY <2>1, <2>2
<1>3. s[1] = T * e /\ s[2] = e
  BY DEF StridesF
<1>4. b = k.B + (k.f * T) * e
  BY DEF FiltersAt, At
<1>5. AddressF(k, k.f + v, n) = (k.B + ((k.f + v) * T + n) * e) % Word
  BY DEF AddressF, At
<1> HIDE DEF e, s, b, T
<1>6. b + v * s[1] + n * s[2] + 0 + 0 = k.B + ((k.f + v) * T + n) * e
  BY <1>1, <1>3, <1>4, DistanceF
<1>7. QED BY <1>2, <1>5, <1>6

\* A mover holds a nest when programming it again would change nothing.
Programmed(d, b, s) == Loop(d, b, s) = d

\* It does once programmed, whatever else is written and however far it is read.
LEMMA ProgrammedStays ==
  ASSUME NEW n, NEW b, NEW s, Nest(n, b, s), NEW d, Mover(d), NEW e, Mover(e),
         e.bounds = Loop(d, b, s).bounds, e.strides = Loop(d, b, s).strides
  PROVE  Programmed(e, b, s)
<1> DEFINE B(x) == [l \in Levels |-> IF l < Len(b) THEN Minus(b[l + 1], 1) ELSE x[l]]
           S(x) == [l \in Levels |-> IF l < Len(b) THEN Minus(s[l + 1], Travelled(b, s, l)) ELSE x[l]]
<1>1. \A x : Loop(x, b, s) = [x EXCEPT !.bounds = B(x.bounds), !.strides = S(x.strides)]
  BY DEF Loop
<1>2. B(B(d.bounds)) = B(d.bounds) /\ S(S(d.strides)) = S(d.strides)
  <2>1. \A l \in Levels : B(B(d.bounds))[l] = B(d.bounds)[l] /\ S(S(d.strides))[l] = S(d.strides)[l]
    OBVIOUS
  <2>2. QED BY <2>1
<1> HIDE DEF B, S
<1>3. e.bounds = B(d.bounds) /\ e.strides = S(d.strides)
  <2>1. Loop(d, b, s) = [d EXCEPT !.bounds = B(d.bounds), !.strides = S(d.strides)]
    BY <1>1
  <2>2. Loop(d, b, s).bounds = B(d.bounds) /\ Loop(d, b, s).strides = S(d.strides)
    BY <2>1 DEF Mover
  <2>3. QED BY <2>2
<1>4. B(e.bounds) = e.bounds /\ S(e.strides) = e.strides
  BY <1>2, <1>3
<1>5. [e EXCEPT !.bounds = e.bounds, !.strides = e.strides] = e
  BY DEF Mover
<1>6. QED BY <1>1, <1>4, <1>5 DEF Programmed

\* One that holds a nest delivers it from the pointer written.
LEMMA WalksAgain ==
  ASSUME NEW n, NEW b, NEW s, NEW p \in Nat, NEW d, Nest(n, b, s), Mover(d), Programmed(d, b, s)
  PROVE  Walks(n, b, s, p, Arm(d, n, p))
BY StreamStarts DEF Programmed

\* The movers of a core that computes a convolution.
ConvWalks(k, ms) ==
  /\ Convolvable(k) /\ AtPixel(k)
  /\ Programmed(ms[1], LoopsX(k), StridesX(k)) /\ Programmed(ms[2], LoopsF(k), StridesF(k))

LEMMA NestsOfConvolution ==
  ASSUME NEW k, Convolvable(k)
  PROVE  /\ Nest(3, LoopsX(k), StridesX(k)) /\ Nest(2, LoopsF(k), StridesF(k))
         /\ LoopsX(k)[1] = k.Q /\ LoopsX(k)[2] = k.P /\ LoopsX(k)[3] = k.C
         /\ LoopsF(k)[1] = F_UNROLL /\ LoopsF(k)[2] = Taps(k)
<1> DEFINE f == FloatBytes
           U == F_UNROLL
           T == Taps(k)
<1>1. /\ f \in Nat /\ U \in 1..Word /\ T \in 1..Word /\ T \in Nat
      /\ k.C \in 1..Word /\ k.P \in 1..Word /\ k.Q \in 1..Word /\ k.H \in Nat /\ k.W \in Nat
  BY MachineAssumption, WordAssumption DEF Convolvable
<1>2. k.W * f \in Nat /\ T * f \in Nat /\ k.H * k.W * f \in Nat
  <2> HIDE DEF f, T
  <2> DEFINE x == k.H * k.W
  <2>1. k.W * f \in Nat /\ T * f \in Nat /\ x \in Nat
    BY <1>1, Scaling
  <2> HIDE DEF x
  <2>2. x * f \in Nat
    BY <1>1, <2>1, Scaling
  <2>3. QED BY <2>1, <2>2 DEF x
<1> DEFINE s2 == k.W * f
           s3 == k.H * k.W * f
           t1 == T * f
<1>3. /\ LoopsX(k) = <<k.Q, k.P, k.C>> /\ LoopsF(k) = <<U, T>>
      /\ StridesX(k) = <<f, s2, s3>> /\ StridesF(k) = <<t1, f>>
  BY DEF LoopsX, LoopsF, StridesX, StridesF
<1>4. s2 \in Nat /\ s3 \in Nat /\ t1 \in Nat
  BY <1>2
<1> HIDE DEF f, U, T, s2, s3, t1
<1>5. /\ LoopsX(k) \in Seq(1..Word) /\ Len(LoopsX(k)) = 3
      /\ LoopsF(k) \in Seq(1..Word) /\ Len(LoopsF(k)) = 2
      /\ StridesX(k) \in Seq(Nat) /\ Len(StridesX(k)) = 3
      /\ StridesF(k) \in Seq(Nat) /\ Len(StridesF(k)) = 2
  BY <1>1, <1>3, <1>4
<1>6. 3 \in 1..4 /\ 2 \in 1..4
  OBVIOUS
<1>7. QED BY <1>3, <1>5, <1>6 DEF Nest, U, T

\* What a pixel leaves in its accumulators.
PixelAdds(k, m, acc, end) ==
  \A v \in 0..(F_UNROLL - 1) :
    end[v] = ScalarSum(m, Taps(k), WindowOf(k, k.h, k.w), FilterOf(k, k.f + v), acc[v])

\* Both streams as a pixel starts them.
PixelStreams(k, ms) == <<Arm(ms[1], 3, WindowAt(k)), Arm(ms[2], 2, FiltersAt(k))>>

\* A pixel leaves in its accumulators what the scalar loops over its window and
\* each of its filters add up, and what is programmed as it was.
LEMMA PixelSums ==
  ASSUME NEW k, NEW ms, MoversOK(ms), ConvReady(k, ms), ConvWalks(k, ms), NEW m, NEW acc,
         acc = [v \in 0..(F_UNROLL - 1) |-> acc[v]]
  PROVE  LET r == Frep(m, PixelStreams(k, ms), Taps(k), F_UNROLL, acc)
         IN PixelAdds(k, m, acc, r.acc) /\ ConvWalks(k, r.d)
<1> DEFINE U == F_UNROLL
           T == Taps(k)
           C == k.C
           P == k.P
           Q == k.Q
           d0 == PixelStreams(k, ms)
           X1 == LoopsX(k)
           X2 == StridesX(k)
           X3 == WindowAt(k)
           F1 == LoopsF(k)
           F2 == StridesF(k)
           F3 == FiltersAt(k)
<1>1. /\ U \in Nat \ {0} /\ T \in Nat \ {0} /\ T * U \in Nat
      /\ T = C * P * Q
  BY TapsAre DEF Taps
<1>2. /\ d0 = <<d0[1], d0[2]>> /\ Counts(d0[1]) /\ Counts(d0[2]) /\ d0[2].repeat = 0
      /\ Left(d0[1]) = T * U /\ Left(d0[2]) = T * U
      /\ d0[1].repeat = ms[1].repeat /\ d0[1].bounds = ms[1].bounds /\ d0[2].bounds = ms[2].bounds
  BY PixelBegins DEF PixelStreams
<1>3. Convolvable(k) /\ AtPixel(k) /\ X3 \in Nat /\ F3 \in Nat
  BY PointersOfPixel DEF ConvWalks
<1>4. Nest(3, X1, X2) /\ Nest(2, F1, F2)
  BY <1>3, NestsOfConvolution
<1>5. Mover(ms[1]) /\ Mover(ms[2]) /\ Programmed(ms[1], X1, X2) /\ Programmed(ms[2], F1, F2)
  BY DEF MoversOK, Counts, Mover, ConvWalks
<1>6. Walks(3, X1, X2, X3, d0[1]) /\ Walks(2, F1, F2, F3, d0[2])
  <2>1. d0[1] = Arm(ms[1], 3, X3) /\ d0[2] = Arm(ms[2], 2, F3)
    BY DEF PixelStreams
  <2> HIDE DEF d0, X1, X2, X3, F1, F2, F3
  <2>2. QED BY <1>3, <1>4, <1>5, <2>1, WalksAgain
<1>7. d0[1].strides = ms[1].strides /\ d0[2].strides = ms[2].strides
  BY <1>5 DEF PixelStreams, Arm, Mover
<1>8. /\ ms[1].repeat = U - 1
      /\ ms[1].bounds[0] = Q - 1 /\ ms[1].bounds[1] = P - 1 /\ ms[1].bounds[2] = C - 1
      /\ ms[2].bounds[0] = U - 1 /\ ms[2].bounds[1] = T - 1
      /\ C \in Nat \ {0} /\ P \in Nat \ {0} /\ Q \in Nat \ {0}
  BY DEF ConvReady
<1> HIDE DEF U, T, C, P, Q, d0, X1, X2, X3, F1, F2, F3
<1>9. PICK f : /\ Frep(m, d0, T, U, acc) = f[T * U] /\ f[0] = [d |-> d0, acc |-> acc]
               /\ Runs(f, m, U, T * U)
  <2>1. T \in Nat /\ U \in Nat /\ T * U \in Nat
    BY <1>1
  <2>2. QED BY <2>1, FrepRuns
<1>10. \A t \in 0..(T * U) :
         /\ After(f[t].d[1], d0[1], t) /\ Keeps(f[t].d[1], 3, X1, X2, X3)
         /\ After(f[t].d[2], d0[2], t) /\ Keeps(f[t].d[2], 2, F1, F2, F3)
  <2>1. Keeps(d0[1], 3, X1, X2, X3) /\ Keeps(d0[2], 2, F1, F2, F3) /\ f[0].d = d0
    BY <1>6, <1>9 DEF Keeps
  <2> DEFINE L == T * U
  <2>2. L \in Nat /\ L <= Left(d0[1]) /\ L <= Left(d0[2]) /\ Runs(f, m, U, L)
    BY <1>1, <1>2, <1>9
  <2> HIDE DEF L
  <2>3. BothWalk(f, L, d0, 3, X1, X2, X3, 2, F1, F2, F3)
    BY <1>2, <1>3, <1>4, <2>1, <2>2, FrepWalks
  <2>4. QED BY <2>3 DEF BothWalk, L
<1>11. ASSUME NEW n \in 0..(T - 1), NEW v \in 0..(U - 1)
       PROVE  /\ Deliver(m, f[n * U + v].d[1]) = Read(m, AddressX(k, k.h, k.w, n))
              /\ Deliver(m, f[n * U + v].d[2]) = Read(m, AddressF(k, k.f + v, n))
  <2> DEFINE t == n * U + v
             d == f[t].d[1]
             e == f[t].d[2]
             q == n % Q
             p == (n \div Q) % P
             c == n \div (P * Q)
  <2>1. t \in Nat /\ t < T * U
    <3>1. U \in Nat /\ T \in Nat
      BY <1>1
    <3>2. QED BY <3>1, ReadWithin
  <2>2. t \in 0..(T * U)
    BY <1>1, <2>1
  <2>3. /\ After(d, d0[1], t) /\ Keeps(d, 3, X1, X2, X3)
        /\ After(e, d0[2], t) /\ Keeps(e, 2, F1, F2, F3)
    <3> HIDE DEF t
    <3>1. QED BY <1>10, <2>2
  <2>4. Left(d) = T * U - (n * U + v) /\ Left(e) = T * U - (n * U + v)
    <3> HIDE DEF d, e
    <3>1. QED BY <1>2, <2>3 DEF After
  <2>5. d.live /\ e.live
    <3>1. Left(d) > 0 /\ Left(e) > 0
      <4> HIDE DEF d, e
      <4>1. QED BY <1>1, <2>1, <2>4
    <3> HIDE DEF d, e
    <3>2. QED BY <3>1 DEF Left
  <2>6. /\ Counts(d) /\ d.repeat = U - 1 /\ d.bounds = ms[1].bounds
        /\ Counts(e) /\ e.repeat = 0 /\ e.bounds = ms[2].bounds
    BY <1>2, <1>8, <2>3 DEF After
  <2> HIDE DEF t, d, e
  <2>7. Walks(3, X1, X2, X3, d) /\ Walks(2, F1, F2, F3, e)
    BY <2>3, <2>5 DEF Keeps
  <2>8. d.dims = 3 /\ e.dims = 2
    BY <2>7 DEF Walks
  <2>9. TapAt(n, C, P, Q, c, p, q)
    <3>1. n \in Nat /\ n < C * P * Q
      BY <1>1
    <3>2. C \in Nat \ {0} /\ P \in Nat \ {0} /\ Q \in Nat \ {0}
      BY <1>8
    <3>3. QED BY <3>1, <3>2, TapDigits
  <2> HIDE DEF q, p, c
  <2>10. HasLeft(d, U, Q, P, C, c, p, q, v)
    <3>1. U \in Nat /\ v \in Nat /\ Left(d) = (C * P * Q) * U - (n * U + v)
      BY <1>1, <2>4
    <3>2. C \in Nat \ {0} /\ P \in Nat \ {0} /\ Q \in Nat \ {0}
      BY <1>8
    <3>3. QED BY <2>9, <3>1, <3>2, TapsLeft
  <2>11. d.idx[0] = q /\ d.idx[1] = p /\ d.idx[2] = c
    <3>1. GivenA(d, U, Q, P, C)
      BY <1>8, <2>5, <2>6, <2>8 DEF GivenA
    <3>2. q \in 0..(Q - 1) /\ p \in 0..(P - 1) /\ c \in 0..(C - 1)
      BY <2>9 DEF TapAt
    <3>3. QED BY <1>1, <1>8, <2>6, <2>10, <3>1, <3>2, StandsInA
  <2>12. e.idx[0] = v /\ e.idx[1] = n
    <3>1. e.bounds[0] = U - 1 /\ e.bounds[1] = T - 1
      BY <1>8, <2>6
    <3>2. U \in Nat \ {0} /\ T \in Nat \ {0} /\ Left(e) = T * U - (n * U + v)
      BY <1>1, <2>4
    <3>3. Counts(e) /\ e.live /\ e.dims = 2 /\ e.repeat = 0
      BY <2>5, <2>6, <2>8
    <3>4. QED BY <3>1, <3>2, <3>3, StandsInFilters
  <2>13. n \in Nat /\ v \in Nat
    OBVIOUS
  <2>14. d.ptr = AddressX(k, k.h, k.w, n)
    BY <1>3, <2>7, <2>11, <2>13, ReadsX DEF X1, X2, X3, q, p, c, P, Q
  <2>15. e.ptr = AddressF(k, k.f + v, n)
    BY <1>3, <2>7, <2>12, <2>13, ReadsF DEF F1, F2, F3
  <2>16. QED BY <2>5, <2>14, <2>15 DEF Deliver, d, e, t
<1> DEFINE a == [v \in 0..(U - 1) |-> WindowOf(k, k.h, k.w)]
           b == [v \in 0..(U - 1) |-> FilterOf(k, k.f + v)]
<1>12. AllAdded(f[T * U].acc, m, T, U, a, b, acc)
  <2>1. \A n \in 0..(T - 1) : \A v \in 0..(U - 1) :
          /\ a[v][n] = AddressX(k, k.h, k.w, n) /\ b[v][n] = AddressF(k, k.f + v, n)
    BY DEF WindowOf, FilterOf, T
  <2> HIDE DEF a, b
  <2>2. Delivers(f, m, T, U, a, b)
    BY <1>11, <2>1 DEF Delivers
  <2>3. f[0].acc = acc /\ T \in Nat /\ U \in Nat \ {0} /\ Runs(f, m, U, T * U)
    BY <1>1, <1>9
  <2>4. acc = [v \in 0..(U - 1) |-> acc[v]]
    BY DEF U
  <2>5. QED BY <2>2, <2>3, <2>4, FrepSums
<1>13. \A v \in 0..(U - 1) :
         f[T * U].acc[v] = ScalarSum(m, T, WindowOf(k, k.h, k.w), FilterOf(k, k.f + v), acc[v])
  BY <1>12 DEF AllAdded
<1>14. ConvWalks(k, f[T * U].d)
  <2> DEFINE L == T * U
             e == f[L].d
  <2>1. L \in Nat /\ L \in 0..L /\ Runs(f, m, U, L)
    BY <1>1, <1>9
  <2>2. \A t \in 0..L : /\ After(f[t].d[1], d0[1], t) /\ After(f[t].d[2], d0[2], t)
                        /\ Counts(f[t].d[1]) /\ Counts(f[t].d[2])
    BY <1>10 DEF After
  <2> HIDE DEF L
  <2>3. e[1].strides = ms[1].strides /\ e[2].strides = ms[2].strides
    <3>1. f[0].d = d0
      BY <1>9
    <3>2. QED BY <1>2, <1>7, <2>1, <2>2, <3>1, StridesStay
  <2>4. After(e[1], d0[1], L) /\ After(e[2], d0[2], L) /\ Mover(e[1]) /\ Mover(e[2])
    BY <2>1, <2>2 DEF Counts, Mover
  <2> HIDE DEF e
  <2>5. e[1].bounds = ms[1].bounds /\ e[2].bounds = ms[2].bounds
    BY <1>2, <2>4 DEF After
  <2>6. Programmed(e[1], X1, X2) /\ Programmed(e[2], F1, F2)
    <3>1. Loop(ms[1], X1, X2) = ms[1] /\ Loop(ms[2], F1, F2) = ms[2]
      BY <1>5 DEF Programmed
    <3>2. QED BY <1>4, <1>5, <2>3, <2>4, <2>5, <3>1, ProgrammedStays
  <2>7. ConvWalks(k, e)
    BY <1>3, <2>6 DEF ConvWalks, X1, X2, F1, F2
  <2>8. QED BY <2>7 DEF e, L
<1>15. QED BY <1>9, <1>13, <1>14 DEF U, T, d0, PixelAdds

-----------------------------------------------------------------------------
(* Where the kernels' pointers point, and what a streamed product stores.  *)

\* The pointers of a job are where stage_in() or the host laid its operands out,
\* from some address on.
ArgsInv ==
  phase # "idle" /\ error = "none" =>
    /\ job \in Jobs
    /\ \E at \in Nat : args = Pointers(plan_operands(job), Places(plan_operands(job), at))

LEMMA ArgsKept == (Init => ArgsInv) /\ (ArgsInv /\ [Next]_vars => ArgsInv')
<1>1. Init => ArgsInv
  BY DEF Init, ArgsInv
<1>2. ASSUME ArgsInv, [Next]_vars PROVE ArgsInv'
  <2>1. CASE \E a \in Jobs : Serve(a)
    <3>1. PICK a \in Jobs : Serve(a)
      BY <2>1
    <3> DEFINE ops == plan_operands(a)
               cursor == reserve_scratch(a, NbCompute).cursor
    <3>2. /\ job' = a
          /\ \/ args' = Pointers(ops, Places(ops, cursor))
             \/ args' = Pointers(ops, Places(ops, MainBase))
      BY <3>1, Zenon DEF Serve, MainPointers
    <3>3. cursor \in Nat /\ MainBase \in Nat
      BY SlabsPlaced, MainAssumption
    <3> HIDE DEF cursor, ops
    <3>4. \E at \in Nat : args' = Pointers(ops, Places(ops, at))
      BY <3>2, <3>3
    <3>5. \E at \in Nat : args' = Pointers(plan_operands(job'), Places(plan_operands(job'), at))
      BY <3>2, <3>4, Zenon DEF ops
    <3>6. QED BY <3>2, <3>5, Zenon DEF ArgsInv
  <2>2. CASE /\ job' = job /\ error' = error /\ args' = args
             /\ (phase # "idle" \/ phase' = phase)
    <3>1. CASE phase' # "idle" /\ error' = "none"
      <4>1. phase # "idle" /\ error = "none"
        BY <2>2, <3>1
      <4>2. QED BY <1>2, <2>2, <4>1, Zenon DEF ArgsInv
    <3>2. CASE ~(phase' # "idle" /\ error' = "none")
      BY <3>2 DEF ArgsInv
    <3>3. QED BY <3>1, <3>2
  <2>3. ASSUME NEW c \in Cores, Step(c)
        PROVE  job' = job /\ error' = error /\ args' = args /\ phase' = phase
    BY <2>3, Zenon DEF Step, Held, RunSlice, GemmBlock, GemmTail, GemmGeneric, RvvBlock, ConvPixel,
       ConvTail, ConvGeneric, MfccWindow, MfccSpectrum, MelFilter, DctBlock, DctTail
  <2>4. CASE Transfer \/ Release \/ StageOut \/ Publish
    BY <2>2, <2>4 DEF Transfer, Release, StageOut, Publish
  <2>5. CASE UNCHANGED vars
    BY <2>2, <2>5 DEF vars
  <2>6. QED BY <1>2, <2>1, <2>2, <2>3, <2>4, <2>5 DEF Next
<1>3. QED BY <1>1, <1>2

\* Lines are addresses.
LEMMA LineIsAddress ==
  ASSUME NEW c \in Nat
  PROVE  AlignUp(c) \in Nat
<1> DEFINE s == c + LineBytes - 1
<1>1. s \in Nat /\ LineBytes \in Nat \ {0} /\ Word \in Nat \ {0}
  BY MachineAssumption, WordAssumption
<1> HIDE DEF s
<1>2. s % Word \in Nat
  BY <1>1, Division
<1> DEFINE t == s % Word
<1> HIDE DEF t
<1>3. t \div LineBytes \in Nat
  BY <1>1, <1>2, Division DEF t
<1>4. (t \div LineBytes) * LineBytes \in Nat
  BY <1>1, <1>3, Scaling
<1>5. QED BY <1>4 DEF AlignUp, s, t

\* So are the places of operands laid out from an address.
LEMMA PlacesAreAddresses ==
  ASSUME NEW a \in Jobs, NEW cursor \in Nat
  PROVE  LET ops == plan_operands(a) IN
         \A i \in 1..Len(ops) : Places(ops, cursor)[i] \in Nat
<1> DEFINE ops == plan_operands(a)
           at == Places(ops, cursor)
           N == Len(ops)
           T == {k \in Nat : k + 1 <= N => at[k + 1] \in Nat}
<1>1. N \in Nat /\ DOMAIN ops = 1..N
  BY ArgumentsDiffer
<1>2. \A i \in 1..N : ops[i].bytes \in Nat
  BY <1>1, NothingWraps
<1>3. \A i \in 1..N : at[i] = IF i = 1 THEN AlignUp(cursor)
                              ELSE AlignUp((at[i - 1] + ops[i - 1].bytes) % Word)
  BY <1>1, PlacesAre
<1> HIDE DEF ops, at, N
<1>4. 0 \in T
  <2>1. SUFFICES ASSUME 1 <= N PROVE at[1] \in Nat
    OBVIOUS
  <2>2. 1 \in 1..N
    BY <1>1, <2>1
  <2>3. QED BY <1>3, <2>2, LineIsAddress
<1>5. \A k \in T : k + 1 \in T
  <2> SUFFICES ASSUME NEW k \in T, (k + 1) + 1 <= N PROVE at[(k + 1) + 1] \in Nat
    OBVIOUS
  <2> DEFINE i == (k + 1) + 1
  <2>1. k + 1 \in 1..N /\ i \in 1..N /\ i # 1 /\ i - 1 = k + 1
    BY <1>1
  <2>2. at[i] = AlignUp((at[k + 1] + ops[k + 1].bytes) % Word)
    <3> HIDE DEF i
    <3>1. at[i] = AlignUp((at[i - 1] + ops[i - 1].bytes) % Word)
      BY <1>3, <2>1
    <3>2. QED BY <2>1, <3>1
  <2> DEFINE x == at[k + 1] + ops[k + 1].bytes
  <2>3. x \in Nat
    <3>1. at[k + 1] \in Nat
      BY <1>1, <2>1
    <3>2. QED BY <1>2, <2>1, <3>1
  <2> HIDE DEF x
  <2>4. x % Word \in Nat
    BY <2>3, WordAssumption, Division
  <2>5. QED BY <2>2, <2>4, LineIsAddress DEF x
<1>6. T = Nat
  BY <1>4, <1>5, Induction
<1>7. ASSUME NEW i \in 1..N PROVE at[i] \in Nat
  <2>1. i - 1 \in Nat /\ (i - 1) + 1 = i /\ i <= N
    BY <1>1
  <2>2. i - 1 \in T
    BY <1>6, <2>1
  <2>3. QED BY <2>1, <2>2
<1>8. QED BY <1>7 DEF ops, at, N

\* Every operand of a job has an address.
LEMMA OperandPointers ==
  ASSUME ArgsInv, phase = "run", error = "none",
         NEW n, \E i \in DOMAIN plan_operands(job) : plan_operands(job)[i].arg = n
  PROVE  args[n] \in Nat
<1> DEFINE ops == plan_operands(job)
<1>1. PICK base \in Nat : job \in Jobs /\ args = Pointers(ops, Places(ops, base))
  BY DEF ArgsInv
<1> DEFINE at == Places(ops, base)
<1>2. Len(ops) \in Nat /\ DOMAIN ops = 1..Len(ops)
  BY <1>1, ArgumentsDiffer
<1>3. \A i \in DOMAIN ops : at[i] \in Nat
  BY <1>1, <1>2, PlacesAreAddresses
<1>4. \E i \in DOMAIN ops : ops[i].arg = n
  OBVIOUS
<1> HIDE DEF ops, at
<1> DEFINE i == CHOOSE i \in DOMAIN ops : ops[i].arg = n
<1>5. args[n] = at[i]
  BY <1>1, <1>4 DEF Pointers, at
<1>6. i \in DOMAIN ops
  BY <1>4
<1>7. QED BY <1>3, <1>5, <1>6

\* So those of a product and of a convolution do.
LEMMA KernelPointers ==
  ASSUME ArgsInv, phase = "run", error = "none", job.kernel \in {"matmul", "gemm", "conv"}
  PROVE  args.A \in Nat /\ args.B \in Nat /\ args.Y \in Nat
<1> DEFINE ops == plan_operands(job)
<1>1. \A n, b : Input(n, b).arg = n /\ Output(n, b).arg = n
  BY DEF Input, Output
<1>2. \E i, j, k \in DOMAIN ops : ops[i].arg = "A" /\ ops[j].arg = "B" /\ ops[k].arg = "Y"
  <2>1. CASE job.kernel = "matmul"
    <3>1. PICK x, y, z : ops = <<Input("A", x), Input("B", y), Output("Y", z)>>
      BY <2>1 DEF plan_operands
    <3> HIDE DEF ops
    <3>2. DOMAIN ops = 1..3 /\ ops[1].arg = "A" /\ ops[2].arg = "B" /\ ops[3].arg = "Y"
      BY <1>1, <3>1
    <3>3. 1 \in 1..3 /\ 2 \in 1..3 /\ 3 \in 1..3
      OBVIOUS
    <3>4. QED BY <3>2, <3>3
  <2>2. CASE job.kernel = "gemm"
    <3>1. PICK x, y, z, w : ops = <<Input("A", x), Input("B", y), Input("C", w), Output("Y", z)>>
      BY <2>2 DEF plan_operands
    <3> HIDE DEF ops
    <3>2. DOMAIN ops = 1..4 /\ ops[1].arg = "A" /\ ops[2].arg = "B" /\ ops[4].arg = "Y"
      BY <1>1, <3>1
    <3>3. 1 \in 1..4 /\ 2 \in 1..4 /\ 4 \in 1..4
      OBVIOUS
    <3>4. QED BY <3>2, <3>3
  <2>3. CASE job.kernel = "conv"
    <3>1. PICK x, y, z, w :
            ops = <<Input("A", x), Input("B", y), Output("Y", z)>>
                    \o (IF job.has_bias THEN <<Input("bias", w)>> ELSE << >>)
      BY <2>3 DEF plan_operands
    <3>2. \/ ops = <<Input("A", x), Input("B", y), Output("Y", z)>>
          \/ ops = <<Input("A", x), Input("B", y), Output("Y", z), Input("bias", w)>>
      <4> DEFINE r == Input("A", x)
                 t == Input("B", y)
                 u == Output("Y", z)
                 v == Input("bias", w)
      <4>1. ops = <<r, t, u>> \o (IF job.has_bias THEN <<v>> ELSE << >>)
        BY <3>1
      <4> HIDE DEF ops, r, t, u, v
      <4>2. ops = <<r, t, u>> \/ ops = <<r, t, u, v>>
        <5>1. <<r, t, u>> \o << >> = <<r, t, u>> /\ <<r, t, u>> \o <<v>> = <<r, t, u, v>>
          <6> DEFINE S == {r, t, u, v}
                     a == <<r, t, u>>
          <6>1. a \in Seq(S) /\ <<v>> \in Seq(S) /\ << >> \in Seq(S)
            OBVIOUS
          <6>2. a \o << >> = a
            BY <6>1
          <6>3. a \o <<v>> = <<r, t, u, v>>
            <7> DEFINE c == a \o <<v>>
            <7>1. c \in Seq(S) /\ Len(c) = 4 /\ c = [i \in 1..4 |-> c[i]]
              BY <6>1
            <7>2. c[1] = r /\ c[2] = t /\ c[3] = u /\ c[4] = v
              BY <6>1
            <7> HIDE DEF c
            <7> DEFINE q == <<r, t, u, v>>
            <7>3. q = [i \in 1..4 |-> q[i]] /\ q[1] = r /\ q[2] = t /\ q[3] = u /\ q[4] = v
              OBVIOUS
            <7> HIDE DEF q
            <7>4. \A i \in 1..4 : c[i] = q[i]
              BY <7>2, <7>3
            <7>5. c = q
              BY <7>1, <7>3, <7>4
            <7>6. QED BY <7>5 DEF q, c
          <6>4. QED BY <6>2, <6>3
        <5>2. CASE job.has_bias
          BY <4>1, <5>1, <5>2
        <5>3. CASE ~job.has_bias
          BY <4>1, <5>1, <5>3
        <5>4. QED BY <5>2, <5>3
      <4>3. QED BY <4>2 DEF r, t, u, v
    <3> HIDE DEF ops
    <3>3. /\ 1..3 \subseteq DOMAIN ops
          /\ ops[1].arg = "A" /\ ops[2].arg = "B" /\ ops[3].arg = "Y"
      BY <1>1, <3>2
    <3>4. 1 \in 1..3 /\ 2 \in 1..3 /\ 3 \in 1..3
      OBVIOUS
    <3>5. QED BY <3>3, <3>4
  <2>4. QED BY <2>1, <2>2, <2>3
<1> HIDE DEF ops
<1>3. args["A"] \in Nat /\ args["B"] \in Nat /\ args["Y"] \in Nat
  BY <1>2, OperandPointers DEF ops
<1>4. QED BY <1>3

\* A stream programmed and then told to repeat holds what one told first would.
LEMMA RepeatLoop ==
  ASSUME NEW d, Mover(d), NEW b, NEW s, NEW u
  PROVE  Repeat(Loop(d, b, s), u) = Loop(Repeat(d, u), b, s)
<1> DEFINE B == [l \in Levels |-> IF l < Len(b) THEN Minus(b[l + 1], 1) ELSE d.bounds[l]]
           S == [l \in Levels |-> IF l < Len(b) THEN Minus(s[l + 1], Travelled(b, s, l))
                                  ELSE d.strides[l]]
           r == Minus(u, 1)
           e == Repeat(d, u)
<1>1. Loop(d, b, s) = [d EXCEPT !.bounds = B, !.strides = S]
  BY DEF Loop
<1>2. e = [d EXCEPT !.repeat = r]
  BY DEF Repeat
<1>3. Repeat(Loop(d, b, s), u) = [Loop(d, b, s) EXCEPT !.repeat = r]
  BY DEF Repeat
<1>4. e.bounds = d.bounds /\ e.strides = d.strides
  <2> HIDE DEF e, r
  <2>1. QED BY <1>2 DEF Mover
<1>5. Loop(e, b, s) = [e EXCEPT !.bounds = B, !.strides = S]
  <2> DEFINE B1 == [l \in Levels |-> IF l < Len(b) THEN Minus(b[l + 1], 1) ELSE e.bounds[l]]
             S1 == [l \in Levels |-> IF l < Len(b) THEN Minus(s[l + 1], Travelled(b, s, l))
                                     ELSE e.strides[l]]
  <2>1. Loop(e, b, s) = [e EXCEPT !.bounds = B1, !.strides = S1]
    BY DEF Loop
  <2>2. B1 = B /\ S1 = S
    BY <1>4
  <2> HIDE DEF B1, S1, B, S, e
  <2>3. QED BY <2>1, <2>2
<1> HIDE DEF B, S, r, e
<1> DEFINE q == [bounds |-> B, strides |-> S, repeat |-> r, dims |-> d.dims,
                 ptr |-> d.ptr, idx |-> d.idx, rep |-> d.rep, live |-> d.live,
                 starved |-> d.starved]
<1>6. Repeat(Loop(d, b, s), u) = q
  BY <1>1, <1>3 DEF Mover
<1>7. Loop(e, b, s) = q
  <2>1. e = [bounds |-> d.bounds, strides |-> d.strides, repeat |-> r, dims |-> d.dims,
             ptr |-> d.ptr, idx |-> d.idx, rep |-> d.rep, live |-> d.live, starved |-> d.starved]
    BY <1>2 DEF Mover
  <2>2. QED BY <1>5, <2>1
<1>8. QED BY <1>6, <1>7 DEF e

\* The streams of a product that has just been called are at the start of the
\* loops of gemm_ssr.
LEMMA WalksBegin ==
  ASSUME NEW ms, MoversOK(ms), Spent(ms), NEW g, Streamable(g), g.Y \in Nat
  PROVE  GemmWalks(g, GemmStreams(ms, g))
<1> DEFINE U == GEMM_UNROLL
           e == GemmStreams(ms, g)
           r1 == Repeat(ms[1], U)
           b1 == LoopsA(g)
           s1 == StridesA(g)
           b2 == LoopsB(g)
           s2 == StridesB(g)
<1>1. U \in 1..Word
  BY MachineAssumption
<1>2. /\ Counts(ms[1]) /\ Counts(ms[2]) /\ ~ms[1].live
      /\ \A d : Counts(d) => Mover(d)
  BY DEF MoversOK, Spent, Counts, Mover
<1>3. Counts(r1) /\ ~r1.live /\ r1.repeat = U - 1
  BY <1>1, <1>2, RepeatIs
<1>4. e = <<Arm(Repeat(Loop(ms[1], b1, s1), U), 3, g.A), Arm(Loop(ms[2], b2, s2), 4, g.B)>>
  BY DEF GemmStreams, GemmLoops, LoopsA, LoopsB, StridesA, StridesB, Blocks
<1>5. Nest(3, b1, s1) /\ Nest(4, b2, s2)
  BY NestsOfProduct
<1>6. g.A \in Nat /\ g.B \in Nat
  BY DEF Streamable
<1> HIDE DEF e, r1, b1, s1, b2, s2, U
<1>7. e[1] = Arm(Loop(r1, b1, s1), 3, g.A) /\ e[2] = Arm(Loop(ms[2], b2, s2), 4, g.B)
  BY <1>2, <1>4, RepeatLoop DEF r1
<1>8. Mover(r1) /\ Mover(ms[2])
  BY <1>2, <1>3
<1>9. Walks(3, b1, s1, g.A, e[1]) /\ Walks(4, b2, s2, g.B, e[2])
  BY <1>5, <1>6, <1>7, <1>8, StreamStarts
<1>10. e[1].repeat = U - 1
  <2> DEFINE x == Loop(r1, b1, s1)
  <2>1. Mover(x)
    BY <1>5, <1>8, LoopTypes
  <2>2. x.repeat = r1.repeat
    BY <1>8 DEF Loop, Mover
  <2> HIDE DEF x
  <2>3. Arm(x, 3, g.A).repeat = x.repeat
    BY <2>1 DEF Arm, Mover
  <2>4. QED BY <1>3, <1>7, <2>2, <2>3 DEF x
<1>11. QED BY <1>9, <1>10 DEF GemmWalks, Keeps, e, b1, s1, b2, s2, U

\* What a core is called with, when its product is streamed.
LEMMA ShareStreams ==
  ASSUME ArgsInv, phase = "run", error = "none", NEW c \in Cores, job.kernel \in {"matmul", "gemm"},
         ~(GemmRows(c).last <= GemmRows(c).first), job.N # 0, job.O >= GEMM_UNROLL
  PROVE  Streamable(GemmShare(c, "gemm")) /\ GemmShare(c, "gemm").Y \in Nat
<1> DEFINE g == GemmShare(c, "gemm")
           r == GemmRows(c)
<1>1. job \in Jobs
  BY DEF ArgsInv
<1>2. job.M \in Nat /\ job.N \in 0..(Word - 1) /\ job.O \in 0..(Word - 1)
  BY <1>1, JobsAssumption, WordAssumption DEF Extents
<1>3. r.first \in Nat
  <2>1. CASE job.kernel = "gemm" /\ job.tA
    BY <2>1 DEF GemmRows
  <2>2. CASE ~(job.kernel = "gemm" /\ job.tA)
    <3>1. r.first = slice_first(job.M, c, NbCompute)
      BY <2>2 DEF GemmRows
    <3>2. QED BY <1>2, <3>1, ShareWithin
  <2>3. QED BY <2>1, <2>2
<1>4. /\ g.A = At(args.A, r.first * job.N) /\ g.B = args.B /\ g.Y = At(args.Y, r.first * job.O)
  BY DEF GemmShare
<1>5. /\ g.M \in 1..Word /\ g.N = job.N /\ g.O = job.O
  BY <1>1, GemmShareIs
<1>6. args.A \in Nat /\ args.B \in Nat /\ args.Y \in Nat
  BY KernelPointers
<1> HIDE DEF g, r
<1>7. ASSUME NEW p \in Nat, NEW n \in Nat PROVE At(p, r.first * n) \in Nat
  <2> DEFINE x == r.first * n
  <2>1. x \in Nat
    BY <1>3, Scaling
  <2> HIDE DEF x
  <2>2. x * FloatBytes \in Nat
    BY <2>1, MachineAssumption, Scaling
  <2>3. QED BY <2>2 DEF At, x
<1>8. g.A \in Nat /\ g.B \in Nat /\ g.Y \in Nat /\ g.O \in Nat
  <2>1. job.N \in Nat /\ job.O \in Nat
    BY <1>2, WordAssumption
  <2>2. At(args.A, r.first * job.N) \in Nat /\ At(args.Y, r.first * job.O) \in Nat
    BY <1>6, <1>7, <2>1
  <2>3. QED BY <1>4, <1>5, <1>6, <2>1, <2>2
<1>9. g.N \in 1..Word
  BY <1>2, <1>5, WordAssumption
<1>10. Blocks(g) \in 1..Word
  <2> DEFINE B == Blocks(g)
             U == GEMM_UNROLL
  <2>1. U \in Nat \ {0} /\ Word \in Nat
    BY MachineAssumption, WordAssumption
  <2>2. g.O = U * B + (g.O % U) /\ g.O % U \in 0..(U - 1) /\ B \in Nat
    BY <1>8, <2>1, Division DEF Blocks
  <2>3. U <= g.O /\ g.O < Word
    BY <1>2, <1>5, <2>1
  <2> HIDE DEF B, U
  <2>4. B # 0
    <3>1. U * 0 = 0
      BY <2>1
    <3>2. QED BY <2>1, <2>2, <2>3, <3>1
  <2>5. B <= U * B /\ U * B \in Nat
    BY <2>1, <2>2, SMT
  <2>6. QED BY <1>8, <2>1, <2>2, <2>3, <2>4, <2>5 DEF B
<1>11. QED BY <1>5, <1>8, <1>9, <1>10 DEF Streamable, g

\* The streams of a core in a call are in the loops of its kernel.
CallWalks(k, ms) ==
  /\ k.fn = "gemm" => GemmWalks(k, ms)
  /\ k.fn = "conv" => ConvWalks(k, ms)

\* A convolution that has just been called has programmed the loops of its window
\* and of its filters.
LEMMA ConvolutionBegins ==
  ASSUME NEW ms, MoversOK(ms), Spent(ms), NEW k, Convolvable(k), AtPixel(k)
  PROVE  ConvWalks(k, ConvLoops(ms, k))
<1> DEFINE U == F_UNROLL
           X1 == LoopsX(k)
           X2 == StridesX(k)
           F1 == LoopsF(k)
           F2 == StridesF(k)
           a == Loop(ms[1], X1, X2)
           b == Loop(ms[2], F1, F2)
           e == <<Repeat(a, U), b>>
<1>1. ConvLoops(ms, k) = e
  BY DEF ConvLoops, LoopsX, LoopsF, StridesX, StridesF
<1>2. e[1] = Repeat(a, U) /\ e[2] = b
  OBVIOUS
<1>3. Nest(3, X1, X2) /\ Nest(2, F1, F2)
  BY NestsOfConvolution
<1>4. U \in 1..Word
  BY MachineAssumption
<1>5. Counts(ms[1]) /\ ~ms[1].live /\ Mover(ms[1]) /\ Mover(ms[2])
  BY DEF MoversOK, Spent, Counts, Mover
<1> HIDE DEF U, X1, X2, F1, F2, e
<1>6. Mover(a) /\ Mover(b)
  BY <1>3, <1>5, LoopTypes
<1>7. /\ Mover(Repeat(a, U))
      /\ Repeat(a, U).bounds = a.bounds /\ Repeat(a, U).strides = a.strides
  <2> DEFINE r == Minus(U, 1)
  <2>1. r \in Nat
    BY <1>4, CountLessOne DEF r
  <2>2. Repeat(a, U) = [a EXCEPT !.repeat = r]
    BY DEF Repeat
  <2> HIDE DEF a, r
  <2>3. Repeat(a, U) = [bounds |-> a.bounds, strides |-> a.strides, repeat |-> r, dims |-> a.dims,
                        ptr |-> a.ptr, idx |-> a.idx, rep |-> a.rep, live |-> a.live,
                        starved |-> a.starved]
    BY <1>6, <2>2 DEF Mover
  <2>4. QED BY <1>6, <2>1, <2>3 DEF Mover
<1>8. Programmed(Repeat(a, U), X1, X2) /\ Programmed(b, F1, F2)
  BY <1>3, <1>5, <1>6, <1>7, ProgrammedStays
<1>9. ConvWalks(k, e)
  BY <1>2, <1>8 DEF ConvWalks, X1, X2, F1, F2
<1>10. QED BY <1>1, <1>9

\* What a core is called with, when its convolution is streamed.
LEMMA ShareConvolves ==
  ASSUME ArgsInv, phase = "run", error = "none", NEW c \in Cores, job.kernel = "conv",
         ConvShare(c).fn = "conv"
  PROVE  Convolvable(ConvShare(c)) /\ AtPixel(ConvShare(c))
<1> DEFINE k == ConvShare(c)
           first == slice_first(job.F, c, NbCompute)
<1>1. job \in Jobs
  BY DEF ArgsInv
<1>2. /\ job.H \in Nat /\ job.W \in Nat /\ job.SP \in Nat \ {0} /\ job.SQ \in Nat \ {0}
      /\ job.P \in Nat /\ job.Q \in Nat /\ job.F \in Nat /\ job.C \in Nat
      /\ job.P <= job.H /\ job.Q <= job.W
  BY <1>1, JobsAssumption, FiltersFit, WordAssumption DEF Extents
<1>3. /\ k.C \in 1..Word /\ k.P \in 1..Word /\ k.Q \in 1..Word /\ Taps(k) \in 1..Word
      /\ k.C = job.C /\ k.P = job.P /\ k.Q = job.Q
  BY <1>1, ConvShareIs
<1>4. /\ k.A = args.A /\ k.B = At(args.B, first * Taps(job))
      /\ k.Y = At(args.Y, first * OutH(job) * OutW(job))
      /\ k.H = job.H /\ k.W = job.W /\ k.SP = job.SP /\ k.SQ = job.SQ
      /\ k.f = 0 /\ k.h = 0 /\ k.w = 0
  BY DEF ConvShare
<1>5. args.A \in Nat /\ args.B \in Nat /\ args.Y \in Nat
  BY KernelPointers
<1>6. first \in Nat
  BY <1>2, ShareWithin
<1> HIDE DEF k, first
<1>7. OutH(k) = OutH(job) /\ OutW(k) = OutW(job)
  BY <1>3, <1>4 DEF OutH, OutW
<1>8. OutH(job) \in Nat \ {0} /\ OutW(job) \in Nat \ {0}
  <2>1. ASSUME NEW x \in Nat, NEW y \in Nat, y <= x, NEW s \in Nat \ {0}
        PROVE  (x - y) \div s + 1 \in Nat \ {0}
    <3>1. x - y \in Nat
      BY <2>1
    <3>2. (x - y) \div s \in Nat
      BY <3>1, Division
    <3>3. QED BY <3>2
  <2>2. QED BY <1>2, <2>1 DEF OutH, OutW
<1>9. ASSUME NEW p \in Nat, NEW n \in Nat PROVE At(p, n) \in Nat
  <2>1. n * FloatBytes \in Nat
    BY MachineAssumption, Scaling
  <2>2. QED BY <2>1 DEF At
<1>10. k.B \in Nat /\ k.Y \in Nat
  <2>1. Taps(job) \in Nat
    BY <1>2, ThreeFactors DEF Taps
  <2>2. first * Taps(job) \in Nat /\ first * OutH(job) * OutW(job) \in Nat
    <3> DEFINE x == OutH(job)
               y == OutW(job)
               t == Taps(job)
    <3>1. x \in Nat /\ y \in Nat /\ t \in Nat
      BY <1>8, <2>1
    <3> HIDE DEF x, y, t
    <3>2. first * t \in Nat /\ first * x * y \in Nat
      BY <1>6, <3>1, ThreeFactors, Scaling
    <3>3. QED BY <3>2 DEF x, y, t
  <2>3. QED BY <1>4, <1>5, <1>9, <2>2
<1>11. Convolvable(k) /\ AtPixel(k)
  BY <1>2, <1>3, <1>4, <1>5, <1>7, <1>8, <1>10 DEF Convolvable, AtPixel
<1>12. QED BY <1>11 DEF k

\* A convolution's call moved to another pixel keeps what its streams are told by.
LEMMA SamePixels ==
  ASSUME NEW k, ConvFields(k), k.fn = "conv", NEW ms, ConvWalks(k, ms), NEW n \in Nat, NEW filters
  PROVE  CallWalks(AfterPixel(k, n, filters), ms)
<1> DEFINE R(f, h, w) ==
             [fn |-> k.fn, A |-> k.A, B |-> k.B, bias |-> k.bias, Y |-> k.Y, C |-> k.C,
              H |-> k.H, W |-> k.W, P |-> k.P, Q |-> k.Q, SP |-> k.SP, SQ |-> k.SQ,
              has_bias |-> k.has_bias, F |-> k.F, f |-> f, h |-> h, w |-> w]
<1>1. k = R(k.f, k.h, k.w)
  BY DEF ConvFields
<1>2. ASSUME NEW f, NEW h, NEW w, NEW v
      PROVE  /\ WithW(R(f, h, w), v) = R(f, h, v) /\ WithH(R(f, h, w), v) = R(f, v, w)
             /\ WithF(R(f, h, w), v) = R(v, h, w)
  BY DEF WithW, WithH, WithF
<1>3. ASSUME NEW f \in Nat, NEW h \in Nat, NEW w \in Nat PROVE CallWalks(R(f, h, w), ms)
  <2> DEFINE x == R(f, h, w)
  <2>1. /\ x.fn = "conv" /\ x.A = k.A /\ x.B = k.B /\ x.Y = k.Y /\ x.C = k.C /\ x.H = k.H
        /\ x.W = k.W /\ x.P = k.P /\ x.Q = k.Q /\ x.SP = k.SP /\ x.SQ = k.SQ
        /\ x.f = f /\ x.h = h /\ x.w = w
    OBVIOUS
  <2> HIDE DEF x
  <2>2. Taps(x) = Taps(k) /\ OutH(x) = OutH(k) /\ OutW(x) = OutW(k)
    BY <2>1 DEF Taps, OutH, OutW
  <2>3. /\ LoopsX(x) = LoopsX(k) /\ StridesX(x) = StridesX(k)
        /\ LoopsF(x) = LoopsF(k) /\ StridesF(x) = StridesF(k)
    BY <2>1, <2>2 DEF LoopsX, StridesX, LoopsF, StridesF
  <2>4. Convolvable(x) /\ AtPixel(x)
    BY <2>1, <2>2 DEF Convolvable, AtPixel, ConvWalks
  <2>5. CallWalks(x, ms)
    BY <2>1, <2>3, <2>4 DEF CallWalks, ConvWalks
  <2>6. QED BY <2>5 DEF x
<1>4. k.f \in Nat /\ k.h \in Nat /\ k.w \in Nat
  BY DEF ConvWalks, AtPixel
<1>5. k.f + n \in Nat /\ k.h + 1 \in Nat /\ k.w + 1 \in Nat /\ 0 \in Nat
  BY <1>4
<1>6. \/ AfterPixel(k, n, filters) = WithW(k, k.w + 1)
      \/ AfterPixel(k, n, filters) = WithW(WithH(k, k.h + 1), 0)
      \/ AfterPixel(k, n, filters) = WithW(WithH(WithF(k, k.f + n), 0), 0)
      \/ AfterPixel(k, n, filters) = NoCall
  BY Zenon DEF AfterPixel, WithW, WithH, WithF
<1> HIDE DEF R
<1>7. /\ WithW(k, k.w + 1) = R(k.f, k.h, k.w + 1)
      /\ WithW(WithH(k, k.h + 1), 0) = R(k.f, k.h + 1, 0)
      /\ WithW(WithH(WithF(k, k.f + n), 0), 0) = R(k.f + n, 0, 0)
  <2> DEFINE f0 == k.f
             h0 == k.h
             w0 == k.w
  <2>1. k = R(f0, h0, w0)
    BY <1>1
  <2> HIDE DEF f0, h0, w0
  <2>2. /\ WithW(k, w0 + 1) = R(f0, h0, w0 + 1)
        /\ WithW(WithH(k, h0 + 1), 0) = R(f0, h0 + 1, 0)
        /\ WithW(WithH(WithF(k, f0 + n), 0), 0) = R(f0 + n, 0, 0)
    BY <1>2, <2>1
  <2>3. QED BY <2>2 DEF f0, h0, w0
<1>8. CallWalks(NoCall, ms)
  BY DEF CallWalks, NoCall
<1>9. QED BY <1>3, <1>4, <1>5, <1>6, <1>7, <1>8

\* A product's call moved to another element keeps what its streams are told by.
LEMMA SameWalk ==
  ASSUME NEW g, GemmFields(g), g.fn = "gemm", NEW ms, GemmWalks(g, ms), NEW n
  PROVE  CallWalks(AfterColumns(g, n), ms)
<1> DEFINE Same(h) == /\ h.A = g.A /\ h.B = g.B /\ h.Y = g.Y /\ h.M = g.M /\ h.N = g.N
                      /\ h.O = g.O /\ h.tA = g.tA /\ h.tB = g.tB /\ h.fn = "gemm"
<1>1. ASSUME NEW h, Same(h) PROVE CallWalks(h, ms)
  <2>1. Blocks(h) = Blocks(g)
    BY <1>1 DEF Blocks
  <2>2. LoopsA(h) = LoopsA(g) /\ LoopsB(h) = LoopsB(g)
    BY <1>1, <2>1 DEF LoopsA, LoopsB
  <2>3. StridesA(h) = StridesA(g) /\ StridesB(h) = StridesB(g)
    BY <1>1 DEF StridesA, StridesB
  <2>4. Streamable(h)
    BY <1>1, <2>1 DEF Streamable, GemmWalks
  <2>5. QED BY <1>1, <2>2, <2>3, <2>4 DEF GemmWalks, CallWalks
<1>2. \/ AfterColumns(g, n) = [g EXCEPT !.j = g.j + n]
      \/ AfterColumns(g, n) = MovedTo(g, g.i + 1, 0)
      \/ AfterColumns(g, n) = NoCall
  BY Zenon DEF AfterColumns, MovedTo
<1>3. ASSUME NEW i, NEW j PROVE Same([g EXCEPT !.j = j]) /\ Same(MovedTo(g, i, j))
  <2>1. ASSUME NEW k, NEW l
        PROVE  Same([fn |-> g.fn, A |-> g.A, B |-> g.B, C |-> g.C, Y |-> g.Y, M |-> g.M,
                     N |-> g.N, O |-> g.O, tA |-> g.tA, tB |-> g.tB, i |-> k, j |-> l])
    OBVIOUS
  <2>2. [g EXCEPT !.j = j]
          = [fn |-> g.fn, A |-> g.A, B |-> g.B, C |-> g.C, Y |-> g.Y, M |-> g.M, N |-> g.N,
             O |-> g.O, tA |-> g.tA, tB |-> g.tB, i |-> g.i, j |-> j]
    BY DEF GemmFields
  <2> DEFINE h == [g EXCEPT !.i = i]
  <2>3. h = [fn |-> g.fn, A |-> g.A, B |-> g.B, C |-> g.C, Y |-> g.Y, M |-> g.M, N |-> g.N,
             O |-> g.O, tA |-> g.tA, tB |-> g.tB, i |-> i, j |-> g.j]
    BY DEF GemmFields
  <2>4. MovedTo(g, i, j) = [h EXCEPT !.j = j]
    BY DEF MovedTo
  <2> HIDE DEF h
  <2>5. MovedTo(g, i, j)
          = [fn |-> g.fn, A |-> g.A, B |-> g.B, C |-> g.C, Y |-> g.Y, M |-> g.M, N |-> g.N,
             O |-> g.O, tA |-> g.tA, tB |-> g.tB, i |-> i, j |-> j]
    BY <2>3, <2>4
  <2> HIDE DEF Same
  <2>6. QED BY <2>1, <2>2, <2>5
<1>4. CallWalks(NoCall, ms)
  BY DEF CallWalks, NoCall
<1> HIDE DEF Same
<1>5. QED BY <1>1, <1>2, <1>3, <1>4

\* The streams of every core in a streamed kernel are in its loops.
WalkInv == \A c \in Cores : CallWalks(call[c], movers[c])

\* It is about the calls and the streams of the cores alone.
LEMMA OfCallsAndStreams ==
  ASSUME \A c \in Cores : CallWalks(call'[c], movers'[c])
  PROVE  WalkInv'
BY Zenon DEF WalkInv, CallWalks, GemmWalks, Streamable, Blocks, LoopsA, LoopsB, StridesA, StridesB,
             ConvWalks, Convolvable, AtPixel, Programmed, LoopsX, LoopsF, StridesX, StridesF

LEMMA Unmoved ==
  ASSUME WalkInv, movers' = movers, call' = call
  PROVE  WalkInv'
<1>1. \A c \in Cores : CallWalks(call'[c], movers'[c])
  BY DEF WalkInv
<1>2. QED BY <1>1, OfCallsAndStreams

\* A step of one core.
LEMMA WalkStep ==
  ASSUME StreamInv, WalkInv, NEW c \in Cores, NEW k, NEW ms, Enter(c, k),
         movers' = [movers EXCEPT ![c] = ms], CallWalks(k, ms)
  PROVE  WalkInv'
<1>1. \A x \in Cores : /\ call'[x] = IF x = c THEN k ELSE call[x]
                       /\ movers'[x] = IF x = c THEN ms ELSE movers[x]
  <2>1. movers = [x \in Cores |-> movers[x]] /\ call = [x \in Cores |-> call[x]]
    BY DEF StreamInv
  <2>2. call' = [call EXCEPT ![c] = k]
    BY DEF Enter
  <2>3. QED BY <2>1, <2>2
<1>2. \A x \in Cores : CallWalks(call'[x], movers'[x])
  BY <1>1 DEF WalkInv
<1>3. QED BY <1>2, OfCallsAndStreams

\* A step of a core after which it is in no streamed kernel.
LEMMA OtherStep ==
  ASSUME StreamInv, WalkInv, NEW c \in Cores, NEW k, Enter(c, k), k.fn \notin {"gemm", "conv"},
         movers' = movers \/ \E ms : movers' = [movers EXCEPT ![c] = ms]
  PROVE  WalkInv'
<1>1. movers = [x \in Cores |-> movers[x]]
  BY DEF StreamInv
<1>2. movers = [movers EXCEPT ![c] = movers[c]]
  BY <1>1
<1>3. PICK ms : movers' = [movers EXCEPT ![c] = ms]
  BY <1>2
<1>4. CallWalks(k, ms)
  BY DEF CallWalks
<1>5. QED BY <1>3, <1>4, WalkStep

LEMMA GemmBlockWalks ==
  ASSUME StreamInv, WalkInv, NEW c \in Cores, GemmBlock(c)
  PROVE  WalkInv'
<1> DEFINE g == call[c]
           ms == movers[c]
           U == GEMM_UNROLL
<1>1. g.fn = "gemm"
  BY DEF GemmBlock, In
<1>2. MoversOK(ms) /\ GemmLeft(g, ms) /\ GemmWalks(g, ms)
  <2>1. MoversOK(ms) /\ CallOK(g, ms)
    BY <1>1, InCall
  <2>2. QED BY <1>1, <2>1 DEF CallOK, WalkInv, CallWalks
<1>3. PICK start :
        /\ start = [u \in 0..(U - 1) |-> start[u]]
        /\ MoreBlocks(g)
        /\ movers' = [movers EXCEPT ![c] = Frep(mem, ms, g.N, U, start).d]
        /\ Enter(c, AfterColumns(g, U))
  BY DEF GemmBlock, MoreBlocks, Blocks
<1> DEFINE e == Frep(mem, ms, g.N, U, start).d
<1>4. GemmWalks(g, e)
  <2> HIDE DEF g, ms
  <2>1. QED BY <1>2, <1>3, BlockSums
<1> HIDE DEF e
<1>5. GemmFields(g)
  BY <1>2 DEF GemmLeft
<1>6. CallWalks(AfterColumns(g, U), e)
  BY <1>1, <1>4, <1>5, SameWalk
<1>7. movers' = [movers EXCEPT ![c] = e]
  BY <1>3 DEF e
<1>8. QED BY <1>3, <1>6, <1>7, WalkStep

LEMMA GemmTailWalks ==
  ASSUME StreamInv, WalkInv, NEW c \in Cores, GemmTail(c)
  PROVE  WalkInv'
<1> DEFINE g == call[c]
           ms == movers[c]
<1>1. g.fn = "gemm" /\ movers' = movers /\ Enter(c, AfterColumns(g, 1))
  BY DEF GemmTail, In
<1>2. GemmLeft(g, ms) /\ GemmWalks(g, ms) /\ movers = [movers EXCEPT ![c] = ms]
  <2>1. CallOK(g, ms) /\ movers = [movers EXCEPT ![c] = ms]
    BY <1>1, InCall
  <2>2. QED BY <1>1, <2>1 DEF CallOK, WalkInv, CallWalks
<1>3. GemmFields(g)
  BY <1>2 DEF GemmLeft
<1>4. CallWalks(AfterColumns(g, 1), ms)
  BY <1>1, <1>2, <1>3, SameWalk
<1>5. movers' = [movers EXCEPT ![c] = ms]
  BY <1>1, <1>2
<1>6. QED BY <1>1, <1>4, <1>5, WalkStep

LEMMA RunGemmWalks ==
  ASSUME StreamInv, ArgsInv, WalkInv, NEW c \in todo, phase = "run", error = "none", RunGemm(c)
  PROVE  WalkInv'
<1>1. c \in Cores /\ MoversOK(movers[c]) /\ Spent(movers[c])
  BY BeforeTheCall
<1> DEFINE empty == GemmRows(c).last <= GemmRows(c).first
           g == GemmShare(c, "gemm")
           streams == engine = "snitch" /\ g.N # 0 /\ g.O >= GEMM_UNROLL
<1>2. CASE empty
  <2>1. Enter(c, NoCall) /\ movers' = movers /\ NoCall.fn \notin {"gemm", "conv"}
    BY <1>2 DEF RunGemm, NoCall
  <2>2. QED BY <1>1, <2>1, OtherStep
<1>3. CASE ~empty /\ streams
  <2>1. Enter(c, g) /\ movers' = [movers EXCEPT ![c] = GemmStreams(movers[c], g)]
    BY <1>3 DEF RunGemm
  <2>2. job.kernel \in {"matmul", "gemm"} /\ g.N = job.N /\ g.O = job.O /\ g.fn = "gemm"
    BY DEF RunGemm, GemmShare
  <2>3. Streamable(g) /\ g.Y \in Nat
    <3>1. job.N # 0 /\ job.O >= GEMM_UNROLL
      BY <1>3, <2>2
    <3>2. QED BY <1>1, <1>3, <2>2, <3>1, ShareStreams
  <2> HIDE DEF g
  <2>4. CallWalks(g, GemmStreams(movers[c], g))
    BY <1>1, <2>2, <2>3, WalksBegin DEF CallWalks
  <2>5. QED BY <1>1, <2>1, <2>4, WalkStep
<1>4. CASE ~empty /\ ~streams
  <2>1. PICK fn \in {"rvv", "gemm_generic"} : Enter(c, GemmShare(c, fn)) /\ movers' = movers
    BY <1>4 DEF RunGemm
  <2>2. GemmShare(c, fn).fn \notin {"gemm", "conv"}
    BY <2>1 DEF GemmShare
  <2>3. QED BY <1>1, <2>1, <2>2, OtherStep
<1>5. QED BY <1>2, <1>3, <1>4

LEMMA RunConvWalks ==
  ASSUME StreamInv, ArgsInv, WalkInv, NEW c \in todo, phase = "run", error = "none", RunConv(c)
  PROVE  WalkInv'
<1> DEFINE k == ConvShare(c)
           ms == movers[c]
<1>1. c \in Cores /\ job \in Jobs /\ MoversOK(ms) /\ Spent(ms)
  BY BeforeTheCall
<1>2. /\ job.kernel = "conv" /\ Enter(c, IF k.F = 0 THEN NoCall ELSE k)
      /\ movers' = IF k.fn = "conv" THEN [movers EXCEPT ![c] = ConvLoops(ms, k)] ELSE movers
  BY DEF RunConv
<1>3. k.fn \in {"conv", "conv_generic"} /\ (k.fn = "conv" => k.F # 0)
  BY <1>1, <1>2, ConvShareIs
<1>4. CASE k.fn = "conv"
  <2>1. Convolvable(k) /\ AtPixel(k)
    BY <1>1, <1>2, <1>4, ShareConvolves
  <2> HIDE DEF k, ms
  <2>2. Enter(c, k) /\ movers' = [movers EXCEPT ![c] = ConvLoops(ms, k)]
    BY <1>2, <1>3, <1>4
  <2>3. CallWalks(k, ConvLoops(ms, k))
    BY <1>1, <1>4, <2>1, ConvolutionBegins DEF CallWalks
  <2>4. QED BY <1>1, <2>2, <2>3, WalkStep
<1>5. CASE k.fn = "conv_generic"
  <2> HIDE DEF k
  <2> DEFINE h == IF k.F = 0 THEN NoCall ELSE k
  <2>1. h.fn \notin {"gemm", "conv"}
    BY <1>5 DEF NoCall
  <2>2. Enter(c, h) /\ movers' = movers
    BY <1>2, <1>5
  <2> HIDE DEF h
  <2>3. QED BY <1>1, <2>1, <2>2, OtherStep
<1>6. QED BY <1>3, <1>4, <1>5

LEMMA RunSliceWalks ==
  ASSUME StreamInv, ArgsInv, WalkInv, NEW c \in Cores, RunSlice(c)
  PROVE  WalkInv'
<1>1. phase = "run" /\ c \in todo
  BY DEF RunSlice
<1>2. CASE error # "none"
  <2>1. movers' = movers /\ call' = call
    BY <1>2 DEF RunSlice
  <2>2. QED BY <2>1, Unmoved
<1>3. CASE error = "none" /\ RunGemm(c)
  BY <1>1, <1>3, RunGemmWalks
<1>4. CASE error = "none" /\ RunConv(c)
  BY <1>1, <1>4, RunConvWalks
<1>5. CASE error = "none" /\ RunMfcc(c)
  <2>1. /\ movers' = movers
        /\ \/ Enter(c, NoCall)
           \/ \E audio, y, frames, re, im, mel :
                Enter(c, [fn |-> "mfcc", audio |-> audio, Y |-> y, frames |-> frames, re |-> re,
                          im |-> im, mel |-> mel, at |-> "window", t |-> 0, m |-> 0, off |-> 0,
                          c |-> 0])
    BY <1>5 DEF RunMfcc
  <2>2. ASSUME NEW audio, NEW y, NEW frames, NEW re, NEW im, NEW mel,
               Enter(c, [fn |-> "mfcc", audio |-> audio, Y |-> y, frames |-> frames, re |-> re,
                         im |-> im, mel |-> mel, at |-> "window", t |-> 0, m |-> 0, off |-> 0,
                         c |-> 0])
        PROVE  \E k : Enter(c, k) /\ k.fn \notin {"gemm", "conv"}
    <3> DEFINE k == [fn |-> "mfcc", audio |-> audio, Y |-> y, frames |-> frames, re |-> re,
                     im |-> im, mel |-> mel, at |-> "window", t |-> 0, m |-> 0, off |-> 0, c |-> 0]
    <3>1. Enter(c, k) /\ k.fn = "mfcc"
      BY <2>2
    <3> HIDE DEF k
    <3>2. k.fn \notin {"gemm", "conv"}
      BY <3>1
    <3>3. QED BY <3>1, <3>2
  <2>3. NoCall.fn \notin {"gemm", "conv"}
    BY DEF NoCall
  <2>4. \E k : Enter(c, k) /\ k.fn \notin {"gemm", "conv"}
    BY <2>1, <2>2, <2>3
  <2>5. QED BY <2>1, <2>4, OtherStep
<1>6. QED BY <1>2, <1>3, <1>4, <1>5 DEF RunSlice

LEMMA RvvWalks ==
  ASSUME StreamInv, WalkInv, NEW c \in Cores, RvvBlock(c)
  PROVE  WalkInv'
<1> DEFINE g == call[c]
<1>1. g.fn = "rvv" /\ movers' = movers
  BY DEF RvvBlock, In
<1>2. PICK vl : Enter(c, IF g.j + vl < g.O THEN [g EXCEPT !.j = g.j + vl]
                         ELSE IF g.i + ROWS < g.M THEN MovedTo(g, g.i + ROWS, 0) ELSE NoCall)
  BY Zenon DEF RvvBlock, MovedTo
<1>3. GemmFields(g)
  <2>1. CallOK(g, movers[c])
    BY <1>1, InCall
  <2>2. QED BY <1>1, <2>1 DEF CallOK
<1> DEFINE k == IF g.j + vl < g.O THEN [g EXCEPT !.j = g.j + vl]
                ELSE IF g.i + ROWS < g.M THEN MovedTo(g, g.i + ROWS, 0) ELSE NoCall
<1>4. k.fn \notin {"gemm", "conv"}
  <2> HIDE DEF g
  <2>1. ASSUME NEW i, NEW j PROVE MovedTo(g, i, j).fn = "rvv"
    BY <1>1, <1>3, GemmMoved
  <2>2. ASSUME NEW j PROVE [g EXCEPT !.j = j].fn = "rvv"
    BY <1>1, <1>3 DEF GemmFields
  <2>3. QED BY <2>1, <2>2 DEF NoCall
<1>5. Enter(c, k)
  BY <1>2
<1> HIDE DEF k
<1>6. QED BY <1>1, <1>4, <1>5, OtherStep

\* The steps of a convolution.
LEMMA ConvPixelWalks ==
  ASSUME StreamInv, WalkInv, NEW c \in Cores, ConvPixel(c)
  PROVE  WalkInv'
<1> DEFINE k == call[c]
           ms == movers[c]
           U == F_UNROLL
           acc == [v \in 0..(U - 1) |-> Zero]
           e == Frep(mem, PixelStreams(k, ms), Taps(k), U, acc).d
<1>1. k.fn = "conv"
  BY DEF ConvPixel, In
<1>2. MoversOK(ms) /\ ConvReady(k, ms) /\ ConvWalks(k, ms)
  <2>1. MoversOK(ms) /\ CallOK(k, ms)
    BY <1>1, InCall
  <2>2. QED BY <1>1, <2>1 DEF CallOK, WalkInv, CallWalks
<1>3. movers' = [movers EXCEPT ![c] = e] /\ Enter(c, AfterPixel(k, U, k.F))
  BY DEF ConvPixel, PixelStreams, WindowAt, FiltersAt
<1>4. ConvWalks(k, e)
  <2>1. acc = [v \in 0..(F_UNROLL - 1) |-> acc[v]]
    OBVIOUS
  <2> HIDE DEF k, ms, acc
  <2>2. QED BY <1>2, <2>1, PixelSums
<1>5. ConvFields(k) /\ U \in Nat
  BY <1>2, MachineAssumption DEF ConvReady
<1> HIDE DEF k, U, e
<1>6. CallWalks(AfterPixel(k, U, k.F), e)
  BY <1>1, <1>4, <1>5, SamePixels
<1>7. QED BY <1>3, <1>6, WalkStep

LEMMA ConvTailWalks ==
  ASSUME StreamInv, WalkInv, NEW c \in Cores, ConvTail(c)
  PROVE  WalkInv'
<1> DEFINE k == call[c]
           ms == movers[c]
<1>1. k.fn = "conv" /\ movers' = movers /\ Enter(c, AfterPixel(k, 1, k.F))
  BY DEF ConvTail, In
<1>2. ConvReady(k, ms) /\ ConvWalks(k, ms) /\ movers = [movers EXCEPT ![c] = ms]
  <2>1. CallOK(k, ms) /\ movers = [movers EXCEPT ![c] = ms]
    BY <1>1, InCall
  <2>2. QED BY <1>1, <2>1 DEF CallOK, WalkInv, CallWalks
<1>3. ConvFields(k) /\ 1 \in Nat
  BY <1>2 DEF ConvReady
<1> HIDE DEF k, ms
<1>4. CallWalks(AfterPixel(k, 1, k.F), ms)
  BY <1>1, <1>2, <1>3, SamePixels
<1>5. movers' = [movers EXCEPT ![c] = ms]
  BY <1>1, <1>2
<1>6. QED BY <1>1, <1>4, <1>5, WalkStep

\* The steps of the front-end.
LEMMA MfccWalks ==
  ASSUME StreamInv, WalkInv, NEW c \in Cores,
         MfccWindow(c) \/ MfccSpectrum(c) \/ MelFilter(c) \/ DctBlock(c) \/ DctTail(c)
  PROVE  WalkInv'
<1> DEFINE k == call[c]
           Mfcc(h) == MfccFields(h) /\ h.fn = "mfcc"
<1>1. k.fn = "mfcc" /\ (movers' = movers \/ \E ms : movers' = [movers EXCEPT ![c] = ms])
  BY Zenon DEF MfccWindow, MfccSpectrum, MelFilter, DctBlock, DctTail, In
<1>2. Mfcc(k)
  BY <1>1, MfccInCall
<1>3. ASSUME NEW h, Mfcc(h), NEW v
      PROVE  /\ Mfcc(WithAt(h, v)) /\ Mfcc(WithM(h, v)) /\ Mfcc(WithOff(h, v))
             /\ Mfcc(WithC(h, v))
  BY <1>3, MfccMoved
<1>4. ASSUME NEW h, Enter(c, h), Mfcc(h) \/ h = NoCall PROVE WalkInv'
  <2>1. h.fn \notin {"gemm", "conv"}
    BY <1>4 DEF NoCall
  <2>2. QED BY <1>1, <1>4, <2>1, OtherStep
<1>5. CASE MfccWindow(c)
  <2>1. Enter(c, WithAt(k, "spectrum"))
    BY <1>5 DEF MfccWindow, WithAt
  <2> HIDE DEF k, Mfcc
  <2>2. QED BY <1>2, <1>3, <1>4, <2>1
<1>6. CASE MfccSpectrum(c)
  <2>1. Enter(c, WithOff(WithM(WithAt(k, "mel"), 0), 0))
    BY <1>6, Zenon DEF MfccSpectrum, WithAt, WithM, WithOff
  <2> HIDE DEF k, Mfcc
  <2>2. QED BY <1>2, <1>3, <1>4, <2>1
<1>7. CASE MelFilter(c)
  <2> DEFINE n == Entry("mel_len", k.m)
             k1 == WithOff(WithM(k, k.m + 1), k.off + n)
             k2 == WithC(WithAt(k1, "dct"), 0)
             e == IF k.m + 1 < NbMel(job) THEN k1 ELSE k2
  <2>1. Enter(c, e)
    BY <1>7, Zenon DEF MelFilter, WithAt, WithM, WithOff, WithC
  <2> HIDE DEF k, n, Mfcc
  <2>2. Mfcc(k1) /\ Mfcc(k2)
    BY <1>2, <1>3
  <2>3. Mfcc(e)
    <3> HIDE DEF k1, k2
    <3>1. QED BY <2>2
  <2> HIDE DEF e
  <2>4. QED BY <1>4, <2>1, <2>3
<1>8. CASE DctBlock(c) \/ DctTail(c)
  <2>1. k.at = "dct" /\ \E n : Enter(c, AfterCepstra(k, n))
    BY <1>8, Zenon DEF DctBlock, DctTail
  <2>2. PICK n : Enter(c, AfterCepstra(k, n))
    BY <2>1
  <2>3. Mfcc(AfterCepstra(k, n)) \/ AfterCepstra(k, n) = NoCall
    <3> HIDE DEF k
    <3>1. QED BY <1>2, <2>1, CepstraGoOn
  <2>4. QED BY <1>4, <2>2, <2>3
<1>9. QED BY <1>5, <1>6, <1>7, <1>8

LEMMA WalksKept ==
  /\ Init => WalkInv
  /\ StreamInv /\ ArgsInv /\ WalkInv /\ [Next]_vars => WalkInv'
<1>1. ASSUME Init PROVE WalkInv
  <2>1. \A c \in Cores : call[c].fn = "none"
    BY <1>1 DEF Init, NoCall
  <2>2. QED BY <2>1 DEF WalkInv, CallWalks
<1>2. ASSUME StreamInv, ArgsInv, WalkInv, [Next]_vars PROVE WalkInv'
  <2>1. CASE (\E a \in Jobs : Serve(a)) \/ Transfer \/ Release \/ StageOut \/ Publish
             \/ UNCHANGED vars
    <3>1. movers' = movers /\ call' = call
      BY <2>1 DEF Serve, Transfer, Release, StageOut, Publish, vars
    <3>2. QED BY <1>2, <3>1, Unmoved
  <2>2. ASSUME NEW c \in Cores, Step(c) PROVE WalkInv'
    <3>1. CASE GemmGeneric(c) \/ ConvGeneric(c)
      <4>1. Enter(c, NoCall) /\ movers' = movers /\ NoCall.fn \notin {"gemm", "conv"}
        BY <3>1 DEF GemmGeneric, ConvGeneric, NoCall
      <4>2. QED BY <1>2, <4>1, OtherStep
    <3>2. CASE ~GemmGeneric(c) /\ ~ConvGeneric(c)
      BY <1>2, <2>2, <3>2, RunSliceWalks, GemmBlockWalks, GemmTailWalks, RvvWalks, ConvPixelWalks,
         ConvTailWalks, MfccWalks DEF Step
    <3>3. QED BY <3>1, <3>2
  <2>3. QED BY <1>2, <2>1, <2>2 DEF Next
<1>3. QED BY <1>1, <1>2

\* A block's floats go to different addresses.
LEMMA ElementsApart ==
  ASSUME NEW p \in Nat, NEW n \in Nat, NEW v \in Nat, NEW w \in Nat, At(p, n + v) = At(p, n + w)
  PROVE  v = w
<1> DEFINE x == n + v
           y == n + w
           f == FloatBytes
<1>1. x \in Nat /\ y \in Nat /\ f \in Nat \ {0} /\ p + x * f = p + y * f
  BY MachineAssumption DEF At
<1> HIDE DEF x, y, f
<1>2. x * f \in Nat /\ y * f \in Nat /\ x * f = f * x /\ y * f = f * y
  BY <1>1, SMT
<1>3. 0 + f * x = 0 + f * y /\ 0 \in 0..(f - 1)
  BY <1>1, <1>2
<1>4. x = y
  BY <1>1, <1>3, OneDigit
<1>5. QED BY <1>4 DEF x, y

\* A block of gemm_ssr stores at each of its columns what the scalar loop over the
\* row of A and that column of B adds to C, or to zero.
BlockIsProduct ==
  \A c \in Cores : GemmBlock(c) =>
    LET g == call[c]
        n == g.i * g.O + g.j
        start(v) == IF g.C # 0 THEN Read(mem, At(g.C, n + v)) ELSE Zero
    IN \A v \in 0..(GEMM_UNROLL - 1) :
         mem'[At(g.Y, n + v)]
           = ScalarSum(mem, g.N, RowOfA(g, g.i), ColumnOfB(g, g.j + v), start(v))

\* For every shape, transposition, share and layout of a product, and whatever the
\* streams were used for before, each FREP of gemm_ssr reads the elements of A and B
\* that the loops of the portable kernel read, in their order, and stores what they
\* add up to: the strides, bounds, repeats and counts of the prologue are right.
THEOREM BlockTheorem == Spec => [][BlockIsProduct]_vars
<1>1. ASSUME StreamInv, WalkInv PROVE BlockIsProduct
  <2> SUFFICES ASSUME NEW c \in Cores, GemmBlock(c)
               PROVE  LET g == call[c]
                          n == g.i * g.O + g.j
                          start(v) == IF g.C # 0 THEN Read(mem, At(g.C, n + v)) ELSE Zero
                      IN \A v \in 0..(GEMM_UNROLL - 1) :
                           mem'[At(g.Y, n + v)]
                             = ScalarSum(mem, g.N, RowOfA(g, g.i), ColumnOfB(g, g.j + v), start(v))
    BY DEF BlockIsProduct
  <2> DEFINE g == call[c]
             ms == movers[c]
             n == g.i * g.O + g.j
             U == GEMM_UNROLL
             y(v) == At(g.Y, n + v)
             start(v) == IF g.C # 0 THEN Read(mem, At(g.C, n + v)) ELSE Zero
             acc == [v \in 0..(U - 1) |-> start(v)]
             r == Frep(mem, ms, g.N, U, acc)
  <2>1. MoversOK(ms) /\ GemmLeft(g, ms) /\ GemmWalks(g, ms)
    <3>1. g.fn = "gemm"
      BY DEF GemmBlock, In
    <3>2. MoversOK(ms) /\ CallOK(g, ms)
      BY <1>1, <3>1, InCall
    <3>3. QED BY <1>1, <3>1, <3>2 DEF CallOK, WalkInv, CallWalks
  <2>2. MoreBlocks(g) /\ mem' = StoreAll(mem, y, U, r.acc)
    BY DEF GemmBlock, MoreBlocks, Blocks
  <2>3. acc = [v \in 0..(U - 1) |-> acc[v]] /\ \A v \in 0..(U - 1) : acc[v] = start(v)
    OBVIOUS
  <2> HIDE DEF acc
  <2>4. \A v \in 0..(U - 1) :
          r.acc[v] = ScalarSum(mem, g.N, RowOfA(g, g.i), ColumnOfB(g, g.j + v), acc[v])
    <3> HIDE DEF g, ms, start
    <3>1. acc = [v \in 0..(GEMM_UNROLL - 1) |-> acc[v]]
      BY <2>3
    <3>2. BlockAdds(g, mem, acc, r.acc)
      BY <2>1, <2>2, <3>1, BlockSums
    <3>3. QED BY <3>2 DEF BlockAdds
  <2>5. U \in Nat /\ g.Y \in Nat /\ n \in Nat
    <3>1. g.i \in Nat /\ g.j \in Nat /\ g.O \in Nat
      BY <2>1 DEF GemmLeft
    <3> HIDE DEF g
    <3>2. g.i * g.O \in Nat
      BY <3>1, Scaling
    <3>3. U \in Nat /\ g.Y \in Nat
      BY <2>1, MachineAssumption DEF GemmWalks
    <3>4. QED BY <3>1, <3>2, <3>3
  <2> HIDE DEF g, ms, n, start, r, U
  <2>6. \A v, w \in 0..(U - 1) : y(v) = y(w) => v = w
    BY <2>5, ElementsApart
  <2> HIDE DEF y
  <2>7. ASSUME NEW v \in 0..(U - 1) PROVE mem'[y(v)] = r.acc[v]
    <3> DEFINE to == {y(w) : w \in 0..(U - 1)}
               at(x) == CHOOSE w \in 0..(U - 1) : y(w) = x
    <3>1. mem' = [x \in to \cup DOMAIN mem |-> IF x \in to THEN r.acc[at(x)] ELSE mem[x]]
      BY <2>2 DEF StoreAll
    <3>2. y(v) \in to
      OBVIOUS
    <3>3. at(y(v)) = v
      BY <2>6
    <3> HIDE DEF to, at
    <3>4. QED BY <3>1, <3>2, <3>3
  <2>8. \A v \in 0..(U - 1) :
          mem'[y(v)] = ScalarSum(mem, g.N, RowOfA(g, g.i), ColumnOfB(g, g.j + v), start(v))
    BY <2>3, <2>4, <2>7
  <2>9. QED BY <2>8 DEF y, g, n, start, U
<1>2. QED BY <1>1, StreamInitially, StreamsKept, ArgsKept, WalksKept, PTL DEF Spec

\* And so do a pixel's, the planes of its filters having an element at least.
LEMMA PlanesApart ==
  ASSUME NEW k, Convolvable(k), AtPixel(k), NEW v \in Nat, NEW w \in Nat,
         At(k.Y, (k.f + v) * Plane(k) + k.h * OutW(k) + k.w)
           = At(k.Y, (k.f + w) * Plane(k) + k.h * OutW(k) + k.w)
  PROVE  v = w
<1> DEFINE x == (k.f + v) * Plane(k)
           y == (k.f + w) * Plane(k)
           z == k.h * OutW(k) + k.w
<1>1. /\ k.Y \in Nat /\ k.f \in Nat /\ k.h \in Nat /\ k.w \in Nat
      /\ OutH(k) \in Nat \ {0} /\ OutW(k) \in Nat \ {0}
  BY DEF Convolvable, AtPixel
<1>2. Plane(k) \in Nat \ {0}
  <2>1. ASSUME NEW a \in Nat \ {0}, NEW b \in Nat \ {0} PROVE a * b \in Nat \ {0}
    BY SMT
  <2>2. QED BY <1>1, <2>1 DEF Plane
<1>3. x \in Nat /\ y \in Nat /\ z \in Nat
  <2>1. k.h * OutW(k) \in Nat
    BY <1>1, Scaling
  <2>2. k.f + v \in Nat /\ k.f + w \in Nat
    BY <1>1
  <2>3. x \in Nat /\ y \in Nat
    BY <1>2, <2>2, Scaling
  <2>4. QED BY <1>1, <2>1, <2>3
<1>4. At(k.Y, z + x) = At(k.Y, z + y)
  <2>1. (k.f + v) * Plane(k) + k.h * OutW(k) + k.w = z + x
    BY <1>1, <1>3
  <2>2. (k.f + w) * Plane(k) + k.h * OutW(k) + k.w = z + y
    BY <1>1, <1>3
  <2>3. QED BY <2>1, <2>2
<1>5. x = y
  <2> HIDE DEF x, y, z
  <2>1. QED BY <1>1, <1>3, <1>4, ElementsApart
<1>6. 0 + Plane(k) * (k.f + v) = 0 + Plane(k) * (k.f + w)
  <2> DEFINE p == Plane(k)
             a == k.f + v
             b == k.f + w
  <2>1. p \in Nat /\ a \in Nat /\ b \in Nat /\ a * p = b * p
    BY <1>1, <1>2, <1>5
  <2> HIDE DEF p, a, b
  <2>2. 0 + p * a = 0 + p * b
    BY <2>1, SMT
  <2>3. QED BY <2>2 DEF p, a, b
<1>7. k.f + v = k.f + w
  <2> DEFINE p == Plane(k)
             a == k.f + v
             b == k.f + w
  <2>1. p \in Nat \ {0} /\ 0 \in 0..(p - 1) /\ a \in Nat /\ b \in Nat /\ 0 + p * a = 0 + p * b
    BY <1>1, <1>2, <1>6
  <2> HIDE DEF p, a, b
  <2>2. a = b
    BY <2>1, OneDigit
  <2>3. QED BY <2>2 DEF a, b
<1>8. QED BY <1>1, <1>7

\* A pixel of conv2d_ssr stores in the plane of each of its filters what the scalar
\* loops over its window and that filter add up to, with the bias of the filter.
PixelIsConvolution ==
  \A c \in Cores : ConvPixel(c) =>
    LET k == call[c]
    IN \A v \in 0..(F_UNROLL - 1) :
         mem'[At(k.Y, (k.f + v) * Plane(k) + k.h * OutW(k) + k.w)]
           = Biased(k, k.f + v, ScalarSum(mem, Taps(k), WindowOf(k, k.h, k.w),
                                          FilterOf(k, k.f + v), Zero))

\* For every image, filter, stride, share and layout, and wherever the streams were
\* left by the pixel before, those of conv2d_ssr deliver the window and the filters
\* tap by tap as the portable loops read them: one nest programmed before the first
\* pixel serves every one, restarted by its pointers alone.
THEOREM PixelTheorem == Spec => [][PixelIsConvolution]_vars
<1>1. ASSUME StreamInv, WalkInv PROVE PixelIsConvolution
  <2> SUFFICES ASSUME NEW c \in Cores, ConvPixel(c)
               PROVE  LET k == call[c]
                      IN \A v \in 0..(F_UNROLL - 1) :
                           mem'[At(k.Y, (k.f + v) * Plane(k) + k.h * OutW(k) + k.w)]
                             = Biased(k, k.f + v,
                                      ScalarSum(mem, Taps(k), WindowOf(k, k.h, k.w),
                                                FilterOf(k, k.f + v), Zero))
    BY DEF PixelIsConvolution
  <2> DEFINE k == call[c]
             ms == movers[c]
             U == F_UNROLL
             y(v) == At(k.Y, (k.f + v) * Plane(k) + k.h * OutW(k) + k.w)
             acc == [v \in 0..(U - 1) |-> Zero]
             r == Frep(mem, PixelStreams(k, ms), Taps(k), U, acc)
             s == [v \in 0..(U - 1) |-> Biased(k, k.f + v, r.acc[v])]
             sum(v) == ScalarSum(mem, Taps(k), WindowOf(k, k.h, k.w), FilterOf(k, k.f + v), Zero)
  <2>1. MoversOK(ms) /\ ConvReady(k, ms) /\ ConvWalks(k, ms)
    <3>1. k.fn = "conv"
      BY DEF ConvPixel, In
    <3>2. MoversOK(ms) /\ CallOK(k, ms)
      BY <1>1, <3>1, InCall
    <3>3. QED BY <1>1, <3>1, <3>2 DEF CallOK, WalkInv, CallWalks
  <2>2. mem' = StoreAll(mem, y, U, s)
    BY DEF ConvPixel, PixelStreams, WindowAt, FiltersAt
  <2>3. acc = [v \in 0..(U - 1) |-> acc[v]] /\ \A v \in 0..(U - 1) : acc[v] = Zero
    OBVIOUS
  <2> HIDE DEF acc
  <2>4. \A v \in 0..(U - 1) : r.acc[v] = sum(v)
    <3> HIDE DEF k, ms
    <3>1. acc = [v \in 0..(F_UNROLL - 1) |-> acc[v]]
      BY <2>3
    <3>2. PixelAdds(k, mem, acc, r.acc)
      BY <2>1, <3>1, PixelSums
    <3>3. QED BY <2>3, <3>2 DEF PixelAdds
  <2> HIDE DEF r, sum
  <2>5. \A v \in 0..(U - 1) : s[v] = Biased(k, k.f + v, sum(v))
    BY <2>4
  <2>6. \A v, w \in 0..(U - 1) : y(v) = y(w) => v = w
    <3>1. Convolvable(k) /\ AtPixel(k) /\ U \in Nat
      BY <2>1, MachineAssumption DEF ConvWalks
    <3> HIDE DEF k, U
    <3>2. QED BY <3>1, PlanesApart
  <2> HIDE DEF y, s
  <2>7. ASSUME NEW v \in 0..(U - 1) PROVE mem'[y(v)] = s[v]
    <3> DEFINE to == {y(w) : w \in 0..(U - 1)}
               at(x) == CHOOSE w \in 0..(U - 1) : y(w) = x
    <3>1. mem' = [x \in to \cup DOMAIN mem |-> IF x \in to THEN s[at(x)] ELSE mem[x]]
      BY <2>2 DEF StoreAll
    <3>2. y(v) \in to
      OBVIOUS
    <3>3. at(y(v)) = v
      BY <2>6
    <3> HIDE DEF to, at
    <3>4. QED BY <3>1, <3>2, <3>3
  <2>8. \A v \in 0..(U - 1) : mem'[y(v)] = Biased(k, k.f + v, sum(v))
    BY <2>5, <2>7
  <2>9. QED BY <2>8 DEF y, sum, k, U
<1>2. QED BY <1>1, StreamInitially, StreamsKept, ArgsKept, WalksKept, PTL DEF Spec

-----------------------------------------------------------------------------
(* Where the cores of a job store: each in its share of the output and in  *)
(* its own slab, which no other core touches and no input is in.           *)

\* The rows, filters or frames of job a that core c takes, and the floats of each.
Items(a, c) ==
  IF a.kernel = "gemm" /\ a.tA THEN [first |-> 0, last |-> IF c = 0 THEN a.M ELSE 0]
  ELSE LET n == IF a.kernel = "conv" THEN a.F ELSE IF a.kernel = "mfcc" THEN a.frames ELSE a.M
       IN [first |-> slice_first(n, c, NbCompute), last |-> slice_last(n, c, NbCompute)]
ItemFloats(a) ==
  IF a.kernel = "conv" THEN Plane(a) ELSE IF a.kernel = "mfcc" THEN a.nb_cep ELSE a.O

\* The addresses of its share of an output at y, and of its slab.
Share(a, y, c) ==
  {At(y, n) : n \in (Items(a, c).first * ItemFloats(a))..(Items(a, c).last * ItemFloats(a) - 1)}
Slab(a, s, c) == {s.base + c * s.stride + x : x \in 0..(plan_scratch(a) - 1)}
Own(c) == Share(job, args.Y, c) \cup Slab(job, scratch, c)

\* A convolution has an output.
LEMMA PlaneIs ==
  ASSUME NEW a \in Jobs, a.kernel = "conv"
  PROVE  OutH(a) \in Nat \ {0} /\ OutW(a) \in Nat \ {0} /\ Plane(a) \in Nat \ {0}
<1>1. /\ a.H \in Nat /\ a.W \in Nat /\ a.P \in Nat /\ a.Q \in Nat /\ a.P <= a.H /\ a.Q <= a.W
      /\ a.SP \in Nat \ {0} /\ a.SQ \in Nat \ {0}
  BY JobsAssumption, FiltersFit, WordAssumption DEF Extents
<1>2. ASSUME NEW x \in Nat, NEW y \in Nat, y <= x, NEW s \in Nat \ {0}
      PROVE  (x - y) \div s + 1 \in Nat \ {0}
  <2>1. x - y \in Nat
    BY <1>2
  <2>2. (x - y) \div s \in Nat
    BY <2>1, Division
  <2>3. QED BY <2>2
<1>3. OutH(a) \in Nat \ {0} /\ OutW(a) \in Nat \ {0}
  BY <1>1, <1>2 DEF OutH, OutW
<1>4. ASSUME NEW x \in Nat \ {0}, NEW y \in Nat \ {0} PROVE x * y \in Nat \ {0}
  BY SMT
<1>5. QED BY <1>3, <1>4 DEF Plane

\* The shares of a job are in order and within its output.
LEMMA ItemsAre ==
  ASSUME NEW a \in Jobs
  PROVE  /\ \A c \in Cores : /\ Items(a, c).first \in Nat /\ Items(a, c).last \in Nat
                             /\ Items(a, c).first <= Items(a, c).last
         /\ \A c, d \in Cores : c < d => Items(a, c).last <= Items(a, d).first
                                         \/ Items(a, d).last = Items(a, d).first
         /\ ItemFloats(a) \in Nat
         /\ \A c \in Cores : Items(a, c).last * ItemFloats(a) <= OutputSize(a)
         /\ OutputSize(a) \in Nat /\ OutputSize(a) * FloatBytes < Word
<1> DEFINE n == IF a.kernel = "conv" THEN a.F ELSE IF a.kernel = "mfcc" THEN a.frames ELSE a.M
           L == ItemFloats(a)
           sliced == ~(a.kernel = "gemm" /\ a.tA)
<1>0. /\ a.kernel \in {"matmul", "gemm", "conv", "mfcc"}
      /\ Word \in Nat \ {0} /\ NbCompute \in Nat \ {0} /\ FloatBytes \in Nat \ {0}
  BY JobsAssumption, WordAssumption, MachineAssumption
<1>1. n \in Nat
  BY <1>0, JobsAssumption, BuffersFit DEF Extents
<1>2. L \in Nat
  <2>1. CASE a.kernel = "conv"
    BY <2>1, PlaneIs DEF ItemFloats
  <2>2. CASE a.kernel # "conv"
    BY <1>0, <2>2, JobsAssumption, BuffersFit DEF Extents, ItemFloats
  <2>3. QED BY <2>1, <2>2
<1>3. OutputSize(a) = n * L /\ OutputSize(a) * FloatBytes < Word
  <2>1. CASE a.kernel \in {"matmul", "gemm"}
    BY <2>1, BuffersFit DEF OutputSize, ItemFloats
  <2>2. CASE a.kernel = "conv"
    <3>1. a.F * OutH(a) * OutW(a) = a.F * Plane(a)
      <4>1. a.F \in Nat /\ OutH(a) \in Nat /\ OutW(a) \in Nat
        BY <1>1, <2>2, PlaneIs
      <4>2. QED BY <4>1, SMT DEF Plane
    <3>2. QED BY <2>2, <3>1, BuffersFit DEF OutputSize, ItemFloats
  <2>3. CASE a.kernel = "mfcc"
    BY <2>3, BuffersFit DEF OutputSize, ItemFloats
  <2>4. QED BY <1>0, <2>1, <2>2, <2>3
<1>4. CASE sliced
  <2>1. \A c \in Cores : Items(a, c) = [first |-> slice_first(n, c, NbCompute),
                                        last |-> slice_last(n, c, NbCompute)]
    BY <1>4 DEF Items
  <2> HIDE DEF n
  <2>2. \A c \in Cores : /\ Items(a, c).first = slice_first(n, c, NbCompute)
                         /\ Items(a, c).last = slice_last(n, c, NbCompute)
    BY <2>1
  <2>3. \A c \in Cores : /\ Items(a, c).first \in Nat /\ Items(a, c).last \in Nat
                         /\ Items(a, c).first <= Items(a, c).last /\ Items(a, c).last <= n
    BY <1>1, <2>2, ShareWithin
  <2>4. \A c, d \in Cores : c < d => Items(a, c).last <= Items(a, d).first
    <3>1. \A c \in Cores : c \in Nat
      BY DEF Cores
    <3>2. QED BY <1>0, <1>1, <2>2, <3>1, SlicesDoNotMeet
  <2>5. QED BY <1>0, <1>1, <1>2, <1>3, <2>3, <2>4, Scaling
<1>5. CASE ~sliced
  <2>1. \A c \in Cores : Items(a, c).first = 0 /\ Items(a, c).last = IF c = 0 THEN a.M ELSE 0
    BY <1>5 DEF Items
  <2>2. a.M \in Nat /\ n = a.M
    BY <1>1, <1>5
  <2>3. \A c, d \in Cores : c < d => d # 0
    BY DEF Cores
  <2> HIDE DEF n
  <2>4. \A c \in Cores : Items(a, c).last \in Nat /\ Items(a, c).last <= n
    BY <2>1, <2>2
  <2>5. QED BY <1>0, <1>1, <1>2, <1>3, <2>1, <2>3, <2>4, Scaling
<1>6. QED BY <1>4, <1>5

\* A job writes one operand, its output, which holds what OutputSize says.
LEMMA OutputIs ==
  ASSUME NEW a \in Jobs
  PROVE  \E i \in DOMAIN plan_operands(a) :
           /\ plan_operands(a)[i].arg = "Y" /\ plan_operands(a)[i].is_output
           /\ plan_operands(a)[i].bytes = OutputSize(a) * FloatBytes
<1> DEFINE ops == plan_operands(a)
           size == OutputSize(a) * FloatBytes
<1>1. /\ a.kernel \in {"matmul", "gemm", "conv", "mfcc"} /\ Word \in Nat \ {0} /\ FloatBytes \in Nat
  BY JobsAssumption, WordAssumption, MachineAssumption
<1>2. size % Word = size
  <2>1. OutputSize(a) * FloatBytes \in Nat /\ OutputSize(a) * FloatBytes < Word
    <3>1. OutputSize(a) \in Nat /\ OutputSize(a) * FloatBytes < Word
      BY ItemsAre
    <3> DEFINE x == OutputSize(a)
    <3> HIDE DEF x
    <3>2. x * FloatBytes \in Nat
      BY <1>1, <3>1, Scaling DEF x
    <3>3. QED BY <3>1, <3>2 DEF x
  <2> HIDE DEF size
  <2>2. size \in Nat /\ size < Word
    BY <2>1 DEF size
  <2>3. QED BY <1>1, <2>2
<1>3. Output("Y", size).arg = "Y" /\ Output("Y", size).is_output /\ Output("Y", size).bytes = size
  BY <1>2 DEF Output
<1>4. \E i \in DOMAIN ops : ops[i] = Output("Y", size)
  <2>1. CASE a.kernel = "matmul"
    <3>1. PICK x, y : ops = <<Input("A", x), Input("B", y), Output("Y", size)>>
      BY <2>1 DEF plan_operands, OutputSize
    <3> HIDE DEF ops, size
    <3>2. DOMAIN ops = 1..3 /\ ops[3] = Output("Y", size) /\ 3 \in 1..3
      BY <3>1
    <3>3. QED BY <3>2
  <2>2. CASE a.kernel = "gemm"
    <3>1. PICK x, y, z : ops = <<Input("A", x), Input("B", y), Input("C", z), Output("Y", size)>>
      BY <2>2 DEF plan_operands, OutputSize
    <3> HIDE DEF ops, size
    <3>2. DOMAIN ops = 1..4 /\ ops[4] = Output("Y", size) /\ 4 \in 1..4
      BY <3>1
    <3>3. QED BY <3>2
  <2>3. CASE a.kernel = "conv"
    <3>1. a.F * OutH(a) * OutW(a) * FloatBytes = size
      <4>1. a.F \in Nat /\ OutH(a) \in Nat /\ OutW(a) \in Nat
        BY <2>3, PlaneIs, JobsAssumption, WordAssumption DEF Extents
      <4>2. a.F * OutH(a) * OutW(a) = a.F * (OutH(a) * OutW(a))
        BY <4>1, SMT
      <4>3. QED BY <2>3, <4>2 DEF OutputSize, Plane
    <3>2. PICK x, y, z : ops = <<Input("A", x), Input("B", y), Output("Y", size)>>
                                 \o (IF a.has_bias THEN <<Input("bias", z)>> ELSE << >>)
      BY <2>3, <3>1 DEF plan_operands
    <3> HIDE DEF ops, size
    <3>3. DOMAIN ops = 1..(IF a.has_bias THEN 4 ELSE 3) /\ ops[3] = Output("Y", size)
      <4> DEFINE r == Input("A", x)
                 t == Input("B", y)
                 u == Output("Y", size)
                 b == IF a.has_bias THEN <<Input("bias", z)>> ELSE << >>
                 S == {r, t, u, Input("bias", z)}
      <4>1. ops = <<r, t, u>> \o b
        BY <3>2
      <4>2. b \in Seq(S) /\ Len(b) = IF a.has_bias THEN 1 ELSE 0
        <5>1. << >> \in Seq(S) /\ <<Input("bias", z)>> \in Seq(S)
          OBVIOUS
        <5>2. Len(<< >>) = 0 /\ Len(<<Input("bias", z)>>) = 1
          OBVIOUS
        <5> HIDE DEF S
        <5>3. QED BY <5>1, <5>2
      <4> DEFINE h == <<r, t, u>>
      <4>3. h \in Seq(S) /\ Len(h) = 3 /\ h[3] = u
        OBVIOUS
      <4> HIDE DEF r, t, u, b, S, h
      <4>4. ops = h \o b
        BY <4>1 DEF h
      <4>5. Len(ops) = 3 + Len(b) /\ ops[3] = u /\ DOMAIN ops = 1..Len(ops)
        <5>1. h \in Seq(S) /\ b \in Seq(S) /\ Len(b) \in Nat
          BY <4>2, <4>3
        <5>2. /\ h \o b \in Seq(S) /\ Len(h \o b) = Len(h) + Len(b)
              /\ \A i \in 1..(Len(h) + Len(b)) : (h \o b)[i] = IF i <= Len(h) THEN h[i] ELSE b[i - Len(h)]
          BY <5>1, ConcatProperties
        <5>3. 3 \in 1..(Len(h) + Len(b)) /\ (h \o b)[3] = u
          BY <4>3, <5>1, <5>2
        <5>4. QED BY <4>3, <4>4, <5>2, <5>3
      <4>6. QED BY <4>2, <4>5 DEF u
    <3>4. 3 \in DOMAIN ops
      BY <3>3
    <3>5. QED BY <3>3, <3>4
  <2>4. CASE a.kernel = "mfcc"
    <3>1. PICK x, p, q, r, s, t, u :
            ops = <<Input("audio", x), Output("Y", size), Input("window", p), Input("twiddles", q),
                    Input("mel_coeff", r), Input("mel_start", s), Input("mel_len", t),
                    Input("dct", u)>>
      BY <2>4 DEF plan_operands, OutputSize
    <3> HIDE DEF ops, size
    <3>2. DOMAIN ops = 1..8 /\ ops[2] = Output("Y", size) /\ 2 \in 1..8
      BY <3>1
    <3>3. QED BY <3>2
  <2>5. QED BY <1>1, <2>1, <2>2, <2>3, <2>4
<1>5. QED BY <1>3, <1>4

\* The output has an address.
LEMMA OutputPointer ==
  ASSUME ArgsInv, phase = "run", error = "none"
  PROVE  args.Y \in Nat
<1>1. job \in Jobs
  BY DEF ArgsInv
<1>2. \E i \in DOMAIN plan_operands(job) : plan_operands(job)[i].arg = "Y"
  BY <1>1, OutputIs
<1>3. QED BY <1>2, OperandPointers

\* What is in a share is in the output.
LEMMA ShareInOutput ==
  ASSUME NEW a \in Jobs, NEW y \in Nat, NEW c \in Cores, NEW x \in Share(a, y, c)
  PROVE  x \in Nat /\ y <= x /\ x < y + OutputSize(a) * FloatBytes
<1> DEFINE L == ItemFloats(a)
           first == Items(a, c).first
           last == Items(a, c).last
           size == OutputSize(a)
<1>1. PICK n \in (first * L)..(last * L - 1) : x = y + n * FloatBytes
  BY DEF Share, At
<1>2. L \in Nat /\ first \in Nat /\ last \in Nat /\ size \in Nat /\ last * L <= size
  BY ItemsAre
<1> HIDE DEF L, first, last, size
<1>3. first * L \in Nat /\ last * L \in Nat
  BY <1>2, Scaling
<1>4. n \in Nat /\ n < size
  BY <1>1, <1>2, <1>3
<1>5. FloatBytes \in Nat \ {0}
  BY MachineAssumption
<1>6. n * FloatBytes \in Nat /\ n * FloatBytes < size * FloatBytes /\ size * FloatBytes \in Nat
  <2>1. (n + 1) * FloatBytes <= size * FloatBytes /\ (n + 1) * FloatBytes = n * FloatBytes + FloatBytes
    BY <1>2, <1>4, <1>5, Scaling, NextMultiple
  <2>2. n * FloatBytes \in Nat /\ size * FloatBytes \in Nat
    BY <1>2, <1>4, <1>5, Scaling
  <2>3. QED BY <1>5, <2>1, <2>2
<1>7. QED BY <1>1, <1>6 DEF size

\* Two cores have nothing in common, and neither has anything of an input.
CoresApart ==
  phase = "run" /\ error = "none" =>
    LET ops == plan_operands(job)
        share(c) == Share(job, args.Y, c)
        slab(c) == Slab(job, scratch, c)
        bytes(i) == args[ops[i].arg]..(args[ops[i].arg] + ops[i].bytes - 1)
    IN /\ \A c, d \in Cores : c # d => share(c) \cap share(d) = {} /\ slab(c) \cap slab(d) = {}
       /\ staged => /\ \A c, d \in Cores : share(c) \cap slab(d) = {}
                    /\ \A c \in Cores : \A i \in DOMAIN ops :
                         ~ops[i].is_output => Own(c) \cap bytes(i) = {}

LEMMA SharesApart ==
  ASSUME NEW a \in Jobs, NEW y \in Nat, NEW c \in Cores, NEW d \in Cores, c < d
  PROVE  Share(a, y, c) \cap Share(a, y, d) = {}
<1> SUFFICES ASSUME NEW x \in Share(a, y, c), x \in Share(a, y, d) PROVE FALSE
  OBVIOUS
<1> DEFINE L == ItemFloats(a)
           f1 == Items(a, c).first
           l1 == Items(a, c).last
           f2 == Items(a, d).first
           l2 == Items(a, d).last
<1>1. PICK n \in (f1 * L)..(l1 * L - 1) : x = y + n * FloatBytes
  BY DEF Share, At
<1>2. PICK m \in (f2 * L)..(l2 * L - 1) : x = y + m * FloatBytes
  BY DEF Share, At
<1>3. /\ L \in Nat /\ f1 \in Nat /\ l1 \in Nat /\ f2 \in Nat /\ l2 \in Nat
      /\ l1 <= f2 \/ l2 = f2
  BY ItemsAre
<1> HIDE DEF L, f1, l1, f2, l2
<1>4. /\ f1 * L \in Nat /\ l1 * L \in Nat /\ f2 * L \in Nat /\ l2 * L \in Nat
      /\ l1 <= f2 => l1 * L <= f2 * L
  BY <1>3, Scaling
<1>5. n \in Nat /\ m \in Nat /\ n < m
  BY <1>1, <1>2, <1>3, <1>4
<1>6. FloatBytes \in Nat \ {0}
  BY MachineAssumption
<1>7. n * FloatBytes \in Nat /\ m * FloatBytes \in Nat /\ n * FloatBytes < m * FloatBytes
  <2>1. (n + 1) * FloatBytes <= m * FloatBytes /\ (n + 1) * FloatBytes = n * FloatBytes + FloatBytes
    BY <1>5, <1>6, Scaling, NextMultiple
  <2>2. n * FloatBytes \in Nat /\ m * FloatBytes \in Nat
    BY <1>5, <1>6, Scaling
  <2>3. QED BY <1>6, <2>1, <2>2
<1>8. QED BY <1>1, <1>2, <1>7

LEMMA CoresLaidApart ==
  ASSUME PlanInv, ArgsInv
  PROVE  CoresApart
<1> SUFFICES ASSUME phase = "run", error = "none" PROVE CoresApart
  BY DEF CoresApart
<1> DEFINE ops == plan_operands(job)
           at == Places(ops, scratch.cursor)
           N == Len(ops)
           size == plan_scratch(job)
           base(c) == scratch.base + c * scratch.stride
           share(c) == Share(job, args.Y, c)
           slab(c) == Slab(job, scratch, c)
           bytes(i) == args[ops[i].arg]..(args[ops[i].arg] + ops[i].bytes - 1)
<1>1. /\ job \in Jobs /\ size \in Nat /\ scratch.cursor \in Nat
      /\ size # 0 => /\ \A c \in Cores : base(c) \in Nat /\ base(c) + size <= scratch.cursor
                     /\ \A c, d \in Cores : c < d => base(c) + size <= base(d)
      /\ N \in Nat /\ DOMAIN ops = 1..N
      /\ \A i \in 1..N : ops[i].bytes \in Nat
      /\ staged => /\ \A i \in 1..N : /\ args[ops[i].arg] = at[i]
                                      /\ at[i] \in Nat /\ scratch.cursor <= at[i]
                   /\ \A i, j \in 1..N : i < j => at[i] + ops[i].bytes <= at[j]
  BY LaidOut
<1>2. args.Y \in Nat
  BY OutputPointer
<1>3. \A c, d \in Cores : c # d => c < d \/ d < c
  BY DEF Cores
<1>4. PICK o \in 1..N : ops[o].arg = "Y" /\ ops[o].is_output /\ ops[o].bytes = OutputSize(job) * FloatBytes
  BY <1>1, OutputIs
<1>5. \A c \in Cores : \A x \in slab(c) : x \in Nat /\ base(c) <= x /\ x < base(c) + size /\ size # 0
  <2> SUFFICES ASSUME NEW c \in Cores, NEW x \in slab(c)
               PROVE  x \in Nat /\ base(c) <= x /\ x < base(c) + size /\ size # 0
    OBVIOUS
  <2>1. PICK z \in 0..(size - 1) : x = base(c) + z
    BY DEF Slab
  <2> HIDE DEF size, base
  <2>2. size # 0 /\ base(c) \in Nat
    BY <1>1, <2>1
  <2>3. QED BY <1>1, <2>1, <2>2
<1>6. \A c \in Cores : \A x \in share(c) : x \in Nat /\ args.Y <= x /\ x < args.Y + ops[o].bytes
  BY <1>1, <1>2, <1>4, ShareInOutput
<1>7. \A c, d \in Cores : c < d => share(c) \cap share(d) = {}
  BY <1>1, <1>2, SharesApart
<1> HIDE DEF ops, at, N, size, base, share, slab
<1>8. \A c, d \in Cores : c < d => slab(c) \cap slab(d) = {}
  <2> SUFFICES ASSUME NEW c \in Cores, NEW d \in Cores, c < d, NEW x \in slab(c), x \in slab(d)
               PROVE  FALSE
    OBVIOUS
  <2>1. /\ x \in Nat /\ x < base(c) + size /\ base(d) <= x /\ size # 0
    BY <1>5
  <2>2. base(c) \in Nat /\ base(d) \in Nat /\ base(c) + size <= base(d)
    BY <1>1, <2>1
  <2>3. QED BY <1>1, <2>1, <2>2
<1>9. ASSUME staged, NEW i \in 1..N, NEW c \in Cores
      PROVE  slab(c) \cap bytes(i) = {}
  <2> SUFFICES ASSUME NEW x \in slab(c), x \in bytes(i) PROVE FALSE
    OBVIOUS
  <2>1. x \in Nat /\ x < base(c) + size /\ size # 0
    BY <1>5
  <2>2. base(c) \in Nat /\ base(c) + size <= scratch.cursor
    BY <1>1, <2>1
  <2>3. args[ops[i].arg] \in Nat /\ scratch.cursor <= args[ops[i].arg]
    BY <1>1, <1>9
  <2>4. args[ops[i].arg] <= x
    OBVIOUS
  <2>5. QED BY <1>1, <2>1, <2>2, <2>3, <2>4
<1>10. ASSUME staged, NEW c \in Cores PROVE share(c) \subseteq bytes(o)
  <2>1. ops[o].bytes \in Nat /\ args[ops[o].arg] = args.Y
    BY <1>1, <1>4
  <2>2. QED BY <1>2, <1>6, <2>1
<1>11. ASSUME staged, NEW i \in 1..N, ~ops[i].is_output PROVE bytes(o) \cap bytes(i) = {}
  <2>1. i < o \/ o < i
    <3>1. i # o
      BY <1>4, <1>11
    <3>2. i \in Int /\ o \in Int
      BY <1>1
    <3>3. QED BY <3>1, <3>2
  <2>2. /\ args[ops[i].arg] = at[i] /\ args[ops[o].arg] = at[o] /\ at[i] \in Nat /\ at[o] \in Nat
        /\ ops[i].bytes \in Nat /\ ops[o].bytes \in Nat
        /\ at[i] + ops[i].bytes <= at[o] \/ at[o] + ops[o].bytes <= at[i]
    BY <1>1, <1>11, <2>1
  <2>3. QED BY <2>2
<1> HIDE DEF bytes
<1>12. \A c, d \in Cores : c # d => share(c) \cap share(d) = {} /\ slab(c) \cap slab(d) = {}
  BY <1>3, <1>7, <1>8
<1>13. staged => \A c, d \in Cores : share(c) \cap slab(d) = {}
  BY <1>9, <1>10
<1>14. staged => \A c \in Cores : \A i \in DOMAIN ops : ~ops[i].is_output => Own(c) \cap bytes(i) = {}
  <2> SUFFICES ASSUME staged, NEW c \in Cores, NEW i \in 1..N, ~ops[i].is_output
               PROVE  Own(c) \cap bytes(i) = {}
    BY <1>1
  <2>1. Own(c) = share(c) \cup slab(c)
    BY DEF Own, share, slab
  <2>2. share(c) \subseteq bytes(o) /\ bytes(o) \cap bytes(i) = {} /\ slab(c) \cap bytes(i) = {}
    BY <1>9, <1>10, <1>11
  <2>3. QED BY <2>1, <2>2
<1>15. QED BY <1>12, <1>13, <1>14 DEF CoresApart, ops, share, slab, bytes

\* The shares and slabs the cores store in are apart, and an operand they read and
\* do not compute is in none: for every job and number of cores, wherever a staged
\* job's operands were laid out.
THEOREM CoresTheorem == Spec => []CoresApart
<1>1. PlanInv /\ ArgsInv => CoresApart
  BY CoresLaidApart
<1>2. QED BY <1>1, PlanKept, ArgsKept, PTL DEF Spec

-----------------------------------------------------------------------------
(* Every call stays in its core's items and slab.                          *)

\* Where the counters of a call point: in the share of job a that core c was given of
\* the output at y and in its slab of s, b blocks of cepstra being streamed in a frame.
GemmHome(k, a, y, c) ==
  /\ GemmFields(k) /\ k.fn \in {"gemm", "rvv", "gemm_generic"} /\ a.kernel \in {"matmul", "gemm"}
  /\ k.Y = At(y, Items(a, c).first * a.O) /\ k.O = a.O
  /\ k.M = Items(a, c).last - Items(a, c).first
  /\ k.fn # "gemm_generic" => k.i \in 0..(k.M - 1) /\ k.j \in 0..(k.O - 1)
ConvHome(k, a, y, c) ==
  /\ ConvFields(k) /\ k.fn \in {"conv", "conv_generic"} /\ a.kernel = "conv"
  /\ k.Y = At(y, Items(a, c).first * Plane(a)) /\ OutH(k) = OutH(a) /\ OutW(k) = OutW(a)
  /\ k.F = Items(a, c).last - Items(a, c).first
  /\ k.f \in 0..(k.F - 1) /\ k.h \in 0..(OutH(a) - 1) /\ k.w \in 0..(OutW(a) - 1)
  /\ k.f < (k.F \div F_UNROLL) * F_UNROLL => \E q \in Nat : k.f = q * F_UNROLL
MfccHome(k, a, y, s, c, b) ==
  /\ MfccFields(k) /\ k.fn = "mfcc" /\ a.kernel = "mfcc"
  /\ k.Y = At(y, Items(a, c).first * a.nb_cep)
  /\ k.frames = Items(a, c).last - Items(a, c).first /\ k.t \in 0..(k.frames - 1)
  /\ k.re = s.base + c * s.stride
  /\ k.im = At(k.re, a.fft_len) /\ k.mel = At(k.re, 2 * a.fft_len)
  /\ k.at = "dct" => /\ k.c \in 0..(a.nb_cep - 1)
                     /\ k.c < b * MFCC_UNROLL => \E q \in Nat : k.c = q * MFCC_UNROLL
Home(k, a, y, s, c, b) ==
  k = NoCall \/ GemmHome(k, a, y, c) \/ ConvHome(k, a, y, c) \/ MfccHome(k, a, y, s, c, b)

\* No core is in a call of a job that was refused, and every call is at home.
HomeInv ==
  \A c \in Cores :
    /\ call[c] # NoCall => error = "none"
    /\ Home(call[c], job, args.Y, scratch, c, MfccBlocks(job.nb_cep))

LEMMA HomeOfCalls ==
  ASSUME \A c \in Cores : /\ call'[c] # NoCall => error' = "none"
                          /\ Home(call'[c], job', args'.Y, scratch', c, MfccBlocks(job.nb_cep)')
  PROVE  HomeInv'
BY Zenon DEF HomeInv, Home, GemmHome, ConvHome, MfccHome

\* What a core's step leaves alone.
LEMMA HeldIs ==
  ASSUME NEW c \in Cores, Step(c)
  PROVE  /\ engine' = engine /\ phase' = phase /\ job' = job /\ error' = error /\ args' = args
         /\ scratch' = scratch /\ staged' = staged /\ transfers' = transfers
BY Zenon DEF Step, Held, RunSlice, GemmBlock, GemmTail, GemmGeneric, RvvBlock, ConvPixel,
   ConvTail, ConvGeneric, MfccWindow, MfccSpectrum, MelFilter, DctBlock, DctTail

\* A step of one core.
LEMMA HomeStep ==
  ASSUME StreamInv, HomeInv, NEW c \in Cores, Step(c), NEW k, Enter(c, k), error = "none",
         Home(k, job, args.Y, scratch, c, MfccBlocks(job.nb_cep))
  PROVE  HomeInv'
<1>1. \A x \in Cores : call'[x] = IF x = c THEN k ELSE call[x]
  <2>1. call = [x \in Cores |-> call[x]]
    BY DEF StreamInv
  <2>2. call' = [call EXCEPT ![c] = k]
    BY DEF Enter
  <2>3. QED BY <2>1, <2>2
<1>2. engine' = engine /\ job' = job /\ error' = error /\ args' = args /\ scratch' = scratch
  BY HeldIs
<1>3. MfccBlocks(job.nb_cep)' = MfccBlocks(job.nb_cep)
  BY <1>2 DEF MfccBlocks
<1>4. \A x \in Cores : /\ call'[x] # NoCall => error' = "none"
                       /\ Home(call'[x], job', args'.Y, scratch', x, MfccBlocks(job.nb_cep)')
  BY <1>1, <1>2, <1>3 DEF HomeInv
<1>5. QED BY <1>4, HomeOfCalls

\* A step that changes no call.
LEMMA HomeRests ==
  ASSUME HomeInv, call' = call,
         \/ engine' = engine /\ job' = job /\ error' = error /\ args' = args /\ scratch' = scratch
         \/ \A c \in Cores : call[c] = NoCall
  PROVE  HomeInv'
<1>1. CASE engine' = engine /\ job' = job /\ error' = error /\ args' = args /\ scratch' = scratch
  <2>1. MfccBlocks(job.nb_cep)' = MfccBlocks(job.nb_cep)
    BY <1>1 DEF MfccBlocks
  <2>2. \A x \in Cores : /\ call'[x] # NoCall => error' = "none"
                         /\ Home(call'[x], job', args'.Y, scratch', x, MfccBlocks(job.nb_cep)')
    BY <1>1, <2>1 DEF HomeInv
  <2>3. QED BY <2>2, HomeOfCalls
<1>2. CASE \A c \in Cores : call[c] = NoCall
  <2>1. \A x \in Cores : /\ call'[x] # NoCall => error' = "none"
                         /\ Home(call'[x], job', args'.Y, scratch', x, MfccBlocks(job.nb_cep)')
    BY <1>2 DEF Home
  <2>2. QED BY <2>1, HomeOfCalls
<1>3. QED BY <1>1, <1>2

\* A call of a core is of one kind, known by its kernel.
LEMMA HomeIs ==
  ASSUME StreamInv, HomeInv, NEW c \in Cores, call[c].fn # "none"
  PROVE  LET k == call[c] IN
         /\ job \in Jobs /\ error = "none" /\ phase = "run"
         /\ k.fn \in {"gemm", "rvv", "gemm_generic"} => GemmHome(k, job, args.Y, c)
         /\ k.fn \in {"conv", "conv_generic"} => ConvHome(k, job, args.Y, c)
         /\ k.fn = "mfcc" => MfccHome(k, job, args.Y, scratch, c, MfccBlocks(job.nb_cep))
<1>1. job \in Jobs /\ phase = "run"
  BY InCall
<1>2. call[c] # NoCall
  BY DEF NoCall
<1>3. error = "none" /\ Home(call[c], job, args.Y, scratch, c, MfccBlocks(job.nb_cep))
  BY <1>2 DEF HomeInv
<1>4. QED BY <1>1, <1>2, <1>3 DEF Home, GemmHome, ConvHome, MfccHome

\* The calls of a job begin at home.
LEMMA RunGemmHome ==
  ASSUME StreamInv, HomeInv, NEW c \in todo, phase = "run", error = "none", RunGemm(c)
  PROVE  \E k : Enter(c, k) /\ Home(k, job, args.Y, scratch, c, MfccBlocks(job.nb_cep))
<1> DEFINE g == GemmShare(c, "gemm")
           empty == GemmRows(c).last <= GemmRows(c).first
           streams == engine = "snitch" /\ g.N # 0 /\ g.O >= GEMM_UNROLL
           vectors == engine = "spatz" /\ g.N # 0 /\ g.O # 0 /\ ~g.tA /\ ~g.tB
           fn == IF streams THEN "gemm" ELSE IF vectors THEN "rvv" ELSE "gemm_generic"
<1>1. c \in Cores /\ job \in Jobs /\ job.kernel \in {"matmul", "gemm"}
  BY BeforeTheCall DEF RunGemm
<1>2. Enter(c, IF empty THEN NoCall ELSE GemmShare(c, fn))
  BY DEF RunGemm
<1>3. g.O = job.O
  BY DEF GemmShare
<1>4. fn \in {"gemm", "rvv", "gemm_generic"} /\ (fn # "gemm_generic" => g.O # 0)
  <2>1. GEMM_UNROLL \in Nat \ {0}
    BY MachineAssumption
  <2> HIDE DEF g
  <2>2. g.O >= GEMM_UNROLL => g.O # 0
    BY <2>1
  <2>3. QED BY <2>2
<1>5. CASE empty
  BY <1>2, <1>5 DEF Home
<1>6. CASE ~empty
  <2> DEFINE k == GemmShare(c, fn)
  <2>1. /\ GemmFields(k) /\ k.fn = fn /\ k.i = 0 /\ k.j = 0 /\ k.M \in 1..Word
        /\ k.O = job.O /\ k.O \in 0..(Word - 1)
    <3> HIDE DEF fn
    <3>1. QED BY <1>1, <1>6, GemmShareIs
  <2>2. k.Y = At(args.Y, GemmRows(c).first * job.O) /\ k.M = GemmRows(c).last - GemmRows(c).first
    BY DEF GemmShare
  <2>3. GemmRows(c) = Items(job, c)
    BY <1>1 DEF GemmRows, Items
  <2>4. Enter(c, k)
    BY <1>2, <1>6
  <2> HIDE DEF k, fn, empty
  <2>5. fn # "gemm_generic" => k.i \in 0..(k.M - 1) /\ k.j \in 0..(k.O - 1)
    BY <1>3, <1>4, <2>1, WordAssumption
  <2>6. GemmHome(k, job, args.Y, c)
    BY <1>1, <1>4, <2>1, <2>2, <2>3, <2>5 DEF GemmHome
  <2>7. QED BY <2>4, <2>6 DEF Home
<1>7. QED BY <1>5, <1>6

LEMMA RunConvHome ==
  ASSUME StreamInv, HomeInv, NEW c \in todo, phase = "run", error = "none", RunConv(c)
  PROVE  \E k : Enter(c, k) /\ Home(k, job, args.Y, scratch, c, MfccBlocks(job.nb_cep))
<1> DEFINE k == ConvShare(c)
           first == slice_first(job.F, c, NbCompute)
           last == slice_last(job.F, c, NbCompute)
<1>1. c \in Cores /\ job \in Jobs /\ job.kernel = "conv"
  BY BeforeTheCall DEF RunConv
<1>2. Enter(c, IF k.F = 0 THEN NoCall ELSE k)
  BY DEF RunConv
<1>3. CASE k.F = 0
  BY <1>2, <1>3 DEF Home
<1>4. CASE k.F # 0
  <2>1. /\ ConvFields(k) /\ k.fn \in {"conv", "conv_generic"}
        /\ k.Y = At(args.Y, first * OutH(job) * OutW(job)) /\ k.F = last - first
        /\ k.H = job.H /\ k.W = job.W /\ k.P = job.P /\ k.Q = job.Q
        /\ k.SP = job.SP /\ k.SQ = job.SQ /\ k.f = 0 /\ k.h = 0 /\ k.w = 0
    BY DEF ConvShare, ConvFields
  <2>2. Enter(c, k)
    BY <1>2, <1>4
  <2> HIDE DEF k
  <2>3. OutH(k) = OutH(job) /\ OutW(k) = OutW(job)
    BY <2>1 DEF OutH, OutW
  <2>4. Items(job, c) = [first |-> first, last |-> last]
    BY <1>1 DEF Items
  <2>5. OutH(job) \in Nat \ {0} /\ OutW(job) \in Nat \ {0}
    BY <1>1, PlaneIs
  <2>6. first \in Nat /\ last \in Nat /\ first <= last
    <3>1. job.F \in Nat
      BY <1>1, JobsAssumption, WordAssumption DEF Extents
    <3>2. QED BY <1>1, <3>1, ShareWithin
  <2> HIDE DEF first, last
  <2>7. first * OutH(job) * OutW(job) = first * Plane(job)
    <3> DEFINE x == OutH(job)
               z == OutW(job)
    <3>1. x \in Nat /\ z \in Nat
      BY <2>5
    <3> HIDE DEF x, z
    <3>2. first * x * z = first * (x * z)
      BY <2>6, <3>1, SMT
    <3>3. QED BY <3>2 DEF Plane, x, z
  <2>8. k.f \in 0..(k.F - 1) /\ k.h \in 0..(OutH(job) - 1) /\ k.w \in 0..(OutW(job) - 1)
    BY <1>4, <2>1, <2>5, <2>6
  <2>9. \E q \in Nat : k.f = q * F_UNROLL
    <3>1. 0 = 0 * F_UNROLL
      BY MachineAssumption
    <3>2. QED BY <2>1, <3>1
  <2>10. ConvHome(k, job, args.Y, c)
    BY <1>1, <2>1, <2>3, <2>4, <2>7, <2>8, <2>9 DEF ConvHome
  <2>11. QED BY <2>2, <2>10 DEF Home
<1>5. QED BY <1>3, <1>4

LEMMA RunMfccHome ==
  ASSUME StreamInv, HomeInv, NEW c \in todo, phase = "run", error = "none", RunMfcc(c)
  PROVE  \E k : Enter(c, k) /\ Home(k, job, args.Y, scratch, c, MfccBlocks(job.nb_cep))
<1> DEFINE first == slice_first(job.frames, c, NbCompute)
           last == slice_last(job.frames, c, NbCompute)
           re == scratch.base + c * scratch.stride
           k == [fn |-> "mfcc", audio |-> At(args.audio, first * job.hop),
                 Y |-> At(args.Y, first * job.nb_cep), frames |-> last - first,
                 re |-> re, im |-> At(re, job.fft_len), mel |-> At(re, 2 * job.fft_len),
                 at |-> "window", t |-> 0, m |-> 0, off |-> 0, c |-> 0]
<1>1. c \in Cores /\ job \in Jobs /\ job.kernel = "mfcc"
  BY BeforeTheCall DEF RunMfcc
<1>2. Enter(c, IF last <= first THEN NoCall ELSE k)
  BY DEF RunMfcc
<1>3. CASE last <= first
  BY <1>2, <1>3 DEF Home
<1>4. CASE ~(last <= first)
  <2>1. first \in Nat /\ last \in Nat
    BY <1>1, BuffersFit, WordAssumption, ShareWithin DEF Extents
  <2>2. Items(job, c) = [first |-> first, last |-> last]
    BY <1>1 DEF Items
  <2>3. Enter(c, k)
    BY <1>2, <1>4
  <2>4. /\ MfccFields(k) /\ k.fn = "mfcc" /\ k.at = "window" /\ k.t = 0
        /\ k.Y = At(args.Y, first * job.nb_cep) /\ k.frames = last - first
        /\ k.re = scratch.base + c * scratch.stride /\ k.im = At(k.re, job.fft_len)
        /\ k.mel = At(k.re, 2 * job.fft_len)
    BY DEF MfccFields
  <2> HIDE DEF k, first, last
  <2>5. k.t \in 0..(k.frames - 1)
    BY <1>4, <2>1, <2>4
  <2>6. MfccHome(k, job, args.Y, scratch, c, MfccBlocks(job.nb_cep))
    BY <1>1, <2>2, <2>4, <2>5 DEF MfccHome
  <2>7. QED BY <2>3, <2>6 DEF Home
<1>5. QED BY <1>3, <1>4

LEMMA RunSliceHome ==
  ASSUME StreamInv, HomeInv, NEW c \in Cores, RunSlice(c)
  PROVE  HomeInv'
<1>1. phase = "run" /\ c \in todo /\ Step(c)
  BY NoneStarves DEF RunSlice, Step
<1>2. CASE error # "none"
  <2>1. call' = call
    BY <1>2 DEF RunSlice
  <2>2. QED BY <1>1, <2>1, HeldIs, HomeRests
<1>3. CASE error = "none"
  <2>1. RunGemm(c) \/ RunConv(c) \/ RunMfcc(c)
    BY <1>3 DEF RunSlice
  <2>2. \E k : Enter(c, k) /\ Home(k, job, args.Y, scratch, c, MfccBlocks(job.nb_cep))
    BY <1>1, <1>3, <2>1, RunGemmHome, RunConvHome, RunMfccHome
  <2>3. QED BY <1>1, <1>3, <2>2, HomeStep
<1>4. QED BY <1>2, <1>3

\* The counters move within the call's share.
LEMMA GemmHomeMoved ==
  ASSUME NEW g, NEW a, NEW y, NEW c, GemmHome(g, a, y, c), g.fn # "gemm_generic",
         NEW i \in 0..(g.M - 1), NEW j \in 0..(g.O - 1)
  PROVE  /\ GemmHome(MovedTo(g, i, j), a, y, c)
         /\ i = g.i => GemmHome([g EXCEPT !.j = j], a, y, c)
<1> DEFINE R(n, m) ==
             [fn |-> g.fn, A |-> g.A, B |-> g.B, C |-> g.C, Y |-> g.Y, M |-> g.M, N |-> g.N,
              O |-> g.O, tA |-> g.tA, tB |-> g.tB, i |-> n, j |-> m]
<1>1. g = R(g.i, g.j)
  BY DEF GemmHome, GemmFields
<1>2. MovedTo(g, i, j) = R(i, j) /\ (i = g.i => [g EXCEPT !.j = j] = R(i, j))
  <2> DEFINE h == [g EXCEPT !.i = i]
  <2>1. h = R(i, g.j)
    BY <1>1
  <2> HIDE DEF h
  <2>2. [h EXCEPT !.j = j] = R(i, j)
    BY <2>1
  <2>3. MovedTo(g, i, j) = [h EXCEPT !.j = j]
    BY DEF MovedTo, h
  <2>4. i = g.i => [g EXCEPT !.j = j] = R(i, j)
    BY <1>1
  <2>5. QED BY <2>2, <2>3, <2>4
<1> DEFINE r == R(i, j)
<1>3. /\ GemmFields(r) /\ r.fn = g.fn /\ r.Y = g.Y /\ r.M = g.M /\ r.O = g.O /\ r.i = i /\ r.j = j
  BY DEF GemmFields
<1> HIDE DEF r
<1>4. GemmHome(r, a, y, c)
  BY <1>3 DEF GemmHome
<1>5. QED BY <1>2, <1>4 DEF r

\* A call to a product, after some columns.
LEMMA ColumnsHome ==
  ASSUME NEW g, NEW a \in Jobs, NEW y, NEW c \in Cores, GemmHome(g, a, y, c),
         g.fn # "gemm_generic", NEW n \in Nat \ {0}, NEW r \in Nat \ {0}
  PROVE  LET k == IF g.j + n < g.O THEN [g EXCEPT !.j = g.j + n]
                  ELSE IF g.i + r < g.M THEN MovedTo(g, g.i + r, 0) ELSE NoCall
         IN k = NoCall \/ GemmHome(k, a, y, c)
<1>1. g.i \in 0..(g.M - 1) /\ g.j \in 0..(g.O - 1) /\ g.O \in Nat /\ g.M \in Int
  <2>1. g.O = a.O /\ g.M = Items(a, c).last - Items(a, c).first /\ a.kernel \in {"matmul", "gemm"}
        /\ g.i \in 0..(g.M - 1) /\ g.j \in 0..(g.O - 1)
    BY DEF GemmHome
  <2>2. Items(a, c).last \in Nat /\ Items(a, c).first \in Nat
    BY ItemsAre
  <2>3. a.O \in Nat
    BY <2>1, JobsAssumption, WordAssumption DEF Extents
  <2>4. QED BY <2>1, <2>2, <2>3
<1>2. CASE g.j + n < g.O
  <2>1. g.j + n \in 0..(g.O - 1)
    BY <1>1, <1>2
  <2>2. GemmHome([g EXCEPT !.j = g.j + n], a, y, c)
    BY <1>1, <2>1, GemmHomeMoved
  <2>3. QED BY <1>2, <2>2
<1>3. CASE ~(g.j + n < g.O) /\ g.i + r < g.M
  <2>1. g.i + r \in 0..(g.M - 1) /\ 0 \in 0..(g.O - 1)
    BY <1>1, <1>3
  <2>2. GemmHome(MovedTo(g, g.i + r, 0), a, y, c)
    BY <2>1, GemmHomeMoved
  <2>3. QED BY <1>3, <2>2
<1>4. QED BY <1>2, <1>3

LEMMA GemmStepsHome ==
  ASSUME StreamInv, HomeInv, NEW c \in Cores, GemmBlock(c) \/ GemmTail(c) \/ RvvBlock(c)
  PROVE  HomeInv'
<1> DEFINE g == call[c]
           k(n, r) == IF g.j + n < g.O THEN [g EXCEPT !.j = g.j + n]
                      ELSE IF g.i + r < g.M THEN MovedTo(g, g.i + r, 0) ELSE NoCall
<1>1. g.fn \in {"gemm", "rvv"} /\ Step(c)
  BY NoneStarves DEF GemmBlock, GemmTail, RvvBlock, In, Step
<1>2. GemmHome(g, job, args.Y, c) /\ job \in Jobs /\ error = "none"
  BY <1>1, HomeIs
<1>3. /\ GEMM_UNROLL \in Nat \ {0} /\ ROWS \in Nat \ {0} /\ VLMAX \in Nat \ {0} /\ 1 \in Nat \ {0}
  BY MachineAssumption, VectorAssumption
<1>4. \E n, r \in Nat \ {0} : Enter(c, k(n, r))
  <2>1. CASE GemmBlock(c)
    <3>1. Enter(c, k(GEMM_UNROLL, 1))
      BY <2>1, Zenon DEF GemmBlock, AfterColumns, MovedTo
    <3>2. QED BY <1>3, <3>1
  <2>2. CASE GemmTail(c)
    <3>1. Enter(c, k(1, 1))
      BY <2>2, Zenon DEF GemmTail, AfterColumns, MovedTo
    <3>2. QED BY <1>3, <3>1
  <2>3. CASE RvvBlock(c)
    <3>1. PICK vl \in Granted(g.O - g.j) : Enter(c, k(vl, ROWS))
      BY <2>3, Zenon DEF RvvBlock, MovedTo
    <3>2. g.O \in Int /\ g.j \in 0..(g.O - 1)
      <4>1. g.O = job.O /\ g.j \in 0..(g.O - 1) /\ job.kernel \in {"matmul", "gemm"}
        BY <1>1, <1>2 DEF GemmHome
      <4>2. job.O \in Nat
        BY <1>2, <4>1, JobsAssumption, WordAssumption DEF Extents
      <4>3. QED BY <4>1, <4>2
    <3>3. vl \in Nat \ {0}
      <4> DEFINE left == g.O - g.j
      <4>1. left \in Nat \ {0}
        BY <3>2
      <4>2. vl \in Granted(left)
        OBVIOUS
      <4> HIDE DEF left, g
      <4>3. QED BY <1>3, <4>1, <4>2 DEF Granted
    <3>4. QED BY <1>3, <3>1, <3>3
  <2>4. QED BY <2>1, <2>2, <2>3
<1>5. PICK n \in Nat \ {0}, r \in Nat \ {0} : Enter(c, k(n, r))
  BY <1>4
<1>6. k(n, r) = NoCall \/ GemmHome(k(n, r), job, args.Y, c)
  <2> HIDE DEF g
  <2>1. QED BY <1>1, <1>2, ColumnsHome
<1>7. Home(k(n, r), job, args.Y, scratch, c, MfccBlocks(job.nb_cep))
  <2> HIDE DEF k
  <2>1. QED BY <1>6 DEF Home
<1> HIDE DEF k
<1>8. QED BY <1>1, <1>2, <1>5, <1>7, HomeStep

\* A call that ends.
LEMMA GenericsHome ==
  ASSUME StreamInv, HomeInv, NEW c \in Cores, GemmGeneric(c) \/ ConvGeneric(c)
  PROVE  HomeInv'
<1>1. Enter(c, NoCall) /\ Step(c) /\ call[c].fn # "none"
  BY NoneStarves DEF GemmGeneric, ConvGeneric, In, Step
<1>2. error = "none"
  BY <1>1, HomeIs
<1>3. QED BY <1>1, <1>2, HomeStep DEF Home

\* A call to a convolution, after a pixel.
LEMMA ConvHomeMoved ==
  ASSUME NEW k, NEW a \in Jobs, NEW y, NEW c, ConvHome(k, a, y, c),
         NEW f \in 0..(k.F - 1), NEW h \in 0..(OutH(a) - 1), NEW w \in 0..(OutW(a) - 1),
         f < (k.F \div F_UNROLL) * F_UNROLL => \E q \in Nat : f = q * F_UNROLL
  PROVE  LET r == WithW(WithH(WithF(k, f), h), w)
         IN /\ ConvHome(r, a, y, c)
            /\ f = k.f => WithW(WithH(k, h), w) = r
            /\ f = k.f /\ h = k.h => WithW(k, w) = r
<1> DEFINE R(x, z, v) ==
             [fn |-> k.fn, A |-> k.A, B |-> k.B, bias |-> k.bias, Y |-> k.Y, C |-> k.C,
              H |-> k.H, W |-> k.W, P |-> k.P, Q |-> k.Q, SP |-> k.SP, SQ |-> k.SQ,
              has_bias |-> k.has_bias, F |-> k.F, f |-> x, h |-> z, w |-> v]
<1>1. k = R(k.f, k.h, k.w)
  BY DEF ConvHome, ConvFields
<1>2. ASSUME NEW r, NEW x, NEW z, NEW v, r = R(x, z, v)
      PROVE  \A n : WithF(r, n) = R(n, z, v) /\ WithH(r, n) = R(x, n, v) /\ WithW(r, n) = R(x, z, n)
  BY <1>2 DEF WithF, WithH, WithW
<1> DEFINE r == R(f, h, w)
<1>3. /\ ConvFields(r) /\ r.fn = k.fn /\ r.Y = k.Y /\ r.F = k.F /\ r.f = f /\ r.h = h /\ r.w = w
      /\ r.H = k.H /\ r.W = k.W /\ r.P = k.P /\ r.Q = k.Q /\ r.SP = k.SP /\ r.SQ = k.SQ
  BY DEF ConvFields
<1>4. /\ WithW(WithH(WithF(k, f), h), w) = r
      /\ f = k.f => WithW(WithH(k, h), w) = r
      /\ f = k.f /\ h = k.h => WithW(k, w) = r
  <2>1. WithF(k, f) = R(f, k.h, k.w)
    BY <1>1, <1>2
  <2>2. WithH(WithF(k, f), h) = R(f, h, k.w)
    BY <1>2, <2>1
  <2>3. WithW(WithH(WithF(k, f), h), w) = R(f, h, w)
    BY <1>2, <2>2
  <2>4. WithH(k, h) = R(k.f, h, k.w)
    BY <1>1, <1>2
  <2>5. WithW(WithH(k, h), w) = R(k.f, h, w)
    BY <1>2, <2>4
  <2>6. WithW(k, w) = R(k.f, k.h, w)
    BY <1>1, <1>2
  <2> HIDE DEF R
  <2>7. QED BY <2>3, <2>5, <2>6
<1> HIDE DEF r
<1>5. OutH(r) = OutH(k) /\ OutW(r) = OutW(k)
  BY <1>3 DEF OutH, OutW
<1>6. ConvHome(r, a, y, c)
  BY <1>3, <1>5 DEF ConvHome
<1>7. QED BY <1>4, <1>6

LEMMA PixelsHome ==
  ASSUME NEW k, NEW a \in Jobs, NEW y, NEW c \in Cores, ConvHome(k, a, y, c), NEW n \in Nat \ {0},
         \/ k.f >= (k.F \div F_UNROLL) * F_UNROLL
         \/ k.f < (k.F \div F_UNROLL) * F_UNROLL /\ n = F_UNROLL
  PROVE  AfterPixel(k, n, k.F) = NoCall \/ ConvHome(AfterPixel(k, n, k.F), a, y, c)
<1> DEFINE U == F_UNROLL
           full == (k.F \div U) * U
<1>1. /\ k.f \in 0..(k.F - 1) /\ k.h \in 0..(OutH(a) - 1) /\ k.w \in 0..(OutW(a) - 1)
      /\ k.f < full => \E q \in Nat : k.f = q * U
      /\ OutH(k) = OutH(a) /\ OutW(k) = OutW(a) /\ a.kernel = "conv"
      /\ k.F = Items(a, c).last - Items(a, c).first
  BY DEF ConvHome
<1>2. OutH(a) \in Nat \ {0} /\ OutW(a) \in Nat \ {0} /\ k.F \in Nat /\ U \in Nat \ {0}
  <2>1. OutH(a) \in Nat \ {0} /\ OutW(a) \in Nat \ {0} /\ U \in Nat \ {0}
    BY <1>1, PlaneIs, MachineAssumption
  <2>2. Items(a, c).last \in Nat /\ Items(a, c).first \in Nat /\ Items(a, c).first <= Items(a, c).last
    BY ItemsAre
  <2>3. QED BY <1>1, <2>1, <2>2
<1>3. full \in Nat
  <2> DEFINE b == k.F \div U
  <2>1. b \in Nat
    BY <1>2, Division
  <2> HIDE DEF b, U
  <2>2. b * U \in Nat
    BY <1>2, <2>1, Scaling
  <2>3. QED BY <2>2 DEF b
<1> HIDE DEF full
<1>4. CASE k.w + 1 < OutW(k)
  <2>1. AfterPixel(k, n, k.F) = WithW(k, k.w + 1)
    BY <1>4, Zenon DEF AfterPixel, WithW
  <2>2. k.w + 1 \in 0..(OutW(a) - 1)
    BY <1>1, <1>2, <1>4
  <2>3. ConvHome(WithW(k, k.w + 1), a, y, c)
    BY <1>1, <2>2, ConvHomeMoved DEF full
  <2>4. QED BY <2>1, <2>3
<1>5. CASE ~(k.w + 1 < OutW(k)) /\ k.h + 1 < OutH(k)
  <2>1. AfterPixel(k, n, k.F) = WithW(WithH(k, k.h + 1), 0)
    BY <1>5, Zenon DEF AfterPixel, WithW, WithH
  <2>2. k.h + 1 \in 0..(OutH(a) - 1) /\ 0 \in 0..(OutW(a) - 1)
    BY <1>1, <1>2, <1>5
  <2>3. ConvHome(WithW(WithH(k, k.h + 1), 0), a, y, c)
    BY <1>1, <2>2, ConvHomeMoved DEF full
  <2>4. QED BY <2>1, <2>3
<1>6. CASE ~(k.w + 1 < OutW(k)) /\ ~(k.h + 1 < OutH(k)) /\ k.f + n < k.F
  <2>1. AfterPixel(k, n, k.F) = WithW(WithH(WithF(k, k.f + n), 0), 0)
    BY <1>6, Zenon DEF AfterPixel, WithW, WithH, WithF
  <2>2. k.f + n \in 0..(k.F - 1) /\ 0 \in 0..(OutH(a) - 1) /\ 0 \in 0..(OutW(a) - 1)
    BY <1>1, <1>2, <1>6
  <2>3. k.f + n < full => \E q \in Nat : k.f + n = q * U
    <3> SUFFICES ASSUME k.f + n < full PROVE \E q \in Nat : k.f + n = q * U
      OBVIOUS
    <3>1. k.f < full
      BY <1>1, <1>2, <1>3
    <3>2. n = U
      BY <1>1, <1>2, <1>3, <3>1 DEF full
    <3>3. PICK q \in Nat : k.f = q * U
      BY <1>1, <3>1
    <3>4. (q + 1) * U = q * U + U /\ q + 1 \in Nat
      BY <1>2, NextMultiple
    <3> HIDE DEF U
    <3>5. QED BY <3>2, <3>3, <3>4
  <2>4. ConvHome(WithW(WithH(WithF(k, k.f + n), 0), 0), a, y, c)
    BY <2>2, <2>3, ConvHomeMoved DEF full
  <2>5. QED BY <2>1, <2>4
<1>7. CASE ~(k.w + 1 < OutW(k)) /\ ~(k.h + 1 < OutH(k)) /\ ~(k.f + n < k.F)
  BY <1>7 DEF AfterPixel
<1>8. QED BY <1>4, <1>5, <1>6, <1>7

LEMMA ConvStepsHome ==
  ASSUME StreamInv, HomeInv, NEW c \in Cores, ConvPixel(c) \/ ConvTail(c)
  PROVE  HomeInv'
<1> DEFINE k == call[c]
<1>1. k.fn = "conv" /\ Step(c)
  BY NoneStarves DEF ConvPixel, ConvTail, In, Step
<1>2. ConvHome(k, job, args.Y, c) /\ job \in Jobs /\ error = "none"
  BY <1>1, HomeIs
<1>3. PICK n \in Nat \ {0} :
        /\ Enter(c, AfterPixel(k, n, k.F))
        /\ \/ k.f >= (k.F \div F_UNROLL) * F_UNROLL
           \/ k.f < (k.F \div F_UNROLL) * F_UNROLL /\ n = F_UNROLL
  <2>1. F_UNROLL \in Nat \ {0} /\ 1 \in Nat \ {0}
    BY MachineAssumption
  <2>2. QED BY <2>1, Zenon DEF ConvPixel, ConvTail
<1> HIDE DEF k
<1>4. AfterPixel(k, n, k.F) = NoCall \/ ConvHome(AfterPixel(k, n, k.F), job, args.Y, c)
  BY <1>2, <1>3, PixelsHome
<1>5. Home(AfterPixel(k, n, k.F), job, args.Y, scratch, c, MfccBlocks(job.nb_cep))
  BY <1>4 DEF Home
<1>6. QED BY <1>1, <1>2, <1>3, <1>5, HomeStep DEF k

\* A call to the front-end, after one of its loops.
LEMMA MfccHomeMoved ==
  ASSUME NEW k, NEW a, NEW y, NEW s, NEW c, NEW b, MfccHome(k, a, y, s, c, b), NEW v
  PROVE  /\ k.at # "dct" =>
              /\ \A h \in {WithM(k, v), WithOff(k, v), WithC(k, v)} :
                   MfccHome(h, a, y, s, c, b) /\ h.at = k.at
              /\ WithC(k, v).c = v
         /\ v # "dct" => MfccHome(WithAt(k, v), a, y, s, c, b) /\ WithAt(k, v).at = v
         /\ v \in 0..(k.frames - 1) => MfccHome(WithT(k, v), a, y, s, c, b)
         /\ v \in 0..(a.nb_cep - 1) /\ (v < b * MFCC_UNROLL => \E q \in Nat : v = q * MFCC_UNROLL)
              => /\ MfccHome(WithC(k, v), a, y, s, c, b)
                 /\ k.c = v => MfccHome(WithAt(k, "dct"), a, y, s, c, b)
<1> DEFINE R(at, t, m, off, x) ==
             [fn |-> k.fn, audio |-> k.audio, Y |-> k.Y, frames |-> k.frames, re |-> k.re,
              im |-> k.im, mel |-> k.mel, at |-> at, t |-> t, m |-> m, off |-> off, c |-> x]
<1>1. k = R(k.at, k.t, k.m, k.off, k.c)
  BY DEF MfccHome, MfccFields
<1>2. WithAt(k, v) = R(v, k.t, k.m, k.off, k.c) /\ WithAt(k, "dct") = R("dct", k.t, k.m, k.off, k.c)
  BY <1>1 DEF WithAt
<1>3. WithM(k, v) = R(k.at, k.t, v, k.off, k.c)
  BY <1>1 DEF WithM
<1>4. WithOff(k, v) = R(k.at, k.t, k.m, v, k.c)
  BY <1>1 DEF WithOff
<1>5. WithC(k, v) = R(k.at, k.t, k.m, k.off, v)
  BY <1>1 DEF WithC
<1>6. WithT(k, v) = R(k.at, v, k.m, k.off, k.c)
  BY <1>1 DEF WithT
<1>7. ASSUME NEW at, NEW t, NEW m, NEW off, NEW x
      PROVE  LET h == R(at, t, m, off, x) IN
             /\ h.at = at /\ h.c = x
             /\ (/\ t \in 0..(k.frames - 1)
                 /\ at = "dct" => /\ x \in 0..(a.nb_cep - 1)
                                  /\ x < b * MFCC_UNROLL => \E q \in Nat : x = q * MFCC_UNROLL)
                => MfccHome(h, a, y, s, c, b)
  <2> DEFINE h == R(at, t, m, off, x)
  <2>1. /\ MfccFields(h) /\ h.fn = k.fn /\ h.Y = k.Y /\ h.frames = k.frames /\ h.re = k.re
        /\ h.im = k.im /\ h.mel = k.mel /\ h.at = at /\ h.t = t /\ h.c = x
    BY DEF MfccFields
  <2> HIDE DEF h
  <2>2. /\ k.fn = "mfcc" /\ a.kernel = "mfcc"
        /\ k.Y = At(y, Items(a, c).first * a.nb_cep)
        /\ k.frames = Items(a, c).last - Items(a, c).first
        /\ k.re = s.base + c * s.stride
        /\ k.im = At(k.re, a.fft_len) /\ k.mel = At(k.re, 2 * a.fft_len)
    BY DEF MfccHome
  <2>3. (/\ t \in 0..(k.frames - 1)
         /\ at = "dct" => /\ x \in 0..(a.nb_cep - 1)
                          /\ x < b * MFCC_UNROLL => \E q \in Nat : x = q * MFCC_UNROLL)
        => MfccHome(h, a, y, s, c, b)
    BY <2>1, <2>2, Zenon DEF MfccHome
  <2>4. QED BY <2>1, <2>3 DEF h
<1>8. /\ k.t \in 0..(k.frames - 1)
      /\ k.at = "dct" => /\ k.c \in 0..(a.nb_cep - 1)
                         /\ k.c < b * MFCC_UNROLL => \E q \in Nat : k.c = q * MFCC_UNROLL
  BY DEF MfccHome
<1> HIDE DEF R
<1> DEFINE Fits0(x) == /\ x \in 0..(a.nb_cep - 1)
                       /\ x < b * MFCC_UNROLL => \E q \in Nat : x = q * MFCC_UNROLL
<1>9. ASSUME NEW at, NEW t, NEW m, NEW off, NEW x, t \in 0..(k.frames - 1), at = "dct" => Fits0(x)
      PROVE  /\ MfccHome(R(at, t, m, off, x), a, y, s, c, b)
             /\ R(at, t, m, off, x).at = at /\ R(at, t, m, off, x).c = x
  BY <1>7, <1>9
<1>10. k.t \in 0..(k.frames - 1) /\ (k.at = "dct" => Fits0(k.c))
  BY <1>8
<1>11. /\ v \in 0..(a.nb_cep - 1) /\ (v < b * MFCC_UNROLL => \E q \in Nat : v = q * MFCC_UNROLL)
            <=> Fits0(v)
  OBVIOUS
<1> HIDE DEF Fits0
<1>12. k.at # "dct" =>
              /\ \A h \in {WithM(k, v), WithOff(k, v), WithC(k, v)} :
                   MfccHome(h, a, y, s, c, b) /\ h.at = k.at
              /\ WithC(k, v).c = v
  BY <1>3, <1>4, <1>5, <1>9, <1>10
<1>13. v # "dct" => MfccHome(WithAt(k, v), a, y, s, c, b) /\ WithAt(k, v).at = v
  BY <1>2, <1>9, <1>10
<1>14. v \in 0..(k.frames - 1) => MfccHome(WithT(k, v), a, y, s, c, b)
  BY <1>6, <1>9, <1>10
<1>15. Fits0(v) => /\ MfccHome(WithC(k, v), a, y, s, c, b)
                   /\ k.c = v => MfccHome(WithAt(k, "dct"), a, y, s, c, b)
  BY <1>2, <1>5, <1>9, <1>10
<1>16. QED BY <1>11, <1>12, <1>13, <1>14, <1>15

LEMMA MfccStepsHome ==
  ASSUME StreamInv, HomeInv, NEW c \in Cores,
         MfccWindow(c) \/ MfccSpectrum(c) \/ MelFilter(c) \/ DctBlock(c) \/ DctTail(c)
  PROVE  HomeInv'
<1> DEFINE k == call[c]
           b == MfccBlocks(job.nb_cep)
           H(h) == MfccHome(h, job, args.Y, scratch, c, b)
           Whole(v) == v < b * MFCC_UNROLL => \E q \in Nat : v = q * MFCC_UNROLL
<1>1. k.fn = "mfcc" /\ Step(c)
  BY NoneStarves DEF MfccWindow, MfccSpectrum, MelFilter, DctBlock, DctTail, In, Step
<1>2. H(k) /\ job \in Jobs /\ error = "none"
  BY <1>1, HomeIs
<1>3. ASSUME NEW h, H(h), NEW v
      PROVE  /\ h.at # "dct" => /\ H(WithM(h, v)) /\ WithM(h, v).at = h.at
                                /\ H(WithOff(h, v)) /\ WithOff(h, v).at = h.at
                                /\ H(WithC(h, v)) /\ WithC(h, v).at = h.at /\ WithC(h, v).c = v
             /\ v # "dct" => H(WithAt(h, v)) /\ WithAt(h, v).at = v
             /\ v \in 0..(h.frames - 1) => H(WithT(h, v))
             /\ v \in 0..(job.nb_cep - 1) /\ Whole(v)
                  => H(WithC(h, v)) /\ (h.c = v => H(WithAt(h, "dct")))
  <2> DEFINE y == args.Y
  <2> HIDE DEF b, y
  <2>1. MfccHome(h, job, y, scratch, c, b)
    BY <1>3 DEF y
  <2>2. h.at # "dct" =>
          /\ \A r \in {WithM(h, v), WithOff(h, v), WithC(h, v)} :
               MfccHome(r, job, y, scratch, c, b) /\ r.at = h.at
          /\ WithC(h, v).c = v
    BY <2>1, MfccHomeMoved
  <2>3. v # "dct" => MfccHome(WithAt(h, v), job, y, scratch, c, b) /\ WithAt(h, v).at = v
    BY <2>1, MfccHomeMoved
  <2>4. v \in 0..(h.frames - 1) => MfccHome(WithT(h, v), job, y, scratch, c, b)
    BY <2>1, MfccHomeMoved
  <2>5. v \in 0..(job.nb_cep - 1) /\ Whole(v)
          => /\ MfccHome(WithC(h, v), job, y, scratch, c, b)
             /\ h.c = v => MfccHome(WithAt(h, "dct"), job, y, scratch, c, b)
    BY <2>1, MfccHomeMoved
  <2>6. QED BY <2>2, <2>3, <2>4, <2>5, Zenon DEF y
<1>4. ASSUME NEW h, Enter(c, h), H(h) \/ h = NoCall PROVE HomeInv'
  <2>1. Home(h, job, args.Y, scratch, c, MfccBlocks(job.nb_cep))
    BY <1>4 DEF Home
  <2>2. QED BY <1>1, <1>2, <1>4, <2>1, HomeStep
<1>5. /\ job.kernel = "mfcc" /\ k.t \in 0..(k.frames - 1) /\ k.frames \in Nat
      /\ k.at = "dct" => k.c \in 0..(job.nb_cep - 1) /\ Whole(k.c)
  <2>1. /\ job.kernel = "mfcc" /\ k.t \in 0..(k.frames - 1)
        /\ k.frames = Items(job, c).last - Items(job, c).first
        /\ k.at = "dct" => k.c \in 0..(job.nb_cep - 1) /\ Whole(k.c)
    BY <1>2 DEF MfccHome
  <2>2. /\ Items(job, c).last \in Nat /\ Items(job, c).first \in Nat
        /\ Items(job, c).first <= Items(job, c).last
    BY <1>2, ItemsAre
  <2> HIDE DEF k, b
  <2>3. QED BY <2>1, <2>2
<1>6. /\ job.nb_cep \in Nat \ {0} /\ MFCC_UNROLL \in Nat \ {0} /\ b \in Nat
      /\ b * MFCC_UNROLL \in Nat
  <2>1. job.nb_cep \in Nat \ {0} /\ MFCC_UNROLL \in Nat \ {0}
    BY <1>2, <1>5, BuffersFit, WordAssumption, MachineAssumption DEF Extents
  <2>2. b \in Nat
    BY <2>1, Division DEF MfccBlocks
  <2> HIDE DEF b
  <2>3. QED BY <2>1, <2>2, Scaling
<1>7. CASE MfccWindow(c)
  <2>1. Enter(c, WithAt(k, "spectrum"))
    BY <1>7 DEF MfccWindow, WithAt
  <2> HIDE DEF k, H
  <2>2. QED BY <1>2, <1>3, <1>4, <2>1
<1>8. CASE MfccSpectrum(c)
  <2>1. Enter(c, WithOff(WithM(WithAt(k, "mel"), 0), 0))
    BY <1>8, Zenon DEF MfccSpectrum, WithAt, WithM, WithOff
  <2> HIDE DEF k, H
  <2>2. H(WithAt(k, "mel")) /\ WithAt(k, "mel").at = "mel"
    BY <1>2, <1>3
  <2>3. H(WithM(WithAt(k, "mel"), 0)) /\ WithM(WithAt(k, "mel"), 0).at = "mel"
    BY <1>3, <2>2
  <2>4. H(WithOff(WithM(WithAt(k, "mel"), 0), 0))
    BY <1>3, <2>3
  <2>5. QED BY <1>4, <2>1, <2>4
<1>9. CASE MelFilter(c)
  <2> DEFINE n == Entry("mel_len", k.m)
             k1 == WithOff(WithM(k, k.m + 1), k.off + n)
             k2 == WithC(WithAt(k1, "dct"), 0)
             e == IF k.m + 1 < NbMel(job) THEN k1 ELSE k2
  <2>1. Enter(c, e) /\ k.at = "mel"
    BY <1>9, Zenon DEF MelFilter, WithAt, WithM, WithOff, WithC
  <2> HIDE DEF k, n, H
  <2>2. H(WithM(k, k.m + 1)) /\ WithM(k, k.m + 1).at = "mel"
    BY <1>2, <1>3, <2>1
  <2>3. H(k1) /\ k1.at = "mel"
    BY <1>3, <2>2
  <2> HIDE DEF k1
  <2>4. H(WithC(k1, 0)) /\ WithC(k1, 0).c = 0
    BY <1>3, <2>3
  <2>5. 0 \in 0..(job.nb_cep - 1) /\ Whole(0)
    BY <1>6
  <2>6. H(WithAt(WithC(k1, 0), "dct"))
    <3> HIDE DEF Whole
    <3>1. QED BY <1>3, <2>4, <2>5
  <2>7. WithAt(WithC(k1, 0), "dct") = k2
    <3>1. MfccFields(k1)
      BY <2>3 DEF H, MfccHome
    <3>2. QED BY <3>1 DEF MfccFields, WithAt, WithC
  <2>8. H(e)
    <3> HIDE DEF k2
    <3>1. QED BY <2>3, <2>6, <2>7
  <2> HIDE DEF e
  <2>9. QED BY <1>4, <2>1, <2>8
<1>10. CASE DctBlock(c) \/ DctTail(c)
  <2>1. PICK n \in Nat \ {0} :
          /\ Enter(c, AfterCepstra(k, n)) /\ k.at = "dct"
          /\ \/ k.c >= b * MFCC_UNROLL
             \/ k.c < b * MFCC_UNROLL /\ n = MFCC_UNROLL
    <3>1. 1 \in Nat \ {0}
      OBVIOUS
    <3>2. QED BY <1>6, <1>10, <3>1, Zenon DEF DctBlock, DctTail
  <2> HIDE DEF k, H, b
  <2>2. CASE k.c + n < job.nb_cep
    <3>1. AfterCepstra(k, n) = WithC(k, k.c + n)
      BY <2>2, Zenon DEF AfterCepstra, WithC
    <3>2. k.c + n \in 0..(job.nb_cep - 1)
      BY <1>5, <1>6, <2>1, <2>2
    <3>3. Whole(k.c + n)
      <4> SUFFICES ASSUME k.c + n < b * MFCC_UNROLL
                   PROVE  \E q \in Nat : k.c + n = q * MFCC_UNROLL
        OBVIOUS
      <4>1. k.c < b * MFCC_UNROLL
        BY <1>5, <1>6, <2>1
      <4>2. n = MFCC_UNROLL
        BY <1>5, <1>6, <2>1, <4>1
      <4>3. PICK q \in Nat : k.c = q * MFCC_UNROLL
        BY <1>5, <2>1, <4>1
      <4>4. (q + 1) * MFCC_UNROLL = q * MFCC_UNROLL + MFCC_UNROLL /\ q + 1 \in Nat
        BY <1>6, NextMultiple
      <4>5. QED BY <4>2, <4>3, <4>4
    <3> HIDE DEF Whole
    <3>4. H(WithC(k, k.c + n))
      BY <1>2, <1>3, <3>2, <3>3
    <3>5. QED BY <1>4, <2>1, <3>1, <3>4
  <2>3. CASE ~(k.c + n < job.nb_cep) /\ k.t + 1 < k.frames
    <3>1. AfterCepstra(k, n) = WithAt(WithT(k, k.t + 1), "window")
      BY <2>3, Zenon DEF AfterCepstra, WithAt, WithT
    <3>2. k.t + 1 \in 0..(k.frames - 1)
      BY <1>5, <2>3
    <3> HIDE DEF Whole
    <3>3. H(WithT(k, k.t + 1))
      BY <1>2, <1>3, <3>2
    <3>4. H(WithAt(WithT(k, k.t + 1), "window"))
      BY <1>3, <3>3
    <3>5. QED BY <1>4, <2>1, <3>1, <3>4
  <2>4. CASE ~(k.c + n < job.nb_cep) /\ ~(k.t + 1 < k.frames)
    <3>1. AfterCepstra(k, n) = NoCall
      BY <2>4 DEF AfterCepstra
    <3>2. QED BY <1>4, <2>1, <3>1
  <2>5. QED BY <2>2, <2>3, <2>4
<1>11. QED BY <1>7, <1>8, <1>9, <1>10

LEMMA HomeKept == (Init => HomeInv) /\ (StreamInv /\ HomeInv /\ [Next]_vars => HomeInv')
<1>1. Init => HomeInv
  BY DEF Init, HomeInv, Home
<1>2. ASSUME StreamInv, HomeInv, [Next]_vars PROVE HomeInv'
  <2>1. CASE \E a \in Jobs : Serve(a)
    <3>1. phase \in {"idle", "done"} /\ call' = call
      BY <2>1 DEF Serve
    <3>2. \A c \in Cores : call[c] = NoCall
      BY <1>2, <3>1 DEF StreamInv, PhaseOK
    <3>3. QED BY <1>2, <3>1, <3>2, HomeRests
  <2>2. CASE Transfer \/ Release \/ StageOut \/ Publish \/ UNCHANGED vars
    <3>1. /\ call' = call /\ engine' = engine /\ job' = job /\ error' = error /\ args' = args
          /\ scratch' = scratch
      BY <2>2 DEF Transfer, Release, StageOut, Publish, vars
    <3>2. QED BY <1>2, <3>1, HomeRests
  <2>3. ASSUME NEW c \in Cores, Step(c) PROVE HomeInv'
    BY <1>2, <2>3, RunSliceHome, GemmStepsHome, GenericsHome, ConvStepsHome, MfccStepsHome DEF Step
  <2>4. QED BY <1>2, <2>1, <2>2, <2>3 DEF Next
<1>3. QED BY <1>1, <1>2

-----------------------------------------------------------------------------
(* What the cores store, and that none disturbs another.                   *)

\* The floats of m and n differ only where own is.
Elsewhere(m, n, own) ==
  \A x \in (DOMAIN m \cup DOMAIN n) \ own : x \in DOMAIN m /\ x \in DOMAIN n /\ n[x] = m[x]

LEMMA OneStored ==
  ASSUME NEW m, NEW p, NEW v
  PROVE  Elsewhere(m, Store(m, p, v), {p})
BY DEF Store, Elsewhere

LEMMA StoredTwice ==
  ASSUME NEW m, NEW n, NEW o, NEW s, NEW t, NEW own, s \subseteq own, t \subseteq own,
         Elsewhere(m, n, s), Elsewhere(n, o, t)
  PROVE  Elsewhere(m, o, own)
BY DEF Elsewhere

LEMMA StoredWithin ==
  ASSUME NEW m, NEW n, NEW s, NEW own, s \subseteq own, Elsewhere(m, n, s)
  PROVE  Elsewhere(m, n, own)
BY DEF Elsewhere

\* The floats of a share, and of a slab.
LEMMA InShare ==
  ASSUME NEW a \in Jobs, NEW y \in Nat, NEW c \in Cores, NEW n \in Nat,
         n < (Items(a, c).last - Items(a, c).first) * ItemFloats(a)
  PROVE  At(At(y, Items(a, c).first * ItemFloats(a)), n) \in Share(a, y, c)
<1> DEFINE f == Items(a, c).first
           l == Items(a, c).last
           L == ItemFloats(a)
<1>1. f \in Nat /\ l \in Nat /\ f <= l /\ L \in Nat /\ FloatBytes \in Nat /\ n < (l - f) * L
  BY ItemsAre, MachineAssumption
<1>2. f * L + n \in (f * L)..(l * L - 1)
  <2> HIDE DEF f, l, L
  <2> DEFINE r == l - f
  <2>1. r \in Nat /\ l = f + r
    BY <1>1
  <2>2. n < r * L
    BY <1>1
  <2> HIDE DEF r
  <2>3. f * L \in Nat /\ r * L \in Nat /\ f * L + r * L = (f + r) * L
    BY <1>1, <2>1, Scaling
  <2>4. f * L + n \in Nat /\ f * L + n < l * L /\ l * L \in Nat /\ f * L <= f * L + n
    BY <2>1, <2>2, <2>3
  <2>5. QED BY <2>3, <2>4
<1>3. At(At(y, f * L), n) = At(y, f * L + n)
  <2> DEFINE z == f * L
  <2>1. z \in Nat
    <3> HIDE DEF f, L
    <3>1. QED BY <1>1, Scaling
  <2> HIDE DEF z
  <2>2. z * FloatBytes \in Nat /\ n * FloatBytes \in Nat
        /\ z * FloatBytes + n * FloatBytes = (z + n) * FloatBytes
    BY <1>1, <2>1, Scaling
  <2>3. At(At(y, z), n) = At(y, z + n)
    BY <2>2 DEF At
  <2>4. QED BY <2>3 DEF z
<1>4. QED BY <1>2, <1>3 DEF Share

LEMMA RowWithin ==
  ASSUME NEW m \in Nat, NEW L \in Nat, NEW i \in 0..(m - 1), NEW j \in 0..(L - 1)
  PROVE  i * L + j \in Nat /\ i * L + j < m * L
<1>1. (i + 1) * L = i * L + L /\ i * L \in Nat /\ (i + 1) * L <= m * L /\ m * L \in Nat
  BY NextMultiple, Scaling
<1>2. QED BY <1>1

LEMMA InSlab ==
  ASSUME NEW a \in Jobs, a.kernel = "mfcc", NEW s, NEW c \in Cores, s.base + c * s.stride \in Nat,
         NEW n \in Nat, n < 2 * a.fft_len + NbMel(a)
  PROVE  At(s.base + c * s.stride, n) \in Slab(a, s, c)
<1> DEFINE N == 2 * a.fft_len + NbMel(a)
<1>1. N \in Nat /\ N * FloatBytes < Word /\ Word \in Nat \ {0} /\ FloatBytes \in Nat \ {0}
  <2>1. a.fft_len \in Nat /\ NbMel(a) \in Nat
    BY BuffersFit, JobsAssumption, WordAssumption DEF Extents
  <2>2. QED BY <2>1, BuffersFit, WordAssumption, MachineAssumption
<1>2. plan_scratch(a) = N * FloatBytes % Word
  BY DEF plan_scratch
<1> HIDE DEF N
<1>3. /\ N * FloatBytes \in Nat /\ n * FloatBytes \in Nat
      /\ (n + 1) * FloatBytes = n * FloatBytes + FloatBytes /\ (n + 1) * FloatBytes <= N * FloatBytes
  <2>1. n + 1 <= N /\ n + 1 \in Nat
    BY <1>1 DEF N
  <2>2. QED BY <1>1, <2>1, NextMultiple, Scaling
<1>4. plan_scratch(a) = N * FloatBytes
  <2> DEFINE z == N * FloatBytes
  <2>1. z \in Nat /\ z < Word
    BY <1>1, <1>3
  <2> HIDE DEF z
  <2>2. z % Word = z
    BY <1>1, <2>1
  <2>3. QED BY <1>2, <2>2 DEF z
<1>5. n * FloatBytes \in 0..(plan_scratch(a) - 1)
  BY <1>1, <1>3, <1>4
<1>6. QED BY <1>5 DEF At, Slab

\* The last element of a whole block is one of n.
LEMMA WholeBlock ==
  ASSUME NEW U \in Nat \ {0}, NEW n \in Nat, NEW j \in Nat, \E q \in Nat : j = q * U,
         j < (n \div U) * U, NEW u \in 0..(U - 1)
  PROVE  j + u \in 0..(n - 1)
<1>1. PICK q \in Nat : j = q * U
  OBVIOUS
<1> DEFINE b == n \div U
           r == n % U
<1>2. b \in Nat /\ r \in Nat /\ n = U * b + r
  BY Division
<1>3. q * U < b * U
  BY <1>1
<1> HIDE DEF b, r
<1>4. U * b = b * U /\ b * U \in Nat
  BY <1>2, SMT
<1>5. (q + 1) * U = q * U + U /\ (q + 1 <= b => (q + 1) * U <= b * U) /\ (b <= q => b * U <= q * U)
  BY <1>2, NextMultiple, Scaling
<1>6. (q + 1) * U <= b * U
  BY <1>2, <1>3, <1>4, <1>5
<1>7. QED BY <1>1, <1>2, <1>4, <1>5, <1>6

\* The row and column of the n-th of rows * v elements.
LEMMA InRow ==
  ASSUME NEW v \in Nat \ {0}, NEW rows \in Nat, NEW n \in 0..(rows * v - 1)
  PROVE  n \div v \in 0..(rows - 1) /\ n % v \in 0..(v - 1)
<1> DEFINE q == n \div v
           r == n % v
<1>1. q \in Nat /\ r \in 0..(v - 1) /\ n = v * q + r
  <2>1. rows * v \in Nat
    BY Scaling
  <2>2. n \in Nat
    BY <2>1
  <2>3. QED BY <2>2, Division
<1> HIDE DEF q, r
<1>2. v * q = q * v /\ q * v \in Nat /\ rows * v \in Nat /\ (rows <= q => rows * v <= q * v)
  BY <1>1, Scaling, SMT
<1>3. q < rows
  BY <1>1, <1>2
<1>4. QED BY <1>1, <1>3 DEF q, r

\* Where a call to a product stores.
LEMMA ProductHome ==
  ASSUME NEW a \in Jobs, NEW y \in Nat, NEW c \in Cores, NEW g, GemmHome(g, a, y, c)
  PROVE  /\ g.O \in Nat /\ g.M \in Nat
         /\ \A n \in 0..(g.M * g.O - 1) : At(g.Y, n) \in Share(a, y, c)
         /\ \A i \in 0..(g.M - 1), j \in 0..(g.O - 1) : At(g.Y, i * g.O + j) \in Share(a, y, c)
<1>1. /\ a.kernel \in {"matmul", "gemm"} /\ g.Y = At(y, Items(a, c).first * a.O) /\ g.O = a.O
      /\ g.M = Items(a, c).last - Items(a, c).first
  BY DEF GemmHome
<1>2. ItemFloats(a) = a.O
  BY <1>1 DEF ItemFloats
<1>3. g.O \in Nat /\ g.M \in Nat
  <2>1. /\ ItemFloats(a) \in Nat /\ Items(a, c).last \in Nat /\ Items(a, c).first \in Nat
        /\ Items(a, c).first <= Items(a, c).last
    BY ItemsAre
  <2>2. QED BY <1>1, <1>2, <2>1
<1>4. ASSUME NEW n \in Nat, n < g.M * g.O PROVE At(g.Y, n) \in Share(a, y, c)
  <2>1. n < (Items(a, c).last - Items(a, c).first) * ItemFloats(a)
    BY <1>1, <1>2, <1>4
  <2>2. At(At(y, Items(a, c).first * ItemFloats(a)), n) \in Share(a, y, c)
    BY <2>1, InShare
  <2>3. QED BY <1>1, <1>2, <2>2
<1>5. \A n \in 0..(g.M * g.O - 1) : At(g.Y, n) \in Share(a, y, c)
  <2>1. g.M * g.O \in Nat
    BY <1>3, Scaling
  <2>2. QED BY <1>4, <2>1
<1>6. ASSUME NEW i \in 0..(g.M - 1), NEW j \in 0..(g.O - 1)
      PROVE  At(g.Y, i * g.O + j) \in Share(a, y, c)
  <2>1. i * g.O + j \in Nat /\ i * g.O + j < g.M * g.O
    BY <1>3, RowWithin
  <2>2. QED BY <1>4, <2>1
<1>7. QED BY <1>3, <1>5, <1>6

\* A core in a call has an output.
LEMMA OutputOfCall ==
  ASSUME StreamInv, ArgsInv, HomeInv, NEW c \in Cores, call[c].fn # "none"
  PROVE  job \in Jobs /\ args.Y \in Nat
BY HomeIs, OutputPointer

LEMMA GemmBlockStores ==
  ASSUME StreamInv, ArgsInv, HomeInv, NEW c \in Cores, GemmBlock(c)
  PROVE  Elsewhere(mem, mem', Own(c))
<1> DEFINE g == call[c]
           U == GEMM_UNROLL
           y(u) == At(g.Y, g.i * g.O + g.j + u)
<1>1. g.fn = "gemm" /\ g.j < (g.O \div U) * U /\ \E v : mem' = StoreAll(mem, y, U, v)
  BY DEF GemmBlock, In
<1>2. job \in Jobs /\ args.Y \in Nat /\ GemmHome(g, job, args.Y, c) /\ GemmLeft(g, movers[c])
  <2>1. CallOK(g, movers[c])
    BY <1>1, InCall
  <2>2. QED BY <1>1, <2>1, HomeIs, OutputOfCall DEF CallOK
<1>3. U \in Nat \ {0}
  BY MachineAssumption
<1>4. g.O \in Nat /\ g.i \in 0..(g.M - 1) /\ g.j \in Nat /\ g.M \in Nat
  BY <1>2 DEF GemmLeft
<1> HIDE DEF g
<1>5. \E q \in Nat : g.j = q * U
  <2> DEFINE B == Blocks(g)
  <2>1. B \in Nat
    BY <1>3, <1>4, Division DEF Blocks
  <2>2. PICK q \in 0..B : (q < B => g.j = q * U) /\ (q = B => g.j >= B * U)
    BY <1>2 DEF GemmLeft
  <2>3. g.j < B * U
    BY <1>1 DEF Blocks
  <2> HIDE DEF B, U
  <2>4. B * U \in Nat
    BY <1>3, <2>1, Scaling
  <2>5. QED BY <1>4, <2>1, <2>2, <2>3, <2>4
<1>6. ASSUME NEW u \in 0..(U - 1) PROVE y(u) \in Own(c)
  <2>1. g.j + u \in 0..(g.O - 1)
    <3> HIDE DEF U
    <3>1. QED BY <1>1, <1>3, <1>4, <1>5, WholeBlock
  <2>2. At(g.Y, g.i * g.O + (g.j + u)) \in Share(job, args.Y, c)
    BY <1>2, <1>4, <2>1, ProductHome
  <2>3. g.i * g.O + g.j + u = g.i * g.O + (g.j + u)
    <3>1. g.i * g.O \in Nat
      BY <1>4, Scaling
    <3>2. QED BY <1>3, <1>4, <3>1
  <2>4. QED BY <2>2, <2>3 DEF Own
<1> HIDE DEF y, U
<1>7. Elsewhere(mem, mem', {y(u) : u \in 0..(U - 1)})
  BY <1>1 DEF StoreAll, Elsewhere
<1>8. {y(u) : u \in 0..(U - 1)} \subseteq Own(c)
  BY <1>6
<1>9. QED BY <1>7, <1>8, StoredWithin

LEMMA GemmTailStores ==
  ASSUME StreamInv, ArgsInv, HomeInv, NEW c \in Cores, GemmTail(c)
  PROVE  Elsewhere(mem, mem', Own(c))
<1> DEFINE g == call[c]
           p == At(g.Y, g.i * g.O + g.j)
<1>1. g.fn = "gemm" /\ \E v : mem' = Store(mem, p, v)
  BY DEF GemmTail, In
<1>2. job \in Jobs /\ args.Y \in Nat /\ GemmHome(g, job, args.Y, c)
  BY <1>1, HomeIs, OutputOfCall
<1>3. g.i \in 0..(g.M - 1) /\ g.j \in 0..(g.O - 1)
  BY <1>1, <1>2 DEF GemmHome
<1> HIDE DEF g
<1>4. {p} \subseteq Own(c)
  BY <1>2, <1>3, ProductHome DEF Own
<1>5. Elsewhere(mem, mem', {p})
  BY <1>1, OneStored
<1>6. QED BY <1>4, <1>5, StoredWithin

LEMMA GemmGenericStores ==
  ASSUME StreamInv, ArgsInv, HomeInv, NEW c \in Cores, GemmGeneric(c)
  PROVE  Elsewhere(mem, mem', Own(c))
<1> DEFINE g == call[c]
           y(n) == At(g.Y, n)
           N == g.M * g.O
<1>1. g.fn = "gemm_generic" /\ \E v : mem' = StoreAll(mem, y, N, v)
  BY DEF GemmGeneric, In
<1>2. job \in Jobs /\ args.Y \in Nat /\ GemmHome(g, job, args.Y, c)
  BY <1>1, HomeIs, OutputOfCall
<1> HIDE DEF g
<1>3. {y(n) : n \in 0..(N - 1)} \subseteq Own(c)
  BY <1>2, ProductHome DEF Own
<1> HIDE DEF y, N
<1>4. Elsewhere(mem, mem', {y(n) : n \in 0..(N - 1)})
  BY <1>1 DEF StoreAll, Elsewhere
<1>5. QED BY <1>3, <1>4, StoredWithin

LEMMA RvvBlockStores ==
  ASSUME StreamInv, ArgsInv, HomeInv, NEW c \in Cores, RvvBlock(c)
  PROVE  Elsewhere(mem, mem', Own(c))
<1> DEFINE g == call[c]
           rows == IF g.M - g.i < ROWS THEN g.M - g.i ELSE ROWS
<1>1. g.fn = "rvv"
  BY DEF RvvBlock, In
<1>2. PICK vl \in Granted(g.O - g.j) :
        \E v : mem' = StoreAll(mem, LAMBDA n : At(g.Y, (g.i + (n \div vl)) * g.O + (g.j + (n % vl))),
                               rows * vl, v)
  BY Zenon DEF RvvBlock
<1> DEFINE y(n) == At(g.Y, (g.i + (n \div vl)) * g.O + (g.j + (n % vl)))
           N == rows * vl
<1>3. \E v : mem' = StoreAll(mem, y, N, v)
  BY <1>2
<1>4. job \in Jobs /\ args.Y \in Nat /\ GemmHome(g, job, args.Y, c)
  BY <1>1, HomeIs, OutputOfCall
<1>5. g.i \in 0..(g.M - 1) /\ g.j \in 0..(g.O - 1) /\ g.O \in Nat /\ g.M \in Nat
  BY <1>1, <1>4, ProductHome DEF GemmHome
<1> HIDE DEF g
<1>6. ROWS \in Nat \ {0} /\ VLMAX \in Nat \ {0}
  BY VectorAssumption
<1>7. vl \in 1..(g.O - g.j) /\ rows \in 1..(g.M - g.i)
  <2> DEFINE left == g.O - g.j
  <2>1. left \in Nat \ {0} /\ vl \in Granted(left)
    BY <1>5
  <2> HIDE DEF left
  <2>2. vl \in 1..left
    BY <1>6, <2>1 DEF Granted
  <2>3. QED BY <1>5, <1>6, <2>2 DEF left
<1> HIDE DEF rows
<1>8. ASSUME NEW n \in 0..(N - 1) PROVE y(n) \in Own(c)
  <2>1. n \div vl \in 0..(rows - 1) /\ n % vl \in 0..(vl - 1)
    <3>1. vl \in Nat \ {0} /\ rows \in Nat
      BY <1>5, <1>7
    <3>2. QED BY <3>1, InRow
  <2>2. g.i + (n \div vl) \in 0..(g.M - 1) /\ g.j + (n % vl) \in 0..(g.O - 1)
    BY <1>5, <1>7, <2>1
  <2>3. QED BY <1>4, <2>2, ProductHome DEF Own
<1> HIDE DEF y, N
<1>9. Elsewhere(mem, mem', {y(n) : n \in 0..(N - 1)})
  BY <1>3 DEF StoreAll, Elsewhere
<1>10. {y(n) : n \in 0..(N - 1)} \subseteq Own(c)
  BY <1>8
<1>11. QED BY <1>9, <1>10, StoredWithin

\* Where a call to a convolution stores.
LEMMA PlanesHome ==
  ASSUME NEW a \in Jobs, NEW y \in Nat, NEW c \in Cores, NEW k, ConvHome(k, a, y, c)
  PROVE  /\ k.F \in Nat /\ Plane(k) \in Nat
         /\ \A n \in 0..(k.F * Plane(k) - 1) : At(k.Y, n) \in Share(a, y, c)
         /\ \A f \in 0..(k.F - 1) :
              At(k.Y, f * Plane(k) + k.h * OutW(k) + k.w) \in Share(a, y, c)
<1>1. /\ a.kernel = "conv" /\ k.Y = At(y, Items(a, c).first * Plane(a))
      /\ OutH(k) = OutH(a) /\ OutW(k) = OutW(a)
      /\ k.F = Items(a, c).last - Items(a, c).first
      /\ k.h \in 0..(OutH(a) - 1) /\ k.w \in 0..(OutW(a) - 1)
  BY DEF ConvHome
<1>2. ItemFloats(a) = Plane(a) /\ Plane(k) = Plane(a)
  BY <1>1 DEF ItemFloats, Plane
<1>3. k.F \in Nat /\ Plane(k) \in Nat /\ OutH(a) \in Nat /\ OutW(a) \in Nat
  <2>1. /\ Items(a, c).last \in Nat /\ Items(a, c).first \in Nat
        /\ Items(a, c).first <= Items(a, c).last
    BY ItemsAre
  <2>2. OutH(a) \in Nat /\ OutW(a) \in Nat /\ Plane(a) \in Nat
    BY <1>1, PlaneIs
  <2>3. QED BY <1>1, <1>2, <2>1, <2>2
<1>4. ASSUME NEW n \in Nat, n < k.F * Plane(k) PROVE At(k.Y, n) \in Share(a, y, c)
  <2>1. n < (Items(a, c).last - Items(a, c).first) * ItemFloats(a)
    BY <1>1, <1>2, <1>4
  <2>2. At(At(y, Items(a, c).first * ItemFloats(a)), n) \in Share(a, y, c)
    BY <2>1, InShare
  <2>3. QED BY <1>1, <1>2, <2>2
<1>5. \A n \in 0..(k.F * Plane(k) - 1) : At(k.Y, n) \in Share(a, y, c)
  <2>1. k.F * Plane(k) \in Nat
    BY <1>3, Scaling
  <2>2. QED BY <1>4, <2>1
<1>6. ASSUME NEW f \in 0..(k.F - 1)
      PROVE  At(k.Y, f * Plane(k) + k.h * OutW(k) + k.w) \in Share(a, y, c)
  <2> DEFINE x == k.h * OutW(a) + k.w
  <2>1. x \in Nat /\ x < Plane(k)
    BY <1>1, <1>2, <1>3, RowWithin DEF Plane
  <2> HIDE DEF x
  <2>2. f * Plane(k) + x \in Nat /\ f * Plane(k) + x < k.F * Plane(k)
    BY <1>3, <2>1, RowWithin
  <2>3. At(k.Y, f * Plane(k) + x) \in Share(a, y, c)
    BY <1>4, <2>2
  <2>4. f * Plane(k) + x = f * Plane(k) + k.h * OutW(k) + k.w
    <3>1. f * Plane(k) \in Nat /\ k.h * OutW(a) \in Nat /\ k.w \in Nat
      <4>1. f \in Nat /\ k.h \in Nat /\ k.w \in Nat
        BY <1>1, <1>3
      <4>2. QED BY <1>3, <4>1, Scaling
    <3>2. QED BY <1>1, <3>1 DEF x
  <2>5. QED BY <2>3, <2>4
<1>7. QED BY <1>3, <1>5, <1>6

LEMMA ConvStores ==
  ASSUME StreamInv, ArgsInv, HomeInv, NEW c \in Cores, ConvPixel(c) \/ ConvTail(c) \/ ConvGeneric(c)
  PROVE  Elsewhere(mem, mem', Own(c))
<1> DEFINE k == call[c]
           U == F_UNROLL
           N == k.F * Plane(k)
           y(u) == At(k.Y, (k.f + u) * Plane(k) + k.h * OutW(k) + k.w)
           p == At(k.Y, k.f * Plane(k) + k.h * OutW(k) + k.w)
           z(n) == At(k.Y, n)
<1>1. \/ k.f < (k.F \div U) * U /\ \E v : mem' = StoreAll(mem, y, U, v)
      \/ \E v : mem' = Store(mem, p, v)
      \/ \E v : mem' = StoreAll(mem, z, N, v)
  BY DEF ConvPixel, ConvTail, ConvGeneric
<1>2. k.fn \in {"conv", "conv_generic"}
  BY DEF ConvPixel, ConvTail, ConvGeneric, In
<1>3. job \in Jobs /\ args.Y \in Nat /\ ConvHome(k, job, args.Y, c)
  BY <1>2, HomeIs, OutputOfCall
<1> HIDE DEF k
<1>4. /\ k.F \in Nat
      /\ k.f \in 0..(k.F - 1)
      /\ k.f < (k.F \div F_UNROLL) * F_UNROLL => \E q \in Nat : k.f = q * F_UNROLL
  BY <1>3, PlanesHome DEF ConvHome
<1>5. \A n \in 0..(N - 1) : z(n) \in Own(c)
  BY <1>3, PlanesHome DEF Own
<1>6. p \in Own(c)
  BY <1>3, <1>4, PlanesHome DEF Own
<1>7. ASSUME k.f < (k.F \div U) * U, NEW u \in 0..(U - 1) PROVE y(u) \in Own(c)
  <2>1. U \in Nat \ {0} /\ k.f \in Nat
    BY <1>4, MachineAssumption
  <2>2. k.f + u \in 0..(k.F - 1)
    BY <1>4, <1>7, <2>1, WholeBlock
  <2>3. QED BY <1>3, <2>2, PlanesHome DEF Own
<1> HIDE DEF y, z, p, N, U
<1>8. CASE k.f < (k.F \div U) * U /\ \E v : mem' = StoreAll(mem, y, U, v)
  <2>1. Elsewhere(mem, mem', {y(u) : u \in 0..(U - 1)})
    BY <1>8 DEF StoreAll, Elsewhere
  <2>2. {y(u) : u \in 0..(U - 1)} \subseteq Own(c)
    BY <1>7, <1>8
  <2>3. QED BY <2>1, <2>2, StoredWithin
<1>9. CASE \E v : mem' = Store(mem, p, v)
  <2>1. Elsewhere(mem, mem', {p})
    BY <1>9, OneStored
  <2>2. QED BY <1>6, <2>1, StoredWithin
<1>10. CASE \E v : mem' = StoreAll(mem, z, N, v)
  <2>1. Elsewhere(mem, mem', {z(n) : n \in 0..(N - 1)})
    BY <1>10 DEF StoreAll, Elsewhere
  <2>2. {z(n) : n \in 0..(N - 1)} \subseteq Own(c)
    BY <1>5
  <2>3. QED BY <2>1, <2>2, StoredWithin
<1>11. QED BY <1>1, <1>8, <1>9, <1>10

\* Where a call to the front-end stores: features in its share, the rest in its slab.
LEMMA FeaturesHome ==
  ASSUME PlanInv, phase = "run", error = "none", job \in Jobs, args.Y \in Nat, NEW c \in Cores, NEW k, NEW b,
         MfccHome(k, job, args.Y, scratch, c, b)
  PROVE  /\ job.nb_cep \in Nat /\ NbMel(job) \in Nat \ {0} /\ job.fft_len \in Nat
         /\ \A x \in 0..(job.nb_cep - 1) : Cepstrum(k, x) \in Own(c)
         /\ \A n \in 0..(job.fft_len - 1) : At(k.re, n) \in Own(c) /\ At(k.im, n) \in Own(c)
         /\ \A m \in 0..(NbMel(job) - 1) : At(k.mel, m) \in Own(c)
<1> DEFINE re == scratch.base + c * scratch.stride
           N == 2 * job.fft_len + NbMel(job)
<1>1. /\ job.kernel = "mfcc" /\ k.Y = At(args.Y, Items(job, c).first * job.nb_cep)
      /\ k.frames = Items(job, c).last - Items(job, c).first /\ k.t \in 0..(k.frames - 1)
      /\ k.re = re /\ k.im = At(re, job.fft_len) /\ k.mel = At(re, 2 * job.fft_len)
  BY DEF MfccHome
<1>2. job.nb_cep \in Nat /\ NbMel(job) \in Nat \ {0} /\ job.fft_len \in Nat
  <2>1. Extents \subseteq Nat
    BY WordAssumption DEF Extents
  <2>2. job.nb_cep \in Extents /\ job.fft_len \in Extents
    BY <1>1, BuffersFit
  <2>3. NbMel(job) \in Extents \ {0}
    BY <1>1, JobsAssumption
  <2>4. QED BY <2>1, <2>2, <2>3
<1>3. ASSUME NEW x \in 0..(job.nb_cep - 1) PROVE Cepstrum(k, x) \in Own(c)
  <2>1. ItemFloats(job) = job.nb_cep
    BY <1>1 DEF ItemFloats
  <2>2. /\ Items(job, c).last \in Nat /\ Items(job, c).first \in Nat
        /\ Items(job, c).first <= Items(job, c).last
    BY ItemsAre
  <2>3. k.t * job.nb_cep + x \in Nat /\ k.t * job.nb_cep + x < k.frames * job.nb_cep
    <3>1. k.frames \in Nat
      BY <1>1, <2>2
    <3>2. QED BY <1>1, <1>2, <3>1, RowWithin
  <2>4. At(At(args.Y, Items(job, c).first * ItemFloats(job)), k.t * job.nb_cep + x) \in Share(job, args.Y, c)
    BY <1>1, <2>1, <2>3, InShare
  <2>5. QED BY <1>1, <2>1, <2>4 DEF Cepstrum, Own
<1>4. re \in Nat
  <2>1. plan_scratch(job) # 0 => re \in Nat
    BY LaidOut
  <2>2. plan_scratch(job) # 0
    <3>1. N \in Nat \ {0} /\ N * FloatBytes < Word /\ Word \in Nat \ {0} /\ FloatBytes \in Nat \ {0}
      BY <1>1, <1>2, BuffersFit, WordAssumption, MachineAssumption
    <3>2. plan_scratch(job) = N * FloatBytes % Word
      BY <1>1 DEF plan_scratch
    <3> HIDE DEF N
    <3> DEFINE z == N * FloatBytes
    <3>3. z \in Nat /\ z < Word /\ z # 0
      <4>1. 1 * FloatBytes <= N * FloatBytes /\ 1 * FloatBytes = FloatBytes /\ N * FloatBytes \in Nat
        BY <3>1, Scaling
      <4>2. QED BY <3>1, <4>1
    <3> HIDE DEF z
    <3>4. z % Word = z
      BY <3>1, <3>3
    <3>5. QED BY <3>2, <3>3, <3>4 DEF z
  <2>3. QED BY <2>1, <2>2
<1>5. ASSUME NEW n \in Nat, n < N PROVE At(re, n) \in Own(c)
  BY <1>1, <1>4, <1>5, InSlab DEF Own
<1>6. ASSUME NEW m \in Nat, NEW n \in Nat PROVE At(At(re, m), n) = At(re, m + n)
  <2>1. FloatBytes \in Nat
    BY MachineAssumption
  <2> HIDE DEF re
  <2>2. m * FloatBytes \in Nat /\ n * FloatBytes \in Nat
        /\ m * FloatBytes + n * FloatBytes = (m + n) * FloatBytes
    BY <2>1, Scaling
  <2>3. QED BY <1>4, <2>2 DEF At
<1> HIDE DEF re
<1>7. \A n \in 0..(job.fft_len - 1) : At(k.re, n) \in Own(c) /\ At(k.im, n) \in Own(c)
  <2> SUFFICES ASSUME NEW n \in 0..(job.fft_len - 1)
               PROVE  At(re, n) \in Own(c) /\ At(At(re, job.fft_len), n) \in Own(c)
    BY <1>1
  <2>1. n \in Nat /\ n < N /\ job.fft_len + n \in Nat /\ job.fft_len + n < N
    BY <1>2
  <2>2. At(re, n) \in Own(c) /\ At(re, job.fft_len + n) \in Own(c)
    BY <1>5, <2>1
  <2>3. At(At(re, job.fft_len), n) = At(re, job.fft_len + n)
    BY <1>2, <1>6, <2>1
  <2>4. QED BY <2>2, <2>3
<1>8. \A m \in 0..(NbMel(job) - 1) : At(k.mel, m) \in Own(c)
  <2> SUFFICES ASSUME NEW m \in 0..(NbMel(job) - 1) PROVE At(At(re, 2 * job.fft_len), m) \in Own(c)
    BY <1>1
  <2>1. m \in Nat /\ 2 * job.fft_len \in Nat /\ 2 * job.fft_len + m < N
    BY <1>2
  <2>2. At(re, 2 * job.fft_len + m) \in Own(c)
    BY <1>5, <2>1
  <2>3. At(At(re, 2 * job.fft_len), m) = At(re, 2 * job.fft_len + m)
    BY <1>6, <2>1
  <2>4. QED BY <2>2, <2>3
<1>9. QED BY <1>2, <1>3, <1>7, <1>8

LEMMA MfccStores ==
  ASSUME StreamInv, ArgsInv, PlanInv, HomeInv, NEW c \in Cores,
         MfccWindow(c) \/ MfccSpectrum(c) \/ MelFilter(c) \/ DctBlock(c) \/ DctTail(c)
  PROVE  Elsewhere(mem, mem', Own(c))
<1> DEFINE k == call[c]
           U == MFCC_UNROLL
           n == job.fft_len
           re(i) == At(k.re, i)
           im(i) == At(k.im, i)
           y(u) == Cepstrum(k, k.c + u)
           R == {re(i) : i \in 0..(n - 1)}
           I == {im(i) : i \in 0..(n - 1)}
<1>1. k.fn = "mfcc"
  BY DEF MfccWindow, MfccSpectrum, MelFilter, DctBlock, DctTail, In
<1>2. /\ job \in Jobs /\ args.Y \in Nat /\ phase = "run" /\ error = "none"
      /\ MfccHome(k, job, args.Y, scratch, c, MfccBlocks(job.nb_cep))
  BY <1>1, HomeIs, OutputOfCall
<1>3. k.at = "mel" => k.m \in 0..(NbMel(job) - 1)
  BY <1>1, MfccInCall
<1>4. k.at = "dct" => /\ k.c \in 0..(job.nb_cep - 1)
                      /\ k.c < MfccBlocks(job.nb_cep) * U => \E q \in Nat : k.c = q * U
  BY <1>2 DEF MfccHome
<1> DEFINE p == At(k.mel, k.m)
           z == Cepstrum(k, k.c)
<1>5. \/ \E v, w : mem' = StoreAll(StoreAll(mem, re, n, v), im, n, w)
      \/ k.at = "mel" /\ \E v : mem' = Store(mem, p, v)
      \/ /\ k.at = "dct" /\ k.c < MfccBlocks(job.nb_cep) * U
         /\ \E v : mem' = StoreAll(mem, y, U, v)
      \/ k.at = "dct" /\ \E v : mem' = Store(mem, z, v)
  BY Zenon DEF MfccWindow, MfccSpectrum, MelFilter, DctBlock, DctTail
<1> HIDE DEF k
<1>6. /\ job.nb_cep \in Nat /\ NbMel(job) \in Nat \ {0} /\ job.fft_len \in Nat
      /\ \A x \in 0..(job.nb_cep - 1) : Cepstrum(k, x) \in Own(c)
      /\ \A i \in 0..(n - 1) : re(i) \in Own(c) /\ im(i) \in Own(c)
      /\ \A m \in 0..(NbMel(job) - 1) : At(k.mel, m) \in Own(c)
  BY <1>2, FeaturesHome
<1>7. ASSUME k.at = "dct", k.c < MfccBlocks(job.nb_cep) * U, NEW u \in 0..(U - 1)
      PROVE  y(u) \in Own(c)
  <2>1. U \in Nat \ {0} /\ k.c \in Nat
    BY <1>4, <1>6, <1>7, MachineAssumption
  <2>2. MfccBlocks(job.nb_cep) = job.nb_cep \div U
    <3>1. engine # "snitch" => MfccBlocks(job.nb_cep) = 0
      BY DEF MfccBlocks
    <3>2. 0 * U = 0
      BY <2>1
    <3>3. engine = "snitch"
      BY <1>7, <2>1, <3>1, <3>2
    <3>4. QED BY <3>3 DEF MfccBlocks
  <2>3. \E q \in Nat : k.c = q * U
    BY <1>4, <1>7
  <2> HIDE DEF U
  <2>4. k.c + u \in 0..(job.nb_cep - 1)
    BY <1>6, <1>7, <2>1, <2>2, <2>3, WholeBlock
  <2>5. QED BY <1>6, <2>4
<1>8. R \subseteq Own(c) /\ I \subseteq Own(c)
  BY <1>6
<1>9. CASE \E v, w : mem' = StoreAll(StoreAll(mem, re, n, v), im, n, w)
  <2> HIDE DEF re, im, n
  <2>1. PICK v, w : mem' = StoreAll(StoreAll(mem, re, n, v), im, n, w)
    BY <1>9
  <2> DEFINE o == StoreAll(mem, re, n, v)
  <2>2. Elsewhere(mem, o, R)
    BY DEF StoreAll, Elsewhere
  <2> HIDE DEF o
  <2>3. mem' = StoreAll(o, im, n, w)
    BY <2>1 DEF o
  <2>4. Elsewhere(o, mem', I)
    BY <2>3 DEF StoreAll, Elsewhere
  <2>5. QED BY <1>8, <2>2, <2>4, StoredTwice
<1>10. CASE k.at = "mel" /\ \E v : mem' = Store(mem, p, v)
  <2>1. {p} \subseteq Own(c)
    BY <1>3, <1>6, <1>10 DEF k
  <2> HIDE DEF p
  <2>2. Elsewhere(mem, mem', {p})
    BY <1>10, OneStored
  <2>3. QED BY <2>1, <2>2, StoredWithin
<1>11. CASE /\ k.at = "dct" /\ k.c < MfccBlocks(job.nb_cep) * U
            /\ \E v : mem' = StoreAll(mem, y, U, v)
  <2>1. {y(u) : u \in 0..(U - 1)} \subseteq Own(c)
    <3> HIDE DEF y, U
    <3>1. QED BY <1>7, <1>11
  <2> HIDE DEF y, U
  <2>2. Elsewhere(mem, mem', {y(u) : u \in 0..(U - 1)})
    BY <1>11 DEF StoreAll, Elsewhere
  <2>3. QED BY <2>1, <2>2, StoredWithin
<1>12. CASE k.at = "dct" /\ \E v : mem' = Store(mem, z, v)
  <2>1. {z} \subseteq Own(c)
    BY <1>4, <1>6, <1>12 DEF k
  <2> HIDE DEF z
  <2>2. Elsewhere(mem, mem', {z})
    BY <1>12, OneStored
  <2>3. QED BY <2>1, <2>2, StoredWithin
<1>13. QED BY <1>5, <1>9, <1>10, <1>11, <1>12

\* A core changes no float but those of its share of the output and its slab.
StoresStayHome == \A c \in Cores : Step(c) => Elsewhere(mem, mem', Own(c))

LEMMA StepsStayHome ==
  ASSUME StreamInv, ArgsInv, PlanInv, HomeInv
  PROVE  StoresStayHome
<1> SUFFICES ASSUME NEW c \in Cores, Step(c) PROVE Elsewhere(mem, mem', Own(c))
  BY DEF StoresStayHome
<1>1. CASE RunSlice(c)
  <2>1. mem' = mem
    BY <1>1 DEF RunSlice
  <2>2. QED BY <2>1 DEF Elsewhere
<1>2. QED BY <1>1, GemmBlockStores, GemmTailStores, GemmGenericStores, RvvBlockStores, ConvStores,
           MfccStores DEF Step

\* For every kernel, shape and number of cores, staged or not, streamed, vectored or
\* portable: what a core stores is in the items slice() gave it or in its own slab, the
\* last block of a row, a plane or a frame included.
THEOREM StoresTheorem == Spec => [][StoresStayHome]_vars
<1>1. StreamInv /\ ArgsInv /\ PlanInv /\ HomeInv => StoresStayHome
  BY StepsStayHome
<1>2. QED BY <1>1, StreamInitially, StreamsKept, ArgsKept, PlanKept, HomeKept, PTL DEF Spec

\* No transfer is under way while the kernels run.
RunsAlone == phase = "run" => transfers = << >>

LEMMA RunsAloneKept == (Init => RunsAlone) /\ (RunsAlone /\ [Next]_vars => RunsAlone')
<1>1. ASSUME RunsAlone, [Next]_vars PROVE RunsAlone'
  <2>1. CASE \/ \E a \in Jobs : Serve(a)
             \/ Transfer \/ Release \/ StageOut \/ Publish \/ UNCHANGED vars
    BY <1>1, <2>1 DEF RunsAlone, Serve, Transfer, Release, StageOut, Publish, hes_dma_wait, vars
  <2>2. ASSUME NEW c \in Cores, Step(c) PROVE RunsAlone'
    BY <1>1, <2>2, HeldIs DEF RunsAlone
  <2>3. QED BY <1>1, <2>1, <2>2 DEF Next
<1>2. QED BY <1>1 DEF Init, RunsAlone

\* While a staged job runs, what a kernel reads of an input stays, and what it left in
\* its slab and its share is as it left it when another core has taken a step.
NothingIsDisturbed ==
  phase = "run" /\ staged /\ error = "none" =>
    LET ops == plan_operands(job)
        bytes(i) == args[ops[i].arg]..(args[ops[i].arg] + ops[i].bytes - 1)
    IN /\ \A i \in DOMAIN ops :
            ~ops[i].is_output => \A x \in bytes(i) : Read(mem', x) = Read(mem, x)
       /\ \A c, d \in Cores : Step(c) /\ c # d => \A x \in Own(d) : Read(mem', x) = Read(mem, x)

LEMMA ReadElsewhere ==
  ASSUME NEW m, NEW n, NEW own, Elsewhere(m, n, own), NEW x, x \notin own
  PROVE  Read(n, x) = Read(m, x)
BY DEF Elsewhere, Read

\* The cores of a staged job neither race nor overwrite what they compute from, for
\* every job and number of cores: what each reads of operands and of its own buffers
\* does not depend on how the others are interleaved with it.
THEOREM UndisturbedTheorem == Spec => [][NothingIsDisturbed]_vars
<1>1. ASSUME CoresApart, StoresStayHome, RunsAlone, [Next]_vars PROVE NothingIsDisturbed
  <2> SUFFICES ASSUME phase = "run", staged, error = "none" PROVE NothingIsDisturbed
    BY DEF NothingIsDisturbed
  <2> DEFINE ops == plan_operands(job)
             bytes(i) == args[ops[i].arg]..(args[ops[i].arg] + ops[i].bytes - 1)
  <2>1. /\ \A c, d \in Cores : c # d => Own(c) \cap Own(d) = {}
        /\ \A c \in Cores : \A i \in DOMAIN ops : ~ops[i].is_output => Own(c) \cap bytes(i) = {}
    <3>1. /\ \A c, d \in Cores : c # d =>
               /\ Share(job, args.Y, c) \cap Share(job, args.Y, d) = {}
               /\ Slab(job, scratch, c) \cap Slab(job, scratch, d) = {}
          /\ \A c, d \in Cores : Share(job, args.Y, c) \cap Slab(job, scratch, d) = {}
          /\ \A c \in Cores : \A i \in DOMAIN ops : ~ops[i].is_output => Own(c) \cap bytes(i) = {}
      BY <1>1 DEF CoresApart
    <3> HIDE DEF ops, bytes
    <3>2. ASSUME NEW c \in Cores, NEW d \in Cores, c # d PROVE Own(c) \cap Own(d) = {}
      BY <3>1, <3>2 DEF Own
    <3>3. QED BY <3>1, <3>2
  <2> HIDE DEF ops, bytes
  <2>2. ASSUME NEW c \in Cores, Step(c), NEW x, x \notin Own(c) PROVE Read(mem', x) = Read(mem, x)
    BY <1>1, <2>2, ReadElsewhere DEF StoresStayHome
  <2>3. mem' = mem \/ \E c \in Cores : Step(c)
    BY <1>1 DEF Next, Serve, Transfer, Release, StageOut, Publish, RunsAlone, vars
  <2>4. ASSUME NEW i \in DOMAIN ops, ~ops[i].is_output, NEW x \in bytes(i)
        PROVE  Read(mem', x) = Read(mem, x)
    <3>1. CASE mem' = mem
      BY <3>1
    <3>2. ASSUME NEW c \in Cores, Step(c) PROVE Read(mem', x) = Read(mem, x)
      BY <2>1, <2>2, <2>4, <3>2
    <3>3. QED BY <2>3, <3>1, <3>2
  <2>5. ASSUME NEW c \in Cores, NEW d \in Cores, Step(c), c # d, NEW x \in Own(d)
        PROVE  Read(mem', x) = Read(mem, x)
    BY <2>1, <2>2, <2>5
  <2>6. QED BY <2>4, <2>5 DEF NothingIsDisturbed, ops, bytes
<1>2. PlanInv /\ ArgsInv => CoresApart
  BY CoresLaidApart
<1>3. StreamInv /\ ArgsInv /\ PlanInv /\ HomeInv => StoresStayHome
  BY StepsStayHome
<1>4. QED BY <1>1, <1>2, <1>3, StreamInitially, StreamsKept, ArgsKept, PlanKept, HomeKept,
           RunsAloneKept, PTL DEF Spec
=============================================================================
