-------------------------------- MODULE Fft --------------------------------
(***************************************************************************)
(* fft_radix2 of the MFCC front-end.  The complex numbers are replaced by  *)
(* the integers modulo 17, whose element 3 has order 16: any identity that *)
(* holds of sums and products with an n-th root of unity can be computed   *)
(* with RootOfUnity(n) there, exactly and without rounding.                *)
(***************************************************************************)
EXTENDS Naturals

Prime     == 17
Generator == 3

Power3(e) == LET p[k \in 0..15] == IF k = 0 THEN 1 ELSE (p[k - 1] * Generator) % Prime
             IN p[e % 16]

\* twiddles[k], k < n/2: the k-th power of a primitive n-th root of unity.
Twiddle(n, k) == Power3((16 \div n) * k)

Bits(n) == CHOOSE b \in 0..4 : 2 ^ b = n

bit_reverse(i, bits) ==
  LET r[b \in 0..bits] ==
        IF b = 0 THEN 0 ELSE 2 * r[b - 1] + ((i \div 2 ^ (b - 1)) % 2)
  IN r[bits]

\* The in-place permutation: every pair is exchanged once, by its lower index.
Shuffled(x, n) ==
  LET v[i \in 0..n] ==
        IF i = 0 THEN x
        ELSE LET j == bit_reverse(i - 1, Bits(n))
                 u == v[i - 1]
             IN IF j > i - 1 THEN [u EXCEPT ![i - 1] = u[j], ![j] = u[i - 1]] ELSE u
  IN v[n]

\* The n/2 butterflies of the stage whose blocks are len long.
Stage(v, n, len) ==
  LET half == len \div 2
      step == n \div len
  IN [k \in 0..(n - 1) |->
       LET j == k % len
       IN IF j < half
          THEN (v[k] + Twiddle(n, j * step) * v[k + half]) % Prime
          ELSE (v[k - half] + (Prime - Twiddle(n, (j - half) * step)) * v[k]) % Prime]

fft_radix2(x, n) ==
  LET v[s \in 0..Bits(n)] ==
        IF s = 0 THEN Shuffled(x, n) ELSE Stage(v[s - 1], n, 2 ^ s)
  IN v[Bits(n)]

\* What it must compute, by definition: bin b of the transform of the i-th
\* unit vector is the root of unity to the power b * i.
TransformsBin(n, b) ==
  \A i \in 0..(n - 1) :
    fft_radix2([k \in 0..(n - 1) |-> IF k = i THEN 1 ELSE 0], n)[b]
      = Power3((16 \div n) * ((b * i) % n))
=============================================================================
