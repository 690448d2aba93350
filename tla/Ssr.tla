-------------------------------- MODULE Ssr --------------------------------
(***************************************************************************)
(* A data mover of the Snitch core's stream semantic registers, and the    *)
(* macros of runtime/snitch/snitch_ssr.h that program it.  A mover keeps   *)
(* its configuration registers until they are written again, whichever     *)
(* kernel wrote them; while the streams are enabled every floating-point   *)
(* instruction that reads ft0 or ft1 takes one element.                    *)
(***************************************************************************)
EXTENDS Naturals, Sequences, FiniteSets

CONSTANT Word                          \* registers and addresses wrap at Word

ASSUME WordAssumption == Word \in Nat \ {0}

Levels == 0..3

Minus(a, b) == (a + Word - (b % Word)) % Word

\* What a mover holds before any kernel has touched it.
ResetMover ==
  [bounds |-> [l \in Levels |-> 0], strides |-> [l \in Levels |-> 0],
   repeat |-> 0, dims |-> 1, ptr |-> 0, idx |-> [l \in Levels |-> 0],
   rep |-> 0, live |-> FALSE, starved |-> FALSE]

\* The distance a level travels in all its iterations, and the levels below l.
Leg(b, s, i) == s[i] * Minus(b[i], 1)
Travelled(b, s, l) ==
  ((IF l > 0 THEN Leg(b, s, 1) ELSE 0) + (IF l > 1 THEN Leg(b, s, 2) ELSE 0)
     + (IF l > 2 THEN Leg(b, s, 3) ELSE 0)) % Word

\* ssr_loop_1d..4d: b and s are iteration counts and strides, innermost first.
\* Bounds hold count - 1; the stride of a level is the step it takes less the
\* distance the levels inside it have already travelled.
Loop(d, b, s) ==
  [d EXCEPT
    !.bounds  = [l \in Levels |-> IF l < Len(b) THEN Minus(b[l + 1], 1) ELSE @[l]],
    !.strides = [l \in Levels |->
                  IF l < Len(b) THEN Minus(s[l + 1], Travelled(b, s, l)) ELSE @[l]]]

\* ssr_repeat: deliver every element count times before advancing.
Repeat(d, count) == [d EXCEPT !.repeat = Minus(count, 1)]

\* ssr_read: writing the pointer selects the dimension and rewinds the counters.
Arm(d, dims, p) ==
  [d EXCEPT !.dims = dims, !.ptr = p % Word, !.idx = [l \in Levels |-> 0],
            !.rep = 0, !.live = TRUE]

\* The loop levels of a stream that still have an iteration to go.
Going(d) == {l \in 0..(d.dims - 1) : d.idx[l] < d.bounds[l]}

\* An element has been delivered repeat + 1 times: the innermost level that
\* can go on does, and the levels inside it start again.
Advance(d) ==
  IF Going(d) = {} THEN [d EXCEPT !.rep = 0, !.live = FALSE]
  ELSE LET w == CHOOSE l \in Going(d) : \A k \in Going(d) : l <= k
       IN [d EXCEPT !.rep = 0,
                    !.ptr = (@ + d.strides[w]) % Word,
                    !.idx = [l \in Levels |-> IF l < w THEN 0
                                              ELSE IF l = w THEN @[l] + 1
                                              ELSE @[l]]]

\* One floating-point instruction has read the mover's register, or waits for an
\* element of a stream that has none left.
Pop(d) ==
  IF ~d.live THEN [d EXCEPT !.starved = TRUE]
  ELSE IF d.rep < d.repeat THEN [d EXCEPT !.rep = @ + 1] ELSE Advance(d)
=============================================================================
