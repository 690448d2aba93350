------------------------------ MODULE TcdmPlan ------------------------------
(***************************************************************************)
(* What runtime/mesh/cluster_main.c decides before a job's kernel runs:    *)
(* which buffers the job reads and writes, where they and the per-core     *)
(* scratch go in the cluster's memory, and which share of the job each     *)
(* compute core takes.  Sizes are in bytes, addresses wrap at Word.        *)
(***************************************************************************)
EXTENDS Naturals, Sequences

CONSTANTS Word, FloatBytes, HalfBytes, \* 2^32, sizeof(float32_t), sizeof(uint16_t)
          LineBytes,                   \* 64
          HeapStart, HeapEnd           \* __heap_start and __heap_end

AlignUp(c) == (((c + LineBytes - 1) % Word) \div LineBytes) * LineBytes

\* slice(): compute core idx of nb takes items slice_first to
\* slice_last - 1 of n, the first n % nb cores one more than the others.
slice_first(n, idx, nb) ==
  idx * (n \div nb) + (IF idx < n % nb THEN idx ELSE n % nb)
slice_last(n, idx, nb) ==
  slice_first(n, idx, nb) + n \div nb + (IF idx < n % nb THEN 1 ELSE 0)

OutH(a) == (a.H - a.P) \div a.SP + 1
OutW(a) == (a.W - a.Q) \div a.SQ + 1

Input(arg, bytes)  == [arg |-> arg, is_output |-> FALSE, bytes |-> bytes % Word]
Output(arg, bytes) == [arg |-> arg, is_output |-> TRUE, bytes |-> bytes % Word]

\* The coefficients of all the filters, one after another.
MelOffset(a, m) ==
  LET off[k \in 0..m] == IF k = 0 THEN 0 ELSE off[k - 1] + a.mel_len[k]
  IN off[m]

NbMel(a) == Len(a.mel_len)

plan_operands(a) ==
  LET f == FloatBytes IN
  CASE a.kernel = "matmul" ->
         <<Input("A", a.M * a.N * f), Input("B", a.N * a.O * f),
           Output("Y", a.M * a.O * f)>>
    [] a.kernel = "gemm" ->
         <<Input("A", a.M * a.N * f), Input("B", a.N * a.O * f),
           Input("C", a.M * a.O * f), Output("Y", a.M * a.O * f)>>
    [] a.kernel = "conv" ->
         <<Input("A", a.C * a.H * a.W * f), Input("B", a.F * a.C * a.P * a.Q * f),
           Output("Y", a.F * OutH(a) * OutW(a) * f)>>
         \o (IF a.has_bias THEN <<Input("bias", a.F * f)>> ELSE << >>)
    [] a.kernel = "mfcc" ->
         <<Input("audio", ((a.frames - 1) * a.hop + a.frame_len) * f),
           Output("Y", a.frames * a.nb_cep * f),
           Input("window", a.frame_len * f), Input("twiddles", a.fft_len * f),
           Input("mel_coeff", MelOffset(a, NbMel(a)) * f),
           Input("mel_start", NbMel(a) * HalfBytes),
           Input("mel_len", NbMel(a) * HalfBytes),
           Input("dct", a.nb_cep * NbMel(a) * f)>>

plan_scratch(a) ==
  IF a.kernel = "mfcc" THEN (2 * a.fft_len + NbMel(a)) * FloatBytes % Word ELSE 0

\* reserve_scratch(): one line-aligned slab per compute core at the bottom of
\* the heap, or none (base 0) when they do not fit.
reserve_scratch(a, nb) ==
  LET cursor   == AlignUp(HeapStart)
      per_core == AlignUp(plan_scratch(a))
      end      == (cursor + per_core * nb) % Word
  IN IF plan_scratch(a) = 0 \/ end > HeapEnd
     THEN [base |-> 0, stride |-> 0, cursor |-> cursor]
     ELSE [base |-> cursor, stride |-> per_core, cursor |-> end]

\* stage_in(): the operands are laid out from the cursor, each on a line.
Places(ops, cursor) ==
  LET at[i \in 1..Len(ops)] ==
        IF i = 1 THEN AlignUp(cursor)
        ELSE AlignUp((at[i - 1] + ops[i - 1].bytes) % Word)
  IN at

\* A mutant: an operand fits if it begins inside the heap.
FitsByStart(ops, at) == ops # << >> /\ \A i \in DOMAIN ops : at[i] <= HeapEnd

Fits(ops, at) ==
  ops # << >> /\ \A i \in DOMAIN ops : (at[i] + ops[i].bytes) % Word <= HeapEnd
=============================================================================
