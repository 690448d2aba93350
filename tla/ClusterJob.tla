----------------------------- MODULE ClusterJob -----------------------------
(***************************************************************************)
(* One cluster running jobs, at the level of what its cores read, compute  *)
(* and write: the DMA core reserves scratch and stages operands, every     *)
(* compute core runs its slice, the results are copied out.  The kernels   *)
(* are those of runtime/snitch/kernels (streamed), of                      *)
(* runtime/spatz/kernels/gemm_fp32_rvv.c (vectors) and of                  *)
(* runtime/common/kernels/mfcc_fp32.c (portable).                          *)
(*                                                                         *)
(* A float is the sum it stands for: a sequence of products, each the set  *)
(* of the operand elements multiplied, an element being <<array, index>>.  *)
(* The order of the sequence is the order of accumulation.                 *)
(***************************************************************************)
EXTENDS Ssr, Fft, SequencesExt

CONSTANTS FloatBytes, HalfBytes, LineBytes, HeapStart, HeapEnd,
          MainBase,                    \* where the host's buffers begin
          NbCompute,                   \* compute cores of the cluster
          GEMM_UNROLL, F_UNROLL, MFCC_UNROLL,   \* UNROLL of the three kernels
          ROWS, VLMAX,                 \* rows of a block, elements of a vector group
          Engines, Jobs                \* which clusters, and the jobs posted to them

INSTANCE TcdmPlan

Cores == 0..(NbCompute - 1)

(* What the linker script and the kernels' headers fix.                    *)
ASSUME MachineAssumption ==
  /\ {FloatBytes, HalfBytes, LineBytes, HeapStart, NbCompute,
      GEMM_UNROLL, F_UNROLL, MFCC_UNROLL} \subseteq Nat \ {0}
  /\ {GEMM_UNROLL, F_UNROLL, MFCC_UNROLL} \subseteq 0..Word
  /\ HeapEnd \in Nat /\ HeapStart <= HeapEnd

(* A block of gemm_rvv has rows, and a vector group elements.              *)
ASSUME VectorAssumption == {ROWS, VLMAX} \subseteq Nat \ {0}

(* The host's buffers have addresses.                                      *)
ASSUME MainAssumption == MainBase \in Nat

(* The descriptors: 32-bit extents, and an MFCC job has a filter.          *)
Extents == 0..(Word - 1)
ASSUME JobsAssumption ==
  \A a \in Jobs :
    /\ a.stage \in BOOLEAN
    /\ \/ /\ a.kernel \in {"matmul", "gemm"}
          /\ {a.M, a.N, a.O} \subseteq Extents
       \/ /\ a.kernel = "conv" /\ a.has_bias \in BOOLEAN
          /\ {a.C, a.H, a.W, a.F, a.P, a.Q, a.SP, a.SQ} \subseteq Extents
          /\ a.C * a.P * a.Q < Word
       \/ /\ a.kernel = "mfcc"
          /\ a.mel_len \in Seq(Extents) /\ NbMel(a) \in Extents \ {0}

(* A filter fits the padded input and steps: the 32-bit differences in the *)
(* extents of a convolution's output do not wrap.                          *)
ASSUME FiltersFit ==
  \A a \in Jobs : a.kernel = "conv" => a.P <= a.H /\ a.Q <= a.W /\ a.SP # 0 /\ a.SQ # 0

(* What a job computes and a core's scratch are buffers in a 32-bit        *)
(* address space, and the front-end has features to compute.               *)
ASSUME BuffersFit ==
  \A a \in Jobs :
    /\ a.kernel \in {"matmul", "gemm"} => a.M * a.O * FloatBytes < Word
    /\ a.kernel = "conv" => a.F * OutH(a) * OutW(a) * FloatBytes < Word
    /\ a.kernel = "mfcc" =>
         /\ {a.frames, a.fft_len} \subseteq Extents /\ a.nb_cep \in Extents \ {0}
         /\ a.frames * a.nb_cep * FloatBytes < Word
         /\ (2 * a.fft_len + NbMel(a)) * FloatBytes < Word

(* A frame is no longer than its transform (runtime/common/mfcc.h:53).      *)
ASSUME FramesFit ==
  \A a \in Jobs : a.kernel = "mfcc" => a.frame_len \in 0..a.fft_len

(* No slab and no operand is so large that an address beyond the heap      *)
(* would wrap: the heap is small and lies low in the address space.        *)
ASSUME NothingWraps ==
  \A a \in Jobs :
    /\ plan_scratch(a) \in Nat
    /\ HeapStart + LineBytes + (plan_scratch(a) + LineBytes) * NbCompute <= Word
    /\ \A i \in DOMAIN plan_operands(a) :
         /\ plan_operands(a)[i].bytes \in Nat
         /\ HeapEnd + 2 * LineBytes + plan_operands(a)[i].bytes <= Word

Zero == << >>
Junk == <<{}>>
Element(arr, n) == <<{<<arr, n>>}>>
Times(v, w) == IF Len(v) = 1 /\ Len(w) = 1 THEN <<v[1] \cup w[1]>> ELSE Junk

Read(m, p) == IF p \in DOMAIN m THEN m[p] ELSE Junk
At(p, n) == p + n * FloatBytes

VARIABLES engine,                      \* which cluster this is
          phase,                       \* "idle", "stage_in", "run", "stage_out", "done"
          job, error, staged, args, scratch,
          todo,                        \* compute cores still in the first barrier
          transfers,                   \* copies the DMA engine has yet to make
          mem,                         \* address -> float, main memory and TCDM
          movers,                      \* core -> <<data mover 0, data mover 1>>
          call                         \* core -> the kernel call it is in

vars == <<engine, phase, job, error, staged, args, scratch, todo,
          transfers, mem, movers, call>>

NoCall == [fn |-> "none"]
NoJob  == [kernel |-> "none"]

Init ==
  /\ engine \in Engines
  /\ phase = "idle" /\ job = NoJob /\ error = "none" /\ staged = FALSE
  /\ args = << >> /\ mem = << >>
  /\ scratch = [base |-> 0, stride |-> 0, cursor |-> 0]
  /\ todo = {} /\ transfers = << >>
  /\ movers = [c \in Cores |-> <<ResetMover, ResetMover>>]
  /\ call = [c \in Cores |-> NoCall]

-----------------------------------------------------------------------------
(* The DMA core.                                                           *)

Pointers(ops, at) ==
  [n \in {ops[i].arg : i \in DOMAIN ops} |->
    at[CHOOSE i \in DOMAIN ops : ops[i].arg = n]]

MainPointers(a) == Pointers(plan_operands(a), Places(plan_operands(a), MainBase))

ElementBytes(arg) == IF arg \in {"mel_start", "mel_len"} THEN HalfBytes ELSE FloatBytes

\* An input buffer of bytes bytes at p, every element in its place.
Buffer(arg, p, bytes) ==
  LET size == ElementBytes(arg)
  IN [x \in {p + size * e : e \in 0..((bytes \div size) - 1)} |->
       Element(arg, (x - p) \div size)]

\* Main memory as the host hands it over.
Posted(a) ==
  FoldLeft(LAMBDA m, o : IF o.is_output THEN m
                         ELSE Buffer(o.arg, MainPointers(a)[o.arg], o.bytes) @@ m,
           << >>, plan_operands(a))

hes_dma_copy(m, dst, src, bytes) ==
  LET to == dst..(dst + bytes - 1)
  IN [x \in (DOMAIN m \ to) \cup {x \in to : x - dst + src \in DOMAIN m} |->
       IF x \in to THEN m[x - dst + src] ELSE m[x]]

\* The copies of the operands that are, or are not, written by the kernel.
Copies(ops, outputs, dst, src) ==
  LET moved == SelectSeq(ops, LAMBDA o : o.is_output = outputs)
  IN [i \in DOMAIN moved |->
       [dst |-> dst[moved[i].arg], src |-> src[moved[i].arg], bytes |-> moved[i].bytes]]

\* The flag hes_post() leaves in the descriptor: Spatz sees its own memory only.
Flagged(a) == a.stage \/ engine = "spatz"

\* The descriptor is read, scratch reserved, the copies of the operands queued if
\* they are to be staged and fit, and the job refused if it cannot run.
Serve(a) ==
  LET ops   == plan_operands(a)
      s     == reserve_scratch(a, NbCompute)
      local == Places(ops, s.cursor)
      stays == Flagged(a) /\ Fits(ops, local)
      main  == MainPointers(a)
  IN /\ phase \in {"idle", "done"}
     /\ phase' = "stage_in" /\ job' = a /\ staged' = stays /\ scratch' = s
     /\ args' = IF stays THEN Pointers(ops, local) ELSE main
     /\ transfers' = IF stays THEN Copies(ops, FALSE, args', main) ELSE << >>
     /\ mem' = Posted(a)
     /\ error' = IF engine = "spatz" /\ ~stays THEN "needs_staging"
                 ELSE IF plan_scratch(a) # 0 /\ s.base = 0 THEN "no_scratch"
                 ELSE "none"
     /\ UNCHANGED <<engine, todo, movers, call>>

\* The cluster's DMA engine carries out what is queued, at its own pace.
Transfer ==
  /\ transfers # << >>
  /\ mem' = LET t == Head(transfers) IN hes_dma_copy(mem, t.dst, t.src, t.bytes)
  /\ transfers' = Tail(transfers)
  /\ UNCHANGED <<engine, phase, job, error, staged, args, scratch, todo, movers, call>>

\* A mutant: what has been queued is taken to have been done.
NoWait == TRUE

hes_dma_wait == transfers = << >>

\* The DMA core arrives in the first barrier, which lets the others go.
Release ==
  /\ phase = "stage_in" /\ hes_dma_wait
  /\ phase' = "run" /\ todo' = Cores
  /\ UNCHANGED <<engine, job, error, staged, args, scratch, transfers, mem, movers, call>>

\* A core whose FPU waits for an element of a stream that has none left.
Starved(c) == \E i \in 1..2 : movers[c][i].starved

\* Every compute core is back in the second: the results are copied out.
StageOut ==
  /\ phase = "run" /\ todo = {} /\ \A c \in Cores : call[c] = NoCall /\ ~Starved(c)
  /\ phase' = "stage_out"
  /\ transfers' = IF staged
                  THEN Copies(plan_operands(job), TRUE, MainPointers(job), args)
                  ELSE transfers
  /\ UNCHANGED <<engine, job, error, staged, args, scratch, todo, mem, movers, call>>

\* done_seq: the host may read its buffer.
Publish ==
  /\ phase = "stage_out" /\ hes_dma_wait
  /\ phase' = "done"
  /\ UNCHANGED <<engine, job, error, staged, args, scratch, todo, transfers, mem, movers, call>>

-----------------------------------------------------------------------------
(* Streamed regions.  An FREP of n replays hands the FPU one multiply-add  *)
(* per accumulator and replay; each takes an element from either stream.   *)
(* One that finds a stream with none left waits for ever, and so does its  *)
(* core (Starved, Step): what a starved FREP is said to leave, nothing      *)
(* reads.                                                                  *)

Deliver(m, d) == IF d.live THEN Read(m, d.ptr) ELSE Junk

Fma(m, s, u) ==
  [d |-> <<Pop(s.d[1]), Pop(s.d[2])>>,
   acc |-> [s.acc EXCEPT ![u] = @ \o Times(Deliver(m, s.d[1]), Deliver(m, s.d[2]))]]

Frep(m, d, n, unroll, acc) ==
  LET s[t \in 0..(n * unroll)] ==
        IF t = 0 THEN [d |-> d, acc |-> acc] ELSE Fma(m, s[t - 1], (t - 1) % unroll)
  IN s[n * unroll]

\* The scalar loops that cover what the blocks leave over: n products, the k-th
\* of the floats at a[k] and b[k].
Dot(m, n, a(_), b(_)) == [k \in 1..n |-> Times(Read(m, a(k - 1)), Read(m, b(k - 1)))[1]]

Store(m, p, v) == [x \in {p} \cup DOMAIN m |-> IF x = p THEN v ELSE m[x]]
StoreAll(m, p(_), unroll, v) ==
  LET to == {p(u) : u \in 0..(unroll - 1)}
  IN [x \in to \cup DOMAIN m |->
       IF x \in to THEN v[CHOOSE u \in 0..(unroll - 1) : p(u) = x] ELSE m[x]]

-----------------------------------------------------------------------------
(* run_slice(): the call a compute core makes, with the pointers moved to  *)
(* its share; the prologue of the kernel programs the streams.             *)

Enter(c, k) == call' = [call EXCEPT ![c] = k]

\* The rows of a product that core c computes.  A transposed A is not sliced.
GemmRows(c) ==
  IF job.kernel = "gemm" /\ job.tA
  THEN [first |-> 0, last |-> IF c = 0 THEN job.M ELSE 0]
  ELSE [first |-> slice_first(job.M, c, NbCompute), last |-> slice_last(job.M, c, NbCompute)]

GemmShare(c, fn) ==
  LET r == GemmRows(c)
      bias == job.kernel = "gemm"
  IN [fn |-> fn, A |-> At(args.A, r.first * job.N), B |-> args.B,
      C |-> IF bias THEN At(args.C, r.first * job.O) ELSE 0,
      Y |-> At(args.Y, r.first * job.O),
      M |-> r.last - r.first, N |-> job.N, O |-> job.O,
      tA |-> bias /\ job.tA, tB |-> bias /\ job.tB, i |-> 0, j |-> 0]

\* The loops of gemm_ssr: A held for the columns of a block, B column by column,
\* down the rows, then the next block.
GemmLoops(d, g, blocks) ==
  LET f == FloatBytes
      a == Loop(d[1], <<g.N, blocks, g.M>>,
                IF g.tA THEN <<g.M * f, 0, f>> ELSE <<f, 0, g.N * f>>)
      b == Loop(d[2], <<GEMM_UNROLL, g.N, blocks, g.M>>,
                IF g.tB THEN <<g.N * f, f, GEMM_UNROLL * g.N * f, 0>>
                        ELSE <<f, g.O * f, GEMM_UNROLL * f, 0>>)
  IN <<Arm(Repeat(a, GEMM_UNROLL), 3, g.A), Arm(b, 4, g.B)>>

\* A mutant: every element of A is delivered once, not once a column of the block.
GemmStreamsOnce(d, g) ==
  LET s == GemmLoops(d, g, g.O \div GEMM_UNROLL) IN <<[s[1] EXCEPT !.repeat = 0], s[2]>>

\* A mutant: the columns after the last full block are streamed as well.
GemmStreamsRoundedUp(d, g) == GemmLoops(d, g, (g.O + GEMM_UNROLL - 1) \div GEMM_UNROLL)

GemmStreams(d, g) == GemmLoops(d, g, g.O \div GEMM_UNROLL)

RunGemm(c) ==
  LET r == GemmRows(c)
      empty == r.last <= r.first
      g == GemmShare(c, "gemm")
      streams == engine = "snitch" /\ g.N # 0 /\ g.O >= GEMM_UNROLL
      vectors == engine = "spatz" /\ g.N # 0 /\ g.O # 0 /\ ~g.tA /\ ~g.tB
  IN /\ job.kernel \in {"matmul", "gemm"}
     /\ Enter(c, IF empty THEN NoCall
                 ELSE IF streams THEN g
                 ELSE GemmShare(c, IF vectors THEN "rvv" ELSE "gemm_generic"))
     /\ movers' = IF ~empty /\ streams
                  THEN [movers EXCEPT ![c] = GemmStreams(@, g)] ELSE movers

Taps(k) == k.C * k.P * k.Q

ConvShare(c) ==
  LET first == slice_first(job.F, c, NbCompute)
      taps == Taps(job)
      base == [fn |-> "conv", A |-> args.A, B |-> At(args.B, first * taps),
               bias |-> IF job.has_bias THEN At(args.bias, first) ELSE 0,
               Y |-> At(args.Y, first * OutH(job) * OutW(job)),
               C |-> job.C, H |-> job.H, W |-> job.W, P |-> job.P, Q |-> job.Q,
               SP |-> job.SP, SQ |-> job.SQ, has_bias |-> job.has_bias,
               F |-> slice_last(job.F, c, NbCompute) - first,
               f |-> 0, h |-> 0, w |-> 0]
  IN IF engine = "snitch" /\ base.F >= F_UNROLL /\ taps # 0
     THEN base ELSE [base EXCEPT !.fn = "conv_generic"]

\* The loops are programmed once; the pointers are written at every pixel.
ConvLoops(d, k) ==
  LET f == FloatBytes
  IN <<Repeat(Loop(d[1], <<k.Q, k.P, k.C>>, <<f, k.W * f, k.H * k.W * f>>), F_UNROLL),
       Loop(d[2], <<F_UNROLL, Taps(k)>>, <<Taps(k) * f, f>>)>>

RunConv(c) ==
  LET k == ConvShare(c)
  IN /\ job.kernel = "conv"
     /\ Enter(c, IF k.F = 0 THEN NoCall ELSE k)
     /\ movers' = IF k.fn = "conv" THEN [movers EXCEPT ![c] = ConvLoops(@, k)] ELSE movers

RunMfcc(c) ==
  LET first == slice_first(job.frames, c, NbCompute)
      last  == slice_last(job.frames, c, NbCompute)
      re    == scratch.base + c * scratch.stride
  IN /\ job.kernel = "mfcc"
     /\ Enter(c, IF last <= first THEN NoCall
                 ELSE [fn |-> "mfcc", audio |-> At(args.audio, first * job.hop),
                       Y |-> At(args.Y, first * job.nb_cep), frames |-> last - first,
                       re |-> re, im |-> At(re, job.fft_len), mel |-> At(re, 2 * job.fft_len),
                       at |-> "window", t |-> 0, m |-> 0, off |-> 0, c |-> 0])
     /\ UNCHANGED movers

RunSlice(c) ==
  /\ phase = "run" /\ c \in todo
  /\ todo' = todo \ {c}
  /\ IF error # "none" THEN UNCHANGED <<movers, call>>
     ELSE RunGemm(c) \/ RunConv(c) \/ RunMfcc(c)
  /\ UNCHANGED <<engine, phase, job, error, staged, args, scratch, transfers, mem>>

In(c, fn) == call[c].fn = fn
Held == UNCHANGED <<engine, phase, job, error, staged, args, scratch, todo, transfers>>

-----------------------------------------------------------------------------
(* Matrix products.                                                        *)

\* The columns after g.j, or the next row, or the end of the call.
AfterColumns(g, n) ==
  IF g.j + n < g.O THEN [g EXCEPT !.j = @ + n]
  ELSE IF g.i + 1 < g.M THEN [g EXCEPT !.i = @ + 1, !.j = 0] ELSE NoCall

\* A block of GEMM_UNROLL columns of one row, starting from C.
GemmBlock(c) ==
  /\ In(c, "gemm")
  /\ LET g == call[c]
         y(u) == At(g.Y, g.i * g.O + g.j + u)
         start == [u \in 0..(GEMM_UNROLL - 1) |->
                    IF g.C # 0 THEN Read(mem, At(g.C, g.i * g.O + g.j + u)) ELSE Zero]
         r == Frep(mem, movers[c], g.N, GEMM_UNROLL, start)
     IN /\ g.j < (g.O \div GEMM_UNROLL) * GEMM_UNROLL
        /\ mem' = StoreAll(mem, y, GEMM_UNROLL, r.acc)
        /\ movers' = [movers EXCEPT ![c] = r.d]
        /\ Enter(c, AfterColumns(g, GEMM_UNROLL))
  /\ Held

\* Element (i, j) of the product without streams; C is added at the end.
Product(g, i, j) ==
  LET a(k) == At(g.A, IF g.tA THEN k * g.M + i ELSE i * g.N + k)
      b(k) == At(g.B, IF g.tB THEN j * g.N + k ELSE k * g.O + j)
  IN Dot(mem, g.N, a, b) \o (IF g.C # 0 THEN Read(mem, At(g.C, i * g.O + j)) ELSE Zero)

\* A column past the last full block; the streams keep their position.
GemmTail(c) ==
  /\ In(c, "gemm")
  /\ LET g == call[c]
     IN /\ g.j >= (g.O \div GEMM_UNROLL) * GEMM_UNROLL
        /\ mem' = Store(mem, At(g.Y, g.i * g.O + g.j), Product(g, g.i, g.j))
        /\ Enter(c, AfterColumns(g, 1))
  /\ UNCHANGED movers /\ Held

\* The Generic kernel, for the shapes the others do not take.
GemmGeneric(c) ==
  /\ In(c, "gemm_generic")
  /\ LET g == call[c]
         y(n) == At(g.Y, n)
     IN mem' = StoreAll(mem, y, g.M * g.O,
                        [n \in 0..(g.M * g.O - 1) |-> Product(g, n \div g.O, n % g.O)])
  /\ Enter(c, NoCall) /\ UNCHANGED movers /\ Held

\* gemm_rvv: rows i .. i + rows - 1 of the next vl columns.  The hardware may
\* grant any vl from half the columns left to VLMAX when they are fewer than
\* 2 * VLMAX.
Granted(left) ==
  IF left <= VLMAX THEN {left}
  ELSE IF left < 2 * VLMAX THEN ((left + 1) \div 2)..VLMAX ELSE {VLMAX}

RvvBlock(c) ==
  /\ In(c, "rvv")
  /\ \E vl \in Granted(call[c].O - call[c].j) :
       LET g == call[c]
           rows == IF g.M - g.i < ROWS THEN g.M - g.i ELSE ROWS
           row(n) == g.i + (n \div vl)
           col(n) == g.j + (n % vl)
           a(n, k) == At(g.A, row(n) * g.N + k)
           b(n, k) == At(g.B, col(n) + k * g.O)
           y(n) == At(g.Y, row(n) * g.O + col(n))
           acc(n) == (IF g.C # 0 THEN Read(mem, At(g.C, row(n) * g.O + col(n))) ELSE Zero)
                     \o Dot(mem, g.N, LAMBDA k : a(n, k), LAMBDA k : b(n, k))
       IN /\ mem' = StoreAll(mem, y, rows * vl, [n \in 0..(rows * vl - 1) |-> acc(n)])
          /\ Enter(c, IF g.j + vl < g.O THEN [g EXCEPT !.j = @ + vl]
                      ELSE IF g.i + ROWS < g.M THEN [g EXCEPT !.i = @ + ROWS, !.j = 0]
                      ELSE NoCall)
  /\ UNCHANGED movers /\ Held

-----------------------------------------------------------------------------
(* Convolutions.                                                           *)

Plane(k) == OutH(k) * OutW(k)

AfterPixel(k, n, filters) ==
  IF k.w + 1 < OutW(k) THEN [k EXCEPT !.w = @ + 1]
  ELSE IF k.h + 1 < OutH(k) THEN [k EXCEPT !.h = @ + 1, !.w = 0]
  ELSE IF k.f + n < filters THEN [k EXCEPT !.f = @ + n, !.h = 0, !.w = 0]
  ELSE NoCall

Biased(k, f, v) == IF k.has_bias THEN v \o Read(mem, At(k.bias, f)) ELSE v

\* One pixel of F_UNROLL filters; both streams restart.
ConvPixel(c) ==
  /\ In(c, "conv")
  /\ LET k == call[c]
         y(u) == At(k.Y, (k.f + u) * Plane(k) + k.h * OutW(k) + k.w)
         d == <<Arm(movers[c][1], 3, At(k.A, k.h * k.SP * k.W + k.w * k.SQ)),
                Arm(movers[c][2], 2, At(k.B, k.f * Taps(k)))>>
         r == Frep(mem, d, Taps(k), F_UNROLL, [u \in 0..(F_UNROLL - 1) |-> Zero])
     IN /\ k.f < (k.F \div F_UNROLL) * F_UNROLL
        /\ mem' = StoreAll(mem, y, F_UNROLL,
                           [u \in 0..(F_UNROLL - 1) |-> Biased(k, k.f + u, r.acc[u])])
        /\ movers' = [movers EXCEPT ![c] = r.d]
        /\ Enter(c, AfterPixel(k, F_UNROLL, k.F))
  /\ Held

\* Pixel (h, w) of filter f, tap by tap.
Pixel(k, f, h, w) ==
  LET a(n) == At(k.A, (n \div (k.P * k.Q)) * k.H * k.W
                      + (h * k.SP + ((n \div k.Q) % k.P)) * k.W + w * k.SQ + (n % k.Q))
      b(n) == At(k.B, f * Taps(k) + n)
  IN Biased(k, f, Dot(mem, Taps(k), a, b))

\* A filter past the last full group, one pixel at a time.
ConvTail(c) ==
  /\ In(c, "conv")
  /\ LET k == call[c]
     IN /\ k.f >= (k.F \div F_UNROLL) * F_UNROLL
        /\ mem' = Store(mem, At(k.Y, k.f * Plane(k) + k.h * OutW(k) + k.w),
                        Pixel(k, k.f, k.h, k.w))
        /\ Enter(c, AfterPixel(k, 1, k.F))
  /\ UNCHANGED movers /\ Held

ConvGeneric(c) ==
  /\ In(c, "conv_generic")
  /\ LET k == call[c]
         y(n) == At(k.Y, n)
     IN mem' = StoreAll(mem, y, k.F * Plane(k),
                        [n \in 0..(k.F * Plane(k) - 1) |->
                          Pixel(k, n \div Plane(k), (n % Plane(k)) \div OutW(k), n % OutW(k))])
  /\ Enter(c, NoCall) /\ UNCHANGED movers /\ Held

-----------------------------------------------------------------------------
(* The MFCC front-end, frame by frame.  A streamed kernel runs blocks of   *)
(* MFCC_UNROLL, the portable one has none and its loops are all tail.      *)

MfccBlocks(n) == IF engine = "snitch" THEN n \div MFCC_UNROLL ELSE 0

Bins(a) == a.fft_len \div 2 + 1

\* Frame t through the window, padded with zeros.
MfccWindow(c) ==
  /\ In(c, "mfcc") /\ call[c].at = "window"
  /\ LET k == call[c]
         frame(i) == At(k.audio, k.t * job.hop + i)
         re(i) == At(k.re, i)
         im(i) == At(k.im, i)
         windowed == [i \in 0..(job.fft_len - 1) |->
                       IF i < job.frame_len
                       THEN Times(Read(mem, frame(i)), Read(mem, At(args.window, i)))
                       ELSE Zero]
     IN mem' = StoreAll(StoreAll(mem, re, job.fft_len, windowed),
                        im, job.fft_len, [i \in 0..(job.fft_len - 1) |-> Zero])
  /\ Enter(c, [call[c] EXCEPT !.at = "spectrum"])
  /\ UNCHANGED movers /\ Held

\* Frame g of the job, windowed and padded.
Frame(a, g) ==
  [i \in 0..(a.fft_len - 1) |->
    IF i < a.frame_len THEN <<{<<"audio", g * a.hop + i>>, <<"window", i>>}>> ELSE Zero]

\* The power of the bins of what is in re and im: the floats "power" of the
\* frame whose windowed samples they hold, if the transform is one and its
\* twiddles are the job's.
Powers(re, im, tw) ==
  LET n == job.fft_len
      x == [i \in 0..(n - 1) |-> Read(mem, At(re, i))]
      of == {g \in 0..(job.frames - 1) : x = Frame(job, g)}
      sound == /\ \A i \in 0..(n - 1) : Read(mem, At(im, i)) = Zero
               /\ \A i \in 0..(n - 1) : Read(mem, At(tw, i)) = Element("twiddles", i)
  IN [b \in 0..(n - 1) |->
       IF b < Bins(job) /\ of # {} /\ sound /\ TransformsBin(n, b)
       THEN Element("power", (CHOOSE g \in of : TRUE) * Bins(job) + b) ELSE Junk]

MfccSpectrum(c) ==
  /\ In(c, "mfcc") /\ call[c].at = "spectrum"
  /\ LET k == call[c]
         re(i) == At(k.re, i)
         im(i) == At(k.im, i)
     IN mem' = StoreAll(StoreAll(mem, re, job.fft_len, Powers(k.re, k.im, args.twiddles)),
                        im, job.fft_len, [i \in 0..(job.fft_len - 1) |-> Junk])
  /\ Enter(c, [call[c] EXCEPT !.at = "mel", !.m = 0, !.off = 0])
  /\ UNCHANGED movers /\ Held

\* The energy of filter m of frame g, by definition.
Energy(a, g, m) ==
  [i \in 1..a.mel_len[m + 1] |->
    {<<"power", g * Bins(a) + a.mel_start[m + 1] + i - 1>>,
     <<"mel_coeff", MelOffset(a, m) + i - 1>>}]

\* A filter's products in the order mel_energy adds them: those of the full blocks
\* one accumulator after the other, then the tail.
Strided(e) ==
  LET b == MfccBlocks(Len(e))
  IN [i \in DOMAIN e |-> IF i <= b * MFCC_UNROLL
                          THEN e[((i - 1) % b) * MFCC_UNROLL + ((i - 1) \div b) + 1]
                          ELSE e[i]]

\* logf of an energy, summed in the order of this cluster's kernel.
Logarithm(v) ==
  LET hits == {n \in 0..(job.frames * NbMel(job) - 1) :
                v = Strided(Energy(job, n \div NbMel(job), n % NbMel(job)))}
  IN IF hits = {} THEN Junk ELSE Element("mel", CHOOSE n \in hits : TRUE)

\* The m-th entry of a table the filters are read from.
Entry(arg, m) ==
  LET v == Read(mem, args[arg] + m * HalfBytes)
  IN IF v = Element(arg, m) THEN job[arg][m + 1] ELSE 0

UnitStream(d, n, p) == Arm(Loop(d, <<n>>, <<FloatBytes>>), 1, p)

\* A mutant: the repeat registers are taken to be 1, whoever used them last.
MelStreamsAsLeft(d, n, p, q) == <<UnitStream(d[1], n, p), UnitStream(d[2], n, q)>>

\* The streams of mel_energy: n elements from p and from q, each taken once.
MelStreams(d, n, p, q) ==
  <<UnitStream(Repeat(d[1], 1), n, p), UnitStream(Repeat(d[2], 1), n, q)>>

\* mel_energy: full blocks streamed into MFCC_UNROLL accumulators that are
\* added up, the tail after them.
MelFilter(c) ==
  /\ In(c, "mfcc") /\ call[c].at = "mel"
  /\ LET k == call[c]
         n == Entry("mel_len", k.m)
         full == MfccBlocks(n) * MFCC_UNROLL
         power(i) == At(k.re, Entry("mel_start", k.m) + i)
         coeff(i) == At(args.mel_coeff, k.off + i)
         r == Frep(mem, MelStreams(movers[c], full, power(0), coeff(0)),
                   MfccBlocks(n), MFCC_UNROLL, [u \in 0..(MFCC_UNROLL - 1) |-> Zero])
         acc == FlattenSeq([u \in 1..MFCC_UNROLL |-> r.acc[u - 1]])
         tail == Dot(mem, n - full, LAMBDA i : power(full + i), LAMBDA i : coeff(full + i))
         next == [k EXCEPT !.m = @ + 1, !.off = @ + n]
     IN /\ mem' = Store(mem, At(k.mel, k.m), Logarithm(acc \o tail))
        /\ movers' = IF full # 0 THEN [movers EXCEPT ![c] = r.d] ELSE movers
        /\ Enter(c, IF k.m + 1 < NbMel(job) THEN next ELSE [next EXCEPT !.at = "dct", !.c = 0])
  /\ Held

\* The cepstra after k.c, or the next frame, or the end of the call.
AfterCepstra(k, n) ==
  IF k.c + n < job.nb_cep THEN [k EXCEPT !.c = @ + n]
  ELSE IF k.t + 1 < k.frames THEN [k EXCEPT !.t = @ + 1, !.at = "window"] ELSE NoCall

Cepstrum(k, c) == At(k.Y, k.t * job.nb_cep + c)
DctRow(c) == At(args.dct, c * NbMel(job))

\* A block of MFCC_UNROLL cepstra; both streams are programmed again.
DctBlock(c) ==
  /\ In(c, "mfcc") /\ call[c].at = "dct"
  /\ LET k == call[c]
         f == FloatBytes
         y(u) == Cepstrum(k, k.c + u)
         d == <<Arm(Loop(Repeat(movers[c][1], MFCC_UNROLL), <<NbMel(job)>>, <<f>>), 1, k.mel),
                Arm(Loop(Repeat(movers[c][2], 1), <<MFCC_UNROLL, NbMel(job)>>,
                         <<NbMel(job) * f, f>>), 2, DctRow(k.c))>>
         r == Frep(mem, d, NbMel(job), MFCC_UNROLL, [u \in 0..(MFCC_UNROLL - 1) |-> Zero])
     IN /\ k.c < MfccBlocks(job.nb_cep) * MFCC_UNROLL
        /\ mem' = StoreAll(mem, y, MFCC_UNROLL, r.acc)
        /\ movers' = [movers EXCEPT ![c] = r.d]
        /\ Enter(c, AfterCepstra(k, MFCC_UNROLL))
  /\ Held

DctTail(c) ==
  /\ In(c, "mfcc") /\ call[c].at = "dct"
  /\ LET k == call[c]
     IN /\ k.c >= MfccBlocks(job.nb_cep) * MFCC_UNROLL
        /\ mem' = Store(mem, Cepstrum(k, k.c),
                        Dot(mem, NbMel(job), LAMBDA m : At(DctRow(k.c), m), LAMBDA m : At(k.mel, m)))
        /\ Enter(c, AfterCepstra(k, 1))
  /\ UNCHANGED movers /\ Held

-----------------------------------------------------------------------------
Step(c) ==
  /\ ~Starved(c)
  /\ \/ RunSlice(c)
     \/ GemmBlock(c) \/ GemmTail(c) \/ GemmGeneric(c) \/ RvvBlock(c)
     \/ ConvPixel(c) \/ ConvTail(c) \/ ConvGeneric(c)
     \/ MfccWindow(c) \/ MfccSpectrum(c) \/ MelFilter(c) \/ DctBlock(c) \/ DctTail(c)

Next ==
  \/ \E a \in Jobs : Serve(a)
  \/ Transfer \/ Release \/ StageOut \/ Publish
  \/ \E c \in Cores : Step(c)

Spec == Init /\ [][Next]_vars

-----------------------------------------------------------------------------
(* Properties.                                                             *)

\* The sums the output element n of a job may be: the products of its
\* definition in the order of its loops, with C before or after them.
Meant(a, n) ==
  CASE a.kernel \in {"matmul", "gemm"} ->
         LET i == n \div a.O
             j == n % a.O
             tA == a.kernel = "gemm" /\ a.tA
             tB == a.kernel = "gemm" /\ a.tB
             sum == [k \in 1..a.N |->
                      {<<"A", IF tA THEN (k - 1) * a.M + i ELSE i * a.N + k - 1>>,
                       <<"B", IF tB THEN j * a.N + k - 1 ELSE (k - 1) * a.O + j>>}]
         IN IF a.kernel = "matmul" THEN {sum}
            ELSE {Element("C", n) \o sum, sum \o Element("C", n)}
    [] a.kernel = "conv" ->
         LET f == n \div Plane(a)
             h == (n % Plane(a)) \div OutW(a)
             w == n % OutW(a)
             tap(x) == {<<"A", (x \div (a.P * a.Q)) * a.H * a.W
                               + (h * a.SP + ((x \div a.Q) % a.P)) * a.W
                               + w * a.SQ + (x % a.Q)>>,
                        <<"B", f * Taps(a) + x>>}
         IN {[x \in 1..Taps(a) |-> tap(x - 1)]
             \o (IF a.has_bias THEN Element("bias", f) ELSE Zero)}
    [] a.kernel = "mfcc" ->
         {[m \in 1..NbMel(a) |->
            {<<"mel", (n \div a.nb_cep) * NbMel(a) + m - 1>>,
             <<"dct", (n % a.nb_cep) * NbMel(a) + m - 1>>}]}

OutputSize(a) ==
  CASE a.kernel \in {"matmul", "gemm"} -> a.M * a.O
    [] a.kernel = "conv" -> a.F * Plane(a)
    [] a.kernel = "mfcc" -> a.frames * a.nb_cep

\* A job that was not refused leaves in the host's buffer what its kernel is
\* defined to compute, element by element: however it was cut up and wherever
\* it ran, whatever the cores' streams were left as.
ResultIsReference ==
  phase = "done" /\ error = "none" =>
    \A n \in 0..(OutputSize(job) - 1) : Read(mem, At(MainPointers(job).Y, n)) \in Meant(job, n)

\* The counts of loops and FREP agree: no core waits for an element of a stream
\* that has none left, and a core between kernels has no stream with an element
\* left to deliver.
StreamsAreSpent ==
  \A c \in Cores :
    /\ ~Starved(c)
    /\ call[c] = NoCall => \A i \in 1..2 : ~movers[c][i].live

\* While a job runs, what reserve_scratch() and stage_in() laid out in the
\* cluster's memory - the operands and a slab for every core - are pieces that
\* do not meet and do not leave the heap.
PlanIsSound ==
  phase = "run" /\ error = "none" =>
    LET ops == plan_operands(job)
        operands == IF staged
                    THEN {<<args[ops[i].arg], ops[i].bytes>> : i \in DOMAIN ops} ELSE {}
        slabs == IF plan_scratch(job) = 0 THEN {}
                 ELSE {<<scratch.base + c * scratch.stride, plan_scratch(job)>> : c \in Cores}
        pieces == {p \in operands \cup slabs : p[2] > 0}
    IN /\ \A p \in pieces : HeapStart <= p[1] /\ p[1] + p[2] <= HeapEnd
       /\ \A p, q \in pieces : p # q => p[1] + p[2] <= q[1] \/ q[1] + q[2] <= p[1]
       /\ Cardinality(slabs) \in {0, NbCompute}
=============================================================================
