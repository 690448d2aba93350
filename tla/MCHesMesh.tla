------------------------------ MODULE MCHesMesh ------------------------------
(***************************************************************************)
(* Instances of HesMesh for TLC.  The kernels differ in the slot of their  *)
(* output (a MatMul writes args[2], a Gemm args[3] and reads args[2]) and  *)
(* in whether they need scratch.                                           *)
(***************************************************************************)
EXTENDS HesMeshOffload, TLC

CONSTANTS sn, sp, c1, c2, c3, A, C, X, Y, W

MCKernels == {"matmul", "gemm", "mfcc"}
MCSlots   == 1..3
MCBuffers == {A, C, X, Y, W}
MCOutSlot == [k \in MCKernels |-> CASE k = "matmul" -> 2 [] k = "gemm" -> 3 [] k = "mfcc" -> 1]

(* args[] of: a MatMul A -> X; another A -> W; a Gemm A, X -> Y; a Gemm    *)
(* A, C -> Y; a Gemm that does not fit; an MFCC with and without scratch.  *)
(* Elsewhere W stands for wherever a number that is no pointer of that     *)
(* kernel would lead.                                                      *)
MCPtr == [mm    |-> <<A, X, W>>,
          other |-> <<A, W, W>>,
          chain |-> <<A, X, Y>>,
          gemm  |-> <<A, C, Y>>,
          big   |-> <<A, C, Y>>,
          mfcc  |-> <<Y, A, W>>,
          tight |-> <<X, A, W>>]
MCArgs        == DOMAIN MCPtr
MCOperandsFit == MCArgs \ {"big"}
MCScratchFits == MCArgs \ {"tight"}

Job(k, a)    == [kernel |-> k, args |-> a, stage |-> TRUE]
RawJob(k, a) == [kernel |-> k, args |-> a, stage |-> FALSE]

JobsFew == {Job("matmul", "mm"), Job("gemm", "gemm")}
JobsLate == {Job("matmul", "mm"), Job("matmul", "other"), Job("gemm", "chain")}
JobsAll == JobsFew \cup {Job("gemm", "big"), Job("mfcc", "tight"), RawJob("matmul", "mm")}

CoreSymmetry == Permutations({c1, c2, c3} \cap Cores)
==============================================================================
