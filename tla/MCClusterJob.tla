---------------------------- MODULE MCClusterJob ----------------------------
EXTENDS ClusterJob

MatMul(m, n, o, st) == [kernel |-> "matmul", stage |-> st, M |-> m, N |-> n, O |-> o]
Gemm(m, n, o, ta, tb, st) ==
  [kernel |-> "gemm", stage |-> st, M |-> m, N |-> n, O |-> o, tA |-> ta, tB |-> tb]
Conv(c, h, w, f, p, q, s, b, st) ==
  [kernel |-> "conv", stage |-> st, C |-> c, H |-> h, W |-> w, F |-> f, P |-> p, Q |-> q,
   SP |-> s, SQ |-> 1, has_bias |-> b]
MfccLarge ==
  [kernel |-> "mfcc", stage |-> TRUE, frames |-> 1, frame_len |-> 1, hop |-> 1,
   fft_len |-> 64, mel_start |-> <<1>>, mel_len |-> <<1>>, nb_cep |-> 1]
Mfcc(frames, cep, st) ==
  [kernel |-> "mfcc", stage |-> st, frames |-> frames, frame_len |-> 3, hop |-> 2,
   fft_len |-> 4, mel_start |-> <<1, 0>>, mel_len |-> <<1, 3>>, nb_cep |-> cep]
\* A filter of two full blocks and a tail, which mel_energy adds up out of order.
MfccWide ==
  [kernel |-> "mfcc", stage |-> FALSE, frames |-> 2, frame_len |-> 7, hop |-> 2,
   fft_len |-> 8, mel_start |-> <<0, 3>>, mel_len |-> <<5, 1>>, nb_cep |-> 2]

MCEngines == {"snitch", "spatz"}

MCJobs ==
  {MatMul(4, 5, 6, TRUE), MatMul(5, 1, 4, TRUE), MfccLarge, MatMul(3, 2, 5, TRUE), MatMul(1, 2, 4, FALSE), MatMul(2, 3, 1, TRUE),
   Gemm(3, 2, 3, FALSE, TRUE, TRUE), Gemm(2, 2, 4, TRUE, FALSE, FALSE),
   Gemm(2, 1, 5, TRUE, TRUE, TRUE), Gemm(2, 0, 2, FALSE, FALSE, TRUE),
   Conv(1, 3, 3, 3, 2, 2, 1, TRUE, TRUE), Conv(2, 3, 2, 5, 2, 1, 1, FALSE, TRUE),
   Conv(1, 4, 2, 9, 2, 2, 2, FALSE, TRUE),
   Mfcc(3, 3, TRUE), MfccWide}
=============================================================================
