---------------------------- MODULE MCSweepCells -----------------------------
(***************************************************************************)
(* Instances of SweepCells for TLC: a sweep for one board, and one for     *)
(* either board into the same directory or another.                        *)
(***************************************************************************)
EXTENDS SweepCells

CONSTANTS good, bad, mnist, gemm

Of(design, model) == [design |-> design, model |-> model]
Ask(d, b, cells) == [dir |-> d, board |-> b, cells |-> cells]
MCAsked == << {Ask("o1", "cva6", <<Of(good, mnist), Of(good, gemm)>>)},
              {Ask("o1", "ara", <<Of(bad, gemm), Of(good, gemm)>>), Ask("o2", "cva6", <<Of(good, gemm)>>),
               Ask("o2", "ara", <<Of(good, gemm)>>)} >>
MCAgain == << {Ask("o1", "cva6", <<Of(good, gemm)>>)}, {Ask("o1", "ara", <<Of(good, gemm)>>)} >>
==============================================================================
