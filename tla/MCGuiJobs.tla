------------------------------ MODULE MCGuiJobs ------------------------------
(***************************************************************************)
(* Instances of GuiJobs for TLC: no directory holds rows of an earlier      *)
(* session, so that nothing tells one from another; those of a first sweep *)
(* are what a second one into its directory finds.                         *)
(***************************************************************************)
EXTENDS GuiJobs, TLC

CONSTANTS d1, d2      \* directories

MCOldRows == [dir \in Dirs |-> <<>>]
DirSymmetry == Permutations(Dirs)
==============================================================================
