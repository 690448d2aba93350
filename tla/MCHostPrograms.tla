----------------------------- MODULE MCHostPrograms -----------------------------
(***************************************************************************)
(* Instances of HostPrograms for TLC: three clips, so that both feature    *)
(* buffers are used again, and a network of two offloaded nodes, the       *)
(* second of which works in place.  The contents of the input of a node    *)
(* are part of what its args stand for, so the args of a clip's node carry *)
(* the clip's number.                                                      *)
(***************************************************************************)
EXTENDS HostPrograms

CONSTANTS sn, sp, c1, A, F0, F1, I, Y

PKernels == {"mfcc", "conv"}
PSlots   == 1..2
PBuffers == {A, F0, F1, I, Y}
POutSlot == [k \in PKernels |-> 2]
PClips   == 0..(Clips - 1)

FrontArgs(m, b) == <<"mfcc", m, b>>
NodeArgs(m, k)  == <<"node", m, k>>
PArgs == {FrontArgs(m, b) : m \in PClips, b \in 0..1}
           \cup {NodeArgs(m, k) : m \in PClips, k \in 1..2}

PPtr == [a \in PArgs |->
           CASE a[1] = "mfcc" -> <<A, IF a[3] = 0 THEN F0 ELSE F1>>
             [] a[1] = "node" -> IF a[3] = 1 THEN <<I, Y>> ELSE <<Y, Y>>]

FrontJob(m, b) == [kernel |-> "mfcc", args |-> FrontArgs(m, b), stage |-> TRUE]
NodeJob(m, k)  == [kernel |-> "conv", args |-> NodeArgs(m, k), stage |-> TRUE]
PMfcc == [m \in PClips |-> [b \in 0..1 |-> FrontJob(m, b)]]
PNode == [m \in PClips |-> [k \in 1..2 |-> NodeJob(m, k)]]
PNodeEngines == <<sp, sp>>
PJobs == {FrontJob(m, b) : m \in PClips, b \in 0..1}
           \cup {NodeJob(m, k) : m \in PClips, k \in 1..2}
==============================================================================
