----------------------------- MODULE MCTimingCache ----------------------------
(***************************************************************************)
(* Small caches with the proportions of targets/hetero/memsys.py: first    *)
(* levels of one set, an L2 of two sets, two ways each, in front of a      *)
(* memory that is much slower.                                             *)
(***************************************************************************)
EXTENDS TimingCache

L1Of(hit, data) == [sets |-> 1, ways |-> 2, hit |-> hit, miss |-> 0, refill |-> 4, write |-> 1,
                      buffer |-> 1, allocate |-> FALSE, writeback |-> FALSE, data |-> data]
BehindL1 == [sets |-> 2, ways |-> 2, hit |-> 10, miss |-> 0, refill |-> 2, write |-> 1,
             buffer |-> 1, allocate |-> TRUE, writeback |-> TRUE, data |-> TRUE]

WriteBack == [icache |-> L1Of(0, FALSE), dcache |-> L1Of(1, TRUE), l2 |-> BehindL1]
==============================================================================
