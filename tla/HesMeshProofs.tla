---------------------------- MODULE HesMeshProofs ----------------------------
(***************************************************************************)
(* Theorems about HesMesh, for every number of engines, cores, kernels,    *)
(* buffers and jobs and every modulus of the job numbers: first what the   *)
(* mailbox guarantees, then what the caller finds in memory.               *)
(***************************************************************************)
EXTENDS HesMeshOffload, Integers, FiniteSets, FiniteSetTheorems, TLAPS

(* Counts stay in their range when they wrap. *)
LEMMA SuccInRange ==
  ASSUME NEW m \in Nat \ {0}, NEW n \in 0..(m - 1)
  PROVE  Succ(n, m) \in 0..(m - 1)
  BY DEF Succ

(* A wrapped job number differs from the one before it, however small the  *)
(* modulus: what makes a stale done_seq recognisable.                      *)
LEMMA NextSeqDiffers ==
  ASSUME NEW n \in Seqs
  PROVE  NextSeq(n) \in Seqs /\ NextSeq(n) # n
  BY ConstantsAssumption DEF Seqs, NextSeq, Succ

(* The program owes a wait for the call it is in: Check never takes        *)
(* owed[heng] below zero.                                                  *)
CallOwed == hpc \notin {"init", "idle"} => owed[heng] > 0

TypeInv == TypeOK /\ CallOwed

LEMMA InitTypeInv == Init => TypeInv
<1> SUFFICES ASSUME Init PROVE TypeInv
  OBVIOUS
<1>1. AnyEngine \in Engines /\ AnyJob \in Jobs /\ AnyJob.args \in Args
  BY ConstantsAssumption DEF AnyEngine, AnyJob
<1>2. 0 \in Seqs /\ 0 \in Counts /\ BootWords \subseteq Seqs
  BY ConstantsAssumption DEF Seqs, Counts
<1>3. HostTypes
  BY <1>1, <1>2 DEF Init, HostTypes, HostPCs
<1>4. MboxTypes
  BY <1>1, <1>2 DEF Init, MboxTypes
<1>5. CtrlTypes
  BY <1>1, <1>2 DEF Init, CtrlTypes, CtrlPCs
<1>6. DataTypes
  BY DEF Init, DataTypes, CorePCs
<1>7. CountTypes
  BY <1>1, <1>2, ConstantsAssumption DEF Init, CountTypes
<1>8. QED
  BY <1>3, <1>4, <1>5, <1>6, <1>7 DEF TypeInv, TypeOK, CallOwed, Init

(* Variables that a step leaves alone keep their type. *)
LEMMA KeepMbox == MboxTypes /\ UNCHANGED <<mboxVars, irq>> => MboxTypes'
  BY DEF MboxTypes, mboxVars
LEMMA KeepCtrl == CtrlTypes /\ UNCHANGED ctrlVars => CtrlTypes'
  BY DEF CtrlTypes, ctrlVars
LEMMA KeepData == DataTypes /\ UNCHANGED dataVars => DataTypes'
  BY DEF DataTypes, dataVars
LEMMA KeepHost == HostTypes /\ UNCHANGED hostVars => HostTypes'
  BY DEF HostTypes, hostVars
LEMMA KeepCounts == CountTypes /\ UNCHANGED <<owed, historyVars>> => CountTypes'
  BY DEF CountTypes, historyVars

(* A step of the host keeps every variable in its type. *)
LEMMA HostTypeInv == TypeInv /\ HostNext => TypeInv'
<1> SUFFICES ASSUME TypeInv, HostNext PROVE TypeInv'
  OBVIOUS
<1> USE DEF TypeInv, TypeOK, CallOwed
<1>0. \A n \in Seqs : NextSeq(n) \in Seqs
  BY NextSeqDiffers
<1>1. \A n \in Counts : Succ(n, CountMod) \in Counts
  BY SuccInRange, ConstantsAssumption DEF Counts
<1>2. \A n \in 0..MaxOwed : /\ n < MaxOwed => n + 1 \in 0..MaxOwed /\ n + 1 > 0
                            /\ n > 0 => n - 1 \in 0..MaxOwed
  BY ConstantsAssumption
<1>3. \A n \in 0..MaxTimeouts : n < MaxTimeouts => n + 1 \in 0..MaxTimeouts
  BY ConstantsAssumption
<1>4. CASE WriteArgs
  <2>1. HostTypes' /\ MboxTypes' /\ CallOwed'
    BY <1>4, ConstantsAssumption DEF WriteArgs, AfterStore, HostTypes, HostPCs, MboxTypes
  <2>2. QED BY <1>4, <2>1, KeepCtrl, KeepData, KeepCounts DEF WriteArgs
<1>5. CASE WriteKernel
  <2>1. HostTypes' /\ MboxTypes' /\ CallOwed'
    BY <1>5, ConstantsAssumption DEF WriteKernel, AfterStore, HostTypes, HostPCs, MboxTypes
  <2>2. QED BY <1>5, <2>1, KeepCtrl, KeepData, KeepCounts DEF WriteKernel
<1>6. CASE WriteFlags
  <2>1. StageFlag(heng, hjob) \in BOOLEAN
    BY DEF StageFlag
  <2>2. HostTypes' /\ MboxTypes' /\ CallOwed'
    BY <1>6, <2>1 DEF WriteFlags, AfterStore, HostTypes, HostPCs, MboxTypes
  <2>3. QED BY <1>6, <2>2, KeepCtrl, KeepData, KeepCounts DEF WriteFlags
<1>7. CASE WriteSeq
  <2>1. HostTypes' /\ MboxTypes' /\ CallOwed'
    BY <1>0, <1>7 DEF WriteSeq, AfterStore, HostTypes, HostPCs, MboxTypes
  <2>2. CountTypes'
    BY <1>7 DEF WriteSeq, CountTypes, HostTypes
  <2>3. QED BY <1>7, <2>1, <2>2, KeepCtrl, KeepData DEF WriteSeq
<1>8. CASE RingDoorbell
  <2>1. HostTypes' /\ MboxTypes' /\ CallOwed'
    BY <1>8 DEF RingDoorbell, HostTypes, HostPCs, MboxTypes, mboxVars
  <2>2. QED BY <1>8, <2>1, KeepCtrl, KeepData, KeepCounts DEF RingDoorbell
<1>9. CASE PollDone
  <2>1. HostTypes' /\ CallOwed'
    BY <1>9 DEF PollDone, HostTypes, HostPCs
  <2>2. QED BY <1>9, <2>1, KeepMbox, KeepCtrl, KeepData, KeepCounts DEF PollDone
<1>10. CASE Collect
  <2>1. hok' \in BOOLEAN
    BY <1>10 DEF Collect
  <2>2. HostTypes' /\ CallOwed'
    BY <1>10, <2>1 DEF Collect, HostTypes, HostPCs
  <2>3. QED BY <1>10, <2>2, KeepMbox, KeepCtrl, KeepData, KeepCounts DEF Collect
<1>11. CASE Check
  <2>1. HostTypes' /\ CallOwed'
    BY <1>1, <1>11 DEF Check, Failures, HostTypes, HostPCs
  <2>2. Value(posted[heng].kernel, posted[heng].args) \in Content /\ Blank \notin Content
    BY ConstantsAssumption DEF TypeInv, TypeOK, CountTypes, HostTypes, Value, Content
  <2>3. trusted' \in [Buffers -> Content \cup {Blank}]
    BY <1>11, <2>2 DEF Check, TypeInv, TypeOK, CountTypes
  <2>4. CountTypes'
    BY <1>2, <1>11, <2>3 DEF Check, CountTypes, HostTypes
  <2>5. QED BY <1>11, <2>1, <2>4, KeepMbox, KeepCtrl, KeepData DEF Check
<1>12. CASE GiveUp
  <2>1. HostTypes' /\ CallOwed'
    BY <1>12 DEF GiveUp, HostTypes, HostPCs
  <2>2. CountTypes'
    BY <1>3, <1>12 DEF GiveUp, CountTypes
  <2>3. QED BY <1>12, <2>1, <2>2, KeepMbox, KeepCtrl, KeepData DEF GiveUp
<1>13. ASSUME NEW e \in Engines, InitEngine(e) PROVE TypeInv'
  <2>1. HostTypes' /\ CallOwed'
    BY <1>13 DEF InitEngine, HostTypes, HostPCs, MboxTypes
  <2>2. CountTypes'
    BY <1>3, <1>13 DEF InitEngine, CountTypes
  <2>3. QED BY <1>13, <2>1, <2>2, KeepMbox, KeepCtrl, KeepData DEF InitEngine
<1>14. ASSUME NEW e \in Engines, Wait(e) PROVE TypeInv'
  <2>1. HostTypes' /\ CallOwed'
    BY <1>14 DEF Wait, HostTypes, HostPCs
  <2>2. QED BY <1>14, <2>1, KeepMbox, KeepCtrl, KeepData, KeepCounts DEF Wait
<1>15. ASSUME NEW e \in Engines, NEW sync \in BOOLEAN, PostRefused(e, sync)
       PROVE  TypeInv'
  <2>1. HostTypes'
    BY <1>15 DEF PostRefused, HostTypes, HostPCs
  <2>2. CountTypes' /\ CallOwed'
    BY <1>1, <1>2, <1>15 DEF PostRefused, CountTypes
  <2>3. QED BY <1>15, <2>1, <2>2, KeepMbox, KeepCtrl, KeepData DEF PostRefused
<1>16. ASSUME NEW e \in Engines, NEW sync \in BOOLEAN, NEW j \in Jobs, PostAccepted(e, j, sync)
       PROVE  TypeInv'
  <2>1. HostTypes'
    BY <1>16 DEF PostAccepted, Accepts, HostTypes, HostPCs
  <2>2. CountTypes' /\ CallOwed'
    BY <1>2, <1>16 DEF PostAccepted, Accepts, CountTypes, historyVars
  <2>3. QED BY <1>16, <2>1, <2>2, KeepMbox, KeepCtrl, KeepData DEF PostAccepted
<1>17. QED
  <2>1. CASE HostStep
    BY <2>1, <1>4, <1>5, <1>6, <1>7, <1>8, <1>9, <1>10, <1>11 DEF HostStep
  <2>2. CASE ~HostStep
    BY <2>2, <1>12, <1>13, <1>14, <1>15, <1>16 DEF HostNext
  <2>3. QED BY <2>1, <2>2

(* A step of a cluster keeps every variable in its type. *)
LEMMA ClusterTypeInv ==
  ASSUME TypeInv, NEW e \in Engines, ClusterNext(e) PROVE TypeInv'
<1> USE DEF TypeInv, TypeOK, CallOwed
<1>1. HostTypes' /\ UNCHANGED hostVars
  BY KeepHost DEF ClusterNext, CtrlStep, BootClear, SignIn, CheckSeq, Wake, SpuriousWake,
       ClearDoorbell, Latch, ReadKernel, ReadArgs, ReserveScratch, StageIn, Verdict, StageOut,
       PublishDone, RunSlice, Barrier, TrapCore, TrapCtrl
<1>2. \A n \in 0..MaxTraps : n < MaxTraps => n + 1 \in 0..MaxTraps
  BY ConstantsAssumption
<1>3. \A n \in Counts : Succ(n, CountMod) \in Counts
  BY SuccInRange, ConstantsAssumption DEF Counts
<1>4. MboxTypes'
  <2> USE DEF MboxTypes
  <2>1. CASE BootClear(e)
    BY <2>1, ConstantsAssumption DEF BootClear, Seqs
  <2>2. CASE SignIn(e)
    BY <2>2 DEF SignIn
  <2>3. CASE ClearDoorbell(e)
    BY <2>3 DEF ClearDoorbell, mboxVars
  <2>4. CASE Verdict(e)
    <3>1. error' \in [Engines -> BOOLEAN]
      BY <2>4 DEF Verdict, Refused, CtrlTypes
    <3>2. QED BY <2>4, <3>1 DEF Verdict
  <2>5. CASE PublishDone(e)
    BY <2>5 DEF PublishDone, JobNumber, CtrlTypes
  <2>6. CASE TrapCtrl(e) \/ \E c \in Cores : TrapCore(e, c)
    BY <2>6 DEF TrapCtrl, TrapCore
  <2>7. CASE UNCHANGED <<mboxVars, irq>>
    BY <2>7, KeepMbox
  <2>8. QED
    BY <2>1, <2>2, <2>3, <2>4, <2>5, <2>6, <2>7
       DEF ClusterNext, CtrlStep, CheckSeq, Wake, SpuriousWake, Latch, ReadKernel, ReadArgs,
           ReserveScratch, StageIn, StageOut, RunSlice, Barrier
<1>5. CtrlTypes'
  <2> USE DEF CtrlTypes, CtrlPCs, Step
  <2>1. CASE BootClear(e)
    BY <2>1 DEF BootClear
  <2>2. CASE SignIn(e)
    BY <2>2, ConstantsAssumption DEF SignIn, Seqs
  <2>3. CASE CheckSeq(e)
    BY <2>3 DEF CheckSeq
  <2>4. CASE Wake(e) \/ SpuriousWake(e) \/ ClearDoorbell(e)
    BY <2>4 DEF Wake, SpuriousWake, ClearDoorbell
  <2>5. CASE Latch(e)
    BY <2>5 DEF Latch, MboxTypes
  <2>6. CASE ReadKernel(e)
    BY <2>6 DEF ReadKernel, MboxTypes
  <2>7. CASE ReadArgs(e)
    BY <2>7 DEF ReadArgs, MboxTypes
  <2>8. CASE ReserveScratch(e)
    <3>1. no_scratch' \in [Engines -> BOOLEAN]
      BY <2>8 DEF ReserveScratch
    <3>2. QED BY <2>8, <3>1 DEF ReserveScratch
  <2>9. CASE StageIn(e)
    <3>1. active_kernel[e] \in Kernels => OutSlot[active_kernel[e]] \in Slots
      BY ConstantsAssumption
    <3>2. ops' \in [Engines -> Slots \cup {NoSlot}] /\ staged' \in [Engines -> BOOLEAN]
      BY <2>9, <3>1 DEF StageIn
    <3>3. active_args' \in [Engines -> Args]
      BY <2>9 DEF StageIn, MboxTypes
    <3>4. QED BY <2>9, <3>2, <3>3 DEF StageIn
  <2>10. CASE Verdict(e)
    BY <2>10 DEF Verdict
  <2>11. CASE StageOut(e) \/ PublishDone(e)
    BY <2>11 DEF StageOut, PublishDone
  <2>12. CASE Barrier(e)
    BY <2>12 DEF Barrier
  <2>13. CASE TrapCtrl(e)
    BY <2>13 DEF TrapCtrl
  <2>14. CASE \E c \in Cores : RunSlice(e, c) \/ TrapCore(e, c)
    BY <2>14, KeepCtrl DEF RunSlice, TrapCore
  <2>15. QED
    BY <2>1, <2>2, <2>3, <2>4, <2>5, <2>6, <2>7, <2>8, <2>9, <2>10, <2>11, <2>12, <2>13, <2>14
       DEF ClusterNext, CtrlStep
<1>6. DataTypes'
  <2>1. CASE StageIn(e)
    BY <2>1 DEF StageIn, DataTypes
  <2>2. CASE StageOut(e)
    BY <2>2 DEF StageOut, DataTypes
  <2>3. ASSUME NEW c \in Cores, RunSlice(e, c) PROVE DataTypes'
    <3>1. active_kernel[e] # NoKernel => Value(active_kernel[e], active_args[e]) \in Content
      BY DEF CtrlTypes, Value, Content
    <3>2. corepc' \in [Engines -> [Cores -> CorePCs]]
      BY <2>3 DEF RunSlice, DataTypes, CorePCs
    <3>3. local' \in [Engines -> [Cores -> Content \cup {Blank}]]
      BY <2>3, <3>1 DEF RunSlice, DataTypes
    <3>4. mem' \in [Buffers -> [Cores -> Content \cup {Blank}]]
      BY <2>3, <3>1 DEF RunSlice, DataTypes
    <3>5. QED BY <3>2, <3>3, <3>4 DEF DataTypes
  <2>4. CASE Barrier(e)
    BY <2>4 DEF Barrier, DataTypes, CorePCs
  <2>5. ASSUME NEW c \in Cores, TrapCore(e, c) PROVE DataTypes'
    BY <2>5 DEF TrapCore, DataTypes, CorePCs
  <2>6. CASE UNCHANGED dataVars
    BY <2>6, KeepData
  <2>7. QED
    BY <2>1, <2>2, <2>3, <2>4, <2>5, <2>6
       DEF ClusterNext, CtrlStep, BootClear, SignIn, CheckSeq, Wake, SpuriousWake, ClearDoorbell,
           Latch, ReadKernel, ReadArgs, ReserveScratch, Verdict, PublishDone, TrapCtrl
<1>7. CountTypes' /\ UNCHANGED owed
  <2>1. CASE PublishDone(e)
    BY <1>3, <2>1 DEF PublishDone, CountTypes
  <2>2. CASE TrapCtrl(e) \/ \E c \in Cores : TrapCore(e, c)
    BY <1>2, <2>2 DEF TrapCtrl, TrapCore, CountTypes
  <2>3. CASE UNCHANGED <<owed, historyVars>>
    BY <2>3, KeepCounts
  <2>4. QED
    BY <2>1, <2>2, <2>3
       DEF ClusterNext, CtrlStep, BootClear, SignIn, CheckSeq, Wake, SpuriousWake, ClearDoorbell,
           Latch, ReadKernel, ReadArgs, ReserveScratch, StageIn, Verdict, StageOut, RunSlice,
           Barrier
<1>8. QED BY <1>1, <1>4, <1>5, <1>6, <1>7 DEF hostVars

LEMMA TypeInvInvariant == Spec => []TypeInv
<1>1. TypeInv /\ UNCHANGED vars => TypeInv'
  BY KeepHost, KeepMbox, KeepCtrl, KeepData, KeepCounts
     DEF TypeInv, TypeOK, CallOwed, vars, hostVars
<1>2. TypeInv /\ [Next]_vars => TypeInv'
  BY <1>1, HostTypeInv, ClusterTypeInv DEF Next
<1>3. QED BY InitTypeInv, <1>2, PTL DEF Spec

(* Every variable of the host, the mailboxes, the clusters and the memory  *)
(* keeps its type, for any number of engines, cores and jobs.              *)
THEOREM TypeCorrect == Spec => []TypeOK
  BY TypeInvInvariant, PTL DEF TypeInv

------------------------------------------------------------------------------
(* The barrier and the traps: true however often the host gives up.        *)

LEMMA BarrierInvariant == Spec => []BarrierAligned
<1>1. Init => BarrierAligned
  BY DEF Init, BarrierAligned
<1>2. TypeOK /\ BarrierAligned /\ [Next]_vars => BarrierAligned'
  <2> SUFFICES ASSUME TypeOK, BarrierAligned, [Next]_vars PROVE BarrierAligned'
    OBVIOUS
  <2> USE DEF BarrierAligned, TypeOK, CtrlTypes, DataTypes
  <2>1. CASE HostNext \/ UNCHANGED vars
    BY <2>1 DEF HostNext, HostStep, WriteArgs, WriteKernel, WriteFlags, WriteSeq, RingDoorbell,
         PollDone, Collect, Check, GiveUp, InitEngine, Wait, PostRefused, PostAccepted,
         vars, ctrlVars, dataVars
  <2>2. ASSUME NEW e \in Engines, CtrlStep(e) \/ SpuriousWake(e) \/ TrapCtrl(e)
        PROVE  BarrierAligned'
    <3>1. corepc' = corepc /\ cpc[e] # "bar2" /\ cpc'[e] # "bar2"
      BY <2>2 DEF CtrlStep, BootClear, SignIn, CheckSeq, Wake, SpuriousWake, ClearDoorbell, Latch,
           ReadKernel, ReadArgs, ReserveScratch, StageIn, Verdict, StageOut, PublishDone,
           TrapCtrl, Step, dataVars
    <3>2. \A f \in Engines \ {e} : cpc'[f] = cpc[f]
      BY <2>2 DEF CtrlStep, BootClear, SignIn, CheckSeq, Wake, SpuriousWake, ClearDoorbell, Latch,
           ReadKernel, ReadArgs, ReserveScratch, StageIn, Verdict, StageOut, PublishDone,
           TrapCtrl, Step
    <3>3. QED BY <3>1, <3>2
  <2>3. ASSUME NEW e \in Engines, Barrier(e) PROVE BarrierAligned'
    <3> SUFFICES ASSUME NEW f \in Engines, NEW c \in Cores
                 PROVE  corepc'[f][c] = "bar1" <=> cpc'[f] # "bar2"
      OBVIOUS
    <3>1. CASE f # e
      BY <2>3, <3>1 DEF Barrier, AllArrived
    <3>2. CASE f = e /\ cpc[e] = "bar1"
      BY <2>3, <3>2 DEF Barrier, AllArrived
    <3>3. CASE f = e /\ cpc[e] = "bar2"
      BY <2>3, <3>3 DEF Barrier, AllArrived
    <3>4. QED BY <2>3, <3>1, <3>2, <3>3 DEF Barrier, AllArrived
  <2>4. ASSUME NEW e \in Engines, NEW c \in Cores, RunSlice(e, c) \/ TrapCore(e, c)
        PROVE  BarrierAligned'
    <3>1. cpc' = cpc /\ corepc[e][c] = "slice"
      BY <2>4 DEF RunSlice, TrapCore, ctrlVars
    <3>2. PICK p \in {"bar2", "parked"} : corepc' = [corepc EXCEPT ![e][c] = p]
      BY <2>4 DEF RunSlice, TrapCore
    <3>3. \A f \in Engines, d \in Cores :
            corepc'[f][d] = IF f = e /\ d = c THEN p ELSE corepc[f][d]
      BY <3>2
    <3>4. \A f \in Engines, d \in Cores : corepc'[f][d] = "bar1" <=> corepc[f][d] = "bar1"
      BY <3>1, <3>3
    <3>5. QED BY <3>1, <3>4
  <2>5. QED BY <2>1, <2>2, <2>3, <2>4 DEF Next, ClusterNext
<1>3. QED BY <1>1, <1>2, TypeCorrect, PTL DEF Spec

(* No compute core is in its slice unless the control core waits for it at *)
(* the closing barrier (cluster_main.c:404-411).                           *)
THEOREM BarriersNeverMix == Spec => []BarrierAligned
  BY BarrierInvariant

(* Where a trap leaves the cluster: the control core parked, or waiting at *)
(* the closing barrier for a compute core that is.                         *)
Parked(e) ==
  \/ cpc[e] = "parked"
  \/ cpc[e] = "bar2" /\ \E c \in Cores : corepc[e][c] = "parked"

TrapParks ==
  \A e \in Engines :
    /\ magic[e] <=> cpc[e] \notin {"boot", "signin"}
    /\ cpc[e] = "signin" => ~trap_cause[e]
    /\ trap_cause[e] /\ magic[e] => Parked(e)

LEMMA TrapParksInvariant == Spec => []TrapParks
<1>1. Init => TrapParks
  BY DEF Init, TrapParks
<1>2. TypeOK /\ BarrierAligned /\ TrapParks /\ [Next]_vars => TrapParks'
  <2> SUFFICES ASSUME TypeOK, BarrierAligned, TrapParks, [Next]_vars PROVE TrapParks'
    OBVIOUS
  <2> USE DEF TrapParks, TypeOK, CtrlTypes, DataTypes, MboxTypes
  <2>1. CASE HostNext \/ UNCHANGED vars
    BY <2>1 DEF HostNext, HostStep, WriteArgs, WriteKernel, WriteFlags, WriteSeq, RingDoorbell,
         PollDone, Collect, Check, GiveUp, InitEngine, Wait, PostRefused, PostAccepted,
         vars, ctrlVars, dataVars, mboxVars, Parked
  <2>2. ASSUME NEW e \in Engines, BootClear(e) PROVE TrapParks'
    BY <2>2 DEF BootClear, Step, dataVars, Parked
  <2>3. ASSUME NEW e \in Engines, SignIn(e) PROVE TrapParks'
    BY <2>3 DEF SignIn, Step, dataVars, Parked
  <2>4. ASSUME NEW e \in Engines,
               CheckSeq(e) \/ Wake(e) \/ SpuriousWake(e) \/ ClearDoorbell(e) \/ Latch(e)
               \/ ReadKernel(e) \/ ReadArgs(e) \/ ReserveScratch(e) \/ StageIn(e) \/ Verdict(e)
               \/ StageOut(e) \/ PublishDone(e)
        PROVE  TrapParks'
    <3>1. /\ corepc' = corepc /\ magic' = magic /\ trap_cause' = trap_cause
          /\ cpc[e] \notin {"boot", "signin", "bar2", "parked"}
          /\ cpc'[e] \notin {"boot", "signin"}
          /\ \A f \in Engines \ {e} : cpc'[f] = cpc[f]
      BY <2>4 DEF CheckSeq, Wake, SpuriousWake, ClearDoorbell, Latch, ReadKernel, ReadArgs,
           ReserveScratch, StageIn, Verdict, StageOut, PublishDone, Step, dataVars, mboxVars
    <3>2. ~Parked(e)
      BY <3>1 DEF Parked
    <3>3. \A f \in Engines \ {e} : Parked(f) => Parked(f)'
      BY <3>1 DEF Parked
    <3>4. QED BY <3>1, <3>2, <3>3
  <2>5. ASSUME NEW e \in Engines, Barrier(e) PROVE TrapParks'
    <3>1. /\ magic' = magic /\ trap_cause' = trap_cause
          /\ cpc[e] \in {"bar1", "bar2"}
          /\ \A f \in Engines \ {e} : cpc'[f] = cpc[f] /\ corepc'[f] = corepc[f]
      BY <2>5 DEF Barrier, AllArrived, mboxVars
    <3>2. cpc'[e] \in {"bar2", "out"}
      BY <2>5 DEF Barrier, AllArrived
    <3>3. ~Parked(e)
      BY <2>5 DEF Barrier, AllArrived, Parked
    <3>4. \A f \in Engines \ {e} : Parked(f) => Parked(f)'
      BY <3>1 DEF Parked
    <3>5. QED BY <3>1, <3>2, <3>3, <3>4
  <2>6. ASSUME NEW e \in Engines, TrapCtrl(e) PROVE TrapParks'
    BY <2>6 DEF TrapCtrl, dataVars, Parked
  <2>7. ASSUME NEW e \in Engines, NEW c \in Cores, TrapCore(e, c)
        PROVE  TrapParks'
    <3>1. cpc' = cpc /\ magic' = magic /\ cpc[e] = "bar2"
      BY <2>7 DEF TrapCore, ctrlVars, BarrierAligned
    <3>2. corepc'[e][c] = "parked" /\ \A f \in Engines \ {e} : trap_cause'[f] = trap_cause[f]
      BY <2>7 DEF TrapCore
    <3>3. \A f \in Engines \ {e} : corepc'[f] = corepc[f]
      BY <2>7 DEF TrapCore
    <3>4. Parked(e)' /\ \A f \in Engines \ {e} : Parked(f) => Parked(f)'
      BY <3>1, <3>2, <3>3 DEF Parked
    <3>5. QED BY <3>1, <3>2, <3>4
  <2>8. ASSUME NEW e \in Engines, NEW c \in Cores, RunSlice(e, c)
        PROVE  TrapParks'
    <3>1. cpc' = cpc /\ magic' = magic /\ trap_cause' = trap_cause
      BY <2>8 DEF RunSlice, ctrlVars, mboxVars
    <3>2. \A f \in Engines, d \in Cores : corepc[f][d] = "parked" => corepc'[f][d] = "parked"
      BY <2>8 DEF RunSlice
    <3>3. QED BY <3>1, <3>2 DEF Parked
  <2>9. QED BY <2>1, <2>2, <2>3, <2>4, <2>5, <2>6, <2>7, <2>8 DEF Next, ClusterNext, CtrlStep
<1>3. QED BY <1>1, <1>2, TypeCorrect, BarrierInvariant, PTL DEF Spec

(* A cluster one of whose cores has trapped reports no job done, ever,     *)
(* so hes_wait() cannot take its silence for an answer.                    *)
THEOREM TrappedClusterIsSilent == Spec => TrapIsNeverDone
<1>1. TypeOK /\ TrapParks /\ [Next]_vars
        => [\A e \in Engines : trap_cause[e] /\ magic[e] => done_seq'[e] = done_seq[e]]_vars
  <2> SUFFICES ASSUME TypeOK, TrapParks, Next, NEW e \in Engines, trap_cause[e], magic[e]
               PROVE  done_seq'[e] = done_seq[e]
    OBVIOUS
  <2>1. CASE HostNext
    BY <2>1 DEF HostNext, HostStep, WriteArgs, WriteKernel, WriteFlags, WriteSeq, RingDoorbell,
         PollDone, Collect, Check, GiveUp, InitEngine, Wait, PostRefused, PostAccepted, mboxVars
  <2>2. ASSUME NEW f \in Engines, ClusterNext(f) PROVE done_seq'[e] = done_seq[e]
    <3>1. ~BootClear(e) /\ ~PublishDone(e)
      BY DEF TrapParks, Parked, BootClear, PublishDone, Step
    <3>2. BootClear(f) \/ PublishDone(f) => done_seq'[e] = done_seq[e]
      BY <3>1 DEF BootClear, PublishDone, TypeOK, MboxTypes
    <3>3. ~(BootClear(f) \/ PublishDone(f)) => done_seq' = done_seq
      BY <2>2 DEF ClusterNext, CtrlStep, SignIn, CheckSeq, Wake, SpuriousWake, ClearDoorbell,
           Latch, ReadKernel, ReadArgs, ReserveScratch, StageIn, Verdict, StageOut, RunSlice,
           Barrier, TrapCore, TrapCtrl, mboxVars
    <3>4. QED BY <3>2, <3>3
  <2>3. QED BY <2>1, <2>2 DEF Next
<1>2. QED BY <1>1, TypeCorrect, TrapParksInvariant, PTL DEF Spec, TrapIsNeverDone

------------------------------------------------------------------------------
(* What the mailbox protocol guarantees while every failure is still to be *)
(* counted: until the program returns from a wait that gave up, the host   *)
(* and the clusters agree on which job is whose, also with engines that    *)
(* sign in after hes_engine_init() has stopped waiting for them.           *)

AtTop   == {"check", "wfi", "clear"}
Working == {"kernel", "args", "reserve", "stage", "verdict", "bar1", "bar2", "out", "done",
            "parked"}
InCall  == {"args", "kernel", "flags", "seq", "bell", "poll", "collect", "gaveup"}

(* The three ways a cluster can stand to the job an engine holds: its      *)
(* number is out but not seen, it is being worked on, or it is done.       *)
Unseen(e)  == cpc[e] \in AtTop \cup {"latch"} /\ served[e] # seq[e] /\ done_seq[e] # seq[e]
Underway(e) == cpc[e] \in Working /\ served[e] = seq[e] /\ done_seq[e] # seq[e]
Rested(e)  == cpc[e] \in AtTop /\ served[e] = seq[e] /\ done_seq[e] = seq[e]

(* A cluster that clears its mailbox after hes_engine_init() has taken its *)
(* done_seq for the last job number forgets the job posted meanwhile.  It  *)
(* then waits for a number other than 0, which it has to differ from: the  *)
(* word the TCDM held at boot must not be the one just before 0.           *)
LateSignInSafe == MaxTimeouts = 0 \/ SeqMod - 1 \notin BootWords

(* How an engine stands that was not waited for, its caller's or nobody's. *)
LateHeld(e) ==
  \/ cpc[e] = "boot" /\ next_seq[e] = NextSeq(done_seq[e]) /\ seq[e] = next_seq[e]
  \/ cpc[e] = "signin" /\ next_seq[e] # 0 /\ seq[e] \in {0, next_seq[e]}
  \/ Rested(e) /\ seq[e] = 0 /\ next_seq[e] # 0
LateFree(e) ==
  \/ cpc[e] = "boot" /\ next_seq[e] = done_seq[e]
  \/ cpc[e] = "signin" /\ next_seq[e] \in BootWords \cup {0} /\ seq[e] = 0
  \/ Rested(e) /\ seq[e] = 0 /\ next_seq[e] \in BootWords

(* What boot and hes_engine_init() leave.                                  *)
BootInv ==
  /\ hpc = "init" \/ awaited = {}
  /\ hpc = "init" => \A e \in Engines : ~in_flight[e]
  /\ hpc = "gaveup" => timeouts > 0 /\ ~hok
  /\ \A e \in Engines :
       /\ magic[e] <=> cpc[e] \notin {"boot", "signin"}
       /\ e \notin awaited /\ timeouts = 0 => magic[e]
       /\ cpc[e] = "boot" => done_seq[e] \in BootWords
       /\ cpc[e] = "signin" => done_seq[e] = 0

(* One job number per engine: while the engine is its caller's the number  *)
(* in the mailbox is the host's last; otherwise the cluster rests.         *)
NumberAt(e) ==
  IF e \in awaited
    THEN ~Held(e) /\ (magic[e] => Rested(e)) /\ (cpc[e] = "signin" => seq[e] = 0)
  ELSE IF Held(e)
    THEN \/ seq[e] = next_seq[e] /\ (Unseen(e) \/ Underway(e) \/ Rested(e))
         \/ timeouts > 0 /\ LateHeld(e)
    ELSE \/ seq[e] = next_seq[e] /\ Rested(e)
         \/ timeouts > 0 /\ LateFree(e)

NumberInv ==
  /\ hpc \in InCall => ~in_flight[heng]
  /\ hpc = "collect" => done_seq[heng] = next_seq[heng]
  /\ \A e \in Engines : NumberAt(e)

(* The descriptor of the job an engine holds is the job's, and so is what  *)
(* the control core has made of it so far.                                 *)
DescriptorAt(e) ==
  /\ args[e] = posted[e].args /\ kernel_id[e] = posted[e].kernel
  /\ flags[e] = StageFlag(e, posted[e])
  /\ cpc[e] \in {"args", "reserve", "stage", "verdict"} =>
       active_kernel[e] = posted[e].kernel
  /\ cpc[e] \in {"bar1", "bar2", "out", "done"} =>
       active_kernel[e] \in {posted[e].kernel, NoKernel}
  /\ cpc[e] \in {"reserve", "stage", "verdict", "bar1", "bar2", "out", "done"} =>
       active_args[e] = posted[e].args
  /\ cpc[e] \in {"reserve", "stage"} => ~staged[e]
  /\ cpc[e] \in {"verdict", "bar1", "bar2", "out"} /\ staged[e] =>
       ops[e] = OutSlot[posted[e].kernel]

DescriptorInv ==
  /\ hpc \in {"kernel", "flags", "seq"} => args[heng] = hjob.args
  /\ hpc \in {"flags", "seq"} => kernel_id[heng] = hjob.kernel
  /\ hpc = "seq" => flags[heng] = StageFlag(heng, hjob)
  /\ \A e \in Engines : Held(e) => DescriptorAt(e)

------------------------------------------------------------------------------
LEMMA BootInit == Init => BootInv
  BY DEF Init, BootInv

LEMMA BootStep ==
  ASSUME TypeOK, BootInv, [Next]_vars PROVE BootInv'
<1> USE DEF BootInv, TypeOK, MboxTypes, CtrlTypes, HostTypes
<1>1. CASE \E e \in Engines : InitEngine(e)
  BY <1>1, ConstantsAssumption DEF InitEngine, CountTypes, mboxVars, ctrlVars
<1>2. CASE \E e \in Engines : Wait(e) \/ (\E sync \in BOOLEAN : PostRefused(e, sync)
             \/ \E j \in Jobs : PostAccepted(e, j, sync))
  BY <1>2 DEF Wait, PostRefused, PostAccepted, mboxVars, ctrlVars, historyVars
<1>3. CASE HostStep \/ UNCHANGED vars
  BY <1>3 DEF HostStep, AfterStore, WriteArgs, WriteKernel, WriteFlags, RingDoorbell, PollDone, Collect,
       Check, WriteSeq, vars, hostVars, mboxVars, ctrlVars, historyVars
<1>6. CASE GiveUp
  BY <1>6, ConstantsAssumption DEF GiveUp, CountTypes, mboxVars, ctrlVars
<1>4. ASSUME NEW e \in Engines, ClusterNext(e) PROVE BootInv'
  <2>1. UNCHANGED <<hpc, hok, awaited, in_flight, timeouts>>
    BY <1>4 DEF ClusterNext, CtrlStep, BootClear, SignIn, CheckSeq, Wake, SpuriousWake,
         ClearDoorbell, Latch, ReadKernel, ReadArgs, ReserveScratch, StageIn, Verdict, StageOut,
         PublishDone, RunSlice, Barrier, TrapCore, TrapCtrl, hostVars, historyVars
  <2>2. CASE BootClear(e)
    BY <2>1, <2>2 DEF BootClear, Step
  <2>3. CASE SignIn(e)
    BY <2>1, <2>3 DEF SignIn, Step
  <2>4. CASE PublishDone(e)
    BY <2>1, <2>4 DEF PublishDone, JobNumber, Step
  <2>5. CASE ~BootClear(e) /\ ~SignIn(e) /\ ~PublishDone(e)
    <3>1. UNCHANGED <<magic, seq, done_seq>>
      BY <1>4, <2>5 DEF ClusterNext, CtrlStep, CheckSeq, Wake, SpuriousWake,
         ClearDoorbell, Latch, ReadKernel, ReadArgs, ReserveScratch, StageIn, Verdict, StageOut,
         RunSlice, Barrier, TrapCore, TrapCtrl, mboxVars
    <3>2. /\ \A f \in Engines \ {e} : cpc'[f] = cpc[f]
          /\ cpc'[e] = cpc[e] \/ {cpc[e], cpc'[e]} \cap {"boot", "signin"} = {}
      BY <1>4, <2>5 DEF ClusterNext, CtrlStep, CheckSeq, Wake, SpuriousWake,
         ClearDoorbell, Latch, ReadKernel, ReadArgs, ReserveScratch, StageIn, Verdict, StageOut,
         RunSlice, Barrier, TrapCore, TrapCtrl, Step, ctrlVars
    <3>3. QED BY <2>1, <3>1, <3>2
  <2>6. QED BY <2>2, <2>3, <2>4, <2>5
<1>5. QED BY <1>1, <1>2, <1>3, <1>4, <1>6 DEF Next, HostNext

LEMMA NumberInit == Init => NumberInv
  BY DEF Init, NumberInv, NumberAt, Held, InCall

(* The host's side.  In a call it works on one engine, which nothing else  *)
(* is in flight on; publishing a job number is what the cluster notices.   *)
LEMMA NumberHost ==
  ASSUME TypeOK, BootInv, NumberInv, LateSignInSafe, HostNext, hpc = "gaveup" => hpc' # "idle"
  PROVE  NumberInv'
<1> USE DEF NumberInv, NumberAt, Held, InCall, TypeOK, HostTypes
<1>1. UNCHANGED <<done_seq, cpc, served, magic>>
  BY DEF HostNext, HostStep, WriteArgs, WriteKernel, WriteFlags, WriteSeq, RingDoorbell,
       PollDone, Collect, Check, GiveUp, InitEngine, Wait, PostRefused, PostAccepted,
       mboxVars, ctrlVars
<1>2. timeouts' >= timeouts /\ timeouts \in Nat /\ timeouts' \in Nat
  BY ConstantsAssumption DEF CountTypes, historyVars, HostNext, HostStep, WriteArgs, WriteKernel,
       WriteFlags, WriteSeq, RingDoorbell, PollDone, Collect, Check, GiveUp, InitEngine, Wait,
       PostRefused, PostAccepted
<1>3. ASSUME NEW f \in Engines, NumberAt(f), seq'[f] = seq[f], next_seq'[f] = next_seq[f],
             Held(f)' <=> Held(f), f \in awaited' <=> f \in awaited
      PROVE  NumberAt(f)'
  <2>1. /\ Unseen(f)' <=> Unseen(f)
        /\ Underway(f)' <=> Underway(f)
        /\ Rested(f)' <=> Rested(f)
    BY <1>1, <1>3 DEF Unseen, Underway, Rested
  <2>2. /\ LateHeld(f)' <=> LateHeld(f)
        /\ LateFree(f)' <=> LateFree(f)
    BY <1>1, <1>3, <2>1 DEF LateHeld, LateFree
  <2>3. timeouts > 0 => timeouts' > 0
    BY <1>2
  <2>4. QED BY <1>1, <1>3, <2>1, <2>2, <2>3 DEF NumberAt
<1>4. CASE WriteArgs \/ WriteKernel \/ WriteFlags
  <2>1. UNCHANGED <<heng, seq, next_seq, in_flight, awaited>> /\ hpc \in InCall
    BY <1>4 DEF WriteArgs, WriteKernel, WriteFlags
  <2>2. {hpc, hpc'} \subseteq {"args", "kernel", "flags", "seq"}
    BY <1>4 DEF WriteArgs, WriteKernel, WriteFlags, AfterStore
  <2>3. QED BY <1>1, <1>3, <2>1, <2>2
<1>5. CASE WriteSeq
  <2>1. /\ UNCHANGED <<heng, in_flight, awaited, timeouts>> /\ ~Held(heng) /\ Held(heng)'
        /\ hpc = "seq" /\ hpc' = "bell" /\ heng \notin awaited
    BY <1>5 DEF WriteSeq, AfterStore, BootInv
  <2>2. seq'[heng] = next_seq'[heng] /\ next_seq'[heng] = NextSeq(next_seq[heng])
        /\ NextSeq(next_seq[heng]) # next_seq[heng]
    BY <1>5, NextSeqDiffers DEF WriteSeq, MboxTypes
  <2>3. NumberAt(heng)'
    <3>1. CASE seq[heng] = next_seq[heng] /\ Rested(heng)
      BY <1>1, <2>1, <2>2, <3>1 DEF Rested, Unseen
    <3>2. CASE timeouts > 0 /\ LateFree(heng)
      <4>1. ASSUME next_seq[heng] \in BootWords \cup {0} PROVE NextSeq(next_seq[heng]) # 0
        BY <3>2, <4>1, ConstantsAssumption DEF LateSignInSafe, CountTypes, NextSeq, Succ, Seqs
      <4>2. CASE cpc[heng] = "boot" /\ next_seq[heng] = done_seq[heng]
        BY <1>1, <2>1, <2>2, <3>2, <4>2 DEF LateHeld
      <4>3. CASE cpc[heng] = "signin" /\ next_seq[heng] \in BootWords \cup {0}
        BY <1>1, <2>1, <2>2, <3>2, <4>1, <4>3 DEF LateHeld
      <4>4. CASE Rested(heng) /\ seq[heng] = 0 /\ next_seq[heng] \in BootWords
        BY <1>1, <2>1, <2>2, <4>1, <4>4 DEF Rested, Unseen
      <4>5. QED BY <3>2, <4>2, <4>3, <4>4 DEF LateFree
    <3>3. QED BY <2>1, <3>1, <3>2
  <2>4. \A f \in Engines \ {heng} : seq'[f] = seq[f] /\ next_seq'[f] = next_seq[f]
    BY <1>5 DEF WriteSeq, MboxTypes
  <2>5. \A f \in Engines \ {heng} : NumberAt(f)'
    BY <1>3, <2>1, <2>4
  <2>6. QED BY <2>1, <2>3, <2>5
<1>6. CASE RingDoorbell
  BY <1>1, <1>3, <1>6 DEF RingDoorbell, mboxVars
<1>7. CASE PollDone
  BY <1>1, <1>3, <1>7 DEF PollDone, mboxVars
<1>8. CASE Collect
  <2>1. seq' = seq /\ next_seq' = next_seq /\ in_flight' = in_flight /\ heng' = heng
        /\ awaited' = awaited /\ hpc = "collect" /\ hpc' = "check"
    BY <1>8 DEF Collect, mboxVars
  <2>2. heng \notin awaited /\ Held(heng) /\ ~LateHeld(heng)
    BY <2>1, NextSeqDiffers DEF BootInv, LateHeld, Rested, MboxTypes
  <2>3. Rested(heng) /\ seq[heng] = next_seq[heng]
    BY <2>1, <2>2 DEF Unseen, Underway
  <2>4. NumberAt(heng)'
    BY <1>1, <2>1, <2>2, <2>3 DEF Rested
  <2>5. QED BY <1>1, <1>3, <2>1, <2>4
<1>9. CASE Check
  <2>1. hpc = "check"
    BY <1>9 DEF Check
  <2>2. QED BY <1>1, <1>3, <1>9, <2>1 DEF Check, mboxVars
<1>10. CASE GiveUp
  BY <1>1, <1>3, <1>10 DEF GiveUp, mboxVars
<1>11. ASSUME NEW e \in Engines, InitEngine(e) PROVE NumberInv'
  <2>1. /\ UNCHANGED <<seq, in_flight, heng>> /\ hpc = "init" /\ hpc' \in {"init", "idle"}
        /\ next_seq'[e] = done_seq[e] /\ e \in awaited /\ e \notin awaited'
        /\ \A f \in Engines : f # e => (f \in awaited' <=> f \in awaited)
        /\ \A f \in Engines \ {e} : next_seq'[f] = next_seq[f]
    BY <1>11 DEF InitEngine, mboxVars
  <2>2. ~Held(e) /\ ~Held(e)'
    BY <2>1
  <2>3. ASSUME magic[e] PROVE NumberAt(e)'
    <3>1. Rested(e)' /\ seq'[e] = next_seq'[e]
      BY <1>1, <2>1, <2>3 DEF Rested
    <3>2. QED BY <2>1, <2>2, <3>1 DEF NumberAt
  <2>4. ASSUME ~magic[e] PROVE NumberAt(e)'
    <3>1. timeouts' > 0
      BY <1>11, <2>4, ConstantsAssumption DEF InitEngine, CountTypes
    <3>2. LateFree(e)'
      BY <1>1, <2>1, <2>2, <2>4 DEF LateFree, BootInv
    <3>3. QED BY <2>1, <2>2, <3>1, <3>2 DEF NumberAt
  <2>5. \A f \in Engines \ {e} : NumberAt(f)'
    BY <1>3, <2>1
  <2>6. NumberAt(e)'
    BY <2>3, <2>4
  <2>7. QED BY <2>1, <2>5, <2>6
<1>12. ASSUME NEW e \in Engines, Wait(e) PROVE NumberInv'
  BY <1>1, <1>3, <1>12 DEF Wait, mboxVars
<1>13. ASSUME NEW e \in Engines, NEW sync \in BOOLEAN, PostRefused(e, sync) PROVE NumberInv'
  BY <1>1, <1>3, <1>13 DEF PostRefused, mboxVars
<1>14. ASSUME NEW e \in Engines, NEW sync \in BOOLEAN, NEW j \in Jobs, PostAccepted(e, j, sync)
       PROVE  NumberInv'
  BY <1>1, <1>3, <1>14 DEF PostAccepted, Accepts, mboxVars
<1>15. QED
  BY <1>4, <1>5, <1>6, <1>7, <1>8, <1>9, <1>10, <1>11, <1>12, <1>13, <1>14
     DEF HostNext, HostStep

(* The cluster's side: only boot moves the numbers without a job, and only *)
(* PublishDone answers one.                                                *)
LEMMA NumberCluster ==
  ASSUME TypeOK, BootInv, NumberInv, LateSignInSafe, NEW e \in Engines, ClusterNext(e)
  PROVE  NumberInv'
<1> USE DEF NumberInv, NumberAt, Held, TypeOK, HostTypes, MboxTypes, CtrlTypes
<1>1. UNCHANGED <<hpc, heng, in_flight, next_seq, awaited, timeouts>>
  BY DEF ClusterNext, CtrlStep, BootClear, SignIn, CheckSeq, Wake, SpuriousWake,
       ClearDoorbell, Latch, ReadKernel, ReadArgs, ReserveScratch, StageIn, Verdict, StageOut,
       PublishDone, RunSlice, Barrier, TrapCore, TrapCtrl, hostVars, historyVars
<1>2. \A f \in Engines \ {e} : /\ cpc'[f] = cpc[f] /\ served'[f] = served[f]
                               /\ seq'[f] = seq[f] /\ done_seq'[f] = done_seq[f]
                               /\ magic'[f] = magic[f]
  BY DEF ClusterNext, CtrlStep, BootClear, SignIn, CheckSeq, Wake, SpuriousWake,
       ClearDoorbell, Latch, ReadKernel, ReadArgs, ReserveScratch, StageIn, Verdict, StageOut,
       PublishDone, RunSlice, Barrier, TrapCore, TrapCtrl, mboxVars, ctrlVars, Step
<1>3. \A f \in Engines \ {e} : NumberAt(f)'
  BY <1>1, <1>2 DEF Unseen, Underway, Rested, LateHeld, LateFree
<1>4. SUFFICES NumberAt(e)' /\ (hpc = "collect" /\ heng = e => done_seq'[e] = done_seq[e])
  BY <1>1, <1>2, <1>3
<1>5. hpc = "collect" /\ heng = e => ~Underway(e) /\ cpc[e] # "boot"
  BY NextSeqDiffers DEF BootInv, LateHeld, Rested, Unseen, Underway, AtTop, Working
<1>6. CASE BootClear(e)
  <2>1. /\ cpc[e] = "boot" /\ cpc'[e] = "signin" /\ seq'[e] = 0 /\ done_seq'[e] = 0
        /\ ~magic[e] /\ magic' = magic
    BY <1>6 DEF BootClear, Step, BootInv
  <2>2. ~Unseen(e) /\ ~Underway(e) /\ ~Rested(e)
    BY <2>1 DEF Unseen, Underway, Rested, AtTop, Working
  <2>3. CASE e \in awaited
    BY <1>1, <2>1, <2>3
  <2>4. CASE e \notin awaited
    <3>1. done_seq[e] \in BootWords /\ timeouts > 0 /\ MaxTimeouts # 0
      BY <2>1, <2>2, <2>4, ConstantsAssumption DEF BootInv, LateHeld, LateFree, CountTypes
    <3>2. NextSeq(done_seq[e]) # 0
      BY <3>1, ConstantsAssumption DEF LateSignInSafe, NextSeq, Succ, Seqs
    <3>3. (Held(e) => LateHeld(e)') /\ (~Held(e) => LateFree(e)')
      BY <1>1, <2>1, <2>2, <2>4, <3>1, <3>2 DEF LateHeld, LateFree
    <3>4. (Held(e)' <=> Held(e)) /\ timeouts' > 0 /\ e \notin awaited'
      BY <1>1, <2>4, <3>1
    <3>5. CASE Held(e)
      BY <1>5, <2>1, <3>3, <3>4, <3>5 DEF NumberAt
    <3>6. CASE ~Held(e)
      BY <3>3, <3>4, <3>6 DEF NumberAt
    <3>7. QED BY <3>5, <3>6
  <2>5. QED BY <1>5, <2>1, <2>3, <2>4
<1>7. CASE SignIn(e)
  <2>1. /\ cpc[e] = "signin" /\ cpc'[e] = "check" /\ UNCHANGED <<seq, done_seq>>
        /\ ~magic[e] /\ magic'[e] /\ served'[e] = 0 /\ done_seq[e] = 0
    BY <1>7 DEF SignIn, Step, BootInv
  <2>2. ~Unseen(e) /\ ~Underway(e) /\ ~Rested(e)
    BY <2>1 DEF Unseen, Underway, Rested, AtTop, Working
  <2>3. seq[e] = 0 => Rested(e)'
    BY <2>1 DEF Rested, AtTop
  <2>4. seq[e] # 0 => Unseen(e)'
    BY <2>1 DEF Unseen, AtTop
  <2>5. CASE e \in awaited
    BY <1>1, <2>1, <2>3, <2>5
  <2>6. CASE e \notin awaited
    BY <1>1, <2>1, <2>2, <2>3, <2>4, <2>6 DEF LateHeld, LateFree
  <2>7. QED BY <2>1, <2>5, <2>6
<1>8. CASE CheckSeq(e) \/ Wake(e) \/ SpuriousWake(e) \/ ClearDoorbell(e)
  <2>1. UNCHANGED <<seq, done_seq, served, magic>>
    BY <1>8 DEF CheckSeq, Wake, SpuriousWake, ClearDoorbell, mboxVars
  <2>2. cpc[e] \in AtTop /\ cpc'[e] \in AtTop \cup {"latch"}
        /\ (seq[e] = served[e] => cpc'[e] \in AtTop)
    BY <1>8 DEF CheckSeq, Wake, SpuriousWake, ClearDoorbell, Step, AtTop
  <2>3. (Unseen(e) => Unseen(e)') /\ (Rested(e) => Rested(e)') /\ ~Underway(e)
        /\ cpc[e] \notin {"boot", "signin"} /\ cpc'[e] \notin {"boot", "signin"}
    BY <2>1, <2>2 DEF Unseen, Underway, Rested, AtTop, Working
  <2>4. QED BY <1>1, <2>1, <2>3 DEF LateHeld, LateFree
<1>9. CASE Latch(e)
  <2>1. UNCHANGED <<seq, done_seq, magic>> /\ served'[e] = seq[e]
        /\ cpc[e] = "latch" /\ cpc'[e] = "kernel"
    BY <1>9 DEF Latch, Step, mboxVars
  <2>2. magic[e] /\ ~Rested(e) /\ ~Underway(e) /\ (Unseen(e) => Underway(e)')
    BY <2>1 DEF Unseen, Underway, Rested, AtTop, Working, BootInv
  <2>3. QED BY <1>1, <2>1, <2>2 DEF LateHeld, LateFree
<1>10. CASE PublishDone(e)
  <2>1. UNCHANGED <<seq, served, magic>> /\ done_seq'[e] = served[e]
        /\ cpc[e] = "done" /\ cpc'[e] = "check"
    BY <1>10 DEF PublishDone, JobNumber, Step
  <2>2. magic[e] /\ ~Rested(e) /\ ~Unseen(e) /\ (Underway(e) => Rested(e)')
    BY <2>1 DEF Unseen, Underway, Rested, AtTop, Working, BootInv
  <2>3. Held(e) /\ e \notin awaited /\ seq[e] = next_seq[e] /\ Underway(e)
    BY <2>1, <2>2 DEF LateHeld, LateFree
  <2>4. QED BY <1>1, <1>5, <2>1, <2>2, <2>3
<1>11. CASE \/ ReadKernel(e) \/ ReadArgs(e) \/ ReserveScratch(e) \/ StageIn(e) \/ Verdict(e)
             \/ StageOut(e) \/ Barrier(e) \/ TrapCtrl(e)
  <2>1. UNCHANGED <<seq, done_seq, served, magic>>
    BY <1>11 DEF ReadKernel, ReadArgs, ReserveScratch, StageIn, Verdict, StageOut, Barrier,
         AllArrived, TrapCtrl, mboxVars
  <2>2. {cpc[e], cpc'[e]} \subseteq Working
    BY <1>11 DEF ReadKernel, ReadArgs, ReserveScratch, StageIn, Verdict, StageOut, Barrier,
         AllArrived, TrapCtrl, Step, Working
  <2>3. (Underway(e) => Underway(e)') /\ ~Rested(e) /\ ~Unseen(e)
    BY <2>1, <2>2 DEF Unseen, Underway, Rested, AtTop, Working
  <2>4. cpc[e] \notin {"boot", "signin"}
    BY <2>2 DEF Working
  <2>5. QED BY <1>1, <2>1, <2>3, <2>4 DEF BootInv, LateHeld, LateFree
<1>12. CASE \E c \in Cores : RunSlice(e, c) \/ TrapCore(e, c)
  <2>1. UNCHANGED <<seq, done_seq, served, magic, cpc>>
    BY <1>12 DEF RunSlice, TrapCore, mboxVars, ctrlVars
  <2>2. QED BY <1>1, <2>1 DEF Unseen, Underway, Rested, LateHeld, LateFree
<1>13. QED
  BY <1>6, <1>7, <1>8, <1>9, <1>10, <1>11, <1>12 DEF ClusterNext, CtrlStep

------------------------------------------------------------------------------
LEMMA DescriptorInit == Init => DescriptorInv
  BY DEF Init, DescriptorInv, Held

(* The host fills in a descriptor field by field while it does not hold    *)
(* the engine; WriteSeq turns the four fields into the job posted.         *)
LEMMA DescriptorHost ==
  ASSUME TypeOK, BootInv, NumberInv, DescriptorInv, HostNext, hpc = "gaveup" => hpc' # "idle"
  PROVE  DescriptorInv'
<1> USE DEF DescriptorInv, TypeOK, HostTypes, MboxTypes
<1>1. UNCHANGED <<cpc, active_kernel, active_args, staged, ops>>
  BY DEF HostNext, HostStep, WriteArgs, WriteKernel, WriteFlags, WriteSeq, RingDoorbell,
       PollDone, Collect, Check, GiveUp, InitEngine, Wait, PostRefused, PostAccepted, ctrlVars
<1>2. CASE WriteArgs \/ WriteKernel \/ WriteFlags
  <2>1. /\ UNCHANGED <<heng, hjob, in_flight, posted>> /\ ~Held(heng)
        /\ \A f \in Engines \ {heng} : /\ args'[f] = args[f] /\ flags'[f] = flags[f]
                                       /\ kernel_id'[f] = kernel_id[f]
    BY <1>2 DEF WriteArgs, WriteKernel, WriteFlags, historyVars, Held, NumberInv, InCall
  <2>2. \A f \in Engines : Held(f)' => Held(f) /\ f # heng
    BY <1>2, <2>1 DEF Held, WriteArgs, WriteKernel, WriteFlags, AfterStore
  <2>3. \A f \in Engines : Held(f)' => DescriptorAt(f)'
    BY <1>1, <2>1, <2>2 DEF DescriptorAt
  <2>4. CASE WriteArgs
    BY <2>1, <2>3, <2>4 DEF WriteArgs, AfterStore
  <2>5. CASE WriteKernel
    BY <2>1, <2>3, <2>5 DEF WriteKernel, AfterStore
  <2>6. CASE WriteFlags
    BY <2>1, <2>3, <2>6 DEF WriteFlags, AfterStore
  <2>7. QED BY <1>2, <2>4, <2>5, <2>6
<1>3. CASE WriteSeq
  <2>1. /\ UNCHANGED <<heng, hjob, in_flight, args, kernel_id, flags>>
        /\ hpc = "seq" /\ hpc' = "bell" /\ ~Held(heng)
        /\ \A f \in Engines \ {heng} : posted'[f] = posted[f]
        /\ posted'[heng] = hjob
    BY <1>3 DEF WriteSeq, AfterStore, NumberInv, InCall, Held, CountTypes
  <2>2. cpc[heng] \in AtTop \cup {"boot", "signin"}
    BY <2>1 DEF NumberInv, NumberAt, BootInv, Rested, LateFree
  <2>3. DescriptorAt(heng)'
    BY <1>1, <2>1, <2>2 DEF DescriptorAt, AtTop
  <2>4. \A f \in Engines \ {heng} : Held(f)' => Held(f) /\ DescriptorAt(f)'
    BY <1>1, <2>1 DEF DescriptorAt, Held
  <2>5. QED BY <2>1, <2>3, <2>4
<1>4. CASE RingDoorbell \/ PollDone \/ Collect \/ Check \/ GiveUp
           \/ (\E e \in Engines : InitEngine(e) \/ Wait(e)
                  \/ \E sync \in BOOLEAN : PostRefused(e, sync)
                                         \/ \E j \in Jobs : PostAccepted(e, j, sync))
  <2>1. UNCHANGED <<args, kernel_id, flags, posted>>
    BY <1>4 DEF RingDoorbell, PollDone, Collect, Check, GiveUp, InitEngine, Wait, PostRefused,
         PostAccepted, mboxVars, historyVars
  <2>2. hpc' \notin {"kernel", "flags", "seq"}
    BY <1>4 DEF RingDoorbell, PollDone, Collect, Check, GiveUp, InitEngine, Wait, PostRefused,
         PostAccepted
  <2>3. \A f \in Engines : Held(f)' => Held(f)
    BY <1>4 DEF RingDoorbell, PollDone, Collect, Check, GiveUp, InitEngine, Wait, PostRefused,
         PostAccepted, Held
  <2>4. QED BY <1>1, <2>1, <2>2, <2>3 DEF DescriptorAt
<1>5. QED BY <1>2, <1>3, <1>4 DEF HostNext, HostStep

(* The cluster's side: it reads the three fields while they stand still.   *)
LEMMA DescriptorCluster ==
  ASSUME TypeOK, NumberInv, DescriptorInv, NEW e \in Engines, ClusterNext(e)
  PROVE  DescriptorInv'
<1> USE DEF DescriptorInv, TypeOK, CtrlTypes
<1>1. UNCHANGED <<hpc, heng, hjob, in_flight, args, kernel_id, flags, posted>>
  BY DEF ClusterNext, CtrlStep, BootClear, SignIn, CheckSeq, Wake, SpuriousWake,
       ClearDoorbell, Latch, ReadKernel, ReadArgs, ReserveScratch, StageIn, Verdict, StageOut,
       PublishDone, RunSlice, Barrier, TrapCore, TrapCtrl, hostVars, mboxVars, historyVars
<1>2. \A f \in Engines : Held(f)' <=> Held(f)
  BY <1>1 DEF Held
<1>3. \A f \in Engines \ {e} : /\ cpc'[f] = cpc[f] /\ active_args'[f] = active_args[f]
                               /\ active_kernel'[f] = active_kernel[f]
                               /\ staged'[f] = staged[f] /\ ops'[f] = ops[f]
                               /\ staged'[f] = staged[f] /\ ops'[f] = ops[f]
  BY DEF ClusterNext, CtrlStep, BootClear, SignIn, CheckSeq, Wake, SpuriousWake,
       ClearDoorbell, Latch, ReadKernel, ReadArgs, ReserveScratch, StageIn, Verdict, StageOut,
       PublishDone, RunSlice, Barrier, TrapCore, TrapCtrl, ctrlVars, Step
<1>4. SUFFICES ASSUME Held(e) PROVE DescriptorAt(e)'
  BY <1>1, <1>2, <1>3 DEF DescriptorAt
<1>5. DescriptorAt(e)
  BY <1>4
<1>6. CASE \/ BootClear(e) \/ SignIn(e) \/ CheckSeq(e) \/ Wake(e) \/ SpuriousWake(e)
           \/ ClearDoorbell(e) \/ Latch(e) \/ PublishDone(e) \/ TrapCtrl(e)
  <2>1. cpc'[e] \in {"signin", "check", "wfi", "clear", "latch", "kernel", "parked"}
    BY <1>6 DEF BootClear, SignIn, CheckSeq, Wake, SpuriousWake, ClearDoorbell, Latch,
         PublishDone, TrapCtrl, Step
  <2>2. QED BY <1>1, <1>5, <2>1 DEF DescriptorAt
<1>7. CASE ReadKernel(e)
  BY <1>1, <1>5, <1>7 DEF ReadKernel, Step, DescriptorAt
<1>8. CASE ReadArgs(e)
  BY <1>1, <1>5, <1>8 DEF ReadArgs, Step, DescriptorAt
<1>9. CASE ReserveScratch(e)
  BY <1>1, <1>5, <1>9 DEF ReserveScratch, Step, DescriptorAt
<1>10. CASE StageIn(e)
  BY <1>1, <1>5, <1>10 DEF StageIn, Step, DescriptorAt
<1>11. CASE Verdict(e)
  BY <1>1, <1>5, <1>11 DEF Verdict, Step, DescriptorAt
<1>12. CASE StageOut(e) \/ Barrier(e)
  BY <1>1, <1>5, <1>12 DEF StageOut, Barrier, AllArrived, Step, DescriptorAt
<1>13. CASE \E c \in Cores : RunSlice(e, c) \/ TrapCore(e, c)
  BY <1>1, <1>5, <1>13 DEF RunSlice, TrapCore, ctrlVars, DescriptorAt
<1>14. QED
  BY <1>6, <1>7, <1>8, <1>9, <1>10, <1>11, <1>12, <1>13 DEF ClusterNext, CtrlStep

------------------------------------------------------------------------------
(* The invariant of a host that has not yet counted a wait that gave up.   *)
Orderly == TypeOK /\ BarrierAligned /\ BootInv /\ NumberInv /\ DescriptorInv

LEMMA OrderlyInit == Init => BootInv /\ NumberInv /\ DescriptorInv
  BY BootInit, NumberInit, DescriptorInit

LEMMA OrderlyStep ==
  ASSUME Orderly, LateSignInSafe, [Next]_vars, hpc = "gaveup" => hpc' # "idle"
  PROVE  BootInv' /\ NumberInv' /\ DescriptorInv'
<1> USE DEF Orderly
<1>1. BootInv'
  BY BootStep
<1>2. CASE HostNext
  BY <1>1, <1>2, NumberHost, DescriptorHost
<1>3. CASE \E e \in Engines : ClusterNext(e)
  BY <1>1, <1>3, NumberCluster, DescriptorCluster
<1>4. CASE UNCHANGED vars
  BY <1>1, <1>4 DEF NumberInv, NumberAt, Held, Unseen, Underway, Rested, LateHeld, LateFree,
       DescriptorInv, DescriptorAt, vars, hostVars, mboxVars, ctrlVars, historyVars
<1>5. QED BY <1>1, <1>2, <1>3, <1>4 DEF Next

(* A host whose waits never run out never gives up.                        *)
LEMMA PatientHost ==
  ASSUME MaxTimeouts = 0, TypeOK, BootInv
  PROVE  timeouts = 0 /\ hpc # "gaveup" /\ LateSignInSafe
  BY ConstantsAssumption DEF TypeOK, CountTypes, BootInv, LateSignInSafe

LEMMA PatientNumbers ==
  ASSUME MaxTimeouts = 0, Orderly, NEW e \in Engines, e \notin awaited
  PROVE  /\ seq[e] = next_seq[e] /\ hpc # "gaveup"
         /\ IF Held(e) THEN Unseen(e) \/ Underway(e) \/ Rested(e) ELSE Rested(e)
  BY PatientHost DEF Orderly, NumberInv, NumberAt

LEMMA OrderlyInvariant == ASSUME MaxTimeouts = 0 PROVE Spec => []Orderly
<1>1. Orderly /\ [Next]_vars => (BootInv /\ NumberInv /\ DescriptorInv)'
  BY OrderlyStep, PatientHost DEF Orderly
<1>2. QED BY OrderlyInit, <1>1, TypeCorrect, BarriersNeverMix, PTL DEF Spec, Orderly

LEMMA CollectedIsAnswered ==
  ASSUME Orderly, hpc = "collect" PROVE Rested(heng) /\ seq[heng] = next_seq[heng]
<1>1. heng \in Engines \ awaited /\ Held(heng) /\ ~LateHeld(heng)
  BY NextSeqDiffers
     DEF Orderly, TypeOK, HostTypes, BootInv, NumberInv, Held, LateHeld, Rested, MboxTypes
<1>2. QED
  BY <1>1 DEF Orderly, NumberInv, NumberAt, Unseen, Underway

LEMMA OrderlyDone == Orderly => NoStaleDone
  BY CollectedIsAnswered DEF NoStaleDone, Rested, AtTop

(* When no wait runs out, done_seq equal to the job number is always the   *)
(* answer to that job (hes_mailbox.h:21).                                  *)
THEOREM DoneIsFresh == ASSUME MaxTimeouts = 0 PROVE Spec => []NoStaleDone
  BY OrderlyDone, OrderlyInvariant, PTL

(* When no wait runs out, hes_post() never writes a descriptor under a     *)
(* cluster that has not served everything published (hes_host.h:54-57).    *)
THEOREM PostFindsClusterAtRest == ASSUME MaxTimeouts = 0 PROVE Spec => []DescriptorStable
<1>1. Orderly => DescriptorStable
  <2> SUFFICES ASSUME Orderly, NEW e \in Engines, Filling(e)
               PROVE  cpc[e] \notin Serving /\ seq[e] = served[e]
    BY DEF DescriptorStable
  <2>1. e \notin awaited /\ ~Held(e) /\ timeouts = 0
    BY PatientHost DEF Orderly, BootInv, NumberInv, Filling, InCall, Held
  <2>2. Rested(e)
    BY <2>1 DEF Orderly, NumberInv, NumberAt
  <2>3. QED BY <2>2 DEF Rested, AtTop, Serving
<1>2. QED BY <1>1, OrderlyInvariant, PTL

(* An engine that is nobody's rests, or is still booting, and the next job *)
(* number differs from the one in its mailbox.                             *)
LEMMA FreeIsAnswerable ==
  ASSUME Orderly, LateSignInSafe, NEW e \in Engines, e \notin awaited, ~Held(e)
  PROVE  /\ cpc[e] \in AtTop \cup {"boot", "signin"}
         /\ Rested(e) => NextSeq(next_seq[e]) # seq[e]
<1> USE DEF Orderly, TypeOK, HostTypes
<1>1. NextSeq(next_seq[e]) # next_seq[e]
  BY NextSeqDiffers
<1>2. CASE seq[e] = next_seq[e] /\ Rested(e)
  BY <1>1, <1>2 DEF Rested
<1>3. CASE timeouts > 0 /\ LateFree(e)
  <2>1. next_seq[e] \in BootWords => NextSeq(next_seq[e]) # 0
    BY <1>3, ConstantsAssumption DEF LateSignInSafe, CountTypes, NextSeq, Succ, Seqs
  <2>2. QED BY <1>3, <2>1 DEF LateFree, Rested, AtTop
<1>4. QED BY <1>2, <1>3 DEF NumberInv, NumberAt

(* While a cluster works on a job its caller holds it for that job.        *)
LEMMA WorkIsHeld ==
  ASSUME Orderly, NEW e \in Engines, cpc[e] \in Working
  PROVE  Held(e) /\ Underway(e) /\ seq[e] = next_seq[e] /\ DescriptorAt(e)
<1>1. ~Rested(e) /\ ~Unseen(e) /\ ~LateHeld(e) /\ ~LateFree(e) /\ magic[e]
  BY DEF Orderly, BootInv, Rested, Unseen, LateHeld, LateFree, AtTop, Working
<1>2. QED BY <1>1 DEF Orderly, NumberInv, NumberAt, DescriptorInv

LEMMA OrderlyServes == Orderly => ServesPostedJob
<1> SUFFICES ASSUME Orderly, NEW e \in Engines,
                    cpc[e] \in {"verdict", "bar1", "bar2", "out", "done"}
             PROVE  /\ args[e] = posted[e].args /\ active_args[e] = posted[e].args
                    /\ active_kernel[e] \in {posted[e].kernel, NoKernel}
                    /\ served[e] = next_seq[e]
  BY DEF ServesPostedJob
<1>1. Underway(e) /\ seq[e] = next_seq[e] /\ DescriptorAt(e)
  BY WorkIsHeld DEF Working
<1>2. QED BY <1>1 DEF DescriptorAt, Underway

(* When no wait runs out, the cluster works on exactly the job posted, and *)
(* on no mixture of two descriptors (cluster_main.c:366-401).              *)
THEOREM PostedJobIsServed == ASSUME MaxTimeouts = 0 PROVE Spec => []ServesPostedJob
  BY OrderlyServes, OrderlyInvariant, PTL

(* A cluster writes main memory only while it is in the job its caller     *)
(* holds it for, and only that job's output.                               *)
LEMMA OnlyHeldWrite ==
  ASSUME Orderly, NEW e \in Engines, ClusterNext(e), NEW b \in Buffers, mem'[b] # mem[b]
  PROVE  /\ Held(e) /\ Underway(e) /\ DescriptorAt(e) /\ seq[e] = next_seq[e]
         /\ cpc[e] \in {"bar2", "out"} /\ b = Writes(posted[e])
<1> USE DEF Orderly, TypeOK
<1>1. StageOut(e) \/ \E c \in Cores : RunSlice(e, c)
  BY DEF dataVars, ClusterNext, CtrlStep, BootClear, SignIn, CheckSeq, Wake, SpuriousWake,
       ClearDoorbell, Latch, ReadKernel, ReadArgs, ReserveScratch, StageIn, Verdict, PublishDone,
       Barrier, TrapCore, TrapCtrl
<1>2. cpc[e] \in {"bar2", "out"}
  BY <1>1 DEF StageOut, Step, RunSlice, BarrierAligned
<1>4. Held(e) /\ Underway(e) /\ seq[e] = next_seq[e]
  BY <1>2, WorkIsHeld DEF Working
<1>5. DescriptorAt(e)
  BY <1>2, WorkIsHeld DEF Working
<1>6. CASE StageOut(e)
  <2>1. b = Writes(posted[e])
    BY <1>2, <1>5, <1>6, ConstantsAssumption
       DEF StageOut, Step, DescriptorAt, Writes, Output, DataTypes, MboxTypes, CtrlTypes
  <2>2. QED BY <1>2, <1>4, <1>5, <2>1
<1>7. ASSUME NEW c \in Cores, RunSlice(e, c) PROVE b = Writes(posted[e])
  <2>1. active_kernel[e] = posted[e].kernel /\ active_args[e] = posted[e].args
        /\ b = Output(active_kernel[e], active_args[e])
    BY <1>2, <1>5, <1>7 DEF RunSlice, DescriptorAt, DataTypes, BarrierAligned
  <2>2. QED BY <2>1 DEF Writes
<1>8. QED BY <1>1, <1>2, <1>4, <1>5, <1>6, <1>7

(* When no wait runs out, main memory changes only in the output buffer of *)
(* a job that is posted and not yet reported done.                         *)
THEOREM OnlyOwnOutputWritten == ASSUME MaxTimeouts = 0 PROVE Spec => WritesOnlyOwnOutput
<1>1. Orderly /\ [Next]_vars =>
        [\A b \in Buffers : mem'[b] # mem[b] =>
           \E e \in Engines : b = Writes(posted[e]) /\ done_seq[e] # next_seq[e]]_vars
  <2> SUFFICES ASSUME Orderly, Next, NEW b \in Buffers, mem'[b] # mem[b]
               PROVE  \E e \in Engines : b = Writes(posted[e]) /\ done_seq[e] # next_seq[e]
    OBVIOUS
  <2>1. PICK e \in Engines : ClusterNext(e)
    BY DEF Next, HostNext, HostStep, WriteArgs, WriteKernel, WriteFlags, WriteSeq, RingDoorbell,
         PollDone, Collect, Check, GiveUp, InitEngine, Wait, PostRefused, PostAccepted, dataVars
  <2>2. Underway(e) /\ seq[e] = next_seq[e] /\ b = Writes(posted[e])
    BY <2>1, OnlyHeldWrite
  <2>3. QED BY <2>2 DEF Underway
<1>2. QED BY <1>1, OrderlyInvariant, PTL DEF Spec, WritesOnlyOwnOutput

------------------------------------------------------------------------------
(* What is counted.  The losses yet to be counted form a set, one element  *)
(* for each call the program owes and will find lost, so that one loss is  *)
(* one element more and one count one less.                                *)

(* The job of engine e was refused by its cluster, and the host may see it. *)
RefusalSeen(e) == done_seq[e] = next_seq[e] /\ error[e]

(* One of the calls the program owes for e is not lost: its job is under   *)
(* way or done, or collected and good.                                     *)
Sound(e) ==
  \/ Filling(e)
  \/ Held(e) /\ ~RefusalSeen(e)
  \/ heng = e /\ hpc = "check" /\ hok

(* The losses hes_check() has yet to count: all calls owed but that one.   *)
Uncounted(e) == IF Sound(e) THEN owed[e] - 1 ELSE owed[e]
Losses == {l \in Engines \X Nat : 1 <= l[2] /\ l[2] <= Uncounted(l[1])}

(* The calls under way for e: one in flight, one the program is in.        *)
CallsAt(e) ==
  (IF in_flight[e] THEN 1 ELSE 0)
    + (IF heng = e /\ hpc \notin {"init", "idle"} THEN 1 ELSE 0)

CallsInv ==
  /\ \A e \in Engines : CallsAt(e) <= owed[e]
  /\ hpc = "check" /\ hok => ~in_flight[heng]

(* What was lost is what is counted and what is yet to be, modulo 2^32.    *)
Balanced ==
  /\ IsFiniteSet(Losses)
  /\ \E q \in Int : lost + q * CountMod = failure_count + Cardinality(Losses)

LossInv == timeouts = 0 => Orderly /\ CallsInv /\ Balanced

LEMMA SuccWraps ==
  ASSUME NEW n \in Counts
  PROVE  \E q \in {0, 1} : Succ(n, CountMod) = n + 1 - q * CountMod
  BY ConstantsAssumption DEF Counts, Succ

LEMMA UncountedIsNat ==
  ASSUME TypeOK, Orderly, timeouts = 0, CallsInv, NEW e \in Engines
  PROVE  Uncounted(e) \in Nat
<1>1. Sound(e) => CallsAt(e) >= 1
  BY DEF Sound, Filling, Held, CallsAt, TypeOK, HostTypes
<1>2. QED
  BY <1>1 DEF Uncounted, CallsInv, TypeOK, CountTypes, CallsAt

(* Nothing lost and nothing counted. *)
LEMMA LossSame ==
  ASSUME Balanced, \A f \in Engines : Uncounted(f)' = Uncounted(f),
         lost' = lost, failure_count' = failure_count
  PROVE  Balanced'
<1>1. Losses' = Losses
  BY DEF Losses
<1>2. QED BY <1>1 DEF Balanced

(* A loss that is not counted yet. *)
LEMMA LossHappens ==
  ASSUME Balanced, lost \in Counts, failure_count \in Counts,
         NEW e \in Engines, Uncounted(e) \in Nat,
         Uncounted(e)' = Uncounted(e) + 1,
         \A f \in Engines \ {e} : Uncounted(f)' = Uncounted(f),
         lost' = Succ(lost, CountMod), failure_count' = failure_count
  PROVE  Balanced'
<1> DEFINE new == <<e, Uncounted(e) + 1>>
<1>1. Losses' = Losses \cup {new} /\ new \notin Losses
  <2>1. ASSUME NEW l PROVE l \in Losses' <=> l \in Losses \cup {new}
    <3>1. CASE l \in Engines \X Nat /\ l[1] = e
      BY <3>1 DEF Losses
    <3>2. CASE l \in Engines \X Nat /\ l[1] # e
      BY <3>2 DEF Losses
    <3>3. CASE l \notin Engines \X Nat
      BY <3>3 DEF Losses
    <3>4. QED BY <3>1, <3>2, <3>3
  <2>2. new \notin Losses
    BY DEF Losses
  <2>3. QED BY <2>1, <2>2
<1>2. IsFiniteSet(Losses') /\ Cardinality(Losses') = Cardinality(Losses) + 1
  BY <1>1, FS_AddElement DEF Balanced
<1>3. Cardinality(Losses) \in Nat
  BY FS_CardinalityType DEF Balanced
<1>4. PICK q \in Int : lost + q * CountMod = failure_count + Cardinality(Losses)
  BY DEF Balanced
<1>5. PICK p \in {0, 1} : lost' = lost + 1 - p * CountMod
  BY SuccWraps
<1>6. lost' + (q + p) * CountMod = failure_count' + Cardinality(Losses')
  <2>1. (q + p) * CountMod = q * CountMod + p * CountMod
    BY ConstantsAssumption
  <2>2. p * CountMod \in Int /\ q * CountMod \in Int /\ lost \in Int /\ failure_count \in Int
    BY ConstantsAssumption DEF Counts
  <2>3. QED BY <1>2, <1>3, <1>4, <1>5, <2>1, <2>2
<1>7. QED BY <1>2, <1>6 DEF Balanced

(* A loss is counted. *)
LEMMA LossIsCounted ==
  ASSUME Balanced, lost \in Counts, failure_count \in Counts,
         NEW e \in Engines, Uncounted(e) \in Nat \ {0},
         Uncounted(e)' = Uncounted(e) - 1,
         \A f \in Engines \ {e} : Uncounted(f)' = Uncounted(f),
         lost' = lost, failure_count' = Succ(failure_count, CountMod)
  PROVE  Balanced'
<1> DEFINE old == <<e, Uncounted(e)>>
<1>1. Losses' = Losses \ {old} /\ old \in Losses
  <2>1. ASSUME NEW l PROVE l \in Losses' <=> l \in Losses \ {old}
    <3>1. CASE l \in Engines \X Nat /\ l[1] = e
      BY <3>1 DEF Losses
    <3>2. CASE l \in Engines \X Nat /\ l[1] # e
      BY <3>2 DEF Losses
    <3>3. CASE l \notin Engines \X Nat
      BY <3>3 DEF Losses
    <3>4. QED BY <3>1, <3>2, <3>3
  <2>2. old \in Losses
    BY DEF Losses
  <2>3. QED BY <2>1, <2>2
<1>2. IsFiniteSet(Losses') /\ Cardinality(Losses') = Cardinality(Losses) - 1
  BY <1>1, FS_RemoveElement DEF Balanced
<1>3. Cardinality(Losses) \in Nat
  BY FS_CardinalityType DEF Balanced
<1>4. PICK q \in Int : lost + q * CountMod = failure_count + Cardinality(Losses)
  BY DEF Balanced
<1>5. PICK p \in {0, 1} : failure_count' = failure_count + 1 - p * CountMod
  BY SuccWraps
<1>6. lost' + (q - p) * CountMod = failure_count' + Cardinality(Losses')
  <2>1. (q - p) * CountMod = q * CountMod - p * CountMod
    BY ConstantsAssumption
  <2>2. p * CountMod \in Int /\ q * CountMod \in Int /\ lost \in Int /\ failure_count \in Int
    BY ConstantsAssumption DEF Counts
  <2>3. QED BY <1>2, <1>3, <1>4, <1>5, <2>1, <2>2
<1>7. q - p \in Int
  OBVIOUS
<1>8. QED BY <1>2, <1>6, <1>7 DEF Balanced

LEMMA LossInit == Init => CallsInv /\ Balanced
<1> SUFFICES ASSUME Init PROVE CallsInv /\ Balanced
  OBVIOUS
<1>1. CallsInv
  BY DEF Init, CallsInv, CallsAt
<1>2. \A e \in Engines : Uncounted(e) = 0
  BY DEF Init, Uncounted, Sound, Filling, Held
<1>3. Losses = {}
  BY <1>2 DEF Losses
<1>4. lost + 0 * CountMod = failure_count + Cardinality(Losses) /\ IsFiniteSet(Losses)
  BY <1>3, FS_EmptySet, ConstantsAssumption DEF Init
<1>5. QED BY <1>1, <1>4 DEF Balanced

(* The host's steps. *)
LEMMA LossHost ==
  ASSUME TypeInv, TypeInv', Orderly, TrapParks, CallsInv, Balanced, timeouts = 0, timeouts' = 0, HostNext
  PROVE  CallsInv' /\ Balanced'
<1> USE DEF TypeInv, TypeOK, HostTypes
<1> DEFINE Same == \A f \in Engines : Uncounted(f)' = Uncounted(f)
<1>1. ASSUME NEW e \in Engines, InitEngine(e) PROVE CallsInv' /\ Balanced'
  <2>1. \A f \in Engines : ~in_flight[f]
    BY <1>1 DEF InitEngine, Orderly, BootInv
  <2>2. CallsInv' /\ Same
    BY <1>1, <2>1 DEF InitEngine, CallsInv, CallsAt, Uncounted, Sound, Filling, Held
  <2>3. QED BY <1>1, <2>2, LossSame DEF InitEngine
<1>2. ASSUME NEW e \in Engines, NEW j \in Jobs, NEW sync \in BOOLEAN, PostAccepted(e, j, sync)
      PROVE  CallsInv' /\ Balanced'
  <2>1. CallsInv'
    BY <1>2 DEF PostAccepted, Accepts, CallsInv, CallsAt, CountTypes
  <2>2. Same
    BY <1>2 DEF PostAccepted, Accepts, Uncounted, Sound, Filling, Held, CountTypes, mboxVars,
         RefusalSeen
  <2>3. QED BY <1>2, <2>1, <2>2, LossSame DEF PostAccepted, historyVars
<1>3. ASSUME NEW e \in Engines, NEW sync \in BOOLEAN, PostRefused(e, sync)
      PROVE  CallsInv' /\ Balanced'
  <2>1. CallsInv'
    BY <1>3 DEF PostRefused, CallsInv, CallsAt, CountTypes
  <2>2. Uncounted(e)' = Uncounted(e) + 1 /\ \A f \in Engines \ {e} : Uncounted(f)' = Uncounted(f)
    BY <1>3 DEF PostRefused, Uncounted, Sound, Filling, Held, CountTypes, mboxVars, RefusalSeen
  <2>3. QED BY <1>3, <2>1, <2>2, LossHappens, UncountedIsNat DEF PostRefused, CountTypes
<1>4. CASE WriteArgs \/ WriteKernel \/ WriteFlags \/ RingDoorbell \/ PollDone
  <2>1. CallsInv' /\ Same
    BY <1>4 DEF WriteArgs, WriteKernel, WriteFlags, RingDoorbell, PollDone, AfterStore, CallsInv,
         CallsAt, CountTypes, Uncounted, Sound, Filling, Held, RefusalSeen, mboxVars,
         Orderly, NumberInv, InCall
  <2>2. QED BY <1>4, <2>1, LossSame DEF WriteArgs, WriteKernel, WriteFlags, RingDoorbell, PollDone,
         historyVars
<1>5. CASE WriteSeq
  <2>1. ~in_flight[heng] /\ heng \notin awaited /\ ~Held(heng)
    BY <1>5 DEF WriteSeq, Orderly, BootInv, NumberInv, InCall, Held
  <2>2. done_seq[heng] # NextSeq(next_seq[heng])
    BY <2>1, NextSeqDiffers DEF Orderly, NumberInv, NumberAt, Rested
  <2>3. CallsInv' /\ Same
    BY <1>5, <2>1, <2>2 DEF WriteSeq, AfterStore, CallsInv, CallsAt, CountTypes, Uncounted, Sound,
         Filling, Held, RefusalSeen
  <2>4. QED BY <1>5, <2>3, LossSame DEF WriteSeq
<1>6. ASSUME NEW e \in Engines, Wait(e) PROVE CallsInv' /\ Balanced'
  <2>1. CallsInv' /\ Same
    BY <1>6 DEF Wait, CallsInv, CallsAt, CountTypes, Uncounted, Sound, Filling, Held, RefusalSeen,
         mboxVars
  <2>2. QED BY <1>6, <2>1, LossSame DEF Wait, historyVars
<1>7. CASE Collect
  <2>1. Rested(heng) /\ done_seq[heng] = next_seq[heng] /\ ~in_flight[heng]
    BY <1>7, CollectedIsAnswered DEF Collect, Rested, Orderly, NumberInv, InCall
  <2>2. ~trap_cause[heng]
    BY <2>1 DEF TrapParks, Parked, Rested, AtTop
  <2>3. CallsInv' /\ Same
    BY <1>7, <2>1, <2>2 DEF Collect, CallsInv, CallsAt, CountTypes, Uncounted, Sound,
         Filling, Held, RefusalSeen, mboxVars
  <2>4. QED BY <1>7, <2>3, LossSame DEF Collect, historyVars
<1>8. CASE Check
  <2>1. hpc = "check"
    BY <1>8 DEF Check, Orderly, BootInv
  <2>2. CallsInv'
    BY <1>8, <2>1 DEF Check, CallsInv, CallsAt, CountTypes
  <2>3. CASE hok
    <3>1. Same
      BY <1>8, <2>1, <2>3 DEF Check, CallsInv, CountTypes, Uncounted, Sound, Filling, Held,
           RefusalSeen, mboxVars
    <3>2. QED BY <1>8, <2>2, <2>3, <3>1, LossSame DEF Check, Failures
  <2>4. CASE ~hok
    <3>1. Uncounted(heng)' = Uncounted(heng) - 1
          /\ \A f \in Engines \ {heng} : Uncounted(f)' = Uncounted(f)
      BY <1>8, <2>1, <2>4 DEF Check, CountTypes, Uncounted, Sound, Filling, Held,
           RefusalSeen, mboxVars
    <3>2. Uncounted(heng) # 0
      BY <2>1, <2>4 DEF CallsInv, CallsAt, CountTypes, Uncounted, Sound, Filling, Held
    <3>3. QED BY <1>8, <2>2, <2>4, <3>1, <3>2, LossIsCounted, UncountedIsNat
                 DEF Check, Failures, CountTypes
  <2>5. QED BY <2>3, <2>4
<1>9. CASE GiveUp
  BY <1>9 DEF GiveUp
<1>10. QED BY <1>1, <1>2, <1>3, <1>4, <1>5, <1>6, <1>7, <1>8, <1>9 DEF HostNext, HostStep

(* The clusters' steps. *)
LEMMA LossCluster ==
  ASSUME TypeInv, TypeInv', Orderly, CallsInv, Balanced, timeouts = 0,
         NEW e \in Engines, ClusterNext(e)
  PROVE  CallsInv' /\ Balanced'
<1> USE DEF TypeInv, TypeOK, HostTypes
<1>1. UNCHANGED <<hostVars, owed>>
  BY DEF ClusterNext, CtrlStep, BootClear, SignIn, CheckSeq, Wake, SpuriousWake, ClearDoorbell,
       Latch, ReadKernel, ReadArgs, ReserveScratch, StageIn, Verdict, StageOut, PublishDone,
       RunSlice, Barrier, TrapCore, TrapCtrl
<1>2. CallsInv'
  BY <1>1 DEF CallsInv, CallsAt, hostVars
<1>3. CASE PublishDone(e)
  <2>1. Held(e) /\ ~Filling(e) /\ done_seq[e] # next_seq[e] /\ served[e] = next_seq[e]
        /\ ~(heng = e /\ hpc = "check" /\ hok)
    BY <1>3, WorkIsHeld DEF PublishDone, Step, Working, Underway, Orderly, NumberInv, InCall, Held,
         Filling, CallsInv
  <2>2. \A f \in Engines \ {e} : Uncounted(f)' = Uncounted(f)
    BY <1>1, <1>3 DEF PublishDone, Uncounted, Sound, Filling, Held, RefusalSeen, hostVars, MboxTypes
  <2>3. CASE error[e]
    <3>1. Uncounted(e)' = Uncounted(e) + 1
      BY <1>1, <1>3, <2>1, <2>3 DEF PublishDone, JobNumber, Uncounted, Sound, Filling, Held,
           RefusalSeen, hostVars, MboxTypes, CountTypes
    <3>2. QED BY <1>1, <1>2, <1>3, <2>2, <2>3, <3>1, LossHappens, UncountedIsNat
                 DEF PublishDone, hostVars, CountTypes
  <2>4. CASE ~error[e]
    <3>1. Uncounted(e)' = Uncounted(e)
      BY <1>1, <1>3, <2>1, <2>4 DEF PublishDone, JobNumber, Uncounted, Sound, Filling, Held,
           RefusalSeen, hostVars, MboxTypes, CountTypes
    <3>2. QED BY <1>1, <1>2, <1>3, <2>2, <2>4, <3>1, LossSame DEF PublishDone, hostVars
  <2>5. QED BY <2>3, <2>4
<1>4. CASE ~PublishDone(e)
  <2>1. \A f \in Engines : Sound(f)' = Sound(f)
    <3>1. CASE BootClear(e)
      <4>1. ~in_flight[e] /\ hpc = "init"
        BY <3>1 DEF BootClear, Step, Orderly, BootInv
      <4>2. QED BY <1>1, <3>1, <4>1 DEF BootClear, Sound, Filling, Held, RefusalSeen, hostVars,
                 MboxTypes
    <3>2. CASE Verdict(e)
      <4>1. done_seq[e] # next_seq[e]
        BY <3>2, WorkIsHeld DEF Verdict, Step, Working, Underway
      <4>2. QED BY <1>1, <3>2, <4>1 DEF Verdict, Sound, Filling, Held, RefusalSeen, hostVars,
                 MboxTypes
    <3>3. CASE ~BootClear(e) /\ ~Verdict(e)
      <4>1. UNCHANGED <<done_seq, error>>
        BY <1>4, <3>3 DEF ClusterNext, CtrlStep, SignIn, CheckSeq, Wake, SpuriousWake,
             ClearDoorbell, Latch, ReadKernel, ReadArgs, ReserveScratch, StageIn, StageOut,
             RunSlice, Barrier, TrapCore, TrapCtrl, mboxVars
      <4>2. QED BY <1>1, <4>1 DEF Sound, Filling, Held, RefusalSeen, hostVars
    <3>4. QED BY <3>1, <3>2, <3>3
  <2>2. lost' = lost
    BY <1>4 DEF ClusterNext, CtrlStep, BootClear, SignIn, CheckSeq, Wake, SpuriousWake,
         ClearDoorbell, Latch, ReadKernel, ReadArgs, ReserveScratch, StageIn, Verdict, StageOut,
         RunSlice, Barrier, TrapCore, TrapCtrl, historyVars
  <2>3. QED BY <1>1, <1>2, <2>1, <2>2, LossSame DEF Uncounted, hostVars
<1>5. QED BY <1>3, <1>4

LEMMA LossStep ==
  ASSUME LateSignInSafe, TypeInv, TypeInv', BarrierAligned', TrapParks, LossInv, [Next]_vars
  PROVE  LossInv'
<1> SUFFICES ASSUME timeouts' = 0 PROVE (Orderly /\ CallsInv /\ Balanced)'
  BY DEF LossInv
<1>1. timeouts = 0
  <2>1. CASE GiveUp \/ \E e \in Engines : InitEngine(e)
    BY <2>1, ConstantsAssumption DEF GiveUp, InitEngine, TypeInv, TypeOK, CountTypes
  <2>2. CASE HostStep \/ \E e \in Engines : Wait(e) \/ (\E sync \in BOOLEAN :
              PostRefused(e, sync) \/ \E j \in Jobs : PostAccepted(e, j, sync))
    BY <2>2 DEF HostStep, WriteArgs, WriteKernel, WriteFlags, WriteSeq, RingDoorbell, PollDone,
       Collect, Check, Wait, PostRefused, PostAccepted, historyVars
  <2>3. ASSUME NEW e \in Engines, ClusterNext(e) PROVE timeouts' = timeouts
    BY <2>3 DEF ClusterNext, CtrlStep, BootClear, SignIn, CheckSeq, Wake, SpuriousWake,
       ClearDoorbell, Latch, ReadKernel, ReadArgs, ReserveScratch, StageIn, Verdict, StageOut,
       PublishDone, RunSlice, Barrier, TrapCore, TrapCtrl, historyVars
  <2>4. CASE UNCHANGED vars
    BY <2>4 DEF vars, historyVars
  <2>5. QED BY <2>1, <2>2, <2>3, <2>4 DEF Next, HostNext
<1>2. Orderly /\ CallsInv /\ Balanced
  BY <1>1 DEF LossInv
<1>3. hpc # "gaveup"
  BY <1>1, <1>2 DEF Orderly, BootInv
<1>4. Orderly'
  BY <1>2, <1>3, OrderlyStep DEF Orderly, TypeInv
<1>5. CASE HostNext
  BY <1>1, <1>2, <1>4, <1>5, LossHost
<1>6. CASE \E e \in Engines : ClusterNext(e)
  BY <1>1, <1>2, <1>4, <1>6, LossCluster
<1>7. CASE UNCHANGED vars
  <2>1. CallsInv' /\ \A f \in Engines : Uncounted(f)' = Uncounted(f)
    BY <1>2, <1>7 DEF vars, hostVars, mboxVars, CallsInv, CallsAt, Uncounted, Sound, Filling, Held,
         RefusalSeen
  <2>2. QED BY <1>2, <1>4, <1>7, <2>1, LossSame DEF vars, hostVars, historyVars
<1>8. QED BY <1>5, <1>6, <1>7 DEF Next

(* Every offload that went wrong is counted exactly once (hes_host.c:28,   *)
(* 87-90): while no wait has run out, failure_count is, whenever the       *)
(* program has waited for all it posted, the number of posts and jobs that *)
(* were refused, however many engines there are and though both wrap.      *)
THEOREM LossesAreAlwaysCounted ==
  ASSUME LateSignInSafe PROVE Spec => []EveryLossCounted
<1>1. Init => LossInv
  BY InitTypeInv, OrderlyInit, LossInit DEF LossInv, Orderly, TypeInv, Init, BarrierAligned
<1>2. LossInv /\ TypeInv /\ TypeInv' /\ BarrierAligned' /\ TrapParks /\ [Next]_vars => LossInv'
  BY LossStep
<1>3. LossInv /\ TypeInv => EveryLossCounted
  <2> SUFFICES ASSUME LossInv, TypeInv, hpc = "idle", timeouts = 0, \A e \in Engines : owed[e] = 0
               PROVE  failure_count = lost
    BY DEF EveryLossCounted
  <2>1. CallsInv /\ Balanced /\ Orderly
    BY DEF LossInv
  <2>2. ASSUME NEW e \in Engines, in_flight[e] PROVE FALSE
    <3>1. CallsAt(e) = 1
      BY <2>2 DEF CallsAt
    <3>2. QED BY <2>1, <3>1 DEF CallsInv
  <2>3. Losses = {}
    BY <2>2 DEF Losses, Uncounted, Sound, Filling, Held
  <2>4. PICK q \in Int : lost + q * CountMod = failure_count
    BY <2>1, <2>3, FS_EmptySet DEF Balanced, TypeInv, TypeOK, HostTypes, Counts
  <2>5. lost \in 0..(CountMod - 1) /\ failure_count \in 0..(CountMod - 1) /\ CountMod \in Nat \ {0}
    BY ConstantsAssumption DEF TypeInv, TypeOK, HostTypes, CountTypes, Counts
  <2>6. q = 0
    <3>1. CASE q >= 1
      <4>1. q * CountMod >= CountMod
        BY <2>5, <3>1
      <4>2. QED BY <2>4, <2>5, <4>1
    <3>2. CASE q <= -1
      <4>1. q * CountMod <= -CountMod
        BY <2>5, <3>2
      <4>2. QED BY <2>4, <2>5, <4>1
    <3>3. QED BY <3>1, <3>2
  <2>7. QED BY <2>4, <2>5, <2>6
<1>4. QED BY <1>1, <1>2, <1>3, TypeInvInvariant, BarriersNeverMix, TrapParksInvariant, PTL DEF Spec

------------------------------------------------------------------------------
(* What the caller finds in memory, while every wait that gave up is still *)
(* to be counted: an answer taken as good is good, and it stays good until *)
(* the program posts a job over it.  For a host whose waits never run out  *)
(* (MaxTimeouts = 0), the mailbox as a whole implements Offload.           *)

(* The job the program has last handed to e, published or not; jobs run    *)
(* side by side keep their promise not to write each other's operands.     *)
Current(e) == IF Filling(e) THEN hjob ELSE posted[e]
Apart(j, k) == Writes(j) \notin Pointers(k) /\ Writes(k) \notin Pointers(j)

SharingInv ==
  \A e, f \in Engines : e # f /\ Busy(e) /\ Busy(f) => Apart(Current(e), Current(f))

(* The job the engine's caller waits for has been answered.                *)
Answered(e) == Rested(e) /\ seq[e] = next_seq[e]

(* What the control core finds out about the job it serves.                *)
CanStage(e)     == StageFlag(e, posted[e]) /\ posted[e].args \in OperandsFit
LacksScratch(e) == posted[e].kernel \in NeedsScratch /\ posted[e].args \notin ScratchFits

(* A core's slice of the result is where stage_out() or the caller expects *)
(* it; the whole result is in the output buffer.                           *)
SliceDone(e, c) ==
  LET v == Value(posted[e].kernel, posted[e].args)
  IN  IF staged[e] THEN local[e][c] = v ELSE mem[Writes(posted[e])][c] = v
Delivered(e) == mem[Writes(posted[e])] = Result(posted[e])

(* How far the job an engine holds has got, from the checks to the answer. *)
ScratchAt(e) ==
  cpc[e] \in {"stage", "verdict", "bar1", "bar2", "out", "done"}
    => (no_scratch[e] <=> LacksScratch(e))
StagedAt(e) ==
  cpc[e] \in {"verdict", "bar1", "bar2", "out", "done"} => (staged[e] <=> CanStage(e))
VerdictAt(e) ==
  /\ cpc[e] \in {"bar1", "bar2", "out", "done"} \/ Answered(e)
       => (error[e] <=> ~Runnable(e, posted[e]))
  /\ cpc[e] \in {"bar1", "bar2", "out"} /\ ~error[e] => active_kernel[e] = posted[e].kernel
SlicesAt(e) ==
  /\ cpc[e] = "bar2" /\ ~error[e] => \A c \in Cores : corepc[e][c] = "bar2" => SliceDone(e, c)
  /\ cpc[e] = "out" /\ ~error[e] => \A c \in Cores : SliceDone(e, c)
OutputAt(e) == (cpc[e] = "done" \/ Answered(e)) /\ ~error[e] => Delivered(e)

AnswerAt(e) == ScratchAt(e) /\ StagedAt(e) /\ VerdictAt(e) /\ SlicesAt(e) /\ OutputAt(e)

AnswerInv ==
  /\ \A e \in Engines : Held(e) => AnswerAt(e)
  /\ hpc = "check" /\ hok =>
       ~in_flight[heng] /\ Runnable(heng, posted[heng]) /\ Delivered(heng)

TrustInv ==
  /\ TrustedIntact
  /\ \A e \in Engines : Held(e) => trusted[Writes(posted[e])] = Blank

------------------------------------------------------------------------------
(* Buffers of jobs, and the engines a call is about.                       *)

LEMMA JobBuffers ==
  ASSUME NEW j \in Jobs
  PROVE  /\ j.kernel \in Kernels /\ j.args \in Args
         /\ Writes(j) \in Buffers /\ Writes(j) \in Pointers(j)
         /\ Value(j.kernel, j.args) \in Content
  BY ConstantsAssumption DEF Writes, Output, Pointers, Value, Content

LEMMA HeldIsBusy ==
  ASSUME TypeInv, Orderly, NEW e \in Engines, Held(e)
  PROVE  Busy(e) /\ ~Filling(e) /\ Current(e) = posted[e]
<1>1. hpc \in {"bell", "poll", "collect", "gaveup"} => owed[heng] > 0
  BY DEF TypeInv, CallOwed
<1>2. Busy(e)
  BY <1>1 DEF Held, Busy
<1>3. ~Filling(e)
  BY DEF Held, Filling, Orderly, NumberInv, InCall
<1>4. QED BY <1>2, <1>3 DEF Current

LEMMA SharingInit == Init => SharingInv
  BY DEF Init, SharingInv, Busy

LEMMA SharingStep ==
  ASSUME TypeInv, SharingInv, [Next]_vars PROVE SharingInv'
<1> USE DEF SharingInv, TypeInv, TypeOK, HostTypes, CountTypes
<1>1. ASSUME \A e \in Engines : Busy(e)' => Busy(e) /\ Current(e)' = Current(e)
      PROVE  SharingInv'
  BY <1>1 DEF Apart
<1>2. CASE WriteArgs \/ WriteKernel \/ WriteFlags
  BY <1>1, <1>2 DEF WriteArgs, WriteKernel, WriteFlags, AfterStore, historyVars, Busy, Current, Filling
<1>3. CASE WriteSeq
  BY <1>1, <1>3 DEF WriteSeq, AfterStore, Busy, Current, Filling
<1>4. CASE RingDoorbell
  BY <1>1, <1>4 DEF RingDoorbell, CallOwed, historyVars, Busy, Current, Filling
<1>5. CASE PollDone \/ Collect \/ GiveUp
  BY <1>1, <1>5 DEF PollDone, Collect, GiveUp, historyVars, Busy, Current, Filling
<1>6. CASE Check
  <2>1. \A e \in Engines : owed'[e] > 0 => owed[e] > 0
    BY <1>6, ConstantsAssumption DEF Check, CallOwed
  <2>2. QED BY <1>1, <1>6, <2>1 DEF Check, Busy, Current, Filling
<1>7. ASSUME NEW e \in Engines, InitEngine(e) \/ Wait(e) PROVE SharingInv'
  BY <1>1, <1>7 DEF InitEngine, Wait, historyVars, Busy, Current, Filling
<1>8. ASSUME NEW e \in Engines, NEW sync \in BOOLEAN, PostRefused(e, sync) PROVE SharingInv'
  BY <1>1, <1>8 DEF PostRefused, Busy, Current, Filling
<1>9. ASSUME NEW e \in Engines, NEW sync \in BOOLEAN, NEW j \in Jobs, PostAccepted(e, j, sync)
      PROVE  SharingInv'
  <2>1. \A f \in Engines \ {e} : (Busy(f)' <=> Busy(f)) /\ Current(f)' = posted[f]
                                 /\ Current(f) = posted[f]
    BY <1>9 DEF PostAccepted, historyVars, Busy, Current, Filling
  <2>2. Current(e)' = j
    BY <1>9 DEF PostAccepted, Current, Filling
  <2>3. \A f \in Engines \ {e} : Busy(f) => Apart(j, posted[f])
    BY <1>9 DEF PostAccepted, NoSharing, Apart
  <2>4. \A f, g \in Engines : f # g /\ Busy(f)' /\ Busy(g)' => Apart(Current(f)', Current(g)')
    BY <2>1, <2>2, <2>3 DEF Apart
  <2>5. QED BY <2>4 DEF Apart
<1>10. ASSUME NEW e \in Engines, ClusterNext(e) PROVE SharingInv'
  <2>1. UNCHANGED <<hpc, heng, hjob, in_flight, owed, posted>>
    BY <1>10 DEF ClusterNext, CtrlStep, BootClear, SignIn, CheckSeq, Wake, SpuriousWake,
         ClearDoorbell, Latch, ReadKernel, ReadArgs, ReserveScratch, StageIn, Verdict, StageOut,
         PublishDone, RunSlice, Barrier, TrapCore, TrapCtrl, hostVars, historyVars
  <2>2. QED BY <1>1, <2>1 DEF Busy, Current, Filling
<1>11. CASE UNCHANGED vars
  BY <1>1, <1>11 DEF vars, hostVars, historyVars, Busy, Current, Filling
<1>12. QED
  BY <1>2, <1>3, <1>4, <1>5, <1>6, <1>7, <1>8, <1>9, <1>10, <1>11
     DEF Next, HostNext, HostStep

------------------------------------------------------------------------------
(* The answer.                                                             *)

(* A step of cluster e leaves alone the output of a job another engine has. *)
LEMMA OthersOutputKept ==
  ASSUME TypeInv, Orderly, SharingInv, NEW e \in Engines, ClusterNext(e),
         NEW f \in Engines, f # e, Busy(f), ~Filling(f)
  PROVE  mem'[Writes(posted[f])] = mem[Writes(posted[f])]
<1> SUFFICES ASSUME mem'[Writes(posted[f])] # mem[Writes(posted[f])] PROVE FALSE
  OBVIOUS
<1>1. posted[e] \in Jobs /\ posted[f] \in Jobs
  BY DEF Orderly, TypeOK, CountTypes
<1>2. Held(e) /\ Writes(posted[f]) = Writes(posted[e])
  BY <1>1, JobBuffers, OnlyHeldWrite
<1>3. Apart(posted[e], posted[f])
  BY <1>2, HeldIsBusy DEF SharingInv, Current
<1>4. QED BY <1>1, <1>2, <1>3, JobBuffers DEF Apart

(* What answers are made of, when none of it changes. *)
LEMMA AnswerKept ==
  ASSUME NEW e \in Engines, AnswerAt(e),
         UNCHANGED <<cpc[e], corepc[e], no_scratch[e], staged[e], error[e], active_kernel[e],
                     served[e], seq[e], next_seq[e], done_seq[e], posted[e], local[e],
                     mem[Writes(posted[e])]>>
  PROVE  AnswerAt(e)'
<1>1. /\ Writes(posted[e])' = Writes(posted[e]) /\ (Answered(e)' <=> Answered(e))
      /\ Runnable(e, posted[e])' = Runnable(e, posted[e])
  BY DEF Writes, Answered, Rested, Runnable
<1>2. ScratchAt(e)' /\ StagedAt(e)'
  BY DEF AnswerAt, ScratchAt, StagedAt, LacksScratch, CanStage
<1>3. VerdictAt(e)'
  BY <1>1 DEF AnswerAt, VerdictAt
<1>4. SlicesAt(e)'
  BY <1>1 DEF AnswerAt, SlicesAt, SliceDone
<1>5. OutputAt(e)'
  BY <1>1 DEF AnswerAt, OutputAt, Delivered
<1>6. QED BY <1>2, <1>3, <1>4, <1>5 DEF AnswerAt

LEMMA AnswerInit == Init => AnswerInv
  BY DEF Init, AnswerInv, Held

LEMMA AnswerHost ==
  ASSUME TypeInv, Orderly, AnswerInv, LateSignInSafe, HostNext, hpc = "gaveup" => hpc' # "idle"
  PROVE  AnswerInv'
<1> USE DEF AnswerInv
<1>1. UNCHANGED <<done_seq, error, ctrlVars, dataVars>>
  BY DEF HostNext, HostStep, WriteArgs, WriteKernel, WriteFlags, WriteSeq, RingDoorbell,
       PollDone, Collect, Check, GiveUp, InitEngine, Wait, PostRefused, PostAccepted,
       mboxVars
<1>2. ASSUME NEW f \in Engines, AnswerAt(f), seq'[f] = seq[f], next_seq'[f] = next_seq[f],
             posted'[f] = posted[f]
      PROVE  AnswerAt(f)'
  BY <1>1, <1>2, AnswerKept DEF ctrlVars, dataVars, Writes
<1>3. CASE WriteSeq
  <2>1. /\ hpc = "seq" /\ hpc' = "bell" /\ heng \in Engines /\ UNCHANGED <<heng, in_flight>>
        /\ seq'[heng] # next_seq[heng] /\ seq'[heng] = next_seq'[heng] /\ heng \notin awaited
        /\ \A f \in Engines \ {heng} : /\ seq'[f] = seq[f] /\ next_seq'[f] = next_seq[f]
                                         /\ posted'[f] = posted[f]
    BY <1>3, NextSeqDiffers
       DEF WriteSeq, AfterStore, TypeInv, TypeOK, HostTypes, MboxTypes, CountTypes, Orderly, BootInv
  <2>2. ~Held(heng)
    BY <2>1 DEF Orderly, NumberInv, InCall, Held
  <2>3. /\ cpc[heng] \in AtTop \cup {"boot", "signin"}
        /\ Rested(heng) => NextSeq(next_seq[heng]) # seq[heng]
    BY <2>1, <2>2, FreeIsAnswerable DEF Orderly, NumberInv
  <2>4. cpc'[heng] \in AtTop \cup {"boot", "signin"} /\ ~Answered(heng)'
    <3>1. seq'[heng] = NextSeq(next_seq[heng])
      BY <1>3, <2>1 DEF WriteSeq, TypeInv, TypeOK, MboxTypes
    <3>2. Rested(heng)' => Rested(heng) /\ seq'[heng] = seq[heng]
      <4>1. ASSUME Rested(heng)' PROVE done_seq[heng] = seq'[heng] /\ cpc[heng] \in AtTop
        BY <1>1, <2>1, <4>1 DEF Rested, ctrlVars
      <4>2. cpc[heng] \in AtTop => seq[heng] = done_seq[heng] /\ served[heng] = seq[heng]
        BY <2>1, <2>2 DEF Orderly, NumberInv, NumberAt, LateFree, Rested, AtTop
      <4>3. QED BY <4>1, <4>2 DEF Rested
    <3>3. QED BY <1>1, <2>3, <3>1, <3>2 DEF Answered, ctrlVars
  <2>5. AnswerAt(heng)'
    BY <2>1, <2>4 DEF AnswerAt, ScratchAt, StagedAt, VerdictAt, SlicesAt, OutputAt, AtTop, Answered
  <2>6. \A f \in Engines : Held(f)' => Held(f) \/ f = heng
    BY <2>1 DEF Held
  <2>7. QED BY <1>2, <2>1, <2>5, <2>6
<1>4. CASE ~WriteSeq
  <2>1. UNCHANGED <<seq, posted>>
    BY <1>4 DEF HostNext, HostStep, WriteArgs, WriteKernel, WriteFlags, RingDoorbell,
       PollDone, Collect, Check, GiveUp, InitEngine, Wait, PostRefused, PostAccepted,
       mboxVars, historyVars
  <2>2. \A f \in Engines : Held(f)' => Held(f)
    BY <1>4 DEF HostNext, HostStep, WriteArgs, WriteKernel, WriteFlags, RingDoorbell,
       PollDone, Collect, Check, GiveUp, InitEngine, Wait, PostRefused, PostAccepted,
       AfterStore, Held, TypeInv, TypeOK, HostTypes
  <2>3. ASSUME NEW f \in Engines, Held(f)' PROVE AnswerAt(f)'
    <3>1. Held(f) /\ hpc # "init"
      BY <2>2, <2>3 DEF Held, Orderly, BootInv
    <3>2. next_seq'[f] = next_seq[f]
      BY <1>4, <3>1 DEF HostNext, HostStep, WriteArgs, WriteKernel, WriteFlags, RingDoorbell,
       PollDone, Collect, Check, GiveUp, InitEngine, Wait, PostRefused, PostAccepted
    <3>3. QED BY <1>2, <2>1, <2>3, <3>1, <3>2
  <2>4. ASSUME hpc' = "check", hok'
        PROVE  ~in_flight'[heng'] /\ Runnable(heng, posted[heng])' /\ Delivered(heng)'
    <3>1. Collect
      BY <1>4, <2>4, ConstantsAssumption
         DEF HostNext, HostStep, WriteArgs, WriteKernel, WriteFlags, RingDoorbell,
             PollDone, Collect, Check, GiveUp, InitEngine, Wait, PostRefused, PostAccepted,
             AfterStore, TypeInv, TypeOK, CountTypes
    <3>2. /\ hpc = "collect" /\ ~error[heng] /\ UNCHANGED <<heng, in_flight>>
          /\ heng \in Engines
      BY <2>4, <3>1 DEF Collect, TypeInv, TypeOK, HostTypes
    <3>3. Held(heng) /\ Answered(heng) /\ ~in_flight[heng]
      BY <3>2, CollectedIsAnswered DEF Orderly, NumberInv, InCall, Held, Answered
    <3>4. Runnable(heng, posted[heng]) /\ Delivered(heng)
      BY <3>2, <3>3 DEF AnswerAt, VerdictAt, OutputAt
    <3>5. QED BY <1>1, <2>1, <3>2, <3>3, <3>4 DEF Runnable, Delivered, Writes, dataVars
  <2>5. QED BY <2>3, <2>4
<1>5. QED BY <1>3, <1>4

(* The job its caller holds cluster e for, one step further.               *)
LEMMA AnswerOwn ==
  ASSUME TypeInv, Orderly, NEW e \in Engines, ClusterNext(e), Held(e), AnswerAt(e)
  PROVE  AnswerAt(e)'
<1> USE DEF TypeInv, TypeOK, AnswerAt
<1>1. UNCHANGED <<posted, next_seq>>
  BY DEF ClusterNext, CtrlStep, BootClear, SignIn, CheckSeq, Wake, SpuriousWake,
       ClearDoorbell, Latch, ReadKernel, ReadArgs, ReserveScratch, StageIn, Verdict, StageOut,
       PublishDone, RunSlice, Barrier, TrapCore, TrapCtrl, historyVars, hostVars
<1>2. DescriptorAt(e)
  BY DEF Orderly, DescriptorInv
<1>3. posted[e] \in Jobs /\ posted[e].kernel \in Kernels /\ Writes(posted[e]) \in Buffers
  BY JobBuffers DEF CountTypes
<1>4. CASE CheckSeq(e) \/ Wake(e) \/ SpuriousWake(e) \/ ClearDoorbell(e)
  <2>1. UNCHANGED <<seq, done_seq, served, error, mem>>
    BY <1>4 DEF CheckSeq, Wake, SpuriousWake, ClearDoorbell, mboxVars, dataVars
  <2>2. cpc[e] \in AtTop /\ cpc'[e] \in AtTop \cup {"latch"}
    BY <1>4 DEF CheckSeq, Wake, SpuriousWake, ClearDoorbell, Step, AtTop, CtrlTypes
  <2>3. Answered(e)' => Answered(e)
    BY <1>1, <2>1, <2>2 DEF Answered, Rested
  <2>4. ScratchAt(e)' /\ StagedAt(e)' /\ SlicesAt(e)'
    BY <2>2 DEF ScratchAt, StagedAt, SlicesAt, AtTop
  <2>5. VerdictAt(e)' /\ OutputAt(e)'
    BY <1>1, <2>1, <2>2, <2>3 DEF VerdictAt, OutputAt, AtTop, Runnable, Delivered, Writes
  <2>6. QED BY <2>4, <2>5
<1>5. CASE Latch(e) \/ ReadKernel(e) \/ ReadArgs(e) \/ TrapCtrl(e)
  <2>1. cpc'[e] \in {"kernel", "args", "reserve", "parked"}
    BY <1>5 DEF Latch, ReadKernel, ReadArgs, TrapCtrl, Step, CtrlTypes
  <2>2. QED
    BY <2>1 DEF ScratchAt, StagedAt, VerdictAt, SlicesAt, OutputAt, Answered, Rested, AtTop
<1>6. CASE ReserveScratch(e)
  <2>1. cpc'[e] = "stage"
    BY <1>6 DEF ReserveScratch, Step, CtrlTypes
  <2>2. no_scratch'[e] <=> (active_kernel[e] \in NeedsScratch /\ args[e] \notin ScratchFits)
    BY <1>6 DEF ReserveScratch, CtrlTypes
  <2>3. active_kernel[e] = posted[e].kernel /\ args[e] = posted[e].args
    BY <1>2, <1>6 DEF ReserveScratch, Step, DescriptorAt
  <2>4. no_scratch'[e] <=> LacksScratch(e)
    BY <2>2, <2>3 DEF LacksScratch
  <2>5. QED
    BY <1>1, <2>1, <2>4
       DEF ScratchAt, StagedAt, VerdictAt, SlicesAt, OutputAt, Answered, Rested, AtTop, LacksScratch
<1>7. CASE StageIn(e)
  <2>1. cpc[e] = "stage" /\ cpc'[e] = "verdict" /\ no_scratch' = no_scratch
    BY <1>7 DEF StageIn, Step, CtrlTypes
  <2>2. /\ active_kernel[e] \in Kernels /\ args[e] = posted[e].args /\ ~staged[e]
        /\ flags[e] = StageFlag(e, posted[e])
    BY <1>2, <1>3, <2>1 DEF DescriptorAt
  <2>3. staged'[e] <=> (flags[e] /\ args[e] \in OperandsFit)
    BY <1>7, <2>2 DEF StageIn, CtrlTypes
  <2>4. staged'[e] <=> CanStage(e)
    BY <2>2, <2>3 DEF CanStage
  <2>5. ScratchAt(e)' /\ StagedAt(e)'
    BY <1>1, <2>1, <2>4 DEF ScratchAt, StagedAt, CanStage, LacksScratch
  <2>6. QED
    BY <2>1, <2>5 DEF VerdictAt, SlicesAt, OutputAt, Answered, Rested, AtTop
<1>8. CASE Verdict(e)
  <2>1. cpc[e] = "verdict" /\ cpc'[e] = "bar1" /\ no_scratch' = no_scratch /\ staged' = staged
    BY <1>8 DEF Verdict, Step, CtrlTypes
  <2>2. (no_scratch[e] <=> LacksScratch(e)) /\ (staged[e] <=> CanStage(e))
    BY <2>1 DEF ScratchAt, StagedAt
  <2>3. Refused(e) <=> ~Runnable(e, posted[e])
    BY <2>2 DEF Refused, Runnable, CanStage, LacksScratch, StageFlag
  <2>4. error'[e] <=> Refused(e)
    BY <1>8 DEF Verdict, MboxTypes
  <2>5. ~Refused(e) => active_kernel'[e] = posted[e].kernel
    BY <1>2, <1>8, <2>1 DEF Verdict, DescriptorAt
  <2>6. VerdictAt(e)'
    BY <1>1, <2>1, <2>3, <2>4, <2>5 DEF VerdictAt, Runnable
  <2>7. ScratchAt(e)' /\ StagedAt(e)'
    BY <1>1, <2>1, <2>2 DEF ScratchAt, StagedAt, CanStage, LacksScratch
  <2>8. QED
    BY <2>1, <2>6, <2>7 DEF SlicesAt, OutputAt, Answered, Rested, AtTop
<1>9. CASE Barrier(e)
  <2>1. UNCHANGED <<no_scratch, staged, error, active_kernel, local, mem>>
    BY <1>9 DEF Barrier, AllArrived, mboxVars
  <2>2. CASE cpc[e] = "bar1"
    <3>1. cpc'[e] = "bar2"
      BY <1>9, <2>2 DEF Barrier, AllArrived, CtrlTypes
    <3>2. ASSUME NEW c \in Cores PROVE corepc'[e][c] = "slice"
      <4>1. corepc[e][c] = "bar1"
        BY <2>2 DEF Orderly, BarrierAligned
      <4>2. corepc'[e][c] = CASE corepc[e][c] = "bar1" -> "slice"
                              [] corepc[e][c] = "bar2" -> "bar1" [] OTHER -> corepc[e][c]
        BY <1>9 DEF Barrier, DataTypes
      <4>3. QED BY <4>1, <4>2
    <3>3. ScratchAt(e)' /\ StagedAt(e)'
      BY <1>1, <2>1, <2>2, <3>1 DEF ScratchAt, StagedAt, CanStage, LacksScratch
    <3>4. VerdictAt(e)'
      BY <1>1, <2>1, <2>2, <3>1 DEF VerdictAt, Runnable
    <3>5. QED
      BY <3>1, <3>2, <3>3, <3>4 DEF SlicesAt, OutputAt, Answered, Rested, AtTop
  <2>3. CASE cpc[e] = "bar2"
    <3>1. cpc'[e] = "out"
      BY <1>9, <2>3 DEF Barrier, AllArrived, CtrlTypes
    <3>2. \A c \in Cores : corepc[e][c] = "bar2"
      BY <1>9, <2>3 DEF Barrier, AllArrived, Orderly, BarrierAligned
    <3>3. ScratchAt(e)' /\ StagedAt(e)'
      BY <1>1, <2>1, <2>3, <3>1 DEF ScratchAt, StagedAt, CanStage, LacksScratch
    <3>4. VerdictAt(e)'
      BY <1>1, <2>1, <2>3, <3>1 DEF VerdictAt, Runnable
    <3>5. SlicesAt(e)'
      BY <1>1, <2>1, <2>3, <3>1, <3>2 DEF SlicesAt, SliceDone, Writes
    <3>6. QED
      BY <3>1, <3>3, <3>4, <3>5 DEF OutputAt, Answered, Rested, AtTop
  <2>4. QED BY <1>9, <2>2, <2>3 DEF Barrier, AllArrived
<1>10. ASSUME NEW c \in Cores, RunSlice(e, c) PROVE AnswerAt(e)'
  <2>1. /\ cpc[e] = "bar2" /\ corepc[e][c] = "slice"
        /\ UNCHANGED <<cpc, no_scratch, staged, error, active_kernel>>
    BY <1>10 DEF RunSlice, ctrlVars, mboxVars, Orderly, BarrierAligned
  <2>2. ScratchAt(e)' /\ StagedAt(e)'
    BY <1>1, <2>1 DEF ScratchAt, StagedAt, CanStage, LacksScratch
  <2>3. VerdictAt(e)'
    BY <1>1, <2>1 DEF VerdictAt, Runnable, Answered, Rested, AtTop
  <2>4. ASSUME ~error[e], NEW d \in Cores, corepc'[e][d] = "bar2" PROVE SliceDone(e, d)'
    <3>1. active_kernel[e] = posted[e].kernel /\ active_args[e] = posted[e].args
          /\ active_kernel[e] # NoKernel
      BY <1>2, <1>3, <2>1, <2>4, ConstantsAssumption DEF VerdictAt, DescriptorAt
    <3>2. Output(active_kernel[e], active_args[e]) = Writes(posted[e])
      BY <3>1 DEF Writes
    <3>3. CASE d = c
      BY <1>1, <1>3, <1>10, <2>1, <3>1, <3>2, <3>3 DEF RunSlice, SliceDone, DataTypes, Writes
    <3>4. CASE d # c
      <4>1. SliceDone(e, d)
        BY <1>10, <2>1, <2>4, <3>4 DEF RunSlice, SlicesAt, DataTypes
      <4>2. local'[e][d] = local[e][d] /\ mem'[Writes(posted[e])][d] = mem[Writes(posted[e])][d]
        BY <1>3, <1>10, <3>2, <3>4 DEF RunSlice, DataTypes
      <4>3. QED BY <1>1, <2>1, <4>1, <4>2 DEF SliceDone, Writes
    <3>5. QED BY <3>3, <3>4
  <2>5. SlicesAt(e)'
    BY <2>1, <2>4 DEF SlicesAt
  <2>6. QED BY <2>1, <2>2, <2>3, <2>5 DEF OutputAt, Answered, Rested, AtTop
<1>11. ASSUME NEW c \in Cores, TrapCore(e, c) PROVE AnswerAt(e)'
  <2>1. /\ cpc[e] = "bar2"
        /\ UNCHANGED <<cpc, no_scratch, staged, error, active_kernel, local, mem>>
    BY <1>11 DEF TrapCore, ctrlVars, Orderly, BarrierAligned
  <2>2. \A d \in Cores : corepc'[e][d] = "bar2" => corepc[e][d] = "bar2"
    BY <1>11 DEF TrapCore, DataTypes
  <2>3. ScratchAt(e)' /\ StagedAt(e)'
    BY <1>1, <2>1 DEF ScratchAt, StagedAt, CanStage, LacksScratch
  <2>4. VerdictAt(e)'
    BY <1>1, <2>1 DEF VerdictAt, Runnable, Answered, Rested, AtTop
  <2>5. SlicesAt(e)'
    BY <1>1, <2>1, <2>2 DEF SlicesAt, SliceDone, Writes
  <2>6. QED BY <2>1, <2>3, <2>4, <2>5 DEF OutputAt, Answered, Rested, AtTop
<1>12. CASE StageOut(e)
  <2>1. /\ cpc[e] = "out" /\ cpc'[e] = "done"
        /\ UNCHANGED <<no_scratch, staged, error, active_kernel, local>>
    BY <1>12 DEF StageOut, Step, CtrlTypes, mboxVars
  <2>2. ScratchAt(e)' /\ StagedAt(e)'
    BY <1>1, <2>1 DEF ScratchAt, StagedAt, CanStage, LacksScratch
  <2>3. VerdictAt(e)'
    BY <1>1, <2>1 DEF VerdictAt, Runnable, Answered, Rested, AtTop
  <2>4. ASSUME ~error[e] PROVE mem'[Writes(posted[e])] = Result(posted[e])
    <3>1. \A c \in Cores : SliceDone(e, c)
      BY <2>1, <2>4 DEF SlicesAt
    <3>2. CASE staged[e]
      <4>1. Ptr[args[e]][ops[e]] = Writes(posted[e])
        BY <1>2, <2>1, <3>2 DEF DescriptorAt, Writes, Output
      <4>2. mem'[Writes(posted[e])] = local[e]
        BY <1>3, <1>12, <3>2, <4>1 DEF StageOut, DataTypes
      <4>3. local[e] = Result(posted[e])
        BY <3>1, <3>2 DEF SliceDone, Result, DataTypes
      <4>4. QED BY <4>2, <4>3
    <3>3. CASE ~staged[e]
      <4>1. mem' = mem
        BY <1>12, <3>3 DEF StageOut
      <4>2. mem[Writes(posted[e])] = Result(posted[e])
        BY <1>3, <3>1, <3>3 DEF SliceDone, Result, DataTypes
      <4>3. QED BY <4>1, <4>2
    <3>4. QED BY <3>2, <3>3
  <2>5. OutputAt(e)'
    BY <1>1, <2>1, <2>4 DEF OutputAt, Delivered, Writes, Result
  <2>6. QED BY <2>1, <2>2, <2>3, <2>5 DEF SlicesAt
<1>13. CASE PublishDone(e)
  <2>1. /\ cpc[e] = "done" /\ cpc'[e] = "check" /\ UNCHANGED <<error, mem>>
    BY <1>13 DEF PublishDone, Step, CtrlTypes, dataVars
  <2>2. (error[e] <=> ~Runnable(e, posted[e])) /\ (~error[e] => Delivered(e))
    BY <2>1 DEF VerdictAt, OutputAt
  <2>3. VerdictAt(e)' /\ OutputAt(e)'
    BY <1>1, <2>1, <2>2 DEF VerdictAt, OutputAt, Runnable, Delivered, Writes
  <2>4. QED BY <2>1, <2>3 DEF ScratchAt, StagedAt, SlicesAt
<1>14. CASE BootClear(e) \/ SignIn(e)
  <2>1. cpc'[e] \in {"signin", "check"} /\ (cpc'[e] = "check" => SignIn(e))
    BY <1>14 DEF BootClear, SignIn, Step, CtrlTypes
  <2>2. ~Answered(e)'
    <3>1. CASE BootClear(e)
      BY <3>1 DEF BootClear, Step, Answered, Rested, AtTop, CtrlTypes
    <3>2. CASE SignIn(e)
      <4>1. cpc[e] = "signin" /\ e \notin awaited
        BY <3>2 DEF SignIn, Step, Orderly, NumberInv, NumberAt
      <4>2. LateHeld(e) /\ done_seq[e] = 0
        BY <4>1 DEF Orderly, BootInv, NumberInv, NumberAt, Unseen, Underway, Rested, AtTop, Working
      <4>3. next_seq[e] # 0
        BY <4>1, <4>2 DEF LateHeld, Rested, AtTop
      <4>4. QED BY <1>1, <3>2, <4>2, <4>3 DEF SignIn, Answered, Rested
    <3>3. QED BY <1>14, <3>1, <3>2
  <2>3. QED
    BY <2>1, <2>2 DEF ScratchAt, StagedAt, VerdictAt, SlicesAt, OutputAt
<1>15. QED
  BY <1>4, <1>5, <1>6, <1>7, <1>8, <1>9, <1>10, <1>11, <1>12, <1>13, <1>14
     DEF ClusterNext, CtrlStep

LEMMA AnswerCluster ==
  ASSUME TypeInv, Orderly, SharingInv, AnswerInv, NEW e \in Engines, ClusterNext(e)
  PROVE  AnswerInv'
<1> USE DEF AnswerInv
<1>1. UNCHANGED <<hpc, heng, hok, in_flight, owed, posted>>
  BY DEF ClusterNext, CtrlStep, BootClear, SignIn, CheckSeq, Wake, SpuriousWake,
       ClearDoorbell, Latch, ReadKernel, ReadArgs, ReserveScratch, StageIn, Verdict, StageOut,
       PublishDone, RunSlice, Barrier, TrapCore, TrapCtrl, hostVars, historyVars
<1>2. ASSUME NEW f \in Engines, f # e
      PROVE  UNCHANGED <<cpc[f], corepc[f], no_scratch[f], staged[f], error[f],
                         active_kernel[f], served[f], seq[f], next_seq[f], done_seq[f],
                         local[f]>>
  BY <1>2 DEF ClusterNext, CtrlStep, BootClear, SignIn, CheckSeq, Wake, SpuriousWake,
       ClearDoorbell, Latch, ReadKernel, ReadArgs, ReserveScratch, StageIn, Verdict, StageOut,
       PublishDone, RunSlice, Barrier, TrapCore, TrapCtrl, Step, mboxVars, ctrlVars, dataVars,
       hostVars, TypeInv, TypeOK, MboxTypes, CtrlTypes, DataTypes
<1>3. ASSUME NEW f \in Engines, Held(f) PROVE AnswerAt(f)'
  <2>1. CASE f = e
    BY <1>3, <2>1, AnswerOwn
  <2>2. CASE f # e
    <3>1. mem'[Writes(posted[f])] = mem[Writes(posted[f])]
      BY <1>3, <2>2, HeldIsBusy, OthersOutputKept
    <3>2. (mem[Writes(posted[f])])' = mem[Writes(posted[f])]
      BY <1>1, <3>1 DEF Writes
    <3>3. QED BY <1>1, <1>2, <1>3, <2>2, <3>2, AnswerKept
  <2>3. QED BY <2>1, <2>2
<1>4. ASSUME hpc = "check", hok PROVE Delivered(heng)'
  <2>1. ~Held(heng) /\ ~Filling(heng) /\ Busy(heng) /\ heng \in Engines
    BY <1>4 DEF Held, Filling, Busy, TypeInv, CallOwed, TypeOK, HostTypes
  <2>2. Writes(posted[heng]) \in Buffers
    BY <2>1, JobBuffers DEF TypeInv, TypeOK, CountTypes
  <2>3. mem'[Writes(posted[heng])] = mem[Writes(posted[heng])]
    BY <2>1, <2>2, OthersOutputKept, OnlyHeldWrite
  <2>4. QED BY <1>1, <1>4, <2>3 DEF Delivered, Writes, Result
<1>5. hpc = "check" /\ hok => Runnable(heng, posted[heng])'
  BY <1>1 DEF Runnable
<1>6. QED BY <1>1, <1>3, <1>4, <1>5 DEF Held

------------------------------------------------------------------------------
(* The results the program holds.                                          *)

LEMMA TrustInit == Init => TrustInv
  BY DEF Init, TrustInv, TrustedIntact, Held

LEMMA TrustHost ==
  ASSUME TypeInv, Orderly, SharingInv, AnswerInv, TrustInv, HostNext,
         hpc = "gaveup" => hpc' # "idle"
  PROVE  TrustInv'
<1> USE DEF TrustInv, TrustedIntact
<1>1. UNCHANGED mem
  BY DEF HostNext, HostStep, WriteArgs, WriteKernel, WriteFlags, WriteSeq, RingDoorbell,
       PollDone, Collect, Check, GiveUp, InitEngine, Wait, PostRefused, PostAccepted, dataVars
<1>2. CASE WriteSeq
  <2>1. /\ hjob \in Jobs /\ heng \in Engines /\ trusted' = [trusted EXCEPT ![Writes(hjob)] = Blank]
        /\ hpc = "seq" /\ UNCHANGED <<heng, in_flight>>
        /\ posted'[heng] = hjob /\ \A f \in Engines \ {heng} : posted'[f] = posted[f]
    BY <1>2 DEF WriteSeq, TypeInv, TypeOK, HostTypes, CountTypes
  <2>2. /\ trusted'[Writes(hjob)] = Blank
        /\ \A b \in Buffers : trusted'[b] # Blank => trusted'[b] = trusted[b]
        /\ \A b \in Buffers : trusted[b] = Blank => trusted'[b] = Blank
    BY <2>1, JobBuffers DEF TypeInv, TypeOK, CountTypes
  <2>3. \A f \in Engines : Held(f)' => Held(f) \/ f = heng
    BY <2>1 DEF Held
  <2>4. \A f \in Engines : Writes(posted[f]) \in Buffers
    BY JobBuffers DEF TypeInv, TypeOK, CountTypes
  <2>5. ASSUME NEW f \in Engines, Held(f)' PROVE trusted'[Writes(posted'[f])] = Blank
    BY <2>1, <2>2, <2>3, <2>4, <2>5
  <2>6. QED BY <1>1, <2>2, <2>5 DEF Writes
<1>3. CASE Check
  <2>1. /\ hpc = "check" /\ hpc' = "idle" /\ heng \in Engines /\ UNCHANGED <<posted, in_flight>>
        /\ Busy(heng) /\ ~Filling(heng)
    BY <1>3 DEF Check, TypeInv, TypeOK, HostTypes, CallOwed, Busy, Filling
  <2>2. \A f \in Engines : Held(f)' <=> Held(f)
    BY <1>3, <2>1 DEF Held
  <2>3. CASE ~hok
    BY <1>1, <1>3, <2>1, <2>2, <2>3 DEF Check, Writes
  <2>4. CASE hok
    <3>1. DEFINE W == Writes(posted[heng])
                 v == Value(posted[heng].kernel, posted[heng].args)
    <3>2. W \in Buffers /\ trusted' = [trusted EXCEPT ![W] = v]
      BY <1>3, <2>1, <2>4, JobBuffers DEF Check, TypeInv, TypeOK, CountTypes
    <3>3. mem[W] = [c \in Cores |-> v] /\ ~Held(heng)
      BY <2>1, <2>4 DEF AnswerInv, Delivered, Result, Held
    <3>4. /\ trusted'[W] = v
          /\ \A b \in Buffers \ {W} : trusted'[b] = trusted[b]
      BY <3>2 DEF TypeInv, TypeOK, CountTypes
    <3>5. \A b \in Buffers : trusted'[b] # Blank => mem'[b] = [c \in Cores |-> trusted'[b]]
      BY <1>1, <3>3, <3>4
    <3>6. ASSUME NEW f \in Engines, Held(f) PROVE trusted'[Writes(posted[f])] = Blank
      <4>1. f # heng /\ Apart(posted[f], posted[heng])
        BY <2>1, <3>3, <3>6, HeldIsBusy DEF SharingInv, Current
      <4>2. Writes(posted[f]) # W /\ Writes(posted[f]) \in Buffers
        BY <2>1, <4>1, JobBuffers DEF Apart, TypeInv, TypeOK, CountTypes
      <4>3. QED BY <3>4, <3>6, <4>2
    <3>7. QED BY <2>1, <2>2, <3>5, <3>6 DEF Writes
  <2>5. QED BY <2>3, <2>4
<1>4. CASE ~WriteSeq /\ ~Check
  <2>1. UNCHANGED <<trusted, posted>>
    BY <1>4 DEF HostNext, HostStep, WriteArgs, WriteKernel, WriteFlags, RingDoorbell,
       PollDone, Collect, GiveUp, InitEngine, Wait, PostRefused, PostAccepted, historyVars
  <2>2. \A f \in Engines : Held(f)' => Held(f)
    BY <1>4 DEF HostNext, HostStep, WriteArgs, WriteKernel, WriteFlags, RingDoorbell,
       PollDone, Collect, GiveUp, InitEngine, Wait, PostRefused, PostAccepted,
       AfterStore, Held, TypeInv, TypeOK, HostTypes
  <2>3. QED BY <1>1, <2>1, <2>2 DEF Writes
<1>5. QED BY <1>2, <1>3, <1>4

LEMMA TrustCluster ==
  ASSUME TypeInv, Orderly, TrustInv, NEW e \in Engines, ClusterNext(e) PROVE TrustInv'
<1>1. UNCHANGED <<hpc, heng, in_flight, posted, trusted>>
  BY DEF ClusterNext, CtrlStep, BootClear, SignIn, CheckSeq, Wake, SpuriousWake,
       ClearDoorbell, Latch, ReadKernel, ReadArgs, ReserveScratch, StageIn, Verdict, StageOut,
       PublishDone, RunSlice, Barrier, TrapCore, TrapCtrl, hostVars, historyVars
<1>2. \A b \in Buffers : trusted[b] # Blank => mem'[b] = mem[b]
  BY OnlyHeldWrite DEF TrustInv
<1>3. QED BY <1>1, <1>2 DEF TrustInv, TrustedIntact, Held, Writes

(* The invariant of a host that has counted no failure: the mailboxes are  *)
(* in order, the jobs held are on their way to the right answer, and the   *)
(* results taken as good are in memory.                                    *)
Results == TypeInv /\ Orderly /\ SharingInv /\ AnswerInv /\ TrustInv

LEMMA ResultsInit == Init => SharingInv /\ AnswerInv /\ TrustInv
  BY SharingInit, AnswerInit, TrustInit

LEMMA ResultsStep ==
  ASSUME Results, LateSignInSafe, [Next]_vars, hpc = "gaveup" => hpc' # "idle"
  PROVE  SharingInv' /\ AnswerInv' /\ TrustInv'
<1> USE DEF Results
<1>1. SharingInv'
  BY SharingStep
<1>2. CASE HostNext
  BY <1>1, <1>2, AnswerHost, TrustHost
<1>3. CASE \E e \in Engines : ClusterNext(e)
  BY <1>1, <1>3, AnswerCluster, TrustCluster
<1>4. CASE UNCHANGED vars
  <2>1. UNCHANGED <<hostVars, mboxVars, ctrlVars, dataVars, posted, trusted>>
    BY <1>4 DEF vars, historyVars
  <2>2. \A f \in Engines : AnswerAt(f) => AnswerAt(f)'
    BY <2>1, AnswerKept DEF hostVars, mboxVars, ctrlVars, dataVars
  <2>3. AnswerInv'
    BY <2>1, <2>2 DEF AnswerInv, Held, Runnable, Delivered, Writes, Result, hostVars, dataVars
  <2>4. TrustInv'
    BY <2>1 DEF TrustInv, TrustedIntact, Held, Writes, hostVars, dataVars
  <2>5. QED BY <1>1, <2>3, <2>4
<1>5. QED BY <1>2, <1>3, <1>4 DEF Next

LEMMA ResultsInvariant == ASSUME MaxTimeouts = 0 PROVE Spec => []Results
<1>1. Results /\ [Next]_vars => (SharingInv /\ AnswerInv /\ TrustInv)'
  BY ResultsStep, PatientHost DEF Results, Orderly
<1>2. QED BY ResultsInit, <1>1, TypeInvInvariant, OrderlyInvariant, PTL DEF Spec, Results

(* When no wait runs out, an answer hes_check() passes is good: the engine *)
(* could run the job and its output buffer holds that job's own result     *)
(* from every core (hes_host.h:26).                                        *)
THEOREM GoodAnswersAreGood == ASSUME MaxTimeouts = 0 PROVE Spec => []ResultDelivered
<1>1. Results => ResultDelivered
  BY DEF Results, AnswerInv, Delivered, ResultDelivered
<1>2. QED BY <1>1, ResultsInvariant, PTL

(* When no wait runs out, a result the program took as good stays in its   *)
(* buffer until the program posts a job over it: no slice or copy-out of   *)
(* another job, on whichever engine, reaches it (cluster_main.c:219-226).  *)
THEOREM GoodResultsStay == ASSUME MaxTimeouts = 0 PROVE Spec => []TrustedIntact
<1>1. Results => TrustedIntact
  BY DEF Results, TrustInv
<1>2. QED BY <1>1, ResultsInvariant, PTL

------------------------------------------------------------------------------
(* A host that gives up.  From the moment it gives up on a job to the end  *)
(* of the program the cluster may answer late, over whatever the host has  *)
(* put in the mailbox since; hes_check() has counted the failure first.    *)

SoundUntilCounted == failure_count = 0 => Results

LEMMA UntilCountedStep ==
  ASSUME LateSignInSafe, CountMod > 1, TypeInv, TypeInv', BarrierAligned, BarrierAligned',
         SoundUntilCounted, [Next]_vars,
         failure_count' >= failure_count \/ UNCHANGED vars
  PROVE  SoundUntilCounted'
<1> SUFFICES ASSUME failure_count' = 0 PROVE Results'
  BY DEF SoundUntilCounted
<1>1. failure_count = 0
  BY ConstantsAssumption DEF TypeInv, TypeOK, HostTypes, Counts, vars, hostVars
<1>2. Results
  BY <1>1 DEF SoundUntilCounted
<1>3. ASSUME hpc = "gaveup", hpc' = "idle" PROVE FALSE
  <2>1. Check
    BY <1>3 DEF Next, HostNext, HostStep, WriteArgs, WriteKernel, WriteFlags, WriteSeq,
         RingDoorbell, PollDone, Collect, GiveUp, InitEngine, Wait, PostRefused, PostAccepted,
         ClusterNext, CtrlStep, BootClear, SignIn, CheckSeq, Wake, SpuriousWake, ClearDoorbell,
         Latch, ReadKernel, ReadArgs, ReserveScratch, StageIn, Verdict, StageOut, PublishDone,
         RunSlice, Barrier, TrapCore, TrapCtrl, vars, hostVars
  <2>2. ~hok
    BY <1>2, <1>3 DEF Results, Orderly, BootInv
  <2>3. failure_count' = Succ(0, CountMod)
    BY <1>1, <2>1, <2>2 DEF Check, Failures
  <2>4. QED BY <2>3, ConstantsAssumption DEF Succ
<1>4. SharingInv' /\ AnswerInv' /\ TrustInv'
  BY <1>2, <1>3, ResultsStep
<1>5. BootInv' /\ NumberInv' /\ DescriptorInv'
  BY <1>2, <1>3, OrderlyStep DEF Results
<1>6. QED BY <1>4, <1>5 DEF Results, Orderly, TypeInv

LEMMA UntilCountedInvariant ==
  ASSUME LateSignInSafe, CountMod > 1
  PROVE  Spec /\ [][failure_count' >= failure_count]_vars => []SoundUntilCounted
<1>1. Init => SoundUntilCounted
  BY ResultsInit, OrderlyInit, InitTypeInv
     DEF SoundUntilCounted, Results, Orderly, TypeInv, Init, BarrierAligned
<1>2. TypeInv /\ TypeInv' /\ BarrierAligned /\ BarrierAligned' /\ SoundUntilCounted
        /\ [Next]_vars /\ [failure_count' >= failure_count]_vars => SoundUntilCounted'
  BY UntilCountedStep
<1>3. QED BY <1>1, <1>2, TypeInvInvariant, BarriersNeverMix, PTL DEF Spec

(* Wrong numbers are never silent (hes_host.h:87-89): in every behaviour   *)
(* in which failure_count has not wrapped around, with any number of waits *)
(* that gave up, answers and copy-outs that came late, traps and late      *)
(* sign-ins, a result the program took as good and finds changed finds     *)
(* failure_count above zero as well.                                       *)
THEOREM WrongNumbersAreNeverSilent ==
  ASSUME LateSignInSafe, CountMod > 1
  PROVE  Spec /\ [][failure_count' >= failure_count]_vars => []WrongNumbersAreCounted
<1>1. TypeOK /\ SoundUntilCounted => WrongNumbersAreCounted
  BY DEF SoundUntilCounted, Results, TrustInv, WrongNumbersAreCounted
<1>2. QED BY <1>1, UntilCountedInvariant, TypeCorrect, PTL

(* Until the first failure is counted the host may rely on the mailbox     *)
(* however it has timed out so far: done_seq answers the job that was      *)
(* posted, the cluster serves that job and no mixture, and an answer that  *)
(* passes hes_check() comes with its result (hes_mailbox.h:21).            *)
THEOREM MailboxIsSoundUntilCounted ==
  ASSUME LateSignInSafe, CountMod > 1
  PROVE  Spec /\ [][failure_count' >= failure_count]_vars
           => [](failure_count = 0 => NoStaleDone /\ ServesPostedJob /\ ResultDelivered)
<1>1. SoundUntilCounted
        => (failure_count = 0 => NoStaleDone /\ ServesPostedJob /\ ResultDelivered)
  BY OrderlyDone, OrderlyServes
     DEF SoundUntilCounted, Results, AnswerInv, Delivered, ResultDelivered
<1>2. QED BY <1>1, UntilCountedInvariant, PTL

------------------------------------------------------------------------------
(* The mailbox implements Offload.                                         *)

(* For the caller, an engine is idle until a job number is published and   *)
(* answered once its cluster rests; the verdict and the output follow.     *)
PhaseOf(e)  == IF ~Held(e) THEN "idle" ELSE IF Rested(e) THEN "answered" ELSE "pending"
OkOf(e)     == PhaseOf(e) = "answered" /\ Runnable(e, posted[e])
OutputOf(e) == IF OkOf(e) THEN Result(posted[e]) ELSE Blank

Bars ==
  /\ phaseBar = [e \in Engines |-> PhaseOf(e)]
  /\ okBar = [e \in Engines |-> OkOf(e)]
  /\ outputBar = [e \in Engines |-> OutputOf(e)]

LEMMA HeldIsPast ==
  ASSUME Orderly, NEW e \in Engines, Held(e) PROVE e \notin awaited
  BY DEF Orderly, NumberInv, NumberAt

LEMMA BarsAre == ASSUME MaxTimeouts = 0, Results, TrapParks PROVE Bars
<1> USE DEF Results
<1>1. ASSUME NEW e \in Engines, Held(e)
      PROVE  done_seq[e] = next_seq[e] <=> Rested(e)
  BY <1>1, HeldIsPast, PatientNumbers DEF Unseen, Underway, Rested
<1>2. ASSUME NEW e \in Engines PROVE phaseBar[e] = PhaseOf(e)
  BY <1>1 DEF phaseBar, PhaseOf
<1>3. ASSUME NEW e \in Engines, PhaseOf(e) = "answered"
      PROVE  /\ ~trap_cause[e] /\ (~error[e] <=> Runnable(e, posted[e]))
             /\ Runnable(e, posted[e]) => mem[Writes(posted[e])] = Result(posted[e])
  <2>1. ~trap_cause[e]
    BY <1>3 DEF PhaseOf, Rested, AtTop, TrapParks, Parked
  <2>0. Held(e) /\ Answered(e)
    BY <1>3, HeldIsPast, PatientNumbers DEF PhaseOf, Answered
  <2>2. error[e] <=> ~Runnable(e, posted[e])
    BY <2>0 DEF AnswerInv, AnswerAt, VerdictAt
  <2>3. ~error[e] => Delivered(e)
    BY <2>0 DEF AnswerInv, AnswerAt, OutputAt
  <2>4. QED BY <2>1, <2>2, <2>3 DEF Delivered
<1>4. ASSUME NEW e \in Engines
      PROVE  (phaseBar[e] = "answered" /\ ~error[e] /\ ~trap_cause[e]) = OkOf(e)
  BY <1>2, <1>3 DEF OkOf
<1>5. phaseBar = [e \in Engines |-> PhaseOf(e)]
  BY <1>2 DEF phaseBar
<1>6. okBar = [e \in Engines |-> OkOf(e)]
  BY <1>4 DEF okBar
<1>7. ASSUME NEW e \in Engines
      PROVE  (IF okBar[e] THEN mem[Writes(posted[e])] ELSE Blank) = OutputOf(e)
  BY <1>3, <1>6 DEF OutputOf, OkOf
<1>8. outputBar = [e \in Engines |-> OutputOf(e)]
  BY <1>7 DEF outputBar
<1>9. QED BY <1>5, <1>6, <1>8 DEF Bars

LEMMA ContractInit == Init => Contract!Init
<1> SUFFICES ASSUME Init PROVE Contract!Init
  OBVIOUS
<1>1. phaseBar = [e \in Engines |-> "idle"]
  BY DEF Init, phaseBar, Held
<1>2. posted \in [Engines -> Jobs]
  BY InitTypeInv DEF TypeInv, TypeOK, CountTypes
<1>3. okBar = [e \in Engines |-> FALSE]
  BY <1>1 DEF okBar
<1>4. outputBar = [e \in Engines |-> Blank]
  BY <1>3 DEF outputBar
<1>5. QED BY <1>1, <1>2, <1>3, <1>4 DEF Contract!Init

(* A step that moves at most engine e, as the caller sees it.              *)
LEMMA OneMoves ==
  ASSUME Bars, Bars', NEW e \in Engines,
         \A f \in Engines \ {e} : PhaseOf(f)' = PhaseOf(f) /\ posted'[f] = posted[f]
  PROVE  /\ phaseBar' = [phaseBar EXCEPT ![e] = PhaseOf(e)']
         /\ okBar' = [okBar EXCEPT ![e] = OkOf(e)']
         /\ outputBar' = [outputBar EXCEPT ![e] = OutputOf(e)']
<1>1. \A f \in Engines \ {e} : OkOf(f)' = OkOf(f) /\ Runnable(f, posted[f])' = Runnable(f, posted[f])
  BY DEF OkOf, Runnable
<1>2. \A f \in Engines \ {e} : OutputOf(f)' = OutputOf(f)
  BY <1>1 DEF OutputOf, Result
<1>3. phaseBar' = [phaseBar EXCEPT ![e] = PhaseOf(e)']
  BY DEF Bars
<1>4. okBar' = [okBar EXCEPT ![e] = OkOf(e)']
  BY <1>1 DEF Bars
<1>5. outputBar' = [outputBar EXCEPT ![e] = OutputOf(e)']
  BY <1>2 DEF Bars
<1>6. QED BY <1>3, <1>4, <1>5

LEMMA NoneMoves ==
  ASSUME Bars, Bars', posted' = posted, \A f \in Engines : PhaseOf(f)' = PhaseOf(f)
  PROVE  UNCHANGED Contract!vars
<1>1. \A f \in Engines : OkOf(f)' = OkOf(f)
  BY DEF OkOf, Runnable
<1>2. \A f \in Engines : OutputOf(f)' = OutputOf(f)
  BY <1>1 DEF OutputOf, Result
<1>3. phaseBar' = phaseBar
  BY DEF Bars
<1>4. okBar' = okBar
  BY <1>1 DEF Bars
<1>5. outputBar' = outputBar
  BY <1>2 DEF Bars
<1>6. QED BY <1>3, <1>4, <1>5 DEF Contract!vars

LEMMA ContractHost ==
  ASSUME Results, Bars, Bars', MaxTimeouts = 0, HostNext
  PROVE  Contract!Next \/ UNCHANGED Contract!vars
<1> USE DEF Results
<1>1. UNCHANGED <<done_seq, served, cpc>>
  BY DEF HostNext, HostStep, WriteArgs, WriteKernel, WriteFlags, WriteSeq, RingDoorbell,
       PollDone, Collect, Check, GiveUp, InitEngine, Wait, PostRefused, PostAccepted,
       mboxVars, ctrlVars
<1>2. CASE WriteSeq
  <2>1. /\ hpc = "seq" /\ hpc' = "bell" /\ heng \in Engines /\ hjob \in Jobs
        /\ UNCHANGED <<heng, in_flight>> /\ posted' = [posted EXCEPT ![heng] = hjob]
        /\ seq'[heng] # next_seq[heng]
        /\ \A f \in Engines \ {heng} : seq'[f] = seq[f] /\ posted'[f] = posted[f]
    BY <1>2, NextSeqDiffers
       DEF WriteSeq, AfterStore, TypeInv, TypeOK, HostTypes, MboxTypes, CountTypes
  <2>2. ~Held(heng) /\ Held(heng)'
    BY <2>1 DEF Orderly, NumberInv, InCall, Held
  <2>3. Rested(heng) /\ seq[heng] = next_seq[heng]
    BY <2>1, <2>2, PatientNumbers DEF Orderly, BootInv
  <2>4. PhaseOf(heng) = "idle" /\ PhaseOf(heng)' = "pending"
    BY <1>1, <2>1, <2>2, <2>3 DEF PhaseOf, Rested
  <2>5. \A f \in Engines \ {heng} : PhaseOf(f)' = PhaseOf(f)
    BY <1>1, <2>1 DEF PhaseOf, Held, Rested
  <2>6. phaseBar[heng] = "idle" /\ phaseBar' = [phaseBar EXCEPT ![heng] = "pending"]
    BY <2>1, <2>4, <2>5, OneMoves DEF Bars
  <2>7. \A f \in Engines : OkOf(f)' = OkOf(f)
    BY <2>1, <2>4, <2>5 DEF OkOf, Runnable
  <2>8. \A f \in Engines : OutputOf(f)' = OutputOf(f)
    BY <2>1, <2>4, <2>7 DEF OutputOf, OkOf, Result
  <2>9. okBar' = okBar /\ outputBar' = outputBar
    BY <2>7, <2>8 DEF Bars
  <2>10. Contract!Post(heng, hjob)
    BY <2>1, <2>6, <2>9 DEF Contract!Post
  <2>11. QED BY <2>1, <2>10 DEF Contract!Next
<1>3. CASE Collect
  <2>1. /\ hpc = "collect" /\ hpc' = "check" /\ heng \in Engines
        /\ UNCHANGED <<heng, in_flight, posted, seq>>
    BY <1>3 DEF Collect, TypeInv, TypeOK, HostTypes, mboxVars, historyVars
  <2>2. Held(heng) /\ Rested(heng) /\ ~in_flight[heng]
    BY <2>1, CollectedIsAnswered DEF Orderly, NumberInv, InCall, Held
  <2>3. PhaseOf(heng) = "answered" /\ PhaseOf(heng)' = "idle"
    BY <2>1, <2>2 DEF PhaseOf, Held
  <2>4. \A f \in Engines \ {heng} : PhaseOf(f)' = PhaseOf(f) /\ posted'[f] = posted[f]
    BY <1>1, <2>1 DEF PhaseOf, Held, Rested
  <2>5. OkOf(heng)' = FALSE /\ OutputOf(heng)' = Blank
    BY <2>1, <2>3 DEF OkOf, OutputOf
  <2>6. Contract!Collect(heng)
    BY <2>1, <2>3, <2>4, <2>5, OneMoves DEF Contract!Collect, Bars
  <2>7. QED BY <2>1, <2>6 DEF Contract!Next
<1>4. CASE ~WriteSeq /\ ~Collect
  <2>1. UNCHANGED <<seq, posted>>
    BY <1>4 DEF HostNext, HostStep, WriteArgs, WriteKernel, WriteFlags, RingDoorbell,
       PollDone, Check, GiveUp, InitEngine, Wait, PostRefused, PostAccepted, mboxVars, historyVars
  <2>2. ~GiveUp
    BY ConstantsAssumption DEF GiveUp, TypeInv, TypeOK, CountTypes
  <2>3. \A f \in Engines : Held(f)' <=> Held(f)
    <3>1. CASE WriteArgs \/ WriteKernel \/ WriteFlags \/ PollDone \/ Check
      BY <3>1, PatientHost DEF Orderly, WriteArgs, WriteKernel, WriteFlags, PollDone, Check, AfterStore, Held
    <3>2. CASE RingDoorbell
      BY <3>2 DEF RingDoorbell, Held, TypeInv, TypeOK, HostTypes
    <3>3. ASSUME NEW e \in Engines, InitEngine(e) \/ Wait(e) PROVE \A f \in Engines : Held(f)' <=> Held(f)
      BY <3>3 DEF InitEngine, Wait, Held, TypeInv, TypeOK, HostTypes
    <3>4. ASSUME NEW e \in Engines, NEW sync \in BOOLEAN,
                 PostRefused(e, sync) \/ \E j \in Jobs : PostAccepted(e, j, sync)
          PROVE  \A f \in Engines : Held(f)' <=> Held(f)
      BY <3>4 DEF PostRefused, PostAccepted, Held
    <3>5. QED BY <1>4, <2>2, <3>1, <3>2, <3>3, <3>4 DEF HostNext, HostStep
  <2>4. \A f \in Engines : PhaseOf(f)' = PhaseOf(f)
    BY <1>1, <2>1, <2>3 DEF PhaseOf, Rested
  <2>5. QED BY <2>1, <2>4, NoneMoves
<1>5. QED BY <1>2, <1>3, <1>4

LEMMA ContractCluster ==
  ASSUME Results, TrapParks, Bars, Bars', MaxTimeouts = 0, NEW e \in Engines, ClusterNext(e)
  PROVE  Contract!Next \/ UNCHANGED Contract!vars
<1> USE DEF Results, TypeInv, TypeOK
<1>1. UNCHANGED <<hpc, heng, in_flight, next_seq, posted>>
  BY DEF ClusterNext, CtrlStep, BootClear, SignIn, CheckSeq, Wake, SpuriousWake,
       ClearDoorbell, Latch, ReadKernel, ReadArgs, ReserveScratch, StageIn, Verdict, StageOut,
       PublishDone, RunSlice, Barrier, TrapCore, TrapCtrl, hostVars, historyVars
<1>2. \A f \in Engines : Held(f)' <=> Held(f)
  BY <1>1 DEF Held
<1>3. \A f \in Engines \ {e} : /\ cpc'[f] = cpc[f] /\ served'[f] = served[f]
                               /\ seq'[f] = seq[f] /\ done_seq'[f] = done_seq[f]
  BY DEF ClusterNext, CtrlStep, BootClear, SignIn, CheckSeq, Wake, SpuriousWake,
       ClearDoorbell, Latch, ReadKernel, ReadArgs, ReserveScratch, StageIn, Verdict, StageOut,
       PublishDone, RunSlice, Barrier, TrapCore, TrapCtrl, mboxVars, ctrlVars, Step, MboxTypes,
       CtrlTypes
<1>4. \A f \in Engines \ {e} : PhaseOf(f)' = PhaseOf(f) /\ posted'[f] = posted[f]
  BY <1>1, <1>2, <1>3 DEF PhaseOf, Rested
<1>5. CASE PublishDone(e)
  <2>1. /\ cpc[e] = "done" /\ cpc'[e] = "check" /\ done_seq'[e] = served[e]
        /\ UNCHANGED <<seq, served>>
    BY <1>5 DEF PublishDone, JobNumber, Step, MboxTypes, CtrlTypes
  <2>2. magic[e] /\ ~Rested(e) /\ ~Unseen(e)
    BY <2>1 DEF TrapParks, Rested, Unseen, AtTop
  <2>3. Held(e) /\ Underway(e) /\ Rested(e)'
    BY <2>1, WorkIsHeld DEF Working, Underway, Rested, AtTop
  <2>4. PhaseOf(e) = "pending" /\ PhaseOf(e)' = "answered"
    BY <1>2, <2>2, <2>3 DEF PhaseOf
  <2>5. OkOf(e)' = Runnable(e, posted[e])
    BY <1>1, <2>4 DEF OkOf, Runnable
  <2>6. OutputOf(e)' = IF Runnable(e, posted[e]) THEN Result(posted[e]) ELSE Blank
    BY <1>1, <2>5 DEF OutputOf, Result
  <2>7. Contract!Answer(e)
    BY <1>1, <1>4, <2>4, <2>5, <2>6, OneMoves DEF Contract!Answer, Bars
  <2>8. QED BY <2>7 DEF Contract!Next
<1>6. CASE ~PublishDone(e)
  <2>1. ASSUME Held(e) PROVE Rested(e)' <=> Rested(e)
    <3>1. cpc[e] \notin {"boot", "signin"}
      BY <2>1, HeldIsPast, PatientNumbers DEF Unseen, Underway, Rested, AtTop, Working
    <3>2. CASE CheckSeq(e)
      BY <3>2 DEF CheckSeq, Step, mboxVars, Rested, AtTop, CtrlTypes
    <3>3. CASE Wake(e) \/ SpuriousWake(e) \/ ClearDoorbell(e)
      BY <3>3 DEF Wake, SpuriousWake, ClearDoorbell, Step, mboxVars, Rested, AtTop, CtrlTypes
    <3>4. CASE \/ Latch(e) \/ ReadKernel(e) \/ ReadArgs(e) \/ ReserveScratch(e) \/ StageIn(e)
               \/ Verdict(e) \/ StageOut(e) \/ Barrier(e) \/ TrapCtrl(e)
      <4>1. cpc[e] \notin AtTop /\ cpc'[e] \notin AtTop
        BY <3>4 DEF Latch, ReadKernel, ReadArgs, ReserveScratch, StageIn, Verdict, StageOut,
             Barrier, AllArrived, TrapCtrl, Step, AtTop, CtrlTypes
      <4>2. QED BY <4>1 DEF Rested
    <3>5. CASE \E c \in Cores : RunSlice(e, c) \/ TrapCore(e, c)
      BY <3>5 DEF RunSlice, TrapCore, mboxVars, ctrlVars, Rested
    <3>6. ~BootClear(e) /\ ~SignIn(e)
      BY <3>1 DEF BootClear, SignIn, Step
    <3>7. QED
      BY <1>6, <3>2, <3>3, <3>4, <3>5, <3>6 DEF ClusterNext, CtrlStep
  <2>2. PhaseOf(e)' = PhaseOf(e)
    BY <1>2, <2>1 DEF PhaseOf
  <2>3. QED BY <1>1, <1>4, <2>2, NoneMoves
<1>7. QED BY <1>5, <1>6

LEMMA BarsInvariant == ASSUME MaxTimeouts = 0 PROVE Spec => []Bars
<1>1. Results /\ TrapParks => Bars
  BY BarsAre
<1>2. QED BY <1>1, ResultsInvariant, TrapParksInvariant, PTL

(* When no wait runs out, every behaviour of the mailbox is one of Offload *)
(* as far as safety goes: an engine holds one job, answers it once, with   *)
(* ok exactly when it can run it and the job's own result in its output,   *)
(* traps of the cluster included (hes_host.h:26, 54-57).                   *)
THEOREM MailboxIsAnOffload ==
  ASSUME MaxTimeouts = 0
  PROVE  Spec => Contract!Init /\ [][Contract!Next]_(Contract!vars)
<1>1. Results /\ TrapParks /\ Bars /\ Bars' /\ [Next]_vars => [Contract!Next]_(Contract!vars)
  <2> SUFFICES ASSUME Results, TrapParks, Bars, Bars', [Next]_vars
               PROVE  Contract!Next \/ UNCHANGED Contract!vars
    OBVIOUS
  <2>1. CASE HostNext
    BY <2>1, ContractHost
  <2>2. CASE \E e \in Engines : ClusterNext(e)
    BY <2>2, ContractCluster
  <2>3. CASE UNCHANGED vars
    <3>1. \A f \in Engines : PhaseOf(f)' = PhaseOf(f)
      BY <2>3 DEF PhaseOf, Held, Rested, vars, hostVars, mboxVars, ctrlVars
    <3>2. QED BY <2>3, <3>1, NoneMoves DEF vars, historyVars
  <2>4. QED BY <2>1, <2>2, <2>3 DEF Next
<1>2. QED
  BY <1>1, ContractInit, ResultsInvariant, TrapParksInvariant, BarsInvariant, PTL DEF Spec
==============================================================================
