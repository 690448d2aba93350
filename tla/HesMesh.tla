------------------------------- MODULE HesMesh -------------------------------
(***************************************************************************)
(* The job mailbox of runtime/mesh: the CVA6 host (hes_host.c) hands one   *)
(* job at a time to each cluster, whose control core (cluster_main.c)      *)
(* sleeps in wfi, reads the descriptor, stages operands, releases the      *)
(* compute cores through the hardware barrier and publishes done_seq.      *)
(*                                                                         *)
(* Every load and store of the shared mailbox that another party can see   *)
(* happen is a step of its own, in program order; a core's private work    *)
(* between two such accesses is part of the step that follows it.  Operand *)
(* sizes, cycle counts and console output are abstracted: a descriptor is  *)
(* a kernel, a member of Args standing for args[], and the STAGE flag.     *)
(***************************************************************************)
EXTENDS Naturals

CONSTANTS
  Engines,         \* the clusters
  Cores,           \* the compute cores of a cluster (each cluster the same)
  Kernels,         \* HES_K_*, without HES_K_NONE
  NoKernel,        \* HES_K_NONE
  Args,            \* what args[] may hold
  Slots,           \* the indices of args[] that are pointers
  NoSlot,          \* an empty operand list
  Buffers,         \* the main-memory buffers those pointers name
  OutSlot,         \* OutSlot[k]: index of the operand kernel k writes
  Ptr,             \* Ptr[a][s]: the buffer args[s] points to
  OperandsFit,     \* the args whose operands fit the TCDM heap
  NeedsScratch,    \* the kernels with per-core working storage (MFCC)
  ScratchFits,     \* the args whose working storage fits the TCDM heap
  RequiresStaging, \* the engines with HES_*_REQUIRES_STAGING
  Jobs,            \* the descriptors the program posts
  Blank,           \* contents of a buffer no job has written
  SeqMod,          \* job numbers are counted modulo SeqMod (2^32 in the code)
  CountMod,        \* failure_count is counted modulo CountMod (2^32)
  BootWords,       \* what seq and done_seq may hold before the cluster boots
  MaxOwed,         \* bound: posts to an engine the program has not waited for
  MaxTimeouts,     \* bound: waits of the host that run out before the cluster
  MaxTraps         \* bound: traps of a cluster core

Content == [kernel : Kernels, args : Args]

ASSUME ConstantsAssumption ==
  /\ NoKernel \notin Kernels /\ NoSlot \notin Slots
  /\ OutSlot \in [Kernels -> Slots]
  /\ Ptr \in [Args -> [Slots -> Buffers]]
  /\ OperandsFit \subseteq Args
  /\ ScratchFits \subseteq Args
  /\ NeedsScratch \subseteq Kernels
  /\ RequiresStaging \subseteq Engines
  /\ Jobs \subseteq [kernel : Kernels, args : Args, stage : BOOLEAN]
  /\ Engines # {} /\ Jobs # {}
  /\ Blank \notin Content
  /\ SeqMod \in Nat /\ SeqMod >= 2
  /\ CountMod \in Nat \ {0}
  /\ BootWords \subseteq 0..(SeqMod - 1)
  /\ BootWords # {}
  /\ MaxOwed \in Nat /\ MaxTimeouts \in Nat /\ MaxTraps \in Nat

VARIABLES
  \* the host program and hes_host.c's globals
  hpc, awaited, heng, hjob, hsync, hok, next_seq, in_flight, failure_count,
  \* the program's own bookkeeping: posts it has yet to wait for
  owed,
  \* the mailbox of each cluster, and its control core's CLINT bit
  magic, seq, done_seq, kernel_id, args, flags, error, trap_cause, irq,
  \* the control core
  cpc, served, active_kernel, active_args, no_scratch, staged, ops,
  \* the compute cores, the staged output in TCDM, and main memory
  corepc, local, mem,
  \* history: the job last published, the outputs the program has taken as good
  \* and posted no job over, the losses that happened, what was spent
  posted, trusted, lost, timeouts, traps

hostVars    == <<hpc, awaited, heng, hjob, hsync, hok, next_seq, in_flight,
                 failure_count>>
mboxVars    == <<magic, seq, done_seq, kernel_id, args, flags, error, trap_cause>>
ctrlVars    == <<cpc, served, active_kernel, active_args, no_scratch, staged, ops>>
dataVars    == <<corepc, local, mem>>
historyVars == <<posted, trusted, lost, timeouts, traps>>
vars == <<hostVars, owed, mboxVars, irq, ctrlVars, dataVars, historyVars>>

Seqs   == 0..(SeqMod - 1)
Counts == 0..(CountMod - 1)

(* Slips a maintainer could make in the code below, each kept next to the  *)
(* rest so that every property can be shown to notice one.                 *)
SuccNoWrap(n, m) == n + 1
SameSeq(n) == n
AcceptsAlways(e) == TRUE
AfterStoreSeqFirst(p) ==
  CASE p = "args" -> "seq" [] p = "seq" -> "kernel" [] p = "kernel" -> "flags"
    [] p = "flags" -> "bell"
JobNumberLatest(e) == seq[e]
RefusedUnstaged(e) == no_scratch[e]
FailuresForgotten == failure_count
ArrivedCtrlOnly(e) == cpc[e] \in {"bar1", "bar2"}
ArrivedOrParked(e) ==
  /\ cpc[e] \in {"bar1", "bar2"}
  /\ \A c \in Cores : corepc[e][c] \in {"bar1", "bar2", "parked"}
ClearThenSleep(e) ==
  /\ cpc[e] = "clear" /\ cpc' = [cpc EXCEPT ![e] = "wfi"]
  /\ irq' = [irq EXCEPT ![e] = FALSE]
  /\ UNCHANGED <<hostVars, owed, mboxVars, served, active_kernel, active_args,
                 no_scratch, staged, ops, dataVars, historyVars>>

(* ++ of an unsigned integer that counts modulo m. *)
Succ(n, m) == IF n + 1 = m THEN 0 ELSE n + 1
NextSeq(n) == Succ(n, SeqMod)

HostPCs == {"init", "idle", "args", "kernel", "flags", "seq", "bell", "poll",
            "collect", "gaveup", "check"}
CtrlPCs == {"boot", "signin", "check", "wfi", "clear", "latch", "kernel", "args",
            "reserve", "stage", "verdict", "bar1", "bar2", "out", "done", "parked"}
CorePCs == {"bar1", "slice", "bar2", "parked"}

(* What a correct run of a job leaves in its output, per core's slice. *)
Output(k, a) == Ptr[a][OutSlot[k]]
Value(k, a)  == [kernel |-> k, args |-> a]
Result(j)    == [c \in Cores |-> Value(j.kernel, j.args)]

(* hes_post() forces HES_JOB_STAGE for an engine that requires staging. *)
StageFlag(e, j) == j.stage \/ e \in RequiresStaging

AnyEngine == CHOOSE e \in Engines : TRUE
AnyJob    == CHOOSE j \in Jobs : TRUE

(* Before boot: the mailbox magic is not set and the job numbers are       *)
(* whatever the TCDM holds.  Fields nobody reads before writing them start *)
(* from an arbitrary member of their type.                                 *)
Init ==
  /\ hpc = "init" /\ awaited = Engines
  /\ heng = AnyEngine /\ hjob = AnyJob
  /\ hsync = FALSE /\ hok = FALSE
  /\ next_seq = [e \in Engines |-> 0]
  /\ in_flight = [e \in Engines |-> FALSE]
  /\ failure_count = 0
  /\ owed = [e \in Engines |-> 0]
  /\ magic = [e \in Engines |-> FALSE]
  /\ seq \in [Engines -> BootWords]
  /\ done_seq \in [Engines -> BootWords]
  /\ kernel_id = [e \in Engines |-> NoKernel]
  /\ args = [e \in Engines |-> AnyJob.args]
  /\ flags = [e \in Engines |-> FALSE]
  /\ error = [e \in Engines |-> FALSE]
  /\ trap_cause = [e \in Engines |-> FALSE]
  /\ irq = [e \in Engines |-> FALSE]
  /\ cpc = [e \in Engines |-> "boot"]
  /\ served = [e \in Engines |-> 0]
  /\ active_kernel = [e \in Engines |-> NoKernel]
  /\ active_args = [e \in Engines |-> AnyJob.args]
  /\ no_scratch = [e \in Engines |-> FALSE]
  /\ staged = [e \in Engines |-> FALSE]
  /\ ops = [e \in Engines |-> NoSlot]
  /\ corepc = [e \in Engines |-> [c \in Cores |-> "bar1"]]
  /\ local = [e \in Engines |-> [c \in Cores |-> Blank]]
  /\ mem = [b \in Buffers |-> [c \in Cores |-> Blank]]
  /\ posted = [e \in Engines |-> AnyJob] /\ trusted = [b \in Buffers |-> Blank]
  /\ lost = 0 /\ timeouts = 0 /\ traps = 0

------------------------------------------------------------------------------
(* The host: hes_engine_init(), then calls of hes_post(), hes_wait() and   *)
(* hes_offload() in whatever order the program makes them.                 *)

(* hes_engine_init() passes engine e: it signed in, or the bounded spin    *)
(* ran out.  Either way its done_seq is taken as the last job number.      *)
(* (The code visits the engines in order; here in any order.)              *)
InitEngine(e) ==
  /\ hpc = "init" /\ e \in awaited
  /\ \/ magic[e] /\ UNCHANGED timeouts
     \/ ~magic[e] /\ timeouts < MaxTimeouts /\ timeouts' = timeouts + 1
  /\ next_seq' = [next_seq EXCEPT ![e] = done_seq[e]]
  /\ awaited' = awaited \ {e}
  /\ hpc' = IF awaited' = {} THEN "idle" ELSE "init"
  /\ UNCHANGED <<heng, hjob, hsync, hok, in_flight, failure_count, owed, mboxVars,
                 irq, ctrlVars, dataVars, posted, trusted, lost, traps>>

(* The program's side of the bargain, which hes_host.c cannot check: jobs  *)
(* it runs side by side do not write each other's buffers.                 *)
Busy(e) == in_flight[e] \/ owed[e] > 0
Pointers(j) == {Ptr[j.args][s] : s \in Slots}
Writes(j)   == Output(j.kernel, j.args)
NoSharing(e, j) ==
  \A f \in Engines \ {e} :
    Busy(f) => /\ Writes(j) \notin Pointers(posted[f])
               /\ Writes(posted[f]) \notin Pointers(j)

(* hes_post() takes a job for e when nothing is in flight there. *)
Accepts(e) == ~in_flight[e]

PostAccepted(e, j, sync) ==
  /\ hpc = "idle" /\ owed[e] < MaxOwed /\ Accepts(e) /\ NoSharing(e, j)
  /\ hpc' = "args" /\ heng' = e /\ hjob' = j /\ hsync' = sync
  /\ owed' = [owed EXCEPT ![e] = @ + 1]
  /\ UNCHANGED <<awaited, hok, next_seq, in_flight, failure_count, mboxVars, irq,
                 ctrlVars, dataVars, historyVars>>

(* hes_post() on a busy engine: refused and not counted.  hes_offload()    *)
(* returns its zeroed result to hes_check() at once; a caller that posts   *)
(* by hand still makes the matching hes_wait().                            *)
PostRefused(e, sync) ==
  /\ hpc = "idle" /\ owed[e] < MaxOwed
  /\ in_flight[e]
  /\ hok' = FALSE /\ heng' = e /\ hsync' = sync
  /\ hpc' = IF sync THEN "check" ELSE "idle"
  /\ owed' = [owed EXCEPT ![e] = @ + 1]
  /\ lost' = Succ(lost, CountMod)
  /\ UNCHANGED <<awaited, hjob, next_seq, in_flight, failure_count, mboxVars,
                 irq, ctrlVars, dataVars, posted, trusted, timeouts, traps>>

(* The descriptor, field by field, then the job number that publishes it.  *)
AfterStore(p) ==
  CASE p = "args" -> "kernel" [] p = "kernel" -> "flags" [] p = "flags" -> "seq"
    [] p = "seq" -> "bell"

WriteArgs ==
  /\ hpc = "args" /\ hpc' = AfterStore("args")
  /\ args' = [args EXCEPT ![heng] = hjob.args]
  /\ UNCHANGED <<awaited, heng, hjob, hsync, hok, next_seq, in_flight, failure_count, owed,
                 magic, seq, done_seq, kernel_id, flags, error, trap_cause, irq,
                 ctrlVars, dataVars, historyVars>>

WriteKernel ==
  /\ hpc = "kernel" /\ hpc' = AfterStore("kernel")
  /\ kernel_id' = [kernel_id EXCEPT ![heng] = hjob.kernel]
  /\ UNCHANGED <<awaited, heng, hjob, hsync, hok, next_seq, in_flight, failure_count, owed,
                 magic, seq, done_seq, args, flags, error, trap_cause, irq,
                 ctrlVars, dataVars, historyVars>>

WriteFlags ==
  /\ hpc = "flags" /\ hpc' = AfterStore("flags")
  /\ flags' = [flags EXCEPT ![heng] = StageFlag(heng, hjob)]
  /\ UNCHANGED <<awaited, heng, hjob, hsync, hok, next_seq, in_flight, failure_count, owed,
                 magic, seq, done_seq, kernel_id, args, error, trap_cause, irq,
                 ctrlVars, dataVars, historyVars>>

WriteSeq ==
  /\ hpc = "seq" /\ hpc' = AfterStore("seq")
  /\ next_seq' = [next_seq EXCEPT ![heng] = NextSeq(@)]
  /\ seq' = [seq EXCEPT ![heng] = NextSeq(next_seq[heng])]
  /\ posted' = [posted EXCEPT ![heng] = hjob]
  /\ trusted' = [trusted EXCEPT ![Writes(hjob)] = Blank]
  /\ UNCHANGED <<awaited, heng, hjob, hsync, hok, in_flight, failure_count, owed,
                 magic, done_seq, kernel_id, args, flags, error, trap_cause, irq,
                 ctrlVars, dataVars, lost, timeouts, traps>>

(* The doorbell; a job posted by hes_offload() is then waited for.         *)
(* hes_wait() clears in_flight before it polls.                            *)
RingDoorbell ==
  /\ hpc = "bell"
  /\ irq' = [irq EXCEPT ![heng] = TRUE]
  /\ in_flight' = [in_flight EXCEPT ![heng] = ~hsync]
  /\ hpc' = IF hsync THEN "poll" ELSE "idle"
  /\ UNCHANGED <<awaited, heng, hjob, hsync, hok, next_seq, failure_count, owed,
                 mboxVars, ctrlVars, dataVars, historyVars>>

(* hes_wait() of a program that posted by hand.  With nothing in flight it *)
(* returns the zeroed result.                                              *)
Wait(e) ==
  /\ hpc = "idle" /\ owed[e] > 0
  /\ heng' = e /\ hsync' = FALSE
  /\ in_flight' = [in_flight EXCEPT ![e] = FALSE]
  /\ hok' = FALSE
  /\ hpc' = IF in_flight[e] THEN "poll" ELSE "check"
  /\ UNCHANGED <<awaited, hjob, next_seq, failure_count, owed, mboxVars, irq,
                 ctrlVars, dataVars, historyVars>>

(* hes_wait() sees its job number in done_seq ...                          *)
PollDone ==
  /\ hpc = "poll"
  /\ done_seq[heng] = next_seq[heng]
  /\ hpc' = "collect"
  /\ UNCHANGED <<awaited, heng, hjob, hsync, hok, next_seq, in_flight, failure_count, owed,
                 mboxVars, irq, ctrlVars, dataVars, historyVars>>

(* ... and copies the verdict out of the mailbox.                          *)
Collect ==
  /\ hpc = "collect" /\ hpc' = "check"
  /\ hok' = (~trap_cause[heng] /\ ~error[heng])
  /\ UNCHANGED <<awaited, heng, hjob, hsync, next_seq, in_flight, failure_count, owed,
                 mboxVars, irq, ctrlVars, dataVars, historyVars>>

(* HES_MAX_HEARTBEATS heartbeats passed without an answer: GAVE UP, and a  *)
(* result that is not ok goes to hes_check().                              *)
GiveUp ==
  /\ hpc = "poll" /\ timeouts < MaxTimeouts
  /\ hpc' = "gaveup" /\ hok' = FALSE
  /\ timeouts' = timeouts + 1
  /\ UNCHANGED <<awaited, heng, hjob, hsync, next_seq, in_flight, failure_count, owed,
                 mboxVars, irq, ctrlVars, dataVars, posted, trusted, lost, traps>>

(* hes_check() on the result of the call. *)
Failures == IF hok THEN failure_count ELSE Succ(failure_count, CountMod)

Check ==
  /\ hpc \in {"gaveup", "check"} /\ hpc' = "idle"
  /\ failure_count' = Failures
  /\ owed' = [owed EXCEPT ![heng] = @ - 1]
  /\ trusted' = IF hok THEN [trusted EXCEPT ![Writes(posted[heng])] =
                              Value(posted[heng].kernel, posted[heng].args)] ELSE trusted
  /\ UNCHANGED <<awaited, heng, hjob, hsync, hok, next_seq, in_flight, mboxVars, irq,
                 ctrlVars, dataVars, posted, lost, timeouts, traps>>

(* What the host does on its own once it is in a call. *)
HostStep ==
  \/ WriteArgs \/ WriteKernel \/ WriteFlags \/ WriteSeq \/ RingDoorbell
  \/ PollDone \/ Collect \/ Check
------------------------------------------------------------------------------
(* The control core of cluster e.                                          *)

(* Step(e, from, to): the control core moves between two program points.   *)
Step(e, from, to) == cpc[e] = from /\ cpc' = [cpc EXCEPT ![e] = to]

(* Boot: clear the mailbox, then set the magic the host looks for; the     *)
(* barriers in which the cores sign in between are one step here.          *)
BootClear(e) ==
  /\ Step(e, "boot", "signin")
  /\ seq' = [seq EXCEPT ![e] = 0]
  /\ done_seq' = [done_seq EXCEPT ![e] = 0]
  /\ trap_cause' = [trap_cause EXCEPT ![e] = FALSE]
  /\ UNCHANGED <<hostVars, owed, magic, kernel_id, args, flags, error, irq, served,
                 active_kernel, active_args, no_scratch, staged, ops, dataVars, historyVars>>

SignIn(e) ==
  /\ Step(e, "signin", "check")
  /\ magic' = [magic EXCEPT ![e] = TRUE]
  /\ served' = [served EXCEPT ![e] = 0]
  /\ UNCHANGED <<hostVars, owed, seq, done_seq, kernel_id, args, flags, error, trap_cause, irq,
                 active_kernel, active_args, no_scratch, staged, ops, dataVars, historyVars>>

(* while (mbox->seq == served) { wfi; hes_clint_clear(); }                 *)
CheckSeq(e) ==
  /\ Step(e, "check", IF seq[e] = served[e] THEN "wfi" ELSE "latch")
  /\ UNCHANGED <<hostVars, owed, mboxVars, irq, served, active_kernel, active_args,
                 no_scratch, staged, ops, dataVars, historyVars>>

(* wfi falls through while the doorbell is pending; it may also return     *)
(* with no doorbell at all.                                                *)
Wake(e) ==
  /\ irq[e] /\ Step(e, "wfi", "clear")
  /\ UNCHANGED <<hostVars, owed, mboxVars, irq, served, active_kernel, active_args,
                 no_scratch, staged, ops, dataVars, historyVars>>

SpuriousWake(e) ==
  /\ ~irq[e] /\ Step(e, "wfi", "clear")
  /\ UNCHANGED <<hostVars, owed, mboxVars, irq, served, active_kernel, active_args,
                 no_scratch, staged, ops, dataVars, historyVars>>

ClearDoorbell(e) ==
  /\ Step(e, "clear", "check")
  /\ irq' = [irq EXCEPT ![e] = FALSE]
  /\ UNCHANGED <<hostVars, owed, mboxVars, served, active_kernel, active_args,
                 no_scratch, staged, ops, dataVars, historyVars>>

(* served = mbox->seq: a second read, after the one that ended the loop.   *)
Latch(e) ==
  /\ Step(e, "latch", "kernel")
  /\ served' = [served EXCEPT ![e] = seq[e]]
  /\ UNCHANGED <<hostVars, owed, mboxVars, irq, active_kernel, active_args, no_scratch,
                 staged, ops, dataVars, historyVars>>

ReadKernel(e) ==
  /\ Step(e, "kernel", "args")
  /\ active_kernel' = [active_kernel EXCEPT ![e] = kernel_id[e]]
  /\ UNCHANGED <<hostVars, owed, mboxVars, irq, served, active_args, no_scratch,
                 staged, ops, dataVars, historyVars>>

ReadArgs(e) ==
  /\ Step(e, "args", "reserve")
  /\ active_args' = [active_args EXCEPT ![e] = args[e]]
  /\ staged' = [staged EXCEPT ![e] = FALSE]
  /\ ops' = [ops EXCEPT ![e] = NoSlot]
  /\ UNCHANGED <<hostVars, owed, mboxVars, irq, served, active_kernel, no_scratch,
                 dataVars, historyVars>>

(* reserve_scratch(): wanted, and scratch_base left 0 for want of room.    *)
ReserveScratch(e) ==
  /\ Step(e, "reserve", "stage")
  /\ no_scratch' = [no_scratch EXCEPT ![e] =
                      active_kernel[e] \in NeedsScratch /\ args[e] \notin ScratchFits]
  /\ UNCHANGED <<hostVars, owed, mboxVars, irq, served, active_kernel, active_args,
                 staged, ops, dataVars, historyVars>>

(* stage_in() plans and copies from the mailbox's own args; when it cannot *)
(* stage, the main-memory pointers are put back from there too.  The TCDM  *)
(* it hands out for the output holds no part of this job's result yet.     *)
StageIn(e) ==
  /\ Step(e, "stage", "verdict")
  /\ IF flags[e] /\ active_kernel[e] \in Kernels /\ args[e] \in OperandsFit
       THEN /\ staged' = [staged EXCEPT ![e] = TRUE]
            /\ ops' = [ops EXCEPT ![e] = OutSlot[active_kernel[e]]]
            /\ local' = [local EXCEPT ![e] = [c \in Cores |-> Blank]]
            /\ UNCHANGED active_args
       ELSE /\ active_args' = IF flags[e]
                                THEN [active_args EXCEPT ![e] = args[e]] ELSE active_args
            /\ UNCHANGED <<staged, ops, local>>
  /\ UNCHANGED <<hostVars, owed, mboxVars, irq, served, active_kernel, no_scratch,
                 corepc, mem, historyVars>>

(* Refuse what cannot be run: the kernel becomes HES_K_NONE and error says *)
(* so (HES_ERR_NEEDS_STAGING or HES_ERR_NO_SCRATCH).                       *)
Refused(e) == (e \in RequiresStaging /\ ~staged[e]) \/ no_scratch[e]

Verdict(e) ==
  /\ Step(e, "verdict", "bar1")
  /\ error' = [error EXCEPT ![e] = Refused(e)]
  /\ active_kernel' = IF Refused(e) THEN [active_kernel EXCEPT ![e] = NoKernel]
                                    ELSE active_kernel
  /\ UNCHANGED <<hostVars, owed, magic, seq, done_seq, kernel_id, args, flags, trap_cause,
                 irq, served, active_args, no_scratch, staged, ops, dataVars, historyVars>>

(* stage_out(): every core's part of the staged output to the address the  *)
(* mailbox holds now, in the operand slot planned when the job was staged. *)
StageOut(e) ==
  /\ Step(e, "out", "done")
  /\ mem' = IF staged[e] THEN [mem EXCEPT ![Ptr[args[e]][ops[e]]] = local[e]] ELSE mem
  /\ UNCHANGED <<hostVars, owed, mboxVars, irq, served, active_kernel, active_args,
                 no_scratch, staged, ops, corepc, local, historyVars>>

(* cycles, staged and nb_cores, then done_seq, and back to the top.        *)
JobNumber(e) == served[e]

PublishDone(e) ==
  /\ Step(e, "done", "check")
  /\ done_seq' = [done_seq EXCEPT ![e] = JobNumber(e)]
  /\ lost' = IF error[e] THEN Succ(lost, CountMod) ELSE lost
  /\ UNCHANGED <<hostVars, owed, magic, seq, kernel_id, args, flags, error, trap_cause, irq,
                 served, active_kernel, active_args, no_scratch, staged, ops, dataVars,
                 posted, trusted, timeouts, traps>>

CtrlStep(e) ==
  \/ BootClear(e) \/ SignIn(e) \/ CheckSeq(e) \/ Wake(e) \/ ClearDoorbell(e)
  \/ Latch(e) \/ ReadKernel(e) \/ ReadArgs(e) \/ ReserveScratch(e) \/ StageIn(e)
  \/ Verdict(e) \/ StageOut(e) \/ PublishDone(e)

------------------------------------------------------------------------------
(* The compute cores of cluster e and the hardware barrier.                *)

(* run_slice(): core c writes its share of the output, to the staged copy  *)
(* in TCDM or to main memory, reading active_kernel and active_args now.   *)
RunSlice(e, c) ==
  /\ corepc[e][c] = "slice"
  /\ corepc' = [corepc EXCEPT ![e][c] = "bar2"]
  /\ LET k == active_kernel[e]
         v == Value(k, active_args[e])
     IN  /\ local' = IF k # NoKernel /\ staged[e]
                       THEN [local EXCEPT ![e][c] = v] ELSE local
         /\ mem'   = IF k # NoKernel /\ ~staged[e]
                       THEN [mem EXCEPT ![Output(k, active_args[e])][c] = v] ELSE mem
  /\ UNCHANGED <<hostVars, owed, mboxVars, irq, ctrlVars, historyVars>>

(* The barrier register releases when every core of the cluster has        *)
(* requested it, whichever hes_barrier() of the program each one is at.    *)
AllArrived(e) ==
  /\ cpc[e] \in {"bar1", "bar2"}
  /\ \A c \in Cores : corepc[e][c] \in {"bar1", "bar2"}

Barrier(e) ==
  /\ AllArrived(e)
  /\ cpc' = [cpc EXCEPT ![e] = IF @ = "bar1" THEN "bar2" ELSE "out"]
  /\ corepc' = [corepc EXCEPT ![e] =
                  [c \in Cores |-> CASE @[c] = "bar1" -> "slice"
                                     [] @[c] = "bar2" -> "bar1" [] OTHER -> @[c]]]
  /\ UNCHANGED <<hostVars, owed, mboxVars, irq, served, active_kernel, active_args,
                 no_scratch, staged, ops, local, mem, historyVars>>

(* crt0_cluster.S trap_vec: record mcause in the mailbox and park in wfi.  *)
(* A compute core can trap in its kernel, the control core while staging.  *)
TrapCore(e, c) ==
  /\ traps < MaxTraps /\ traps' = traps + 1
  /\ corepc[e][c] = "slice" /\ active_kernel[e] # NoKernel
  /\ corepc' = [corepc EXCEPT ![e][c] = "parked"]
  /\ trap_cause' = [trap_cause EXCEPT ![e] = TRUE]
  /\ UNCHANGED <<hostVars, owed, magic, seq, done_seq, kernel_id, args, flags, error, irq,
                 ctrlVars, local, mem, posted, trusted, lost, timeouts>>

TrapCtrl(e) ==
  /\ traps < MaxTraps /\ traps' = traps + 1
  /\ cpc[e] \in {"stage", "out"}
  /\ cpc' = [cpc EXCEPT ![e] = "parked"]
  /\ trap_cause' = [trap_cause EXCEPT ![e] = TRUE]
  /\ UNCHANGED <<hostVars, owed, magic, seq, done_seq, kernel_id, args, flags, error, irq,
                 served, active_kernel, active_args, no_scratch, staged, ops, dataVars,
                 posted, trusted, lost, timeouts>>

------------------------------------------------------------------------------
HostNext ==
  \/ HostStep \/ GiveUp
  \/ \E e \in Engines :
       \/ InitEngine(e) \/ Wait(e)
       \/ \E sync \in BOOLEAN :
            \/ PostRefused(e, sync)
            \/ \E j \in Jobs : PostAccepted(e, j, sync)

ClusterNext(e) ==
  \/ CtrlStep(e) \/ SpuriousWake(e) \/ Barrier(e) \/ TrapCtrl(e)
  \/ \E c \in Cores : RunSlice(e, c) \/ TrapCore(e, c)

Next == HostNext \/ \E e \in Engines : ClusterNext(e)

(* Every core is clocked, so a core that can take its next instruction     *)
(* takes it; nothing makes the program post another job, and no wake-up    *)
(* comes except from the doorbell.                                         *)
Fairness ==
  /\ WF_vars(HostStep) /\ WF_vars(\E e \in Engines : InitEngine(e))
  /\ \A e \in Engines :
       /\ WF_vars(CtrlStep(e)) /\ WF_vars(Barrier(e))
       /\ \A c \in Cores : WF_vars(RunSlice(e, c))

Spec == Init /\ [][Next]_vars
FairSpec == Spec /\ Fairness
------------------------------------------------------------------------------
(* Properties.                                                             *)

HostTypes ==
  /\ hpc \in HostPCs /\ awaited \subseteq Engines /\ heng \in Engines /\ hjob \in Jobs
  /\ hsync \in BOOLEAN /\ hok \in BOOLEAN
  /\ next_seq \in [Engines -> Seqs] /\ in_flight \in [Engines -> BOOLEAN]
  /\ failure_count \in Counts
MboxTypes ==
  /\ magic \in [Engines -> BOOLEAN]
  /\ seq \in [Engines -> Seqs] /\ done_seq \in [Engines -> Seqs]
  /\ kernel_id \in [Engines -> Kernels \cup {NoKernel}]
  /\ args \in [Engines -> Args] /\ flags \in [Engines -> BOOLEAN]
  /\ error \in [Engines -> BOOLEAN] /\ trap_cause \in [Engines -> BOOLEAN]
  /\ irq \in [Engines -> BOOLEAN]
CtrlTypes ==
  /\ cpc \in [Engines -> CtrlPCs] /\ served \in [Engines -> Seqs]
  /\ active_kernel \in [Engines -> Kernels \cup {NoKernel}]
  /\ active_args \in [Engines -> Args]
  /\ no_scratch \in [Engines -> BOOLEAN] /\ staged \in [Engines -> BOOLEAN]
  /\ ops \in [Engines -> Slots \cup {NoSlot}]
DataTypes ==
  /\ corepc \in [Engines -> [Cores -> CorePCs]]
  /\ local \in [Engines -> [Cores -> Content \cup {Blank}]]
  /\ mem \in [Buffers -> [Cores -> Content \cup {Blank}]]
CountTypes ==
  /\ owed \in [Engines -> 0..MaxOwed]
  /\ posted \in [Engines -> Jobs] /\ trusted \in [Buffers -> Content \cup {Blank}]
  /\ lost \in Counts
  /\ timeouts \in 0..MaxTimeouts /\ traps \in 0..MaxTraps

TypeOK == HostTypes /\ MboxTypes /\ CtrlTypes /\ DataTypes /\ CountTypes

(* Can engine e run job j?  Its operands are staged or it can do without,  *)
(* and the working storage its kernel needs fits.                          *)
Runnable(e, j) ==
  /\ e \in RequiresStaging => j.args \in OperandsFit
  /\ j.kernel \in NeedsScratch => j.args \in ScratchFits

(* Program points at which the control core is serving a job. *)
Serving == {"latch", "kernel", "args", "reserve", "stage", "verdict", "bar1", "bar2",
            "out", "done"}

(* The host is inside hes_post() for e and the descriptor is not published. *)
Filling(e) == heng = e /\ hpc \in {"args", "kernel", "flags", "seq"}

(* The engine is the caller's from the store that publishes the job number *)
(* to the moment its verdict is collected, or its failure counted.         *)
Held(e) == in_flight[e] \/ (heng = e /\ hpc \in {"bell", "poll", "collect", "gaveup"})

(* Nobody takes one barrier for the other: a compute core waits at the     *)
(* releasing one unless the control core waits at the closing one, so      *)
(* no core is in its slice while the control core rewrites active_args,    *)
(* active_kernel or the staged operands (cluster_main.c:404-411).          *)
BarrierAligned ==
  \A e \in Engines, c \in Cores : corepc[e][c] = "bar1" <=> cpc[e] # "bar2"

(* The descriptor is never written under a cluster that is still using it  *)
(* (hes_host.h:54-57): while the host fills it in, the control core is at  *)
(* the top of its loop with every published job served.                    *)
DescriptorStable ==
  \A e \in Engines : Filling(e) => /\ cpc[e] \notin Serving
                                   /\ seq[e] = served[e]

(* The cluster works on the job that was posted last and on no mixture of  *)
(* two: what the cores and the staging read is that job's kernel and args, *)
(* the latter in the mailbox too until stage_out() has used them.          *)
ServesPostedJob ==
  \A e \in Engines :
    cpc[e] \in {"verdict", "bar1", "bar2", "out", "done"} =>
      /\ args[e] = posted[e].args
      /\ active_args[e] = posted[e].args
      /\ active_kernel[e] \in {posted[e].kernel, NoKernel}
      /\ served[e] = next_seq[e]

(* An answer the program takes as good is good: the job was one the engine *)
(* can run, and its output buffer holds that job's result from every core  *)
(* (hes_host.h:26, "0 if the cluster trapped, refused or never answered"). *)
ResultDelivered ==
  hpc = "check" /\ hok =>
    /\ Runnable(heng, posted[heng])
    /\ mem[Writes(posted[heng])] = Result(posted[heng])

(* A result the program took as good is still there until the program      *)
(* itself posts a job over it: no late copy-out, no stray slice and no     *)
(* other cluster's job destroys it (cluster_main.c:219-226).               *)
TrustedIntact ==
  \A b \in Buffers : trusted[b] # Blank => mem[b] = [c \in Cores |-> trusted[b]]

(* done_seq equal to the job number means this job: a done left over from  *)
(* an earlier one is never read as this one finishing (hes_mailbox.h:21).  *)
NoStaleDone ==
  hpc = "collect" => /\ cpc[heng] \in {"check", "wfi", "clear"}
                     /\ served[heng] = next_seq[heng]

(* Every offload that went wrong is counted once (hes_host.c:28, 87-90):   *)
(* when the program has waited for all it posted, failure_count is the     *)
(* number of posts refused and jobs the clusters refused.                  *)
EveryLossCounted ==
  hpc = "idle" /\ timeouts = 0 /\ (\A e \in Engines : owed[e] = 0)
    => failure_count = lost

(* Main memory changes only in the output buffer of a job that has been    *)
(* posted to some engine and not yet reported done.                        *)
WritesOnlyOwnOutput ==
  [][\A b \in Buffers : mem'[b] # mem[b] =>
       \E e \in Engines : b = Writes(posted[e]) /\ done_seq[e] # next_seq[e]]_vars

(* Once a core of the cluster has trapped, no job of that cluster is ever  *)
(* reported done: a parked core never reaches the closing barrier.         *)
TrapIsNeverDone ==
  [][\A e \in Engines : trap_cause[e] /\ magic[e] => done_seq'[e] = done_seq[e]]_vars

(* No doorbell is lost: a published job number is eventually served,       *)
(* however the check, the wfi and the clearing of the doorbell interleave  *)
(* with the host's store and doorbell (cluster_main.c:360-365).            *)
EveryJobIsFinished ==
  \A e \in Engines : in_flight[e] ~> (done_seq[e] = next_seq[e])

(* Every hes_wait() and hes_offload() returns to the program. *)
EveryCallReturns == (hpc # "idle") ~> (hpc = "idle")

(* A run that silently produced wrong numbers is not possible              *)
(* (hes_host.h:87-89): should an output the program took as good not be    *)
(* there, after time-outs, late writes and traps, failure_count says so.   *)
WrongNumbersAreCounted ==
  ~TrustedIntact => failure_count # 0

(* hes_host.h:54-57: one job per engine at a time, so a post never         *)
(* overwrites a descriptor its cluster may still be reading.               *)
OneJobPerEngine == \A e \in Engines : Filling(e) => cpc[e] \notin Serving
==============================================================================
