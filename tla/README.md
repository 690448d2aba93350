# K9R5 in TLA+

Specifications, model checking and proofs of the parts of this repository whose
correctness depends on order, interleaving or failure: the bare-metal offload
runtime of the heterogeneous SoC and the programs and kernels that run on it,
the simulator's timing models, and the drivers around them. Paths below are
relative to `src/`.

## 1. The system and its parts

| Part | State it keeps | Operations | Interacts through |
|---|---|---|---|
| Host runtime, `runtime/mesh/hes_host.c` | `next_seq[]`, `in_flight[]`, `failure_count` | `hes_engine_init`, `hes_post`, `hes_wait`, `hes_offload`, `hes_check` | the mailbox in each cluster's TCDM, the cluster CLINT |
| Cluster runtime, `runtime/mesh/cluster_main.c`, `crt0_cluster.S` | `active_kernel`, `active_args`, `scratch_base`, `staged`, `served`; the mailbox | sign-in, job loop of the control core, slices of the compute cores, traps | mailbox, hardware barrier, DMA, main memory |
| TCDM planning, `cluster_main.c:82-226` | heap cursor | `plan_operands`, `plan_scratch`, `reserve_scratch`, `stage_in`, `stage_out` | the cluster's heap |
| Cluster DMA, `runtime/mesh/hes_dma.h` | copies under way | queue a copy, wait for all | main memory, TCDM |
| Kernels, `runtime/snitch/`, `runtime/spatz/`, `runtime/common/kernels/` | the stream registers of every core's two data movers, an MFCC's scratch | GEMM, convolution, MFCC, each on a slice | operands staged in TCDM or read in place |
| Host programs, `runtime/mesh/kws_main.c`, `mnist_main.c`, `host_main.c` | two feature buffers, agreement counters | software pipeline over both clusters, or one network after the other | the host runtime |
| Timing cache, `targets/hetero/timing_cache.cpp` | tags, LRU ages, dirty bits, port occupancy | access, flush, reset | GVSoC requests to the DRAM model |
| DRAM engine, `targets/hetero/dram_core.hpp`, `dram.cpp` | bank and bus state, write queue, refresh | access, drain, refresh | GVSoC requests |
| Simulation driver, `pipeline/run_hetero.py` | progress, last beacon, output pump | run, watch, kill | a child process and its output thread |
| Sweep driver, `pipeline/sweep/` | a mesh copy, `rates.json` and `result.json` per design, `sweep.jsonl` | prepare, calibrate, run a cell, write its row | child processes, files |
| Mapper, `pipeline/hetero_platform/mapper.py` | rate tables | cost of a node on an engine, choice of the engine | the code generator |
| GUI job queue, `gui/src/app.rs`, `jobs.rs`, `backend.rs` | job list, concurrency limit, sweep view (`ui/results.rs`) | enqueue, pump, cancel, handle events, select, analyse | one message loop, child processes, their files and output streams |

What makes it hard: host and clusters run concurrently on shared memory with no
locks, a doorbell interrupt that is only ever used to leave `wfi`, one hardware
barrier used for two purposes, waits that give up, cores that trap and park,
job numbers that wrap, and a mailbox re-read long after it was first copied.

What makes each part correct:
- *offload protocol*: one job per engine at a time; the cluster works on the job
  posted last and no mixture; an answer taken as good means the output buffer
  holds that job's result; no doorbell is lost; what goes wrong is counted once;
- *TCDM planning*: allocations lie inside the heap and do not overlap;
- *KWS*: the network always runs on the features of its own clip;
- *cache and DRAM*: no write is lost or made twice, every command keeps the
  spacings of the preset to every earlier one, though the code remembers the last only;
- *drivers and GUI*: every job reaches one final status; nothing stale is
  reported as fresh.

`PROJECT.json` lists every component with its status and, under `hazards`, the
places where this code can go wrong in ways a test would hardly reach.

## 2. Modules

| Module | What it is |
|---|---|
| `Offload` | What `hes_host.h` promises to a caller: at most one job per engine, answered once, `ok` exactly when the engine can run it, and then the right output. |
| `HesMesh` | The protocol as coded: host, control core, compute cores, barrier, traps, main memory. |
| `HesMeshOffload` | The refinement mapping from `HesMesh` to `Offload`. |
| `HesMeshProofs` | Proofs about `HesMesh`: what holds with any time-outs and traps; job numbers and descriptors while every failure is still to be counted; the counting; the results, with and without waits that give up; that `HesMesh` implements `Offload` when none does. |
| `HostPrograms` | The host programs, as calls into `HesMesh`: `EXTENDS` it and interleaves `main()` with both clusters. |
| `HostProofs` | Proofs about `HostPrograms`. |
| `TcdmPlan` | Where a job's operands and scratch go in the heap of a cluster, and the slices. |
| `Ssr` | The stream registers: a data mover, its set-up and one pop. |
| `Fft` | The transform of the MFCC kernel, modulo 17. |
| `ClusterJob` | One cluster running jobs at the level of the data: staging, DMA, kernels, copying out. Uses `TcdmPlan`, `Ssr` and `Fft`. |
| `ClusterProofs` | Proofs about the slices, about the streams and what the kernels of `ClusterJob` take from them, and about what lies in the heap while a job runs. |
| `KernelProofs` | Proofs, on top of those, about what an FREP reads and adds up: a block of the streamed GEMM is the product of the portable loops, a pixel of the streamed convolution their convolution; and about where every kernel stores. |
| `TimingCache`, `TimingProofs` | Two first-level caches and the L2 behind them, one step per request; proofs about them. |
| `Dram`, `DramProofs` | The LPDDR timing engine, one step per access, with a history of the commands; proofs about it. |
| `SimWatch` | One simulation and the loop of `run_hetero.py` that watches it. |
| `SweepCells` | Sweeps, what they leave on disk, and the simulations they watch (`EXTENDS SimWatch`). |
| `SweepProofs` | Proofs about `SweepCells`. |
| `GuiJobs`, `GuiProofs` | The front end's job queue and sweep view, with the processes and files; proofs about them. |
| `MCHesMesh`, `MCHostPrograms`, `MCClusterJob`, `MCTimingCache`, `MCDram`, `MCSweepCells`, `MCGuiJobs` | Instances for TLC. |

`HesMesh` and `ClusterJob` are two views of one cluster. `HesMesh` has every load
and store of the mailbox and takes a kernel to produce "its result" slice by
slice; `ClusterJob` has the mailbox's contents as a record and computes that
result, so that what `HesMesh` takes for granted (`Result`) is checked there.

In every module the operators next to a definition that differ from it in one
detail (`OneBuffer`, `FitsByStart`, `GemmStreamsRoundedUp`, `WorkOfOneBoard`, ...) are
plausible slips, used only to show that each property notices one; the
specifications do not reach them.

### HesMesh: correspondence with the code

Each load or store of the mailbox that another party can observe is one action;
private work is part of the action that follows it.

| Code | Action |
|---|---|
| `hes_engine_init` per engine, success or spin bound reached | `InitEngine` |
| `hes_post`: refused / accepted; args; kernel_id; nargs and flags; `seq = ++next_seq`; doorbell and `in_flight` | `PostRefused`, `PostAccepted`, `WriteArgs`, `WriteKernel`, `WriteFlags`, `WriteSeq`, `RingDoorbell` |
| `hes_wait`: entry, a poll that succeeds, copying the verdict, giving up | `Wait`, `PollDone`, `Collect`, `GiveUp` |
| `hes_check`, after a verdict or after giving up | `Check` |
| `cluster_main.c` sign-in | `BootClear`, `SignIn` |
| `while (seq == served) { wfi; clear }`, `served = seq` | `CheckSeq`, `Wake` / `SpuriousWake`, `ClearDoorbell`, `Latch` |
| copying the descriptor, scratch, staging, refusal | `ReadKernel`, `ReadArgs`, `ReserveScratch`, `StageIn`, `Verdict` |
| `hes_barrier()` (both of them), `run_slice` | `Barrier`, `RunSlice` |
| `stage_out`, `done_seq = served` | `StageOut`, `PublishDone` |
| `trap_vec` | `TrapCore`, `TrapCtrl` |

`hsync` tells a job posted by `hes_offload()` (the host waits at once) from one
posted by hand. `owed`, `posted`, `lost`, `timeouts` and `traps` are history:
what the program has yet to wait for, the last job published, what went wrong,
and what the bounds have spent. An operand's address is a member of `Buffers`;
buffer contents are, per core's slice, the kernel and arguments that produced it,
so that a wrong argument, a missing slice or a foreign write is visible.

The program calling the runtime is open: it posts, waits and offloads in any
order. Two things are assumed of it and written as guards: every post is matched
by a wait (as `hes_host.c:87` says; `owed` counts it) and jobs running side by side do not
write each other's buffers (`NoSharing`), which nothing in the runtime checks.

### HostPrograms: correspondence with the code

| Code | Action |
|---|---|
| `kws_main.c`: clip 0's front end, the next clip's, the copy into the network's input | `Prime`, `PostNext`, `Load` |
| `RunNetwork()`: one node offloaded | `RunNode` |
| the check against the reference features and the argmax | `Score` |
| `hes_wait(front end)`; the serial build's `hes_offload_mfcc()` | `CollectNext`, `FrontSerial` |
| `return agree == clips && hes_failures() == 0 && ...` | `Return` |
| the calls themselves and the clusters | the actions of `HesMesh`, unchanged |

`mnist_main.c` and `host_main.c` are the program `"network"`. `agree` and `drift`
are `main()`'s; `sound` and `good` are history: whether all that an inference read
was right. Wrong numbers may look right: `Score` may then count the clip or not.

### ClusterJob, TcdmPlan, Ssr, Fft: correspondence with the code

| Code | Operator or action |
|---|---|
| `slice`, `plan_operands`, `plan_scratch`, `reserve_scratch` (`cluster_main.c:82-226`) | `slice_first`, `slice_last`, `plan_operands`, `plan_scratch`, `reserve_scratch`, `Places`, `Fits` (`TcdmPlan`) |
| the staging `hes_post` forces on Spatz (`hes_host.c:100-103`); `stage_in`, refusal, `active_args` | `Flagged`, `Serve` |
| `hes_dma_1d`, `hes_dma_wait` (`hes_dma.h`) | `transfers`, `Transfer`, `Release`, `Publish` |
| `run_slice`'s dispatch into a kernel | `RunGemm`, `RunConv`, `RunMfcc` |
| `snitch_ssr.h` | `Loop`, `Repeat`, `Arm`, `Pop` (`Ssr`); a core whose FPU waits for an element that does not come | `Starved` |
| `gemm_fp32_ssr.c` | `GemmBlock`, `GemmTail`, `GemmGeneric` |
| `gemm_fp32_rvv.c` | `RvvBlock`, with the vector length the hardware grants |
| `conv2d_fp32_ssr.c` | `ConvPixel`, `ConvTail`, `ConvGeneric` |
| `mfcc_fp32_ssr.c`, `mfcc_fp32.c` | `MfccWindow`, `MfccSpectrum`, `MelFilter`, `DctBlock`, `DctTail` |

A float is the sum of products it stands for, kept in the order of accumulation,
so a wrong operand, one too many, one too few and another order are all visible:
a result must be the kernel's sum in the kernel's order (a GEMM may add C first
or last; the energy of a mel filter has the products of one accumulator after
those of the other, `Strided`). Rounding, and with it how four partial sums are put together,
is left out. A job is the program's to get right where the kernels say so: a frame is no
longer than its transform (`FramesFit`, `runtime/common/mfcc.h:53`). The FFT is exact modulo 17, where the roots of unity
of the small lengths exist. An iteration of the outer loop of a kernel is one
step; what FREP repeats is one operator (`Frep`). An instruction that reads a
stream with no element left waits for ever: the mover notes it (`starved`), and
the core (`Step`) and the barrier after it (`StageOut`) do not go on.

### Dram: correspondence with the code

| Code (`targets/hetero/dram_core.hpp`) | Operator |
|---|---|
| `access()`, `burst_write()` / bursts of a request | `Access`, `Granules`, `OneBurst` |
| `decode()`, `parse_mapping()` | `Decode`, `Field`, `Weight`, `Place` |
| `refresh()`: one refresh, the skipped idle ones | `RefreshOne`, `SkipIdle`, `RefreshTurn`, `Refresh` |
| `plan()`, `commit()`, `burst()` | `Plan`, `Commit`, `Settled`, `Burst` |
| `queued()`, `retire()`, `drain_idle()`, `issue_oldest()` | `Queued`, `Retire`, `DrainIdle`, `MakeRoom`, `Batch`, `IssueOldest`, with one turn of each loop in `RetireTurn`, `DrainTurn`, `RoomTurn`, `BatchTurn` |

Times are whole clocks of the preset, whose parameters are constants of the module. `chan[c].log` is a history of commands the
code does not keep: the properties are stated over it, against *every* earlier
command, while the code compares with the last one only. A loop of the code is
`Loop(Turn, s, turns)`, a recursive function that stops changing when the loop's
condition fails; `turns` bounds it (a queue's length, the refreshes due). The loop
of `burst()` (`for (;;)`, refresh and plan until no refresh falls before the
burst) is two turns, `Settled`: with refreshes seldom enough (`RefreshIsSeldom`) a
third would change nothing, which is lemma `SettledIs`.

Three more assumptions on the preset are stated: `Parameters` (what the
constructor and the types ask for), `LastIsEnough` (one rank, and no constraint
that reaches over two commands at the short distance) and `PlacesDiffer` (two
addresses asked for do not decode to one place). Every preset of
`dram_presets.py` has one rank and one channel and satisfies them; TLC evaluates
them for the preset of the runs.

### TimingCache: correspondence with the code

| Code (`targets/hetero/timing_cache.cpp`) | Operator |
|---|---|
| `lookup()`: hit, victim, install | `Holds`, `Touched`, `Victim`, `Installed`, `Evicted` |
| `probe()` | `Resident` |
| `access()`: the lines of a request, the loop over them, dirty bits, store buffer | `LinesOf`, `Walked`, `OneLine`, `Marked`, `Accessed`, `Buffered` |
| `req()` of a first level, `req_writeback()` of the L2 | `Request`, `ServedHere`, `L2Request`, `GoesDown` |

`stores`, `written` and `used` are history: how often a line was stored to, how
much of that memory has absorbed, and when each line was last used, counted by
`uses`.

### SweepCells and SimWatch: correspondence with the code

| Code | Action or operator |
|---|---|
| `main()` of `sweep/run.py`: `--out`, opening `sweep.jsonl` | `Start` |
| `run_cell()`: `validate()`, `prepare()`, the header, `calibrate()` up to its simulation and after | `Validate`, `Prepare`, `Copy`, `Header`, `Calibrate`, `Calibrated`, `WriteRates` |
| `run_hetero.py` `main()`: mapping, generating, building | `Generate`, `Build` |
| starting the simulator, its output, its end | `Launch`, `Say`, `Exit`, `Tick` |
| the loop of `simulate()`: a line, a limit that has passed, the end | `Watch`, with `Took`, `TimeIsUp`, `Left` |
| `report()` and the status | `Report`, `Reported`, `Status` |
| `run_cell()` again: `result.json`; the row | `Collect`, `WriteRow` |
| the process group killed (`gui/src/backend.rs`), a crash | `Kill` |

A file is absent, torn (begun, or left half written) or whole, with what it was
made from: the board it was measured on, the sweep and the program it came from.
That is what lets a property speak of a row that says what was not run.

### GuiJobs: correspondence with the code

| Code (`gui/src/`) | Action |
|---|---|
| `absorb()` of a run or a sweep, then `pump()` | `StartRun`, `StartSweep` |
| `Msg::Cancel`, `ClearFinished`, settings `Apply` | `Cancel`, `ClearFinished`, `Apply` |
| `results::Msg::Refresh`, `Select`, `Analyse`, `Analysed` | `Refresh`, `Select`, `AskReport`, `Analysed` |
| `on_job_event()` with `on_sweep_event()` and `finished()` | `Deliver` |
| `jobs::run()` | `Spawn`, `Exit` and the order of `events[id]` |
| the row loop of `pipeline/sweep/run.py` | `OpenRows`, `WriteRow`, `PrintRow`, `PrintDone` |

A handler is one step, as the application handles one message at a time. The job
list is kept by id, which is its order: jobs are appended and only ever taken out. What a
handler starts (a process, a report) is a step of its own later, so its answer
may meet an application that has moved on. `app` holds the fields of `struct App`
and of the sweep view; what the handler did, in order, is a chain of operators
on that record.

## 3. Runs

| Run | Question | What it shows |
|---|---|---|
| `mesh` | Is a job ever mixed with another, its result with its predecessor's, a loss counted twice? Is a doorbell lost, does every call return, is the protocol the `Offload` contract? | No; no, yes, yes, its fairness included: over every interleaving of the host's stores with one cluster of two compute cores, five kinds of job (two fitting, one refused for its operands, one for its scratch, one unstaged), posts up to two ahead of the waits, and job numbers that wrap at every second job. |
| `mesh_faults` | What survives waits that give up (also at sign-in) and a core that traps? | `done_seq` is never stale, a trapped cluster is silent, and wrong numbers come with a non-zero `failure_count`. |
| `mesh_one_job` | *violated:* one job per engine | after `hes_wait()` gives up, the next post rewrites the descriptor the cluster still works from |
| `programs` | Can a host program end well and be wrong? Are the front end's two buffers enough? Does it return? | No: exit status 0 means every clip was classified on its own features, with a wait that gives up and a trap anywhere; the buffer being read is never written; it returns unless a cluster trapped. |
| `kernels` | Is what the clusters write the kernel's definition, whatever ran before? | Yes, for every sequence of fifteen jobs on either cluster; every stream that is armed is consumed to its end, and no core waits for an element that does not come. |
| `cache` | Is replacement exact LRU, does memory absorb every store exactly when it must and nothing else, does a load wait for its refill? | Yes, for four requests of one or two lines from both first-level caches fighting for one L2 set. |
| `dram` | Which spacings of `Params` do the commands keep to every earlier one, does an idle write keep its promise, and does the write queue lose, repeat or reorder a write? | All that `TimingsKept` names, which is all but `tWTR_L` once a burst to another bank group came between; but for a refresh; and no, over every sequence of four accesses: same row, another bank group, another row; at once, after 25 clocks, and into a refresh. |
| `dram_turnaround` | *violated:* a read keeps `tWTR_L` to every write of its bank group | a burst to another bank group in between, and the read comes after `tWTR_S` |
| `sweeps` | Does a row say what was run, is a cell ever dropped, does a sweep end? | With a directory of its own, yes; none is; yes: for two sweeps, either after or beside each other, one of them killed anywhere, every step that may fail failing, and simulations that hang silent or printing; a sweep need not end if its calibration run does not. |
| `sweeps_again` | *violated:* the same of any directory | a cell that fails takes the result an earlier sweep left there, for another host |
| `gui` | Is the queue first come first served, never idle, and true to the processes? Does the sweep view settle on what is on disk? | Yes, for three jobs, two of them in two directories or in the same, a limit the user moves between one and two, and the user moving between the directories. |
| `gui_cancel` | *violated:* a cancelled job is signalled | a cancellation before the pid is known is never carried out |

### Bounds, and why they are enough

`HesMesh`: `SeqMod = 2` makes the number of a job equal to that of the one
before the last, the hardest case for a stale `done_seq`; with time-outs it is 4,
because a wait that gave up leaves one job more outstanding. `MaxOwed = 2` lets a
post find the engine busy. Two compute cores are enough for one to be ahead of
the other at a barrier; the theorems drop the bound. `MaxTimeouts = 2` allows one
at sign-in and one in a wait, or two in a row. `CountMod` is small so that
`failure_count` would wrap if more were lost than the bounds permit.

`HostPrograms`: three clips are the least that use a feature buffer again; the
network is two nodes on the one engine or the other, the second working in place
on what the first has left (`LastWriter`); one give-up and one trap may fall anywhere, sign-in included.

`ClusterJob`: unroll factors of two stand for eight and four, and vectors of three
elements for the register groups, so that extents of one to six have full blocks, tails, rows left over
for a core, and cores without any; one mel filter has two full blocks and a tail. The heap (284 bytes) fits all jobs but one.
`Word = 2048` lets sums wrap. The jobs come in any order, because what a mover
was last set to is the hazard.

`Dram`: a row conflict needs two accesses to a bank, recovery after a write
three, a batch of the write queue (scaled from 32 to 4 entries, high water 3, low
2) four. The third gap lies just under `tREFI`, so refreshes fall before,
between and after the commands of a burst. `SkippingChangesNothing` compares
from every reachable state the code's division with one refresh at a time.

`TimingCache`: sets of two ways and three lines that share a set are the least
that evict; requests of two lines straddle a resident and a missing one.

`SweepCells`: two sweeps, the second into the first's directory or another, for
either board; with `Stall = 1` and `Limit = 0` a beacon can save a run from the
one limit and not from the other; a queue of one line is enough to drop a result.
The theorems drop all of these bounds.

`GuiJobs`: with three jobs and a limit of one two of them wait, so their order
matters, and with a limit of two the third waits while the limit is lowered below what runs.
The first two may be sweeps (`MaxSweeps`), which is enough for two to run into one
directory and for a second to find the rows of a first; the directories are
otherwise alike, and TLC takes them as symmetric. One cell per sweep is enough for
the row to be on disk and not in the stream, and the other way round.

`CHECK_DEADLOCK FALSE`: in `mesh_faults`, once the bounded time-outs are spent, a
host that polls a trapped cluster has no step left, which in the code is the next
time-out. In `programs` `main()` returns, in `sweeps` and `sweeps_again` the
sweeps are done or killed, and in `dram`, `dram_turnaround` and `cache` the masters stop
after `MaxAccesses` or `MaxRequests`. Everywhere else deadlock is checked; in
`kernels` that is how a copy that is never made would show, and next to
`StreamsAreSpent` a core that waits for a stream for ever.

### Fairness

`HesMesh`: weak fairness on every step the host has begun and on each core's
program, because they are clocked processors that share no scheduler. None on
posting or waiting (the program may do what it likes), on spurious wake-ups, on
traps or on giving up. A barrier is one step once all have arrived, as the
hardware unit makes it. `HostPrograms` adds weak fairness on `main()`.
`SweepCells`: weak fairness on the script of a sweep and on its clock. Nothing is
asked of the simulator, which may hang or print for ever. Compilers are taken to
end. The simulation of a calibration is not (`Calibrated` is outside of every
fairness), because the code puts no limit on it: `SweepEnds` is about sweeps that are
not in a calibration for ever. `GuiJobs`, `Dram`, `TimingCache` and `ClusterJob` state none.

### Findings

- `mesh_one_job`: `hes_wait()` clears `in_flight` before it polls and leaves it
  clear when it gives up. `hes_host.h:54-57` promises that a second post is
  refused. `mesh_faults` shows the damage is bounded: it is always counted.
- `dram_turnaround`: `plan()` compares with the last column command only
  (`dram_core.hpp:509`), so a read comes `tWTR_S` and not `tWTR_L` after a write of its bank
  group when a write to another group lies between. The head of the file says that
  every burst keeps to the constraints in `Params` (`dram_core.hpp:12-13`).
- `gui_cancel`: `Cancel` uses the pid as it is now; nothing remembers to signal
  when it arrives. The job runs to its end and is then called cancelled.
- `sweeps_again`: `run_cell()` asks whether there is a `result.json`, not whether
  `run_hetero.py` has just written it, and `calibrate()` takes a `rates.json` that
  is there whatever board it was measured on. `sweeps` shows that directories used
  once are not affected; the help of `run.py --dram` asks for separate ones.

Seen while modelling, and not the subject of a run:
- a cluster that comes late writes its output back through `mbox->args` of the
  *new* job (`cluster_main.c:219`), as those are read again;
- a job refused for scratch after its operands were staged still runs
  `stage_out()`, which copies the TCDM buffer of an output nobody computed; the
  host sees the refusal;
- `trap_cause` is never cleared after boot;
- the heap checks `cursor + bytes > limit` are 32-bit sums that can wrap;
- `hes_engine_init()` gives up on a slow cluster and goes on, with whatever
  `done_seq` holds, though `hes_mailbox.h:33` says the host waits;
- `hes_offload()` of a busy engine returns at once and takes nothing, so it is
  not quite "`hes_post()` followed by `hes_wait()`" (`hes_host.h:37`);
- the KWS check `d > maxdiff` lets a NaN pass;
- `mfcc_fp32_ssr.c:28` speaks of "the same numbers to the last bit" as the
  portable kernel, but its mel energies are four partial sums (133-136);
- the convolution of `runtime/tests/ssr_kernels.c` has three filters, fewer than
  the four of a streamed block, so that test takes the generic path only;
- with several ranks the DRAM engine keeps `tRRD` to the last ACTIVATE only;
- `drain_idle()` decides on a plan, and the refresh that `burst()` puts in front of
  it is not part of the plan: the write then issues after the request it was to
  precede (`dram_core.hpp:416-418`), by hundreds of clocks. `IdleWritesIssueBefore` says
  that nothing else delays it, and no longer than the refresh and its row take;
- a request of the L2 that misses in one of its two lines reads both from memory;
- the sweep view goes on saying "analysing" when the report that returns is of a
  directory it has left (`results.rs:209, 320, 384`);
- it shows old rows with the new ones while a sweep runs again in the same
  directory, and a row twice when refreshed between its two ways; both end with
  the sweep (`SettledRowsAreOnDisk`); of two reports of one directory, the one
  that returns last is shown;
- a sweep killed while it copies `runtime/mesh`, or while it writes `rates.json`,
  leaves a directory in which that design fails for ever: the copy and the table
  are taken as they are;
- `--images` is not part of the name of `run_hetero.py`'s work directory (489-496),
  so two sweeps that differ in it share the directory;
- `run_hetero.py` reports an application's own verdict even if the run was given
  up as stalled;
- `calibrate()` runs a simulation without any limit (`run.py:325`): if it hangs, so
  does the sweep;
- `run.py:15` says every cell has its own copy of `runtime/mesh`; it is per design.

## 4. Proofs

Checked by TLAPS, for every value of the constants that the named assumptions
allow. In the tables a property in the second column is one that a run checks on
a small instance.

### The offload protocol (`HesMeshProofs`)

For every number of engines and cores, every set of jobs, and every modulus of
the counters, under `ConstantsAssumption` of `HesMesh`; traps are allowed
throughout. "Patient" adds `MaxTimeouts = 0`, that no wait runs out. "Late" adds
`LateSignInSafe`: waits may run out anywhere, at sign-in too, but then the word
`seq` and `done_seq` hold before the cluster boots is not the one just before 0 (in
the simulator the TCDM starts at zero).

| Theorem | Says | Assumes |
|---|---|---|
| `TypeCorrect` | `TypeOK` | |
| `BarriersNeverMix` | `BarrierAligned` | |
| `TrappedClusterIsSilent` | `TrapIsNeverDone` | |
| `DoneIsFresh` | `NoStaleDone` | patient |
| `PostFindsClusterAtRest` | `DescriptorStable` | patient |
| `PostedJobIsServed` | `ServesPostedJob` | patient |
| `OnlyOwnOutputWritten` | `WritesOnlyOwnOutput` | patient |
| `GoodAnswersAreGood` | `ResultDelivered` | patient |
| `GoodResultsStay` | `TrustedIntact` | patient |
| `LossesAreAlwaysCounted` | `EveryLossCounted` | late |
| `WrongNumbersAreNeverSilent` | `WrongNumbersAreCounted`, in every behaviour in which `failure_count` has not wrapped around | late |
| `MailboxIsSoundUntilCounted` | while `failure_count` is 0 and has never wrapped: `NoStaleDone`, `ServesPostedJob` and `ResultDelivered`, whatever has timed out so far | late |
| `MailboxIsAnOffload` | the initial states of `HesMesh` map to initial states of `Offload`, and every step to a step of it or to a stutter: `OffloadContract` without its fairness | patient |

The argument. `BarrierAligned` is inductive with types: one barrier releases all,
so a compute core is at the first call exactly when the control core is not at
the second. A trapped core never arrives again (`TrapParks`), so no barrier opens
after it and `done_seq` is never stored; that is `TrapIsNeverDone`.
What the host may rely on is one inductive invariant, `Orderly`, in three parts.
`BootInv`: what boot and `hes_engine_init()` leave. `NumberInv`: `served`, `seq`,
`done_seq` and `next_seq` are equal or one apart, as the program points of host
and control core say; this is what makes `done_seq = next_seq` mean the job last
posted, whatever the modulus. `DescriptorInv`: from the store of the job number
to the answer, mailbox and control core hold that job's kernel and arguments.
None is inductive alone: that the descriptor is at rest while it is written needs
the numbers, and the numbers need that only one job is outstanding.

The results need three more parts. `SharingInv` carries the promise the program
made when it posted (`NoSharing`) from that moment to the end of the job, whether
its number is out yet or not. `AnswerInv` follows the job an engine holds from
the checks to the answer: scratch and staging are found out for this job, `error`
is then set exactly when the engine cannot run it, every core past its slice
has left its share where `stage_out()` or the caller looks for it, and after the
copy-out the output is whole. Lemma `OnlyHeldWrite` keeps other engines out of it:
a cluster writes main memory only in the job it is held for, and only its output.
`TrustInv` adds that no buffer a posted job writes is still trusted. The refinement
reads the caller's view off these (`Bars`): an engine is idle, pending or answered,
`WriteSeq` is `Post`, `PublishDone` is `Answer`, `Collect` is `Collect`, and every
other step is invisible. That a trapped cluster's answer never shows as good is
`TrapParks` again. Each invariant was first checked by TLC.

With waits that run out `Orderly` holds on until the host leaves the call in which
it gave up (`OrderlyStep`), and in leaving it has counted a failure: hence
"`failure_count = 0 => Results`" is inductive (`SoundUntilCounted`) as long as the
counter does not come back to 0, which is the hypothesis of the two theorems. An
engine that signs in late is the hard part: the cluster clears a mailbox the host
has already posted to, and the job is forgotten (`LateHeld`, `LateFree`). The host
then waits for a number that will not come, unless that number is 0: a boot word
of 2^32 - 1 would make `hes_post()` wait for 0 and take the clearing for an answer.
That is what `LateSignInSafe` excludes, and why it is needed.

`EveryLossCounted` compares a counter with what all engines together have lost.
The losses still to be counted are taken as a set (`Losses`), one element for each
call the program owes and will find lost; a loss adds an element, a count removes
one, so `lost` and `failure_count` differ by its size, modulo 2^32 (`Balanced`). When
nothing is owed the set is empty, and two counts below the modulus that differ by
a multiple of it are equal.

### Host programs (`HostProofs`)

For every number of clips, buffers of either size, every network and every
placement of its nodes (`ProgramsAssumption`, `FeaturesApart`), with time-outs and
traps. `CallsAreCountable`: a program makes fewer calls than `failure_count` can
count. The last two add `LateSignInSafe`.

| Theorem | Says |
|---|---|
| `ProgramsUseTheMailbox` | every behaviour of a host program is one of `HesMesh`: it waits for what it posts and shares no buffer |
| `ExitZeroIsAlwaysTrue` | `ExitZeroIsTrue` |
| `FeaturesAreHeld` | `FeaturesHeld` |

The argument. As the program makes fewer calls than the counter can count, the
failures counted and those still to come never exceed the calls begun, so the
counter never wraps and `SoundUntilCounted` holds in every program. `ClipInv` then
follows `main()` while nothing has failed: which buffer the front end writes, which
the network reads, what each node leaves for the next, and so what `Score` reads.
A failure anywhere ends the exit status 0 that `ExitZeroIsTrue` speaks of.

### Slices, scratch and streams (`ClusterProofs`, `KernelProofs`)

| Theorem | Says |
|---|---|
| `SlicesFollow`, `SlicesDoNotMeet`, `SlicesCover` | `slice()` cuts any extent over any number of cores into shares that follow each other, do not meet and leave nothing out |
| `SlabsDoNotMeet` | the scratch slabs of two cores do not overlap |
| `StreamWalksTheNest` | a data mover set up by `ssr_loop_*` yields, pop by pop, the addresses of the loop nest it was asked for: base plus every level's index times its stride, modulo the word, every index below its count, for any counts, strides and earlier use |
| `StreamsTheorem` | `StreamsAreSpent`: every kernel takes exactly the elements it has programmed: none is left over and no core waits for one |
| `NoBlockStarvesTheorem` | a block of a streamed product finds in both streams what its FREP takes |
| `PlanTheorem` | `PlanIsSound`: the operands and slabs of a running job do not meet and are in the heap, and there is a slab for every core |
| `BlockTheorem` (`KernelProofs`) | `BlockIsProduct`: a block of `gemm_ssr` stores at each of its columns what the loops of the portable kernel add up over the row of A and that column of B, in the same order, starting from C or from zero |
| `PixelTheorem` (`KernelProofs`) | `PixelIsConvolution`: a pixel of `conv2d_ssr` stores in the plane of each of its filters what the portable loops add up over its window and that filter, tap by tap, and the bias |
| `CoresTheorem` (`KernelProofs`) | `CoresApart`: no two cores of a job have a float of its output or of a slab in common; if the job is staged, neither does a share meet a slab, nor either of them an operand that is only read |
| `StoresTheorem` (`KernelProofs`) | `StoresStayHome`: a core's step changes no float but those of its share of the output and its slab, in every kernel, portable ones included |
| `UndisturbedTheorem` (`KernelProofs`) | `NothingIsDisturbed`: while a staged job runs its inputs do not change, and a core's share and slab change by its own steps only |

`slice()` is taken over the naturals. The addresses of the streams need no
assumption: a wrap delta is a difference modulo the word, and the proof shows
that adding it to the address is stepping the outer loop. Its invariant says that
the pointer is the base plus what the loop counters have travelled, level by
level.

That streams end when their kernels do is a count. `Left(d)` is the number of
elements a mover has still to deliver, a mixed-radix number of its loop counters
and the repeat; `PopTakesOne` shows that one read takes one from it, `ArmIs` that
writing the pointer makes it the product of the programmed bounds and the repeat,
`FrepTakes` (by induction over the instructions) that an FREP of `n` replays over
`u` accumulators takes `n * u`. The invariant (`StreamInv`, checked by TLC before
it was proved) says of a core what its streams have left: nothing between calls
and in every kernel but `gemm_ssr`, whose streams run on from row to row and hold
`N * UNROLL` elements for every block of the rows to come (`GemmLeft`). For a
convolution it also says which bounds the prologue has programmed, because every
pixel only writes the pointers again; and of the second mover that its repeat
register is 1, because `gemm_ssr` and `conv2d_ssr` never write it. `StreamsAreSpent`
is not inductive without these. The theorems assume what the headers and
descriptors fix (`MachineAssumption`, `JobsAssumption`): unroll factors are not 0,
extents are 32-bit numbers, the taps of a filter do not wrap, and an MFCC job has
a mel filter (the DCT's stream of none would have 2^32 elements).

`PlanTheorem` follows the places `stage_in()` gives, operand by operand
(`PlacesInOrder`, by induction): each begins on the line after the end of the one
before, which is in the heap because `Fits` asked; no two operands of a job are
the same argument (`ArgumentsDiffer`), so the pointers the kernel gets are those
places; and the slabs lie below the first of them (`SlabsPlaced`). Its invariant
`PlanInv` only says that what `Serve` decided stays until the next job. It assumes
`NothingWraps`: `stage_in()` and `reserve_scratch()` compare 32-bit sums with the
end of the heap, and an operand or a slab so large that the sum wraps would pass.
The heap is small and lies low, so a size that wraps is close to 2^32 bytes.

`BlockTheorem` says what the streams of a product deliver and not only how much.
Its invariant has two parts. `ArgsInv`: the pointers a kernel works with are
numbers (a place in the heap, or the host's address, which `MainAssumption` says
is one). `WalkInv`: while a core runs `gemm_ssr`, each of its movers is the loop
nest of the prologue (`GemmWalks`) somewhere on its way, or spent. How far it is on
its way `StreamInv` says, which has how many elements are left for the blocks still
to come. That count is the key: `Left(d)` is a number whose digits are the
repeat and the loop counters, and a number has one set of digits (`FourDigits`),
so what is left fixes where the mover stands and, through the addresses
`StreamWalksTheNest` gives, which element the next read delivers: for A
(`StandsInA`) the same one for every column of the block, for B (`StandsInB`) the
next column. `FrepSums` follows an FREP turn by turn to what is then in its
accumulators, and `ElementsApart` shows that the block's stores do not meet.

`PixelTheorem` is the same for `conv2d_ssr`, where the streams restart instead of
running on. Its part of `WalkInv` (`ConvWalks`) is that the movers hold the nests of
the prologue between pixels: programming them again would change nothing
(`Programmed`), because a mover's bounds and strides survive being read to the end
(`StridesStay`). So the pointers a pixel writes are all it needs (`WalksAgain`).
Tap `n` of a filter is a number of three digits, its channel, row and column
(`TapDigits`), and what is left of the window's stream when it comes to it are the
digits `StandsInA` reads (`TapsLeft`); the filters' stream has the filter as its inner
loop (`StandsInFilters`). `PlanesApart` keeps the stores of the filters apart. It
assumes `FiltersFit`: a filter is no larger than the padded input and the strides
are not 0, so that `(H - P) / SP + 1` in `cluster_main.c` does not wrap.

Both theorems are about each block or pixel at the moment it runs, over the memory
it finds. The last three say that in a staged job this is the memory it was given.
`Own(c)` is the core's `Share` of the output, which `slice()` gives it (all of a
transposed `gemm` goes to core 0), and its `Slab` of scratch. That these are apart
(`CoresLaidApart`) is the slices not meeting, times the floats of an item, and
`LaidOut`, the layout `PlanTheorem` rests on. That a core stays in them is not
inductive: what a call stores at depends on counters that were set several steps
before. `HomeInv` keeps, call by call, where they are: the call's output is the
first item of the core's share, its extent the number of items, its counters
below the extents, and at the beginning of a block a multiple of the unroll
factor, as otherwise the last full block would reach past the share. For `mfcc` it
also keeps the frame and the slab the call was given. `UndisturbedTheorem` follows, as
no copy of the DMA is under way while kernels run (`RunsAlone`). These theorems
assume two things more of the descriptors: the output and a core's scratch are
buffers of a 32-bit address space and an MFCC job has cepstra to compute
(`BuffersFit`); a block of `gemm_rvv` has rows and a vector group elements
(`VectorAssumption`). If a job is not staged its operands are wherever the host has
put them, and only `StoresStayHome` and the first part of `CoresApart` are said of it.

What the theorems do not say is that the floats stored are those of a whole job:
that every item is computed once, and that an input copied in is the host's, is
`ResultIsReference`, which TLC checks.

### Sweeps (`SweepProofs`)

For every number of sweeps, whatever each is asked for, any number of kills and
any limits (`AskedAssumption`, `WatchAssumption`).

| Theorem | Says |
|---|---|
| `OwnRowsAreTrue` | `OwnDirectoriesTellTheTruth` |
| `EveryCellHasItsRow` | `NoCellIsDropped` |

The argument. Sweeps that go on have different directories (`Apart`), because
`Start` refuses one in use, so a step of one leaves the files of the others alone;
lemma `StepElsewhere` shows that once for all steps, and `StepKeeps` reduces each
action to what it does to its own sweep. `NoCellIsDropped` then follows from
`RowsInv`. For the truth of the rows a directory that was never used must hold
nothing (`Unused`), so that what a sweep finds in a fresh one is its own
(`OwnInv`); the work directory is shared, but its name contains the board, so
every whole program in it was built for that board with rates measured there
(`OwnWork`). A result says "ok" only if the loop took a good verdict, the loop
takes only what was printed (`Heard`), and only a program that is whole prints
(`SimInv`). `OwnInv` is not inductive without `OwnWork`, nor `OwnWork` without it.

### Timing caches (`TimingProofs`)

For every geometry, latency and sequence of requests. `CachesAssumption`: sets, ways
and line sizes are positive and a request covers at most as many lines as the L2
has sets, so that its lines fall into different sets.

| Theorem | Says |
|---|---|
| `LruIsAlwaysExact` | `LruIsExact` |
| `StoresAlwaysReachMemory` | `StoresReachMemory` |
| `LoadsAlwaysWait` | `LoadsWaitForRefills` |
| `OnlyStoresAreEverWritten` | `OnlyStoresAreWritten` |
| `HitsAlwaysStayAbove` | `HitsStayAbove`: a read that hits is seen by no level below (no run checks it) |

The argument. `access()` is a loop over the lines of a request; `WalkIs` unfolds it by
induction on the number of lines, and each turn is a `Hit`, a `Skip` or a `Fill`
(`Moves`). Lemmas carry each of these over one turn and so over the loop: `Sound` (a
line is in one way of its own set, with an age of its own), `Order` (the ways are
in the order of last use, and what was used and is gone was used before all of
them), `InTime` (no line of the request arrives after the answer), `Accounted` (what was dirty
is dirty still or a victim, and nothing else is), `Together` (no line of a request
is a victim of it) and `Calm` (a request that hits evicts nothing). In `TimingInv` the part that had to be found is
`DirtyIsUnwritten`: a line is dirty in the L2 exactly while memory has not absorbed
all its stores. If two lines of one request fell into one set, the second could
evict the first before it is marked; that is where the assumption is used.

### The DRAM engine (`DramProofs`)

For every preset (timings, geometry, mapping, watermarks), any masters and any
number of accesses, under `Parameters`, `RefreshIsSeldom`, `LastIsEnough` and
`PlacesDiffer`.

| Theorem | Says | Assumes |
|---|---|---|
| `TimingsTheorem` | `TimingsKept`: every spacing of the preset to every earlier command, but `tWTR_L` only where no other bank group had a column command in between | |
| `RowTheorem` | `RowIsOpen` | |
| `WritesTheorem` | `WritesAccountedFor` | |
| `ReadsTheorem` | `ReadsSeeWrites` | |
| `SkippingTheorem` | `SkippingChangesNothing` | |
| `SlotsTheorem` | `SlotsSuffice` | one channel |

The argument. The code compares a new command with the few times a channel
remembers; the properties speak of every earlier command of that channel.
`InductiveInvariant` (`IInv`) says that those times stand for the whole history. `Behind`: every
command given lies behind what the remembered times make the next one wait for.
`OpenRows`: an open row was opened by an ACTIVATE that nothing has closed since.
`FawHolds`: the queue of four bounds how many ACTIVATEs there were in any `tFAW`.
`TurnsHold`: after a write, and as long as no other bank group has a column command, the
last command remembered is of its group, so `tWTR_L` is kept to it or has passed.
`InReach`: nothing a channel still has to wait for reaches far into the next
refresh interval. This last is what makes two settle turns enough, and it has to
be part of the invariant, as `RowIsOpen` would fail if a refresh could slip between the
ACTIVATE and the column command. Lemmas carry these parts through a refresh, a
precharge, an ACTIVATE and a column command, and so through `burst()`; `LastIsEnough`
is used where the last command stands for the one before it.

The queue is on top of that: its loops only make bursts, so they keep the
channels' invariant (`Iterates` shows that a loop has a run of its turns). `Tally` counts:
writes asked for are sent, waiting or merged. `Distinct`: no burst waits twice,
which needs `PlacesDiffer`, because the code merges by address and a read looks up
by address, while the history has places. `Room`: the writes that wait and those
whose data is still leaving are at most `wq_depth`. With one channel data ends in
the order in which `leaving` gives slots back; with several channels, which no preset
has, it need not, and that case is left open. A refresh skipped in one go is compared with one refresh at a
time by a least-counterexample induction on the number of refreshes.

### The GUI's queue and sweep view (`GuiProofs`)

For every number of jobs and directories and every limit (`GuiJobsAssumption`).

| Theorem | Says |
|---|---|
| `StatusIsAlwaysTrue` | `StatusIsTrue` |
| `NoSlotIsIdle` | `NoIdleSlot` |
| `AlwaysStartsInOrder` | `StartsInOrder` |
| `LiveIsAlwaysReal` | `LiveIsReal` |
| `SettledRowsAreAlwaysOnDisk` | `SettledRowsAreOnDisk` |
| `ReportIsAlwaysOfCurrent` | `ReportIsOfCurrent` |

The argument. `GuiInductive` is the invariant `IInv`, which relates what the
application believes of a job to its process and to the events on their way: an
event is always of a running job, an end is the last of its events, and a sweep
that only waits has not touched what is shown, so that the view's rows (`RowsOK`)
speak of running jobs only. `pump()` starts waiting jobs one by one up to the limit;
lemmas about it (the lowest id first, the count of running jobs after it) are what
`NoSlotIsIdle` and `AlwaysStartsInOrder` rest on.

### Only model-checked

Liveness (`EveryJobIsFinished`, `EveryCallReturns`, `MainReturns`, `SweepEnds`)
and the fairness of the `Offload` refinement are out of the prover's reach.

What a loop computes for every input is proved by induction, but not with the
induction theorems of the library, which take the property as a parameter: where
a proof needs induction it takes the least counterexample of a set of naturals
(`Smallest` and `Induction` in `TimingProofs`, `Largest` in `GuiProofs`), and the
loop is a recursive function there. `ResultIsReference`
of `ClusterJob`, and `Fft`, are checked by TLC alone.

## 5. Not modelled, and why

- Rounding: a kernel's result is the right sum of the right products, not the
  right bits. Energy, cycle counts, heartbeats, logs, labels and layout.
- `hes_dma_2d` (no caller), HyperRAM (a fixed latency), the statistics of the DRAM
  engine, the write-through L2 of the fixed-latency memory (in the module, no run
  uses it), asynchronous next levels of the cache.
- The start-up code below `main()` (`crt0*.S`) except the trap handler: sign-in is
  two steps of `HesMesh`. Semihosting and the single-core benchmark programs keep
  no state between calls.
- The mapper (a minimum over measured costs), the code generator and the
  declarative SoC description: pure functions and text.
- Probe, calibration and test programs, and the cross-checks of the DRAM engine:
  they measure the parts modelled here.
- The generated weights and vectors (`ops/*/*_data.h`), which are data.
- The front end's Docker jobs, logs, progress, op list, comparison view and
  rendering; a change of the workspace while jobs run (`app.rs:299`), where
  `finished()` reads the directory of the settings now.
- The expansion of a sweep's grid and its slugs, the build key, the area model.
