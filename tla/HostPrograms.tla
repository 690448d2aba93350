------------------------------ MODULE HostPrograms ------------------------------
(***************************************************************************)
(* The host programs of runtime/mesh on top of the job mailbox: kws_main.c *)
(* (an MFCC front end on one cluster, overlapped with the classifier on    *)
(* the other, or serial), mnist_main.c and host_main.c (a network alone).  *)
(* Their calls are those of HesMesh; this module says which calls, in what *)
(* order, over which buffers, and what main() returns.                     *)
(*                                                                         *)
(* Numbers are abstracted to "what a correct run leaves there": a clip's   *)
(* features and a node's output are right, or they are not, and what is    *)
(* not right may still look right to the checks of main().                 *)
(***************************************************************************)
EXTENDS HesMesh, Sequences

CONSTANTS
  Programs,     \* the mains run: "kws", "kws_serial", "network"
  FrontEnds,    \* the engines KWS_FRONTEND_ENGINE may name
  Clips,        \* RUN_CLIPS or RUN_IMAGES; 1 for host_main.c
  NodeEngines,  \* the engine of each node of RunNetwork() that is offloaded
  Mfcc,         \* Mfcc[n][b]: the MFCC job from the audio of clip n to features[b]
  Node          \* Node[n][k]: the job of the k-th node in the inference of clip n

ClipNumbers == 0..(Clips - 1)

ASSUME ProgramsAssumption ==
  /\ Programs \subseteq {"kws", "kws_serial", "network"}
  /\ Clips \in Nat \ {0}
  /\ FrontEnds \subseteq Engines /\ NodeEngines \in Seq(Engines)
  /\ Mfcc \in [ClipNumbers -> [0..1 -> Jobs]]
  /\ Node \in [ClipNumbers -> [DOMAIN NodeEngines -> Jobs]]

(* The two halves of features[] are buffers of their own, and so are those *)
(* of the network.                                                         *)
ASSUME FeaturesApart ==
  \A m, m2 \in ClipNumbers :
    /\ Writes(Mfcc[m][0]) # Writes(Mfcc[m2][1])
    /\ \A b \in 0..1, k \in DOMAIN NodeEngines : Writes(Mfcc[m][b]) # Writes(Node[m2][k])

(* A run makes fewer calls than failure_count can count. *)
ASSUME CallsAreCountable == Clips * (Len(NodeEngines) + 1) < CountMod

VARIABLES
  prog, fe,     \* build-time choices: which main, KWS_FRONTEND_ENGINE
  mpc, n, node, \* where main() is: the clip, the node of the network
  sound,        \* history: what this inference has read so far was right
  agree, drift, \* main()'s: clips that agree with the reference; maxdiff > 1e-3
  good,         \* history: the clips classified on their own features
  status        \* what main() returned, or "none"

progVars == <<prog, fe, mpc, n, node, sound, agree, drift, good, status>>
allVars  == <<vars, progVars>>

ProgramInit ==
  /\ Init
  /\ prog \in Programs /\ fe \in FrontEnds
  /\ mpc = IF prog = "network" THEN "top" ELSE "prime"
  /\ n = 0 /\ node = 1 /\ sound = TRUE
  /\ agree = 0 /\ drift = FALSE /\ good = {} /\ status = "none"

(* Slips. *)
OneBuffer(m) == 0
StatusWithoutFailures == IF agree = Clips /\ ~drift THEN "ok" ELSE "failed"

------------------------------------------------------------------------------
(* hes_offload_*(): post and wait; hes_post_mfcc(): post alone.            *)
Call(e, j, sync) == PostAccepted(e, j, sync) \/ PostRefused(e, sync)

(* job.out = features[n & 1]: double-buffered.                             *)
BufferOf(m) == m % 2
Front(m) == Mfcc[m][BufferOf(m)]
FeaturesRight(m) == mem[Writes(Front(m))] = Result(Front(m))

(* Of the first k nodes, those whose output no later one of them is put    *)
(* over: the code generator hands a buffer on when it is no longer read.   *)
LastWriter(m, i, k) == \A l \in (i + 1)..k : Writes(Node[m][l]) # Writes(Node[m][i])
NodesRight(m, k) ==
  \A i \in 1..k : LastWriter(m, i, k) => mem[Writes(Node[m][i])] = Result(Node[m][i])

More == n + 1 < Clips
Ahead == prog = "kws" /\ More

(* Clip 0's features have to exist before its classifier can run.          *)
Prime ==
  /\ mpc = "prime" /\ mpc' = "top"
  /\ Call(fe, Front(0), TRUE)
  /\ UNCHANGED <<prog, fe, n, node, sound, agree, drift, good, status>>

(* Start the next clip's front end before this clip's classifier.          *)
PostNext ==
  /\ mpc = "top" /\ Ahead /\ mpc' = "load"
  /\ Call(fe, Front(n + 1), FALSE)
  /\ UNCHANGED <<prog, fe, n, node, sound, agree, drift, good, status>>

(* memcpy() of the features, or of an image, to the network's input.       *)
Load ==
  /\ hpc = "idle" /\ (mpc = "load" \/ (mpc = "top" /\ ~Ahead))
  /\ mpc' = "network" /\ node' = 1
  /\ sound' = (prog = "network" \/ FeaturesRight(n))
  /\ UNCHANGED <<vars, prog, fe, n, agree, drift, good, status>>

(* RunNetwork(): the nodes in order, each offloaded to its engine; what a  *)
(* node reads is the input and what the nodes before it left.              *)
RunNode ==
  /\ mpc = "network" /\ node <= Len(NodeEngines)
  /\ Call(NodeEngines[node], Node[n][node], TRUE)
  /\ node' = node + 1 /\ sound' = (sound /\ NodesRight(n, node - 1))
  /\ UNCHANGED <<prog, fe, mpc, n, agree, drift, good, status>>

(* The features against the numpy reference, then argmax against what      *)
(* onnxruntime says.  Wrong numbers may pass either.                       *)
AfterScore ==
  CASE ~More -> "exit"
    [] More /\ prog = "kws" -> "wait"
    [] More /\ prog = "kws_serial" -> "front"
    [] More /\ prog = "network" -> "top"

Score ==
  LET right == sound /\ NodesRight(n, Len(NodeEngines)) IN
  /\ hpc = "idle" /\ mpc = "network" /\ node > Len(NodeEngines)
  /\ mpc' = AfterScore
  /\ n' = IF prog = "network" /\ More THEN n + 1 ELSE n
  /\ agree' \in IF right THEN {agree + 1} ELSE {agree, agree + 1}
  /\ drift' \in IF prog = "network" \/ FeaturesRight(n) THEN {drift} ELSE {drift, TRUE}
  /\ good' = IF right THEN good \cup {n} ELSE good
  /\ UNCHANGED <<vars, prog, fe, node, sound, status>>

(* Whatever is left of the front end after the classifier finished.        *)
CollectNext ==
  /\ mpc = "wait" /\ mpc' = "top" /\ n' = n + 1
  /\ Wait(fe)
  /\ UNCHANGED <<prog, fe, node, sound, agree, drift, good, status>>

FrontSerial ==
  /\ mpc = "front" /\ mpc' = "top" /\ n' = n + 1
  /\ Call(fe, Front(n + 1), TRUE)
  /\ UNCHANGED <<prog, fe, node, sound, agree, drift, good, status>>

MainStatus == IF agree = Clips /\ failure_count = 0 /\ ~drift THEN "ok" ELSE "failed"

Return ==
  /\ hpc = "idle" /\ mpc = "exit" /\ mpc' = "done"
  /\ status' = MainStatus
  /\ UNCHANGED <<vars, prog, fe, n, node, sound, agree, drift, good>>

Main == Prime \/ PostNext \/ Load \/ RunNode \/ Score \/ CollectNext \/ FrontSerial \/ Return

(* The calls once made, and the clusters, do what they do in HesMesh.      *)
Underneath ==
  \/ HostStep \/ GiveUp
  \/ \E e \in Engines : InitEngine(e) \/ ClusterNext(e)

ProgramNext == Main \/ (Underneath /\ UNCHANGED progVars)
ProgramSpec == ProgramInit /\ [][ProgramNext]_allVars

(* Every core is clocked.  No wait has to run out.                         *)
Returns == HostStep \/ \E e \in Engines : InitEngine(e)
ClusterFairness(e) ==
  /\ WF_allVars(CtrlStep(e) /\ UNCHANGED progVars)
  /\ WF_allVars(Barrier(e) /\ UNCHANGED progVars)
  /\ \A c \in Cores : WF_allVars(RunSlice(e, c) /\ UNCHANGED progVars)
FairProgram ==
  /\ ProgramSpec
  /\ WF_allVars(Main) /\ WF_allVars(Returns /\ UNCHANGED progVars)
  /\ \A e \in Engines : ClusterFairness(e)

------------------------------------------------------------------------------
(* A run that silently produced wrong numbers is not possible              *)
(* (hes_host.h:87-89): when main() returns 0, every clip was classified by *)
(* nodes that all ran, on its own features, whatever the argmax and the    *)
(* tolerance let pass, whoever timed out or trapped (kws_main.c:237-240).  *)
ExitZeroIsTrue == status = "ok" => good = ClipNumbers

(* The front end of the next clip never touches the buffer this clip's     *)
(* features are read from, unless the run is lost already                  *)
(* (kws_main.c:66-68).                                                     *)
FeaturesHeld ==
  [][prog # "network" /\ mpc \in {"load", "network"} /\ failure_count = 0
       => mem'[Writes(Front(n))] = mem[Writes(Front(n))]]_allVars

(* main() returns unless a cluster trapped: front end and classifier,      *)
(* posted and waited for in this order, never leave each other waiting,    *)
(* and the jobs in flight side by side never share a buffer, which         *)
(* PostAccepted() would refuse.  (A wait that runs out returns as well,    *)
(* but TLC bounds how many do.)                                            *)
MainReturns == <>(mpc = "done" \/ timeouts > 0 \/ traps > 0)
==============================================================================
