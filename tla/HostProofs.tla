------------------------------- MODULE HostProofs -------------------------------
(***************************************************************************)
(* A host program that returns 0 has classified every clip on its own      *)
(* features: for any number of clips and nodes, any assignment of them to  *)
(* engines, and any waits that give up, traps and late sign-ins.  The      *)
(* argument follows main() as long as nothing has failed (failure_count is *)
(* 0, and it cannot have wrapped around), on top of what HesMeshProofs     *)
(* says of the mailbox until then.                                         *)
(***************************************************************************)
EXTENDS HostPrograms, HesMeshProofs

Layers == Len(NodeEngines)

ProgramPCs == {"prime", "top", "load", "network", "wait", "front", "exit", "done"}

ProgramTypes ==
  /\ prog \in Programs /\ fe \in FrontEnds
  /\ mpc \in ProgramPCs /\ n \in ClipNumbers /\ node \in 1..(Layers + 1)
  /\ mpc = "prime" => n = 0
  /\ mpc \in {"exit", "done"} => n + 1 = Clips
  /\ mpc = "load" => Ahead
  /\ mpc = "wait" => prog = "kws" /\ More
  /\ mpc = "front" => prog = "kws_serial" /\ More
  /\ mpc = "prime" => prog # "network"
  /\ mpc \in {"wait", "front", "exit", "done"} => hpc = "idle"
  /\ mpc \notin {"prime", "top"} => hpc # "init"
  /\ status = "none" \/ mpc = "done"

(* A call whose result hes_check() has yet to see, and how many were begun. *)
Waiting ==
  hpc \in {"poll", "collect", "gaveup", "check"}
  \/ (hpc \in {"args", "kernel", "flags", "seq", "bell"} /\ hsync)
CallsBegun ==
  IF mpc = "prime" THEN 0
  ELSE 1 + n * (Layers + 1) + (CASE mpc = "network" -> node - 1
                                 [] mpc \in {"wait", "front", "exit", "done"} -> Layers
                                 [] OTHER -> 0)

CallsCounted == failure_count + (IF Waiting THEN 1 ELSE 0) <= CallsBegun

(* The host is in its last call, for job j on engine e, or that returned   *)
(* with a result the program may take as good; as long as nothing failed.  *)
TrustedJob(j) == trusted[Writes(j)] = Value(j.kernel, j.args)
CallOf(e, j) ==
  \/ hpc = "idle" /\ TrustedJob(j)
  \/ hpc = "check" /\ ~hok
  \/ hpc # "idle" /\ Waiting /\ heng = e /\ Current(e) = j

NoneInFlight == \A e \in Engines : ~in_flight[e]

(* The next clip's front end, and nothing else, is left running.           *)
FrontAhead ==
  /\ in_flight[fe] /\ posted[fe] = Front(n + 1)
  /\ \A e \in Engines \ {fe} : ~in_flight[e]

(* post_mfcc(): the host fills in the descriptor, or it has returned.      *)
PostingAhead ==
  \/ hpc = "idle" /\ FrontAhead
  \/ /\ hpc \in {"args", "kernel", "flags", "seq", "bell"} /\ ~hsync
     /\ heng = fe /\ Current(fe) = Front(n + 1) /\ NoneInFlight

(* The nodes that have run before the last call of RunNetwork().           *)
NodesTrusted ==
  \A i \in 1..(node - 2) : LastWriter(n, i, node - 1) => TrustedJob(Node[n][i])

Classified == IF mpc \in {"wait", "front", "exit", "done"} THEN 0..n ELSE 0..(n - 1)

(* Where main() is, and what the mailbox and the memory hold then. *)
AtPrime == hpc \in {"init", "idle"} /\ NoneInFlight
AtTopOfLoop == NoneInFlight /\ IF prog = "network" THEN hpc \in {"init", "idle"}
                                                 ELSE CallOf(fe, Front(n))
AtLoad == TrustedJob(Front(n)) /\ PostingAhead
AtNetwork ==
  /\ IF Ahead THEN FrontAhead ELSE NoneInFlight
  /\ sound /\ NodesTrusted
  /\ IF node = 1 THEN hpc = "idle" ELSE CallOf(NodeEngines[node - 1], Node[n][node - 1])

ClipInv ==
  /\ good = Classified
  /\ mpc = "prime" => AtPrime
  /\ mpc = "top" => AtTopOfLoop
  /\ mpc = "load" => AtLoad
  /\ mpc = "network" => AtNetwork
  /\ mpc = "wait" => FrontAhead
  /\ mpc \in {"front", "exit", "done"} => NoneInFlight

ClipsUntilCounted == failure_count = 0 => ClipInv
StatusInv == status = "ok" => good = ClipNumbers

------------------------------------------------------------------------------
(* A host program is a client of the mailbox.                              *)

LEMMA ProgramJobs ==
  ASSUME NEW m \in ClipNumbers
  PROVE  /\ Front(m) \in Jobs
         /\ Layers \in Nat /\ DOMAIN NodeEngines = 1..Layers
         /\ \A k \in 1..Layers : Node[m][k] \in Jobs /\ NodeEngines[k] \in Engines
<1>1. BufferOf(m) \in 0..1
  BY DEF BufferOf, ClipNumbers
<1>2. QED BY <1>1, ProgramsAssumption DEF Front, Layers

LEMMA FrontsApart ==
  ASSUME NEW m \in ClipNumbers, m + 1 \in ClipNumbers
  PROVE  Writes(Front(m)) # Writes(Front(m + 1))
<1>1. \/ BufferOf(m) = 0 /\ BufferOf(m + 1) = 1
      \/ BufferOf(m) = 1 /\ BufferOf(m + 1) = 0
  BY DEF BufferOf, ClipNumbers
<1>2. QED BY <1>1, FeaturesApart DEF Front

LEMMA CallIsNext ==
  ASSUME NEW e \in Engines, NEW j \in Jobs, NEW sync \in BOOLEAN, Call(e, j, sync)
  PROVE  Next
  BY DEF Call, Next, HostNext

LEMMA ProgramNextIsNext ==
  ASSUME ProgramTypes, ProgramNext PROVE [Next]_vars
<1> USE DEF ProgramTypes
<1>1. CASE Prime
  BY <1>1, ProgramsAssumption, ProgramJobs, CallIsNext DEF Prime, ClipNumbers
<1>2. CASE PostNext
  <2>1. n + 1 \in ClipNumbers
    BY <1>2, ProgramsAssumption DEF PostNext, Ahead, More, ClipNumbers
  <2>2. QED BY <1>2, <2>1, ProgramsAssumption, ProgramJobs, CallIsNext DEF PostNext
<1>3. CASE RunNode
  <2>1. node \in 1..Layers
    BY <1>3, ProgramJobs DEF RunNode, Layers
  <2>2. QED BY <1>3, <2>1, ProgramJobs, CallIsNext DEF RunNode
<1>4. CASE CollectNext
  BY <1>4, ProgramsAssumption DEF CollectNext, Next, HostNext
<1>5. CASE FrontSerial
  <2>1. n + 1 \in ClipNumbers
    BY <1>5, ProgramsAssumption DEF FrontSerial, More, ClipNumbers
  <2>2. QED BY <1>5, <2>1, ProgramsAssumption, ProgramJobs, CallIsNext DEF FrontSerial
<1>6. CASE Load \/ Score \/ Return
  BY <1>6 DEF Load, Score, Return
<1>7. CASE Underneath
  BY <1>7 DEF Underneath, Next, HostNext
<1>8. QED BY <1>1, <1>2, <1>3, <1>4, <1>5, <1>6, <1>7 DEF ProgramNext, Main

LEMMA ProgramTypesInit == ProgramInit => ProgramTypes
  BY ProgramsAssumption, ProgramJobs DEF ProgramInit, ProgramTypes, ProgramPCs, ClipNumbers

(* What runs underneath never starts a call. *)
LEMMA UnderneathKeeps ==
  ASSUME Underneath PROVE (hpc = "idle" => hpc' = "idle") /\ (hpc # "init" => hpc' # "init")
<1>1. CASE HostStep \/ GiveUp
  BY <1>1 DEF HostStep, AfterStore, WriteArgs, WriteKernel, WriteFlags, WriteSeq, RingDoorbell,
       PollDone, Collect, Check, GiveUp
<1>2. CASE \E e \in Engines : InitEngine(e)
  BY <1>2 DEF InitEngine
<1>3. ASSUME NEW e \in Engines, ClusterNext(e) PROVE hpc' = hpc
  BY <1>3 DEF ClusterNext, CtrlStep, BootClear, SignIn, CheckSeq, Wake, SpuriousWake,
       ClearDoorbell, Latch, ReadKernel, ReadArgs, ReserveScratch, StageIn, Verdict, StageOut,
       PublishDone, RunSlice, Barrier, TrapCore, TrapCtrl, hostVars
<1>4. QED BY <1>1, <1>2, <1>3 DEF Underneath

LEMMA ProgramTypesStep ==
  ASSUME ProgramTypes, [ProgramNext]_allVars PROVE ProgramTypes'
<1> USE ProgramsAssumption, ProgramJobs
    DEF ProgramTypes, ProgramPCs, ClipNumbers, More, Ahead, Layers
<1>1. CASE Prime
  BY <1>1 DEF Prime, Call, PostAccepted, PostRefused
<1>2. CASE PostNext
  BY <1>2 DEF PostNext, Call, PostAccepted, PostRefused
<1>3. CASE Load
  BY <1>3 DEF Load, vars, hostVars
<1>4. CASE RunNode
  BY <1>4 DEF RunNode, Call, PostAccepted, PostRefused
<1>5. CASE Score
  BY <1>5 DEF Score, AfterScore, vars, hostVars
<1>6. CASE CollectNext
  BY <1>6 DEF CollectNext, Wait
<1>7. CASE FrontSerial
  BY <1>7 DEF FrontSerial, Call, PostAccepted, PostRefused
<1>8. CASE Return
  BY <1>8 DEF Return, vars, hostVars
<1>9. CASE Underneath /\ UNCHANGED progVars
  BY <1>9, UnderneathKeeps DEF progVars
<1>10. CASE UNCHANGED allVars
  BY <1>10 DEF allVars, progVars, vars, hostVars
<1>11. QED
  BY <1>1, <1>2, <1>3, <1>4, <1>5, <1>6, <1>7, <1>8, <1>9, <1>10 DEF ProgramNext, Main

LEMMA ProgramTypesInvariant == ProgramSpec => []ProgramTypes
  BY ProgramTypesInit, ProgramTypesStep, PTL DEF ProgramSpec

(* The host programs keep the rules of the mailbox: every behaviour of     *)
(* one of them is a behaviour of HesMesh, so whatever is proved of the     *)
(* mailbox holds under each of them (kws_main.c:101-241).                  *)
THEOREM ProgramsUseTheMailbox == ProgramSpec => Spec
<1>1. ProgramInit => Init
  BY DEF ProgramInit
<1>2. ProgramTypes /\ [ProgramNext]_allVars => [Next]_vars
  BY ProgramNextIsNext DEF allVars
<1>3. QED BY <1>1, <1>2, ProgramTypesInvariant, PTL DEF ProgramSpec, Spec

------------------------------------------------------------------------------
(* failure_count never wraps around: hes_check() counts a call at most     *)
(* once, and a run makes fewer calls than the counter can count.           *)

LEMMA CallsOfClips ==
  /\ Layers \in Nat /\ Clips \in Nat
  /\ \A m \in ClipNumbers : /\ m * (Layers + 1) \in Nat
                            /\ (m + 1) * (Layers + 1) = m * (Layers + 1) + Layers + 1
                            /\ (m + 1) * (Layers + 1) <= Clips * (Layers + 1)
<1>1. Layers \in Nat /\ Clips \in Nat
  BY ProgramsAssumption DEF Layers
<1>2. ASSUME NEW m \in ClipNumbers
      PROVE  (m + 1) * (Layers + 1) <= Clips * (Layers + 1)
  <2>1. m \in Nat /\ Clips - (m + 1) \in Nat
    BY <1>1 DEF ClipNumbers
  <2>2. (Clips - (m + 1)) * (Layers + 1) >= 0
    BY <1>1, <2>1
  <2>3. (Clips - (m + 1)) * (Layers + 1) = Clips * (Layers + 1) - (m + 1) * (Layers + 1)
    BY <1>1, <2>1
  <2>4. QED BY <1>1, <2>1, <2>2, <2>3
<1>3. QED BY <1>1, <1>2 DEF ClipNumbers

LEMMA CounterCounts == CountMod > 1
<1>1. 0 \in ClipNumbers /\ Layers \in Nat /\ Clips * (Layers + 1) \in Nat
  BY CallsOfClips, ProgramsAssumption DEF ClipNumbers
<1>2. Layers + 1 <= Clips * (Layers + 1)
  BY <1>1, CallsOfClips
<1>3. QED BY <1>1, <1>2, CallsAreCountable, ConstantsAssumption DEF Layers

LEMMA CallsAreBounded ==
  ASSUME ProgramTypes
  PROVE  CallsBegun \in Nat /\ CallsBegun < CountMod
<1> DEFINE before == n * (Layers + 1)
<1>1. /\ Layers \in Nat /\ before \in Nat
      /\ before + Layers + 1 <= Clips * (Layers + 1)
  BY CallsOfClips DEF ProgramTypes
<1>2. Clips * (Layers + 1) < CountMod /\ Clips * (Layers + 1) \in Nat
  BY CallsAreCountable, CallsOfClips DEF Layers
<1>3. node - 1 \in 0..Layers
  BY <1>1 DEF ProgramTypes
<1> HIDE DEF before
<1>4. CallsBegun = IF mpc = "prime" THEN 0
                   ELSE 1 + before + (CASE mpc = "network" -> node - 1
                                        [] mpc \in {"wait", "front", "exit", "done"} -> Layers
                                        [] OTHER -> 0)
  BY DEF CallsBegun, before
<1>5. QED BY <1>1, <1>2, <1>3, <1>4, ConstantsAssumption

LEMMA CallBegins ==
  ASSUME NEW e \in Engines, NEW j \in Jobs, NEW sync \in BOOLEAN, Call(e, j, sync)
  PROVE  failure_count' = failure_count /\ ~Waiting /\ (Waiting' => sync)
  BY DEF Call, PostAccepted, PostRefused, Waiting

(* What runs underneath ends at most the call the host is in. *)
LEMMA UnderneathCounts ==
  ASSUME TypeOK, Underneath
  PROVE  \/ failure_count' = failure_count /\ (Waiting' => Waiting)
         \/ failure_count' = Succ(failure_count, CountMod) /\ Waiting /\ ~Waiting'
<1> USE DEF TypeOK, HostTypes, Waiting
<1>1. CASE WriteArgs \/ WriteKernel \/ WriteFlags \/ WriteSeq \/ PollDone \/ Collect \/ GiveUp
  BY <1>1 DEF AfterStore, WriteArgs, WriteKernel, WriteFlags, WriteSeq, PollDone, Collect, GiveUp
<1>2. CASE RingDoorbell
  BY <1>2 DEF RingDoorbell
<1>3. CASE Check
  BY <1>3 DEF Check, Failures
<1>4. ASSUME NEW e \in Engines, InitEngine(e)
      PROVE  failure_count' = failure_count /\ ~Waiting'
  BY <1>4 DEF InitEngine
<1>5. ASSUME NEW e \in Engines, ClusterNext(e)
      PROVE  failure_count' = failure_count /\ hpc' = hpc /\ hsync' = hsync
  BY <1>5 DEF ClusterNext, CtrlStep, BootClear, SignIn, CheckSeq, Wake, SpuriousWake,
       ClearDoorbell, Latch, ReadKernel, ReadArgs, ReserveScratch, StageIn, Verdict, StageOut,
       PublishDone, RunSlice, Barrier, TrapCore, TrapCtrl, hostVars
<1>6. QED BY <1>1, <1>2, <1>3, <1>4, <1>5 DEF Underneath, HostStep

LEMMA CallsStep ==
  ASSUME TypeOK, ProgramTypes, ProgramTypes', CallsCounted, [ProgramNext]_allVars
  PROVE  CallsCounted' /\ failure_count' >= failure_count
<1> DEFINE pending == IF Waiting THEN 1 ELSE 0
<1>1. failure_count \in Nat
  BY ConstantsAssumption DEF TypeOK, HostTypes, Counts
<1>2. CallsBegun \in Nat /\ CallsBegun' \in Nat /\ CallsBegun < CountMod /\ CountMod \in Nat
  <2>1. CallsBegun \in Nat /\ CallsBegun < CountMod
    BY CallsAreBounded
  <2>2. /\ Layers \in Nat /\ n' * (Layers + 1) \in Nat /\ node' \in 1..(Layers + 1)
        /\ Layers' = Layers
    BY CallsOfClips DEF ProgramTypes, Layers
  <2>3. CallsBegun' = IF mpc' = "prime" THEN 0
                      ELSE 1 + n' * (Layers + 1) +
                           (CASE mpc' = "network" -> node' - 1
                              [] mpc' \in {"wait", "front", "exit", "done"} -> Layers
                              [] OTHER -> 0)
    BY DEF CallsBegun, Layers
  <2>4. CallsBegun' \in Nat
    BY <2>2, <2>3
  <2>5. QED BY <2>1, <2>4, ConstantsAssumption
<1>3. ASSUME failure_count' = failure_count, CallsBegun' >= CallsBegun, Waiting' => Waiting
      PROVE  CallsCounted' /\ failure_count' >= failure_count
  BY <1>1, <1>2, <1>3 DEF CallsCounted
<1>4. ASSUME failure_count' = failure_count, CallsBegun' >= CallsBegun + 1, ~Waiting
      PROVE  CallsCounted' /\ failure_count' >= failure_count
  BY <1>1, <1>2, <1>4 DEF CallsCounted
<1> DEFINE before == n * (Layers + 1)
<1>5. Layers \in Nat /\ before \in Nat /\ n \in Nat /\ node \in 1..(Layers + 1)
  BY CallsOfClips DEF ProgramTypes, ClipNumbers
<1>6. ASSUME n' = n + 1 PROVE before' = before + Layers + 1
  BY <1>6, CallsOfClips DEF ProgramTypes, Layers
<1>7. n' = n => before' = before
  BY DEF Layers
<1> HIDE DEF before
<1>8. CallsBegun = IF mpc = "prime" THEN 0
                   ELSE 1 + before + (CASE mpc = "network" -> node - 1
                                        [] mpc \in {"wait", "front", "exit", "done"} -> Layers
                                        [] OTHER -> 0)
  BY DEF CallsBegun, before
<1>9. CallsBegun' = IF mpc' = "prime" THEN 0
                    ELSE 1 + before' + (CASE mpc' = "network" -> node' - 1
                                          [] mpc' \in {"wait", "front", "exit", "done"} -> Layers
                                          [] OTHER -> 0)
  BY DEF CallsBegun, before, Layers
<1>10. CASE Prime
  <2>1. failure_count' = failure_count /\ ~Waiting
    BY <1>10 DEF Prime, Call, PostAccepted, PostRefused, Waiting
  <2>2. CallsBegun' >= CallsBegun + 1
    BY <1>5, <1>7, <1>8, <1>9, <1>10 DEF Prime
  <2>3. QED BY <1>4, <2>1, <2>2
<1>11. CASE PostNext
  <2>1. failure_count' = failure_count /\ (Waiting' => Waiting)
    BY <1>11 DEF PostNext, Call, PostAccepted, PostRefused, Waiting
  <2>2. CallsBegun' >= CallsBegun
    BY <1>5, <1>7, <1>8, <1>9, <1>11 DEF PostNext
  <2>3. QED BY <1>3, <2>1, <2>2
<1>12. CASE Load \/ Score \/ Return
  <2>1. failure_count' = failure_count /\ (Waiting' => Waiting)
    BY <1>12 DEF Load, Score, Return, vars, hostVars, Waiting
  <2>2. CASE Load
    <3>1. CallsBegun' >= CallsBegun
      BY <1>5, <1>7, <1>8, <1>9, <2>2 DEF Load
    <3>2. QED BY <1>3, <2>1, <3>1
  <2>3. CASE Score
    <3>1. node = Layers + 1 /\ mpc = "network"
      BY <1>5, <2>3 DEF Score, Layers
    <3>2. \/ mpc' \in {"exit", "wait", "front"} /\ n' = n
          \/ mpc' = "top" /\ n' = n + 1
      BY <2>3, ProgramsAssumption DEF Score, AfterScore, ProgramTypes
    <3>3. CallsBegun' >= CallsBegun
      BY <1>5, <1>6, <1>7, <1>8, <1>9, <3>1, <3>2
    <3>4. QED BY <1>3, <2>1, <3>3
  <2>4. CASE Return
    <3>1. CallsBegun' >= CallsBegun
      BY <1>5, <1>7, <1>8, <1>9, <2>4 DEF Return
    <3>2. QED BY <1>3, <2>1, <3>1
  <2>5. QED BY <1>12, <2>2, <2>3, <2>4
<1>13. CASE RunNode
  <2>1. failure_count' = failure_count /\ ~Waiting
    BY <1>13 DEF RunNode, Call, PostAccepted, PostRefused, Waiting
  <2>2. CallsBegun' >= CallsBegun + 1
    BY <1>5, <1>7, <1>8, <1>9, <1>13 DEF RunNode
  <2>3. QED BY <1>4, <2>1, <2>2
<1>14. CASE CollectNext \/ FrontSerial
  <2>1. failure_count' = failure_count /\ ~Waiting
    BY <1>14 DEF CollectNext, FrontSerial, Wait, Call, PostAccepted, PostRefused, Waiting
  <2>2. mpc \in {"wait", "front"} /\ mpc' = "top" /\ n' = n + 1
    BY <1>14 DEF CollectNext, FrontSerial
  <2>4. CallsBegun' >= CallsBegun + 1
    BY <1>5, <1>6, <1>8, <1>9, <2>2
  <2>3. QED BY <1>4, <2>1, <2>4
<1>15. CASE Underneath /\ UNCHANGED progVars
  <2>1. CallsBegun' = CallsBegun
    BY <1>15 DEF progVars, CallsBegun, Layers
  <2>2. CASE failure_count' = failure_count /\ (Waiting' => Waiting)
    BY <1>2, <1>3, <2>1, <2>2
  <2>3. CASE failure_count' = Succ(failure_count, CountMod) /\ Waiting /\ ~Waiting'
    BY <1>1, <1>2, <2>1, <2>3 DEF CallsCounted, Succ
  <2>4. QED BY <1>15, <2>2, <2>3, UnderneathCounts
<1>16. CASE UNCHANGED allVars
  <2>1. CallsBegun' = CallsBegun /\ failure_count' = failure_count /\ (Waiting' => Waiting)
    BY <1>16 DEF allVars, progVars, vars, hostVars, CallsBegun, Layers, Waiting
  <2>2. QED BY <1>2, <1>3, <2>1
<1>17. QED
  BY <1>10, <1>11, <1>12, <1>13, <1>14, <1>15, <1>16 DEF ProgramNext, Main

LEMMA CallsInvariant ==
  ProgramSpec => [](TypeOK /\ ProgramTypes /\ CallsCounted)
<1>1. ProgramInit => CallsCounted
  <2> SUFFICES ASSUME ProgramInit PROVE CallsCounted
    OBVIOUS
  <2>1. failure_count = 0 /\ ~Waiting
    BY DEF ProgramInit, Init, Waiting
  <2>2. CallsBegun \in Nat
    BY ProgramTypesInit, CallsAreBounded
  <2>3. QED BY <2>1, <2>2 DEF CallsCounted
<1>2. TypeOK /\ ProgramTypes /\ ProgramTypes' /\ CallsCounted /\ [ProgramNext]_allVars
        => CallsCounted'
  BY CallsStep
<1>3. QED
  BY <1>1, <1>2, ProgramTypesInvariant, ProgramsUseTheMailbox, TypeCorrect, PTL DEF ProgramSpec

LEMMA CounterGrows == ProgramSpec => [][failure_count' >= failure_count]_vars
<1>1. (TypeOK /\ ProgramTypes /\ CallsCounted) /\ (TypeOK /\ ProgramTypes /\ CallsCounted)'
        /\ [ProgramNext]_allVars => [failure_count' >= failure_count]_vars
  BY CallsStep
<1>2. QED BY <1>1, CallsInvariant, PTL DEF ProgramSpec

------------------------------------------------------------------------------
(* main(), step by step, as long as nothing has failed.                    *)

LEMMA TrustedIsRight ==
  ASSUME Results, NEW j \in Jobs, TrustedJob(j) PROVE mem[Writes(j)] = Result(j)
<1>1. Writes(j) \in Buffers /\ Value(j.kernel, j.args) # Blank
  BY JobBuffers, ConstantsAssumption
<1>2. QED BY <1>1 DEF Results, TrustInv, TrustedIntact, TrustedJob, Result

(* A synchronous call, as it is made: nothing is stored yet.               *)
LEMMA CallMade ==
  ASSUME NEW e \in Engines, NEW j \in Jobs, Call(e, j, TRUE)
  PROVE  CallOf(e, j)' /\ UNCHANGED <<in_flight, posted, trusted>>
<1>1. CASE PostAccepted(e, j, TRUE)
  BY <1>1 DEF PostAccepted, CallOf, Waiting, Current, Filling, historyVars
<1>2. CASE PostRefused(e, TRUE)
  BY <1>2 DEF PostRefused, CallOf
<1>3. QED BY <1>1, <1>2 DEF Call

(* The one call that returns without a failure is one that found its job   *)
(* done.                                                                   *)
LEMMA CheckedIsGood ==
  ASSUME TypeInv, BootInv, CountMod > 1, failure_count = 0, Check, failure_count' = 0
  PROVE  /\ hpc = "check" /\ hok /\ hpc' = "idle"
         /\ trusted' = [trusted EXCEPT ![Writes(posted[heng])] =
                          Value(posted[heng].kernel, posted[heng].args)]
<1>1. hok
  BY ConstantsAssumption DEF Check, Failures, Succ
<1>2. QED BY <1>1 DEF Check, BootInv

LEMMA CallGoesOn ==
  ASSUME TypeInv, BootInv, CountMod > 1, failure_count = 0, failure_count' = 0,
         HostStep \/ GiveUp, NEW e \in Engines, NEW j \in Jobs, CallOf(e, j)
  PROVE  CallOf(e, j)' /\ Waiting
<1> USE DEF CallOf, Waiting, Current, Filling
<1>1. hpc # "idle"
  BY DEF HostStep, WriteArgs, WriteKernel, WriteFlags, WriteSeq, RingDoorbell, PollDone,
       Collect, Check, GiveUp
<1>2. CASE Check
  <2>1. /\ hpc = "check" /\ hok /\ hpc' = "idle"
        /\ trusted' = [trusted EXCEPT ![Writes(posted[heng])] =
                         Value(posted[heng].kernel, posted[heng].args)]
    BY <1>2, CheckedIsGood
  <2>2. heng = e /\ posted[e] = j
    BY <2>1
  <2>3. Writes(j) \in Buffers /\ trusted \in [Buffers -> Content \cup {Blank}]
    BY JobBuffers DEF TypeInv, TypeOK, CountTypes
  <2>4. QED BY <2>1, <2>2, <2>3 DEF TrustedJob
<1>3. CASE WriteArgs \/ WriteKernel \/ WriteFlags
  BY <1>3 DEF AfterStore, WriteArgs, WriteKernel, WriteFlags, historyVars
<1>4. CASE WriteSeq
  BY <1>4 DEF AfterStore, WriteSeq, TypeInv, TypeOK, HostTypes, CountTypes
<1>5. CASE RingDoorbell
  BY <1>5 DEF RingDoorbell, historyVars
<1>6. CASE PollDone \/ Collect \/ GiveUp
  BY <1>6 DEF PollDone, Collect, GiveUp, historyVars
<1>7. QED BY <1>1, <1>2, <1>3, <1>4, <1>5, <1>6 DEF HostStep

(* What a step of the host does to the jobs left running.                  *)
LEMMA InFlightKept ==
  ASSUME TypeInv, HostStep \/ GiveUp, Waiting
  PROVE  \A e \in Engines : e # heng \/ hpc \notin InCall \/ ~in_flight[e]
           => in_flight'[e] = in_flight[e] /\ (e # heng \/ hpc # "seq" => posted'[e] = posted[e])
<1> USE DEF TypeInv, TypeOK, HostTypes, CountTypes, Waiting, InCall
<1>1. CASE WriteArgs \/ WriteKernel \/ WriteFlags \/ PollDone \/ Collect \/ GiveUp \/ Check
  BY <1>1 DEF WriteArgs, WriteKernel, WriteFlags, PollDone, Collect, GiveUp, Check, historyVars
<1>2. CASE WriteSeq
  BY <1>2 DEF WriteSeq
<1>3. CASE RingDoorbell
  BY <1>3 DEF RingDoorbell, historyVars
<1>4. QED BY <1>1, <1>2, <1>3 DEF HostStep

(* While the host is in a call for job j nothing else is distrusted than   *)
(* what was in the output of j.                                            *)
LEMMA OthersTrusted ==
  ASSUME TypeInv, BootInv, CountMod > 1, failure_count = 0, failure_count' = 0,
         HostStep \/ GiveUp, NEW e \in Engines, NEW j \in Jobs,
         hpc # "idle", heng = e, Current(e) = j,
         NEW k \in Jobs, TrustedJob(k), Writes(k) # Writes(j)
  PROVE  TrustedJob(k)'
<1> USE DEF TrustedJob, Current, Filling
<1>1. CASE Check
  <2>1. /\ hpc = "check"
        /\ trusted' = [trusted EXCEPT ![Writes(posted[heng])] =
                         Value(posted[heng].kernel, posted[heng].args)]
    BY <1>1, CheckedIsGood
  <2>2. posted[heng] = j
    BY <2>1
  <2>3. trusted'[Writes(k)] = trusted[Writes(k)]
    BY <2>1, <2>2
  <2>4. QED BY <2>3
<1>2. CASE WriteSeq
  BY <1>2 DEF WriteSeq
<1>3. CASE WriteArgs \/ WriteKernel \/ WriteFlags \/ RingDoorbell \/ PollDone \/ Collect \/ GiveUp
  BY <1>3 DEF WriteArgs, WriteKernel, WriteFlags, RingDoorbell, PollDone, Collect, GiveUp,
       historyVars
<1>4. QED BY <1>1, <1>2, <1>3 DEF HostStep

(* hes_post() of the next clip's front end, one store further.             *)
LEMMA PostingGoesOn ==
  ASSUME TypeInv, HostStep \/ GiveUp, fe \in Engines, Front(n + 1) \in Jobs, PostingAhead,
         UNCHANGED progVars
  PROVE  PostingAhead'
<1> USE DEF PostingAhead, FrontAhead, NoneInFlight, Current, Filling,
            TypeInv, TypeOK, HostTypes, CountTypes, progVars
<1>1. /\ hpc \in {"args", "kernel", "flags", "seq", "bell"} /\ ~hsync
      /\ heng = fe /\ Current(fe) = Front(n + 1) /\ NoneInFlight
  BY DEF HostStep, WriteArgs, WriteKernel, WriteFlags, WriteSeq, RingDoorbell, PollDone,
       Collect, Check, GiveUp
<1>2. Front(n + 1)' = Front(n + 1)
  BY DEF Front, BufferOf
<1>3. CASE WriteArgs \/ WriteKernel \/ WriteFlags
  BY <1>1, <1>2, <1>3 DEF AfterStore, WriteArgs, WriteKernel, WriteFlags, historyVars
<1>4. CASE WriteSeq
  BY <1>1, <1>2, <1>4 DEF AfterStore, WriteSeq
<1>5. CASE RingDoorbell
  BY <1>1, <1>2, <1>5 DEF RingDoorbell, historyVars
<1>6. CASE PollDone \/ Collect \/ GiveUp \/ Check
  BY <1>1, <1>6 DEF PollDone, Collect, GiveUp, Check
<1>7. QED BY <1>3, <1>4, <1>5, <1>6 DEF HostStep

LEMMA ClipHost ==
  ASSUME ProgramTypes, Results, CountMod > 1, failure_count = 0, failure_count' = 0, ClipInv,
         HostStep \/ GiveUp, UNCHANGED progVars
  PROVE  ClipInv'
<1>0. TypeInv /\ BootInv /\ Clips \in Nat /\ fe \in Engines /\ n \in ClipNumbers
  BY ProgramsAssumption DEF Results, Orderly, ProgramTypes
<1>1. hpc \notin {"init", "idle"}
  BY DEF HostStep, WriteArgs, WriteKernel, WriteFlags, WriteSeq, RingDoorbell, PollDone,
       Collect, Check, GiveUp
<1>2. good' = Classified' /\ mpc' = mpc
  BY DEF ClipInv, Classified, progVars
<1>3. mpc \in {"top", "load", "network"}
  BY <1>1 DEF ClipInv, AtPrime, ProgramTypes, ProgramPCs
<1>4. Front(n) \in Jobs /\ (n + 1 \in ClipNumbers => Front(n + 1) \in Jobs)
  BY <1>0, ProgramJobs
<1>5. /\ Front(n)' = Front(n) /\ Front(n + 1)' = Front(n + 1) /\ Ahead' = Ahead
      /\ \A k : TrustedJob(k)' <=> trusted'[Writes(k)] = Value(k.kernel, k.args)
  BY DEF progVars, Front, BufferOf, Ahead, More, TrustedJob
<1>6. Ahead => n + 1 \in ClipNumbers
  BY <1>0 DEF Ahead, More, ClipNumbers
<1>7. CASE mpc = "top"
  <2>1. NoneInFlight /\ CallOf(fe, Front(n)) /\ prog # "network"
    BY <1>1, <1>7 DEF ClipInv, AtTopOfLoop
  <2>2. CallOf(fe, Front(n))' /\ Waiting
    <3>1. \A e \in Engines, j \in Jobs : CallOf(e, j) => CallOf(e, j)' /\ Waiting
      BY <1>0, CallGoesOn
    <3>2. UNCHANGED <<fe, n>>
      BY DEF progVars
    <3>3. QED BY <1>0, <1>4, <1>5, <2>1, <3>1, <3>2 DEF CallOf, TrustedJob
  <2>3. NoneInFlight'
    BY <1>0, <2>1, <2>2, InFlightKept DEF NoneInFlight
  <2>4. QED BY <1>2, <1>7, <2>1, <2>2, <2>3 DEF ClipInv, AtTopOfLoop, progVars
<1>8. CASE mpc = "load"
  <2>1. TrustedJob(Front(n)) /\ PostingAhead /\ n + 1 \in ClipNumbers
    BY <1>6, <1>8 DEF ClipInv, AtLoad, ProgramTypes
  <2>2. PostingAhead'
    BY <1>0, <1>4, <2>1, PostingGoesOn
  <2>3. hpc # "idle" /\ heng = fe /\ Current(fe) = Front(n + 1)
    BY <1>1, <2>1 DEF PostingAhead
  <2>4. Writes(Front(n)) # Writes(Front(n + 1))
    BY <1>0, <2>1, FrontsApart
  <2>5. trusted'[Writes(Front(n))] = Value(Front(n).kernel, Front(n).args)
    BY <1>0, <1>4, <2>1, <2>3, <2>4, OthersTrusted DEF TrustedJob
  <2>6. TrustedJob(Front(n))'
    BY <1>5, <2>5 DEF TrustedJob
  <2>7. QED BY <1>2, <1>8, <2>2, <2>6 DEF ClipInv, AtLoad
<1>9. CASE mpc = "network"
  <2>1. /\ IF Ahead THEN FrontAhead ELSE NoneInFlight
        /\ sound /\ NodesTrusted /\ node # 1
        /\ CallOf(NodeEngines[node - 1], Node[n][node - 1])
    BY <1>1, <1>9 DEF ClipInv, AtNetwork
  <2>2. node \in 1..(Layers + 1) /\ Layers \in Nat /\ node - 1 \in 1..Layers
    BY <1>0, <2>1, ProgramJobs DEF ProgramTypes
  <2>3. /\ NodeEngines[node - 1] \in Engines /\ Node[n][node - 1] \in Jobs
        /\ \A i \in 1..(node - 2) : Node[n][i] \in Jobs
    BY <1>0, <2>2, ProgramJobs
  <2>4. CallOf(NodeEngines[node - 1], Node[n][node - 1])' /\ Waiting
    <3>1. \A e \in Engines, j \in Jobs : CallOf(e, j) => CallOf(e, j)' /\ Waiting
      BY <1>0, CallGoesOn
    <3>2. UNCHANGED <<node, n>>
      BY DEF progVars
    <3>3. QED BY <2>1, <2>3, <3>1, <3>2 DEF CallOf, TrustedJob
  <2>5. heng = NodeEngines[node - 1] /\ Current(heng) = Node[n][node - 1]
    <3>1. hpc = "check" => Check
      BY DEF HostStep, WriteArgs, WriteKernel, WriteFlags, WriteSeq, RingDoorbell, PollDone,
           Collect, GiveUp
    <3>2. ~(hpc = "check" /\ ~hok)
      BY <1>0, <3>1, CheckedIsGood
    <3>3. QED BY <1>1, <2>1, <3>2 DEF CallOf
  <2>6. NodesTrusted'
    <3>1. ASSUME NEW i \in 1..(node - 2), LastWriter(n, i, node - 1)
          PROVE  trusted'[Writes(Node[n][i])] = Value(Node[n][i].kernel, Node[n][i].args)
      <4>1. node - 1 \in (i + 1)..(node - 1)
        BY <2>2
      <4>2. Writes(Node[n][i]) # Writes(Node[n][node - 1]) /\ TrustedJob(Node[n][i])
        BY <2>1, <3>1, <4>1 DEF LastWriter, NodesTrusted
      <4>3. QED BY <1>0, <1>1, <2>3, <2>5, <4>2, OthersTrusted DEF TrustedJob
    <3>2. UNCHANGED <<node, n>>
      BY DEF progVars
    <3>3. QED BY <3>1, <3>2 DEF NodesTrusted, LastWriter, TrustedJob
  <2>7. IF Ahead THEN FrontAhead' ELSE NoneInFlight'
    <3>1. hpc \in InCall => ~in_flight[heng]
      BY DEF Results, Orderly, NumberInv
    <3>2. ASSUME Ahead PROVE FrontAhead'
      <4>1. FrontAhead /\ (hpc \in InCall => heng # fe)
        BY <2>1, <3>1, <3>2 DEF FrontAhead
      <4>2. in_flight'[fe] /\ posted'[fe] = posted[fe]
        BY <1>0, <2>4, <4>1, InFlightKept DEF FrontAhead, InCall
      <4>3. \A e \in Engines \ {fe} : ~in_flight'[e]
        BY <1>0, <2>4, <4>1, InFlightKept DEF FrontAhead
      <4>4. QED BY <1>5, <4>1, <4>2, <4>3 DEF FrontAhead, progVars
    <3>3. ASSUME ~Ahead PROVE NoneInFlight'
      BY <1>0, <2>1, <2>4, <3>3, InFlightKept DEF NoneInFlight
    <3>4. QED BY <3>2, <3>3
  <2>8. QED BY <1>2, <1>5, <1>9, <2>1, <2>4, <2>6, <2>7 DEF ClipInv, AtNetwork, progVars
<1>10. QED BY <1>3, <1>7, <1>8, <1>9

(* What a cluster does, and hes_engine_init(), main() does not see.        *)
LEMMA ClipKept ==
  ASSUME ClipInv, UNCHANGED <<hpc, hok, hsync, heng, hjob, in_flight, posted, trusted>>,
         UNCHANGED progVars
  PROVE  ClipInv'
  BY DEF ClipInv, Classified, AtPrime, AtTopOfLoop, AtLoad, AtNetwork, CallOf, TrustedJob, Waiting,
       Current, Filling, NoneInFlight, FrontAhead, PostingAhead, NodesTrusted, LastWriter,
       Ahead, More, Front, BufferOf, progVars

LEMMA ClipUnderneath ==
  ASSUME ProgramTypes, Results, CountMod > 1, failure_count = 0, failure_count' = 0, ClipInv,
         Underneath, UNCHANGED progVars
  PROVE  ClipInv'
<1>1. CASE HostStep \/ GiveUp
  BY <1>1, ClipHost
<1>2. ASSUME NEW e \in Engines, InitEngine(e) PROVE ClipInv'
  <2>1. hpc = "init" /\ hpc' \in {"init", "idle"} /\ UNCHANGED in_flight
    BY <1>2 DEF InitEngine
  <2>2. mpc = "prime" \/ (mpc = "top" /\ prog = "network")
    BY <2>1 DEF ProgramTypes, ClipInv, AtTopOfLoop, CallOf, Waiting
  <2>3. QED
    BY <2>1, <2>2 DEF ClipInv, Classified, AtPrime, AtTopOfLoop, NoneInFlight, progVars
<1>3. ASSUME NEW e \in Engines, ClusterNext(e) PROVE ClipInv'
  <2>1. UNCHANGED <<hpc, hok, hsync, heng, hjob, in_flight, posted, trusted>>
    BY <1>3 DEF ClusterNext, CtrlStep, BootClear, SignIn, CheckSeq, Wake, SpuriousWake,
         ClearDoorbell, Latch, ReadKernel, ReadArgs, ReserveScratch, StageIn, Verdict, StageOut,
         PublishDone, RunSlice, Barrier, TrapCore, TrapCtrl, hostVars, historyVars
  <2>2. QED BY <2>1, ClipKept
<1>4. QED BY <1>1, <1>2, <1>3 DEF Underneath

LEMMA ClipMain ==
  ASSUME ProgramTypes, ProgramTypes', Results, ClipInv, Main
  PROVE  ClipInv'
<1> USE DEF ProgramTypes
<1>0. /\ Clips \in Nat /\ fe \in Engines /\ n \in ClipNumbers /\ n \in Nat /\ Front(n) \in Jobs
      /\ prog \in {"kws", "kws_serial", "network"}
  BY ProgramsAssumption, ProgramJobs DEF ClipNumbers
<1>1. CASE Prime
  <2>1. hpc = "idle" /\ NoneInFlight /\ n = 0 /\ prog # "network" /\ good = {}
    BY <1>1 DEF Prime, Call, PostAccepted, PostRefused, ClipInv, AtPrime, Classified
  <2>2. CallOf(fe, Front(0))' /\ UNCHANGED <<in_flight, posted, trusted>>
    BY <1>0, <1>1, <2>1, CallMade DEF Prime
  <2>4. mpc' = "top" /\ UNCHANGED <<prog, fe, n, good>>
    BY <1>1 DEF Prime
  <2>5. CallOf(fe, Front(n))'
    BY <2>1, <2>2, <2>4 DEF Front, BufferOf, CallOf, TrustedJob
  <2>6. QED
    BY <2>1, <2>2, <2>4, <2>5 DEF ClipInv, Classified, AtTopOfLoop, NoneInFlight
<1>2. CASE PostNext
  <2>1. /\ hpc = "idle" /\ NoneInFlight /\ TrustedJob(Front(n)) /\ Ahead
        /\ good = 0..(n - 1)
    BY <1>2 DEF PostNext, Call, PostAccepted, PostRefused, ClipInv, AtTopOfLoop, CallOf,
         Classified, Ahead
  <2>2. PostAccepted(fe, Front(n + 1), FALSE)
    BY <1>0, <1>2, <2>1 DEF PostNext, Call, PostRefused, NoneInFlight
  <2>3. /\ mpc' = "load" /\ UNCHANGED <<prog, fe, n, good, in_flight, posted, trusted>>
        /\ hpc' = "args" /\ heng' = fe /\ hjob' = Front(n + 1) /\ hsync' = FALSE
    BY <1>2, <2>2 DEF PostNext, PostAccepted, historyVars
  <2>4. TrustedJob(Front(n))' /\ Front(n + 1)' = Front(n + 1)
    BY <2>1, <2>3 DEF TrustedJob, Front, BufferOf
  <2>5. PostingAhead'
    BY <2>1, <2>3, <2>4 DEF PostingAhead, NoneInFlight, Current, Filling
  <2>6. QED BY <2>1, <2>3, <2>4, <2>5 DEF ClipInv, Classified, AtLoad
<1>3. CASE Load
  <2>1. /\ hpc = "idle" /\ mpc' = "network" /\ node' = 1
        /\ UNCHANGED <<vars, prog, fe, n, good>>
        /\ sound' = (prog = "network" \/ FeaturesRight(n))
        /\ mpc = "load" \/ (mpc = "top" /\ ~Ahead)
    BY <1>3 DEF Load
  <2>2. good = 0..(n - 1) /\ (prog = "network" \/ TrustedJob(Front(n)))
    BY <2>1 DEF ClipInv, Classified, AtLoad, AtTopOfLoop, CallOf
  <2>3. IF Ahead THEN FrontAhead ELSE NoneInFlight
    BY <2>1 DEF ClipInv, AtLoad, PostingAhead, AtTopOfLoop
  <2>4. sound'
    BY <1>0, <2>1, <2>2, TrustedIsRight DEF FeaturesRight
  <2>5. NodesTrusted'
    BY <2>1 DEF NodesTrusted
  <2>6. IF Ahead' THEN FrontAhead' ELSE NoneInFlight'
    BY <2>1, <2>3 DEF Ahead, More, FrontAhead, NoneInFlight, Front, BufferOf, vars, hostVars,
         historyVars
  <2>7. QED
    BY <2>1, <2>2, <2>4, <2>5, <2>6 DEF ClipInv, Classified, AtNetwork, vars, hostVars
<1>4. CASE RunNode
  <2>1. /\ mpc = "network" /\ node <= Layers /\ hpc = "idle" /\ node' = node + 1
        /\ Call(NodeEngines[node], Node[n][node], TRUE)
        /\ sound' = (sound /\ NodesRight(n, node - 1))
        /\ UNCHANGED <<prog, fe, mpc, n, good>>
    BY <1>4 DEF RunNode, Call, PostAccepted, PostRefused, Layers
  <2>2. node \in 1..Layers /\ Layers \in Nat
    BY <1>0, <2>1, ProgramJobs
  <2>3. /\ NodeEngines[node] \in Engines /\ Node[n][node] \in Jobs
        /\ \A i \in 1..(node - 1) : Node[n][i] \in Jobs
    BY <1>0, <2>2, ProgramJobs
  <2>4. PICK e \in Engines, j \in Jobs : e = NodeEngines[node] /\ j = Node[n][node]
    BY <2>3
  <2>5. CallOf(e, j)' /\ UNCHANGED <<in_flight, posted, trusted>>
    BY <2>1, <2>4, CallMade
  <2>6. ASSUME NEW i \in 1..(node - 1), LastWriter(n, i, node - 1)
        PROVE  TrustedJob(Node[n][i])
    <3>1. CASE i = node - 1
      BY <2>1, <2>2, <3>1 DEF ClipInv, AtNetwork, CallOf
    <3>2. CASE i # node - 1
      <4>1. i \in 1..(node - 2)
        BY <2>2, <3>2
      <4>2. QED BY <2>1, <2>6, <4>1 DEF ClipInv, AtNetwork, NodesTrusted
    <3>3. QED BY <3>1, <3>2
  <2>7. sound'
    <3>1. NodesRight(n, node - 1)
      BY <2>3, <2>6, TrustedIsRight DEF NodesRight
    <3>2. QED BY <2>1, <3>1 DEF ClipInv, AtNetwork
  <2>8. NodesTrusted'
    <3>1. ASSUME NEW i \in 1..(node - 1), LastWriter(n, i, node) PROVE LastWriter(n, i, node - 1)
      BY <2>2, <3>1 DEF LastWriter
    <3>2. node' - 2 = node - 1 /\ node' - 1 = node
      BY <2>1, <2>2
    <3>3. \A i \in 1..(node - 1) : LastWriter(n, i, node) => TrustedJob(Node[n][i])'
      BY <2>1, <2>5, <2>6, <3>1 DEF TrustedJob
    <3>4. QED BY <2>1, <3>2, <3>3 DEF NodesTrusted, LastWriter, TrustedJob
  <2>9. IF Ahead' THEN FrontAhead' ELSE NoneInFlight'
    BY <2>1, <2>5 DEF ClipInv, AtNetwork, Ahead, More, FrontAhead, NoneInFlight, Front, BufferOf
  <2>10. CallOf(NodeEngines[node - 1], Node[n][node - 1])' /\ node' # 1
    <3>1. node' - 1 = node /\ node' # 1
      BY <2>1, <2>2
    <3>2. QED BY <2>1, <2>4, <2>5, <3>1 DEF CallOf, TrustedJob
  <2>11. QED
    BY <2>1, <2>7, <2>8, <2>9, <2>10 DEF ClipInv, Classified, AtNetwork
<1>5. CASE Score
  <2>1. /\ hpc = "idle" /\ mpc = "network" /\ node = Layers + 1 /\ Layers \in Nat
        /\ UNCHANGED <<vars, prog, fe>>
    BY <1>0, <1>5, ProgramJobs DEF Score, Layers
  <2>2. NodesRight(n, Layers)
    <3>1. ASSUME NEW i \in 1..Layers, LastWriter(n, i, Layers) PROVE TrustedJob(Node[n][i])
      <4>1. CASE i = Layers
        BY <2>1, <4>1 DEF ClipInv, AtNetwork, CallOf
      <4>2. CASE i # Layers
        <5>1. i \in 1..(node - 2) /\ node - 1 = Layers
          BY <2>1, <4>2
        <5>2. QED BY <2>1, <3>1, <5>1 DEF ClipInv, AtNetwork, NodesTrusted
      <4>3. QED BY <4>1, <4>2
    <3>2. QED BY <1>0, <3>1, ProgramJobs, TrustedIsRight DEF NodesRight
  <2>3. sound /\ good = 0..(n - 1)
    BY <2>1 DEF ClipInv, AtNetwork, Classified
  <2>4. good' = 0..n
    <3>1. good' = good \cup {n}
      BY <1>5, <2>2, <2>3 DEF Score, Layers
    <3>2. QED BY <1>0, <2>3, <3>1
  <2>5. IF Ahead THEN FrontAhead ELSE NoneInFlight
    BY <2>1 DEF ClipInv, AtNetwork
  <2>6. \/ mpc' = "wait" /\ Ahead /\ n' = n
        \/ mpc' \in {"exit", "front"} /\ ~Ahead /\ n' = n
        \/ mpc' = "top" /\ prog = "network" /\ ~Ahead /\ n' = n + 1
    BY <1>0, <1>5 DEF Score, AfterScore, Ahead
  <2>7. UNCHANGED <<hpc, in_flight, posted>>
    BY <2>1 DEF vars, hostVars, historyVars
  <2>8. CASE mpc' = "wait"
    <3>1. FrontAhead'
      BY <2>1, <2>5, <2>6, <2>7, <2>8 DEF FrontAhead, Front, BufferOf
    <3>2. QED BY <2>4, <2>6, <2>8, <3>1 DEF ClipInv, Classified
  <2>9. CASE mpc' \in {"exit", "front"}
    BY <2>4, <2>5, <2>6, <2>7, <2>9 DEF ClipInv, Classified, NoneInFlight
  <2>10. CASE mpc' = "top"
    <3>1. n' - 1 = n
      BY <1>0, <2>6, <2>10
    <3>2. QED
      BY <2>1, <2>4, <2>5, <2>6, <2>7, <2>10, <3>1 DEF ClipInv, Classified, AtTopOfLoop, NoneInFlight
  <2>11. QED BY <2>6, <2>8, <2>9, <2>10
<1>6. CASE CollectNext
  <2>1. /\ mpc = "wait" /\ mpc' = "top" /\ n' = n + 1 /\ UNCHANGED <<prog, fe, good>>
        /\ FrontAhead /\ good = 0..n /\ prog = "kws"
    BY <1>6 DEF CollectNext, ClipInv, Classified
  <2>2. /\ hpc' = "poll" /\ heng' = fe /\ in_flight' = [in_flight EXCEPT ![fe] = FALSE]
        /\ posted' = posted
    BY <1>6, <2>1 DEF CollectNext, Wait, FrontAhead, historyVars
  <2>3. NoneInFlight'
    BY <2>1, <2>2 DEF NoneInFlight, FrontAhead, Results, TypeInv, TypeOK, HostTypes
  <2>4. Front(n)' = Front(n + 1)
    BY <2>1 DEF Front, BufferOf
  <2>5. CallOf(fe, Front(n))'
    BY <2>1, <2>2, <2>4 DEF CallOf, Waiting, Current, Filling, FrontAhead
  <2>6. n' - 1 = n
    BY <1>0, <2>1
  <2>7. QED BY <2>1, <2>3, <2>5, <2>6 DEF ClipInv, Classified, AtTopOfLoop
<1>7. CASE FrontSerial
  <2>1. /\ mpc = "front" /\ mpc' = "top" /\ n' = n + 1 /\ UNCHANGED <<prog, fe, good>>
        /\ NoneInFlight /\ good = 0..n /\ prog = "kws_serial" /\ Call(fe, Front(n + 1), TRUE)
        /\ n + 1 \in ClipNumbers
    BY <1>0, <1>7 DEF FrontSerial, ClipInv, Classified, More, ClipNumbers
  <2>2. PICK j \in Jobs : j = Front(n + 1)
    BY <1>0, <2>1, ProgramJobs
  <2>3. \A e \in Engines : e = fe => CallOf(e, j)' /\ UNCHANGED <<in_flight, posted, trusted>>
    BY <2>2, <2>1, CallMade
  <2>4. Front(n)' = j /\ UNCHANGED <<in_flight, posted, trusted>>
    BY <1>0, <2>2, <2>1, <2>3 DEF Front, BufferOf
  <2>5. CallOf(fe, Front(n))'
    BY <1>0, <2>1, <2>3, <2>4 DEF CallOf, TrustedJob
  <2>6. n' - 1 = n
    BY <1>0, <2>1
  <2>7. QED BY <2>1, <2>5, <2>6, <2>4 DEF ClipInv, Classified, AtTopOfLoop, NoneInFlight
<1>8. CASE Return
  BY <1>8 DEF Return, ClipInv, Classified, NoneInFlight, vars, hostVars
<1>9. QED BY <1>1, <1>2, <1>3, <1>4, <1>5, <1>6, <1>7, <1>8 DEF Main

------------------------------------------------------------------------------
(* What the host programs promise.                                         *)

Undisturbed ==
  /\ TypeOK /\ ProgramTypes /\ CallsCounted
  /\ SoundUntilCounted /\ ClipsUntilCounted /\ StatusInv

LEMMA SoundInvariant ==
  ASSUME LateSignInSafe
  PROVE  ProgramSpec => [](TypeOK /\ ProgramTypes /\ CallsCounted /\ SoundUntilCounted)
<1>1. Spec /\ [][failure_count' >= failure_count]_vars => []SoundUntilCounted
  BY CounterCounts, UntilCountedInvariant
<1>2. QED BY <1>1, CallsInvariant, CounterGrows, ProgramsUseTheMailbox, PTL

LEMMA ClipsInit == ProgramInit => ClipsUntilCounted /\ StatusInv
  BY ProgramsAssumption
     DEF ProgramInit, Init, ClipsUntilCounted, ClipInv, Classified, AtPrime, AtTopOfLoop, NoneInFlight,
         StatusInv

LEMMA ClipsStep ==
  ASSUME Undisturbed, ProgramTypes', [ProgramNext]_allVars
  PROVE  ClipsUntilCounted' /\ StatusInv'
<1> USE DEF Undisturbed
<1>1. failure_count \in Nat /\ failure_count' >= failure_count
  BY CallsStep, ConstantsAssumption DEF TypeOK, HostTypes, Counts
<1>2. ASSUME failure_count' = 0 PROVE ClipInv'
  <2>1. failure_count = 0
    BY <1>1, <1>2
  <2>2. Results /\ ClipInv /\ CountMod > 1
    BY <2>1, CounterCounts DEF SoundUntilCounted, ClipsUntilCounted
  <2>3. CASE Main
    BY <2>2, <2>3, ClipMain
  <2>4. CASE Underneath /\ UNCHANGED progVars
    BY <1>2, <2>1, <2>2, <2>4, ClipUnderneath
  <2>5. CASE UNCHANGED allVars
    BY <2>2, <2>5, ClipKept DEF allVars, vars, hostVars, historyVars
  <2>6. QED BY <2>3, <2>4, <2>5 DEF ProgramNext
<1>3. ASSUME status' = "ok" PROVE good' = ClipNumbers
  <2>1. CASE Return
    <3>1. failure_count = 0 /\ mpc = "exit" /\ good' = good
      BY <1>3, <2>1 DEF Return, MainStatus
    <3>2. good = 0..n /\ n + 1 = Clips /\ n \in Nat
      BY <3>1 DEF ClipsUntilCounted, ClipInv, Classified, ProgramTypes, ClipNumbers
    <3>3. QED BY <3>1, <3>2 DEF ClipNumbers
  <2>2. CASE ~Return
    <3>1. status' = status
      BY <2>2 DEF ProgramNext, Main, Prime, PostNext, Load, RunNode, Score, CollectNext, FrontSerial,
           progVars, allVars
    <3>2. mpc = "done" /\ good = ClipNumbers
      BY <1>3, <3>1 DEF StatusInv, ProgramTypes
    <3>3. good' = good
      BY <2>2, <3>2 DEF ProgramNext, Main, Prime, PostNext, Load, RunNode, Score, CollectNext,
           FrontSerial, progVars, allVars
    <3>4. QED BY <3>2, <3>3
  <2>3. QED BY <2>1, <2>2
<1>4. QED BY <1>2, <1>3 DEF ClipsUntilCounted, StatusInv

LEMMA UndisturbedInvariant == ASSUME LateSignInSafe PROVE ProgramSpec => []Undisturbed
<1>1. (TypeOK /\ ProgramTypes /\ CallsCounted /\ SoundUntilCounted)
        /\ (TypeOK /\ ProgramTypes /\ CallsCounted /\ SoundUntilCounted)'
        /\ (ClipsUntilCounted /\ StatusInv) /\ [ProgramNext]_allVars
        => (ClipsUntilCounted /\ StatusInv)'
  BY ClipsStep DEF Undisturbed
<1>2. QED
  BY <1>1, ClipsInit, SoundInvariant, PTL DEF ProgramSpec, Undisturbed

(* A run that silently produced wrong numbers is not possible              *)
(* (hes_host.h:87-89, kws_main.c:237-240): a host program that returns 0   *)
(* has classified every clip by nodes that all ran, on the clip's own      *)
(* features, for any number of clips, nodes and clusters, whoever timed    *)
(* out, trapped or signed in late on the way.                              *)
THEOREM ExitZeroIsAlwaysTrue == ASSUME LateSignInSafe PROVE ProgramSpec => []ExitZeroIsTrue
<1>1. Undisturbed => ExitZeroIsTrue
  BY DEF Undisturbed, StatusInv, ExitZeroIsTrue
<1>2. QED BY <1>1, UndisturbedInvariant, PTL

(* Two feature buffers are enough (kws_main.c:66-68): while nothing has    *)
(* failed, no cluster writes the buffer the classifier of this clip is     *)
(* fed from, however long the next clip's front end takes.                 *)
THEOREM FeaturesAreHeld == ASSUME LateSignInSafe PROVE ProgramSpec => FeaturesHeld
<1>1. Undisturbed /\ [ProgramNext]_allVars
        => [prog # "network" /\ mpc \in {"load", "network"} /\ failure_count = 0
              => mem'[Writes(Front(n))] = mem[Writes(Front(n))]]_allVars
  <2> SUFFICES ASSUME Undisturbed, ProgramNext, mpc \in {"load", "network"}, failure_count = 0,
                      mem'[Writes(Front(n))] # mem[Writes(Front(n))]
               PROVE  FALSE
    OBVIOUS
  <2>1. Results /\ ClipInv /\ ProgramTypes
    BY DEF Undisturbed, SoundUntilCounted, ClipsUntilCounted
  <2>2. PICK e \in Engines : ClusterNext(e)
    <3>1. ~Main
      BY DEF Main, Prime, PostNext, Load, RunNode, Score, CollectNext, FrontSerial, Return, Call,
           PostAccepted, PostRefused, Wait, vars, dataVars
    <3>2. ~(HostStep \/ GiveUp) /\ \A e \in Engines : ~InitEngine(e)
      BY DEF HostStep, WriteArgs, WriteKernel, WriteFlags, WriteSeq, RingDoorbell, PollDone,
           Collect, Check, GiveUp, InitEngine, dataVars
    <3>3. QED BY <3>1, <3>2 DEF ProgramNext, Underneath
  <2>3. /\ n \in ClipNumbers /\ Front(n) \in Jobs /\ Writes(Front(n)) \in Buffers
        /\ fe \in Engines /\ (Ahead => n + 1 \in ClipNumbers)
    BY <2>1, ProgramJobs, JobBuffers, ProgramsAssumption
       DEF ProgramTypes, Ahead, More, ClipNumbers
  <2>4. Held(e) /\ Writes(posted[e]) = Writes(Front(n))
    BY <2>1, <2>2, <2>3, OnlyHeldWrite DEF Results
  <2>5. Ahead => Writes(Front(n + 1)) # Writes(Front(n))
    BY <2>3, FrontsApart
  <2>6. CASE mpc = "load"
    <3>1. Ahead /\ PostingAhead
      BY <2>1, <2>6 DEF ClipInv, AtLoad, ProgramTypes
    <3>2. e = fe /\ posted[fe] = Front(n + 1)
      BY <2>4, <3>1 DEF PostingAhead, FrontAhead, NoneInFlight, Held, Current, Filling
    <3>3. QED BY <2>4, <2>5, <3>1, <3>2
  <2>7. CASE mpc = "network"
    <3>1. AtNetwork
      BY <2>1, <2>7 DEF ClipInv
    <3>2. CASE in_flight[e]
      BY <2>4, <2>5, <3>1, <3>2 DEF AtNetwork, FrontAhead, NoneInFlight
    <3>3. CASE ~in_flight[e]
      <4>1. heng = e /\ hpc \in {"bell", "poll", "collect", "gaveup"}
        BY <2>4, <3>3 DEF Held
      <4>2. node # 1 /\ posted[e] = Node[n][node - 1]
        BY <3>1, <4>1 DEF AtNetwork, CallOf, Current, Filling
      <4>3. node - 1 \in DOMAIN NodeEngines /\ BufferOf(n) \in 0..1
        BY <2>1, <2>3, <4>2, ProgramJobs DEF ProgramTypes, BufferOf, ClipNumbers
      <4>4. QED BY <2>3, <2>4, <4>2, <4>3, FeaturesApart DEF Front
    <3>4. QED BY <3>2, <3>3
  <2>8. QED BY <2>6, <2>7
<1>2. QED BY <1>1, UndisturbedInvariant, PTL DEF ProgramSpec, FeaturesHeld
==============================================================================
