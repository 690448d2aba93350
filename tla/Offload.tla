------------------------------- MODULE Offload -------------------------------
(***************************************************************************)
(* What runtime/mesh/hes_host.h promises to the program that calls it,     *)
(* with no mailbox, doorbell, barrier or DMA in sight: each engine holds   *)
(* at most one job; a job that is posted is answered once, with ok exactly *)
(* when the engine can run it; and when it is ok the output buffer holds   *)
(* that job's own result, from every core.  HesMesh implements this.       *)
(***************************************************************************)
CONSTANTS
  Engines,          \* the clusters (HES_ENGINE_SNITCH, HES_ENGINE_SPATZ)
  Jobs,             \* the descriptors a caller may hand over
  Runnable(_, _),   \* Runnable(e, j): engine e has what job j needs
  Result(_),        \* Result(j): the contents of j's output buffer once done
  Nothing           \* the answer slot while there is no answer

VARIABLES
  phase,   \* phase[e]: "idle", "pending" (posted) or "answered"
  job,     \* job[e]: the last job posted to e
  ok,      \* ok[e]: the answer's verdict, FALSE while there is none
  output   \* output[e]: the job's output buffer as the caller finds it

vars == <<phase, job, ok, output>>

Init ==
  /\ phase = [e \in Engines |-> "idle"]
  /\ job \in [Engines -> Jobs]
  /\ ok = [e \in Engines |-> FALSE]
  /\ output = [e \in Engines |-> Nothing]

(* A caller hands job j to engine e, which must hold none. *)
Post(e, j) ==
  /\ phase[e] = "idle"
  /\ phase' = [phase EXCEPT ![e] = "pending"]
  /\ job' = [job EXCEPT ![e] = j]
  /\ UNCHANGED <<ok, output>>

(* The engine answers.  Nothing is promised about the output buffer of a   *)
(* job that is refused.                                                    *)
Answer(e) ==
  /\ phase[e] = "pending"
  /\ phase' = [phase EXCEPT ![e] = "answered"]
  /\ ok' = [ok EXCEPT ![e] = Runnable(e, job[e])]
  /\ output' = [output EXCEPT ![e] =
                  IF Runnable(e, job[e]) THEN Result(job[e]) ELSE Nothing]
  /\ UNCHANGED job

(* The caller takes the answer, which frees the engine. *)
Collect(e) ==
  /\ phase[e] = "answered"
  /\ phase' = [phase EXCEPT ![e] = "idle"]
  /\ ok' = [ok EXCEPT ![e] = FALSE]
  /\ output' = [output EXCEPT ![e] = Nothing]
  /\ UNCHANGED job

Next == \E e \in Engines : (\E j \in Jobs : Post(e, j)) \/ Answer(e) \/ Collect(e)

Spec == Init /\ [][Next]_vars /\ \A e \in Engines : WF_vars(Answer(e))
==============================================================================
