---------------------------- MODULE HesMeshOffload ----------------------------
(***************************************************************************)
(* HesMesh, whose waits never run out, implements Offload: the mailbox,    *)
(* the doorbell, the staging and the barrier together look to the caller   *)
(* like an engine that holds one job and answers it.                       *)
(***************************************************************************)
EXTENDS HesMesh

(* An engine is idle for its caller until a job number is published. *)
phaseBar == [e \in Engines |->
               IF ~Held(e) THEN "idle"
               ELSE IF done_seq[e] = next_seq[e] THEN "answered" ELSE "pending"]

(* The caller learns the verdict and the output only from an answer.  *)
okBar == [e \in Engines |-> phaseBar[e] = "answered" /\ ~error[e] /\ ~trap_cause[e]]
outputBar == [e \in Engines |->
                IF okBar[e] THEN mem[Writes(posted[e])] ELSE Blank]

(* The offload contract of hes_host.h, as one property: what the calls of  *)
(* hes_post(), hes_wait() and hes_offload() do is a behaviour of Offload.  *)
Contract == INSTANCE Offload WITH
  phase <- phaseBar, job <- posted, ok <- okBar, output <- outputBar, Nothing <- Blank

OffloadContract == Contract!Spec
==============================================================================
