------------------------------- MODULE GuiJobs --------------------------------
(***************************************************************************)
(* The job queue of the desktop front end (gui/src/app.rs, jobs.rs,        *)
(* backend.rs) and the sweep view it feeds (ui/results.rs).  The           *)
(* application handles one message at a time: what the user does, what a   *)
(* running job's stream delivers, what a report.py that was asked for      *)
(* returns.  The jobs are processes of their own: a sweep writes a row to  *)
(* sweep.jsonl and then prints it (pipeline/sweep/run.py), so the same row *)
(* reaches the application by two ways.                                    *)
(*                                                                         *)
(* Jobs run natively; logs, progress bars and the other tabs are left out. *)
(* The list of jobs is kept by id: ids are given out in increasing order,  *)
(* jobs are pushed at its end and only ever taken out, so that the list is *)
(* always in the order of the ids.                                         *)
(***************************************************************************)
EXTENDS Integers, Sequences, FiniteSets, Functions

CONSTANTS
  Dirs,         \* directories a sweep may write to
  OldRows,      \* rows an earlier session left on disk, per directory
  Cells,        \* rows a sweep produces
  Limits,       \* settings.concurrency the user may choose
  MaxJobs,      \* bound: jobs started in a behaviour
  MaxSweeps,    \* bound: only so many of them, the first, may be sweeps
  MaxReports    \* bound: reports asked for in a behaviour

None == "none"
Row  == Nat \X Nat     \* the job that wrote it, the cell

ASSUME GuiJobsAssumption ==
  /\ None \notin Dirs
  /\ OldRows \in [Dirs -> Seq(Row)]
  /\ Limits \subseteq Nat \ {0}
  /\ Cells \in Nat /\ MaxJobs \in Nat /\ MaxSweeps \in Nat /\ MaxReports \in Nat

VARIABLES
  app,       \* the application: jobs, settings, sweep view (struct App)
  proc,      \* per job id, its process
  events,    \* per job id, JobEvents on their way to the application
  disk,      \* sweep.jsonl of every directory
  reports    \* report.py runs in flight, by number

vars == <<app, proc, events, disk, reports>>

Ids == 1..MaxJobs
Live0 == [dir |-> None, running |-> FALSE]

Indices(js, status) == {i \in DOMAIN js : js[i].status = status}
Active(job) == job.status \in {"queued", "running"}

(* pump(): queued jobs start, first come first served, while there is room. *)
RoomFor(js, i, limit) ==
  Cardinality({j \in Indices(js, "queued") : j < i}) + Cardinality(Indices(js, "running")) < limit
RoomOfItsOwn(js, i, limit) == Cardinality({j \in Indices(js, "queued") : j < i}) < limit
RoomForLast(js, i, limit) ==
  Cardinality({j \in Indices(js, "queued") : j > i}) + Cardinality(Indices(js, "running")) < limit
Starts(js, i, limit) == RoomFor(js, i, limit)
Pump(a) ==
  [a EXCEPT !.jobs = [i \in DOMAIN a.jobs |->
     IF a.jobs[i].status = "queued" /\ Starts(a.jobs, i, a.limit)
       THEN [a.jobs[i] EXCEPT !.status = "running"] ELSE a.jobs[i]]]

NeverPump(a) == a
PumpAfter(a) == Pump(a)

------------------------------------------------------------------------------
(* The sweep view. *)

Reload(a) == [a EXCEPT !.rows = IF a.current = None THEN @ ELSE disk[a.current]]

ViewSelect(a, dir) ==
  Reload([a EXCEPT !.report = IF a.current = dir THEN @ ELSE None, !.current = dir])

(* analyse(): a task runs report.py on the directory shown now.            *)
Analyse(a) ==
  IF a.current = None THEN a
  ELSE [a EXCEPT !.analysing = TRUE, !.asked = Append(@, a.current)]

LiveIs(a, dir) == a.live.dir = dir
Unlive(a, dir) == IF LiveIs(a, dir) THEN [a EXCEPT !.live.running = FALSE] ELSE a

(* A report that was asked for becomes a process.                          *)
Asked(a) ==
  /\ app' = [a EXCEPT !.asked = <<>>, !.nreports = @ + Len(a.asked)]
  /\ reports' = reports \cup {[k |-> app.nreports + i, dir |-> a.asked[i]] : i \in DOMAIN a.asked}

MayAsk == app.nreports < MaxReports

------------------------------------------------------------------------------
(* What the user does.                                                     *)

Enqueue(a, kind, out) ==
  LET job == [kind |-> kind, out |-> out, status |-> "queued", pid |-> FALSE]
  IN  [a EXCEPT !.next_id = @ + 1,
                !.jobs = [i \in DOMAIN @ \cup {a.next_id} |-> IF i = a.next_id THEN job ELSE @[i]]]

StartRun ==
  /\ app.next_id \in Ids
  /\ Asked(PumpAfter(Enqueue(app, "run", None)))
  /\ UNCHANGED <<proc, events, disk>>

(* The button is off while a sweep into that directory is queued or runs.  *)
StartSweep(dir) ==
  /\ app.next_id \in Ids /\ app.next_id <= MaxSweeps
  /\ \A i \in DOMAIN app.jobs : ~(Active(app.jobs[i]) /\ app.jobs[i].out = dir)
  /\ LET shown == ViewSelect(Enqueue(app, "sweep", dir), dir)
     IN  Asked(PumpAfter([shown EXCEPT !.live = [dir |-> dir, running |-> TRUE]]))
  /\ UNCHANGED <<proc, events, disk>>

(* Cancel: a queued job is taken back, a running one's process group is    *)
(* signalled if its pid is known.                                          *)
CancelQueuedOnly(a, job) == a
CancelQueued(a, job) == IF job.kind = "sweep" THEN Unlive(a, job.out) ELSE a
Cancel(i) ==
  LET job == app.jobs[i] IN
  /\ i \in DOMAIN app.jobs
  /\ \/ /\ job.status = "queued"
        /\ app' = CancelQueued([app EXCEPT !.jobs[i].status = "cancelled"], job)
        /\ UNCHANGED proc
     \/ /\ job.status = "running"
        /\ app' = [app EXCEPT !.cancel_requested = @ \cup {i}]
        /\ proc' = IF job.pid THEN [proc EXCEPT ![i].signalled = TRUE] ELSE proc
  /\ UNCHANGED <<events, disk, reports>>

ClearFinished ==
  /\ app' = [app EXCEPT !.jobs = Restrict(@, {i \in DOMAIN @ : Active(@[i])})]
  /\ UNCHANGED <<proc, events, disk, reports>>

Apply(limit) ==
  /\ app' = PumpAfter([app EXCEPT !.limit = limit])
  /\ UNCHANGED <<proc, events, disk, reports>>

Refresh ==
  /\ app' = Reload(app)
  /\ UNCHANGED <<proc, events, disk, reports>>

Select(dir) ==
  /\ MayAsk
  /\ LET a == ViewSelect(app, dir)
     IN  Asked(IF a.rows # <<>> /\ ~(LiveIs(a, dir) /\ a.live.running) THEN Analyse(a) ELSE a)
  /\ UNCHANGED <<proc, events, disk>>

(* The button is on when there are rows and no report is being made.       *)
AskReport ==
  /\ MayAsk /\ app.current # None /\ ~app.analysing /\ app.rows # <<>>
  /\ Asked(Analyse(app))
  /\ UNCHANGED <<proc, events, disk>>

------------------------------------------------------------------------------
(* What jobs and reports deliver.                                          *)

(* on_sweep_event(): only the sweep the view follows is shown.             *)
OnSweepEvent(a, dir, e) ==
  CASE ~LiveIs(a, dir) -> a
    [] LiveIs(a, dir) /\ e.type = "done" -> Unlive(a, dir)
    [] LiveIs(a, dir) /\ e.type = "row" ->
         IF a.current = dir THEN [a EXCEPT !.rows = Append(@, e.row), !.report = None] ELSE a

(* finished(): a sweep's rows are read again and analysed if it is shown.  *)
FinishedUnread(a, job) == IF job.kind = "sweep" THEN Unlive(a, job.out) ELSE a
Finished(a, job) ==
  CASE job.kind = "run" -> a
    [] job.kind = "sweep" ->
         LET b == Unlive(a, job.out)
         IN  IF b.current = job.out THEN Analyse(Reload(b)) ELSE b

Ended(a, i, status) == PumpAfter(Finished([a EXCEPT !.jobs[i].status = status], a.jobs[i]))

ExitedContains(a, i) == Ended(a, i, IF i \in a.cancel_requested THEN "cancelled" ELSE "finished")
Exited(a, i) == Ended([a EXCEPT !.cancel_requested = @ \ {i}], i,
                      IF i \in a.cancel_requested THEN "cancelled" ELSE "finished")

(* on_job_event(); an event of a job that is no longer listed is dropped.  *)
OnJobEvent(a, id, e) ==
  CASE e.type = "started" -> [a EXCEPT !.jobs[id].pid = TRUE]
    [] e.type \in {"row", "done"} -> OnSweepEvent(a, a.jobs[id].out, e)
    [] e.type = "spawn_failed" -> Ended(a, id, "failed")
    [] e.type = "exited" -> Exited(a, id)

Deliver(id) ==
  /\ events[id] # <<>>
  /\ events' = [events EXCEPT ![id] = Tail(@)]
  /\ Asked(IF id \in DOMAIN app.jobs THEN OnJobEvent(app, id, Head(events[id])) ELSE app)
  /\ UNCHANGED <<proc, disk>>

(* Analysed: a report of a directory that is not shown any more is dropped. *)
TakeAnyReport(a, r) == [a EXCEPT !.analysing = FALSE, !.report = r.dir]
TakeReport(a, r) == IF a.current = r.dir THEN TakeAnyReport(a, r) ELSE a
Analysed(r) ==
  /\ app' = TakeReport(app, r)
  /\ reports' = reports \ {r}
  /\ UNCHANGED <<proc, events, disk>>

------------------------------------------------------------------------------
(* The processes.                                                          *)

Send(id, e) == events' = [events EXCEPT ![id] = Append(@, e)]

(* jobs::run(): the process starts, or cannot.                             *)
Spawn(id) ==
  /\ proc[id].pc = "new"
  /\ id \in DOMAIN app.jobs /\ app.jobs[id].status = "running"
  /\ \/ proc' = [proc EXCEPT ![id].pc = "boot"] /\ Send(id, [type |-> "started"])
     \/ proc' = [proc EXCEPT ![id].pc = "gone"] /\ Send(id, [type |-> "spawn_failed"])
  /\ UNCHANGED <<app, disk, reports>>

(* run.py truncates sweep.jsonl, then for every cell writes the row and    *)
(* prints it.                                                              *)
OpenRows(id) ==
  /\ proc[id].pc = "boot" /\ app.jobs[id].kind = "sweep"
  /\ proc' = [proc EXCEPT ![id].pc = "cell"]
  /\ disk' = [disk EXCEPT ![app.jobs[id].out] = <<>>]
  /\ UNCHANGED <<app, events, reports>>

WriteRow(id) ==
  /\ proc[id].pc = "cell" /\ proc[id].done < Cells
  /\ proc' = [proc EXCEPT ![id].pc = "print", ![id].done = @ + 1]
  /\ disk' = [disk EXCEPT ![app.jobs[id].out] = Append(@, <<id, proc[id].done + 1>>)]
  /\ UNCHANGED <<app, events, reports>>

PrintRow(id) ==
  /\ proc[id].pc = "print"
  /\ proc' = [proc EXCEPT ![id].pc = "cell"]
  /\ Send(id, [type |-> "row", row |-> <<id, proc[id].done>>])
  /\ UNCHANGED <<app, disk, reports>>

PrintDone(id) ==
  /\ proc[id].pc = "cell" /\ proc[id].done = Cells
  /\ proc' = [proc EXCEPT ![id].pc = "ending"]
  /\ Send(id, [type |-> "done"])
  /\ UNCHANGED <<app, disk, reports>>

(* The process ends: at its end, by an error of its own, or by the signal. *)
Exit(id) ==
  /\ proc[id].pc \in {"boot", "cell", "print", "ending"}
  /\ proc' = [proc EXCEPT ![id].pc = "gone"]
  /\ Send(id, [type |-> "exited"])
  /\ UNCHANGED <<app, disk, reports>>

------------------------------------------------------------------------------
Init ==
  /\ app = [jobs |-> <<>>, next_id |-> 1, limit |-> 1, cancel_requested |-> {}, live |-> Live0,
            current |-> None, rows |-> <<>>, report |-> None, analysing |-> FALSE,
            asked |-> <<>>, nreports |-> 0]
  /\ proc = [id \in Ids |-> [pc |-> "new", done |-> 0, signalled |-> FALSE]]
  /\ events = [id \in Ids |-> <<>>]
  /\ disk = OldRows /\ reports = {}

User ==
  \/ StartRun
  \/ \E dir \in Dirs : StartSweep(dir)
  \/ \E i \in DOMAIN app.jobs : Cancel(i)
  \/ ClearFinished
  \/ \E limit \in Limits : Apply(limit)
  \/ Refresh
  \/ \E dir \in Dirs : Select(dir)
  \/ AskReport

Step(id) == Spawn(id) \/ OpenRows(id) \/ WriteRow(id) \/ PrintRow(id) \/ PrintDone(id) \/ Exit(id)

Next == \/ User
        \/ \E id \in Ids : Deliver(id) \/ Step(id)
        \/ \E r \in reports : Analysed(r)

Spec == Init /\ [][Next]_vars

------------------------------------------------------------------------------
Running(a) == Cardinality(Indices(a.jobs, "running"))
Sweeping(dir) == \E i \in DOMAIN app.jobs : Active(app.jobs[i]) /\ app.jobs[i].out = dir

(* The event that says the process has ended, or never began.              *)
Ending == {"exited", "spawn_failed"}
EndIsComing(id) == \E k \in DOMAIN events[id] : events[id][k].type \in Ending

(* A cancelled or finished job has no process behind it and nothing on the *)
(* way, one that runs has one or its end is on the way, and the request to *)
(* cancel a job that ran is not kept beyond it (app.rs:241-250, 428-446).  *)
StatusIsTrue ==
  \A id \in DOMAIN app.jobs :
    LET status == app.jobs[id].status
    IN  /\ CASE status = "queued" -> proc[id].pc = "new"
             [] status = "running" -> proc[id].pc = "gone" <=> EndIsComing(id)
             [] OTHER -> proc[id].pc \in {"new", "gone"} /\ events[id] = <<>>
        /\ id \in app.cancel_requested => status \in {"running", "failed"}

(* Jobs start in the order they were queued, and only while there is room  *)
(* (jobs.rs:1, "a FIFO queue"; app.rs:191-209).                            *)
StartsInOrder ==
  [][/\ Running(app') > Running(app) => Running(app') <= app'.limit
     /\ \A i, j \in DOMAIN app'.jobs :
          i < j /\ app'.jobs[i].status = "queued" => app'.jobs[j].status # "running"]_vars

(* No idle slot: if a job waits, as many run as may.                       *)
NoIdleSlot == Indices(app.jobs, "queued") # {} => Running(app) >= app.limit

(* The sweep shown as running is running, or waiting to (app.rs:164-179):  *)
(* no cancelled, failed or forgotten sweep leaves the bar moving.          *)
LiveIsReal == app.live.running => Sweeping(app.live.dir)

(* Once no sweep writes the directory that is shown, the view shows the    *)
(* rows that are there, whatever was shown and selected meanwhile.         *)
SettledRowsAreOnDisk == app.current # None /\ ~Sweeping(app.current) =>
                          app.rows = disk[app.current]

(* A report shown is one of the directory shown.                           *)
ReportIsOfCurrent == app.report # None => app.report = app.current

(* gui/src/backend.rs:237-238, "Stop a running job. ... Native: the        *)
(* process group": a job being cancelled whose pid is known has been       *)
(* signalled, or is over.                                                  *)
CancelSignals == \A id \in DOMAIN app.jobs :
  id \in app.cancel_requested /\ app.jobs[id].pid => proc[id].signalled \/ proc[id].pc = "gone"
==============================================================================
