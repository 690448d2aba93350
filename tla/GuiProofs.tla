------------------------------- MODULE GuiProofs -------------------------------
(***************************************************************************)
(* Theorems about GuiJobs, for any number of jobs, directories, rows and   *)
(* reports and whatever concurrency the user chooses.                      *)
(***************************************************************************)
EXTENDS GuiJobs, FiniteSetTheorems, WellFoundedInduction, TLAPS

Statuses == {"queued", "running", "finished", "cancelled", "failed"}
Stages   == {"new", "boot", "cell", "print", "ending", "gone"}
Under    == {"boot", "cell", "print", "ending"}
Shown    == Dirs \cup {None}

Job      == [kind : {"run", "sweep"}, out : Shown, status : Statuses, pid : BOOLEAN]
JobLists == UNION {[L -> Job] : L \in SUBSET Ids}
Event    == [type : {"started", "done", "spawn_failed", "exited"}]
              \cup [type : {"row"}, row : Row]
Apps     == [jobs : JobLists, next_id : Nat, limit : Nat, cancel_requested : SUBSET Ids,
             live : [dir : Shown, running : BOOLEAN], current : Shown, rows : Seq(Row),
             report : Shown, analysing : BOOLEAN, asked : Seq(Dirs), nreports : Nat]
Procs    == [Ids -> [pc : Stages, done : Nat, signalled : BOOLEAN]]
Streams  == [Ids -> Seq(Event)]
Disks    == [Dirs -> Seq(Row)]

TypeOK ==
  /\ app \in Apps /\ proc \in Procs /\ events \in Streams /\ disk \in Disks
  /\ reports \subseteq [k : Nat, dir : Dirs]

------------------------------------------------------------------------------
(* What the application's operators do to its fields.                      *)

LEMMA JobListIs ==
  ASSUME NEW js
  PROVE  js \in JobLists <=> DOMAIN js \in SUBSET Ids /\ js \in [DOMAIN js -> Job]
  BY DEF JobLists

(* b differs from a in its jobs only, and has the same ones listed.        *)
JobsMoved(a, b) ==
  /\ b = [a EXCEPT !.jobs = b.jobs]
  /\ b.jobs \in JobLists /\ DOMAIN b.jobs = DOMAIN a.jobs
  /\ \A i \in DOMAIN a.jobs : b.jobs[i].kind = a.jobs[i].kind /\ b.jobs[i].out = a.jobs[i].out

LEMMA JobsMovedTypes ==
  ASSUME NEW a \in Apps, NEW b, JobsMoved(a, b)
  PROVE  /\ b \in Apps
         /\ b.next_id = a.next_id /\ b.limit = a.limit
         /\ b.cancel_requested = a.cancel_requested /\ b.live = a.live
         /\ b.current = a.current /\ b.rows = a.rows /\ b.report = a.report
         /\ b.analysing = a.analysing /\ b.asked = a.asked /\ b.nreports = a.nreports
  BY DEF JobsMoved, Apps

LEMMA PumpIs ==
  ASSUME NEW a \in Apps
  PROVE  /\ JobsMoved(a, Pump(a))
         /\ \A i \in DOMAIN a.jobs :
              Pump(a).jobs[i].status =
                IF a.jobs[i].status = "queued" /\ Starts(a.jobs, i, a.limit)
                  THEN "running" ELSE a.jobs[i].status
<1>1. DOMAIN a.jobs \in SUBSET Ids /\ a.jobs \in [DOMAIN a.jobs -> Job]
  BY JobListIs DEF Apps
<1> DEFINE J(i) == IF a.jobs[i].status = "queued" /\ Starts(a.jobs, i, a.limit)
                     THEN [a.jobs[i] EXCEPT !.status = "running"] ELSE a.jobs[i]
<1>2. \A i \in DOMAIN a.jobs :
        /\ J(i) \in Job /\ J(i).kind = a.jobs[i].kind /\ J(i).out = a.jobs[i].out
        /\ J(i).status = IF a.jobs[i].status = "queued" /\ Starts(a.jobs, i, a.limit)
                           THEN "running" ELSE a.jobs[i].status
  BY <1>1 DEF Job, Statuses
<1>3. Pump(a) = [a EXCEPT !.jobs = [i \in DOMAIN a.jobs |-> J(i)]]
  BY DEF Pump
<1>4. Pump(a).jobs = [i \in DOMAIN a.jobs |-> J(i)]
  BY <1>3 DEF Apps
<1>5. Pump(a).jobs \in JobLists
  BY <1>1, <1>2, <1>4, JobListIs
<1> HIDE DEF J
<1>6. QED BY <1>2, <1>3, <1>4, <1>5 DEF JobsMoved

LEMMA StatusSet ==
  ASSUME NEW a \in Apps, NEW id \in DOMAIN a.jobs, NEW s \in Statuses
  PROVE  LET b == [a EXCEPT !.jobs[id].status = s]
         IN  /\ JobsMoved(a, b)
             /\ \A i \in DOMAIN a.jobs :
                  b.jobs[i].status = IF i = id THEN s ELSE a.jobs[i].status
<1>1. DOMAIN a.jobs \in SUBSET Ids /\ a.jobs \in [DOMAIN a.jobs -> Job]
  BY JobListIs DEF Apps
<1> DEFINE b == [a EXCEPT !.jobs[id].status = s]
<1>2. b.jobs = [a.jobs EXCEPT ![id] = [@ EXCEPT !.status = s]] /\ b = [a EXCEPT !.jobs = b.jobs]
  BY DEF Apps
<1>3. [a.jobs[id] EXCEPT !.status = s] \in Job
  BY <1>1 DEF Job
<1>4. b.jobs \in JobLists
  BY <1>1, <1>2, <1>3, JobListIs
<1>5. \A i \in DOMAIN a.jobs : 
        /\ b.jobs[i].kind = a.jobs[i].kind /\ b.jobs[i].out = a.jobs[i].out
        /\ b.jobs[i].status = IF i = id THEN s ELSE a.jobs[i].status
  BY <1>1, <1>2 DEF Job
<1>6. DOMAIN b.jobs = DOMAIN a.jobs
  BY <1>1, <1>2
<1>7. QED BY <1>2, <1>4, <1>5, <1>6 DEF JobsMoved

LEMMA PidSet ==
  ASSUME NEW a \in Apps, NEW id \in DOMAIN a.jobs
  PROVE  LET b == [a EXCEPT !.jobs[id].pid = TRUE]
         IN  /\ JobsMoved(a, b)
             /\ \A i \in DOMAIN a.jobs : b.jobs[i].status = a.jobs[i].status
<1>1. DOMAIN a.jobs \in SUBSET Ids /\ a.jobs \in [DOMAIN a.jobs -> Job]
  BY JobListIs DEF Apps
<1> DEFINE b == [a EXCEPT !.jobs[id].pid = TRUE]
<1>2. b.jobs = [a.jobs EXCEPT ![id] = [@ EXCEPT !.pid = TRUE]] /\ b = [a EXCEPT !.jobs = b.jobs]
  BY DEF Apps
<1>3. [a.jobs[id] EXCEPT !.pid = TRUE] \in Job
  BY <1>1 DEF Job
<1>4. b.jobs \in JobLists
  BY <1>1, <1>2, <1>3, JobListIs
<1>5. \A i \in DOMAIN a.jobs : 
        /\ b.jobs[i].kind = a.jobs[i].kind /\ b.jobs[i].out = a.jobs[i].out
        /\ b.jobs[i].status = a.jobs[i].status
  BY <1>1, <1>2 DEF Job
<1>6. DOMAIN b.jobs = DOMAIN a.jobs
  BY <1>1, <1>2
<1>7. QED BY <1>2, <1>4, <1>5, <1>6 DEF JobsMoved

LEMMA EnqueueIs ==
  ASSUME NEW a \in Apps, a.next_id \in Ids, a.next_id \notin DOMAIN a.jobs,
         NEW kind \in {"run", "sweep"}, NEW out \in Shown
  PROVE  LET b == Enqueue(a, kind, out)
             n == a.next_id
         IN  /\ b.jobs \in JobLists /\ DOMAIN b.jobs = DOMAIN a.jobs \cup {n}
             /\ \A i \in DOMAIN a.jobs : b.jobs[i] = a.jobs[i]
             /\ b.jobs[n].kind = kind /\ b.jobs[n].out = out /\ b.jobs[n].status = "queued"
             /\ b \in Apps /\ b.next_id = n + 1 /\ b.limit = a.limit
             /\ b.cancel_requested = a.cancel_requested /\ b.live = a.live
             /\ b.current = a.current /\ b.rows = a.rows /\ b.report = a.report
             /\ b.analysing = a.analysing /\ b.asked = a.asked /\ b.nreports = a.nreports
<1> DEFINE n == a.next_id
           new == [kind |-> kind, out |-> out, status |-> "queued", pid |-> FALSE]
           js == [i \in DOMAIN a.jobs \cup {n} |-> IF i = n THEN new ELSE a.jobs[i]]
           b == Enqueue(a, kind, out)
<1>1. DOMAIN a.jobs \in SUBSET Ids /\ a.jobs \in [DOMAIN a.jobs -> Job]
  BY JobListIs DEF Apps
<1>2. b = [a EXCEPT !.next_id = n + 1, !.jobs = js]
  BY DEF Enqueue, Apps
<1>3. new \in Job
  BY DEF Job, Statuses
<1>4. js \in JobLists
  BY <1>1, <1>3, JobListIs
<1>5. n + 1 \in Nat
  BY DEF Apps
<1>6. b \in Apps /\ b.jobs = js /\ b.next_id = n + 1
  BY <1>2, <1>4, <1>5 DEF Apps
<1>7. /\ b.limit = a.limit
      /\ b.cancel_requested = a.cancel_requested /\ b.live = a.live
      /\ b.current = a.current /\ b.rows = a.rows /\ b.report = a.report
      /\ b.analysing = a.analysing /\ b.asked = a.asked /\ b.nreports = a.nreports
  BY <1>2 DEF Apps
<1>8. \A i \in DOMAIN a.jobs : js[i] = a.jobs[i]
  OBVIOUS
<1>9. js[n].kind = kind /\ js[n].out = out /\ js[n].status = "queued"
  OBVIOUS
<1>10. DOMAIN js = DOMAIN a.jobs \cup {n}
  OBVIOUS
<1> HIDE DEF b, js
<1>11. QED BY <1>2, <1>4, <1>6, <1>7, <1>8, <1>9, <1>10 DEF b

(* b differs from a in the sweep view and in what it asks for.             *)
ViewMoved(a, b) ==
  /\ b \in Apps
  /\ b.jobs = a.jobs /\ b.next_id = a.next_id /\ b.limit = a.limit
  /\ b.cancel_requested = a.cancel_requested

LEMMA ReloadIs ==
  ASSUME NEW a \in Apps, disk \in Disks
  PROVE  /\ ViewMoved(a, Reload(a))
         /\ Reload(a).live = a.live /\ Reload(a).current = a.current
         /\ Reload(a).report = a.report
         /\ Reload(a).rows = IF a.current = None THEN a.rows ELSE disk[a.current]
<1>1. a.current # None => disk[a.current] \in Seq(Row)
  BY DEF Apps, Disks, Shown
<1>2. QED BY <1>1 DEF Reload, ViewMoved, Apps

LEMMA ViewSelectIs ==
  ASSUME NEW a \in Apps, disk \in Disks, NEW dir \in Dirs
  PROVE  LET b == ViewSelect(a, dir)
         IN  /\ ViewMoved(a, b)
             /\ b.live = a.live /\ b.current = dir /\ b.rows = disk[dir]
             /\ b.report = IF a.current = dir THEN a.report ELSE None
<1> DEFINE c == [a EXCEPT !.report = IF a.current = dir THEN @ ELSE None, !.current = dir]
<1>1. dir # None
  BY GuiJobsAssumption
<1>2. /\ ViewMoved(a, c) /\ c.live = a.live /\ c.current = dir /\ c \in Apps
      /\ c.report = IF a.current = dir THEN a.report ELSE None
  BY DEF ViewMoved, Apps, Shown
<1>3. ViewSelect(a, dir) = Reload(c)
  BY DEF ViewSelect
<1> HIDE DEF c
<1>4. QED BY <1>1, <1>2, <1>3, ReloadIs DEF ViewMoved

LEMMA AnalyseIs ==
  ASSUME NEW a \in Apps
  PROVE  /\ ViewMoved(a, Analyse(a))
         /\ Analyse(a).live = a.live /\ Analyse(a).current = a.current
         /\ Analyse(a).rows = a.rows /\ Analyse(a).report = a.report
<1>1. CASE a.current = None
  BY <1>1 DEF Analyse, ViewMoved
<1>2. CASE a.current # None
  <2>1. Append(a.asked, a.current) \in Seq(Dirs)
    BY <1>2 DEF Apps, Shown
  <2>2. Analyse(a) = [a EXCEPT !.analysing = TRUE, !.asked = Append(a.asked, a.current)]
    BY <1>2 DEF Analyse
  <2>3. QED BY <2>1, <2>2 DEF Apps, ViewMoved
<1>3. QED BY <1>1, <1>2

LEMMA UnliveIs ==
  ASSUME NEW a \in Apps, NEW dir
  PROVE  /\ ViewMoved(a, Unlive(a, dir))
         /\ Unlive(a, dir).live.dir = a.live.dir
         /\ Unlive(a, dir).live.running = (a.live.running /\ a.live.dir # dir)
         /\ Unlive(a, dir).current = a.current
         /\ Unlive(a, dir).rows = a.rows /\ Unlive(a, dir).report = a.report
<1>1. CASE LiveIs(a, dir)
  <2>1. Unlive(a, dir) = [a EXCEPT !.live = [@ EXCEPT !.running = FALSE]]
    BY <1>1 DEF Unlive
  <2>2. [a.live EXCEPT !.running = FALSE] \in [dir : Shown, running : BOOLEAN]
    BY DEF Apps
  <2>3. QED BY <1>1, <2>1, <2>2 DEF LiveIs, ViewMoved, Apps
<1>2. CASE ~LiveIs(a, dir)
  BY <1>2 DEF Unlive, LiveIs, ViewMoved, Apps
<1>3. QED BY <1>1, <1>2

(* Of a job's event the view takes rows, if they are of the directory both *)
(* followed and shown, and the end.                                        *)
LEMMA OnSweepEventIs ==
  ASSUME NEW a \in Apps, NEW dir, NEW e \in Event, e.type \in {"row", "done"}
  PROVE  LET b == OnSweepEvent(a, dir, e)
         IN  /\ ViewMoved(a, b)
             /\ b.live.dir = a.live.dir /\ (b.live.running => a.live.running)
             /\ b.current = a.current
             /\ a.current # dir => b.rows = a.rows
             /\ b.report \in {a.report, None}
<1>1. CASE ~LiveIs(a, dir)
  BY <1>1 DEF OnSweepEvent, ViewMoved
<1>2. CASE LiveIs(a, dir) /\ e.type = "done"
  BY <1>2, UnliveIs DEF OnSweepEvent
<1>3. CASE LiveIs(a, dir) /\ e.type = "row" /\ a.current # dir
  BY <1>3 DEF OnSweepEvent, ViewMoved
<1>4. CASE LiveIs(a, dir) /\ e.type = "row" /\ a.current = dir
  <2>1. Append(a.rows, e.row) \in Seq(Row)
    BY <1>4 DEF Apps, Event
  <2>2. OnSweepEvent(a, dir, e) = [a EXCEPT !.rows = Append(a.rows, e.row), !.report = None]
    BY <1>4 DEF OnSweepEvent
  <2>3. QED BY <1>4, <2>1, <2>2 DEF ViewMoved, Apps, Shown
<1>5. QED BY <1>1, <1>2, <1>3, <1>4

LEMMA FinishedIs ==
  ASSUME NEW a \in Apps, disk \in Disks, NEW job \in Job
  PROVE  LET b == Finished(a, job)
         IN  /\ ViewMoved(a, b)
             /\ b.live.dir = a.live.dir
             /\ b.live.running = (a.live.running /\ (job.kind = "sweep" => a.live.dir # job.out))
             /\ b.current = a.current /\ b.report = a.report
             /\ b.rows = IF job.kind = "sweep" /\ a.current = job.out /\ a.current # None
                           THEN disk[a.current] ELSE a.rows
<1>1. CASE job.kind = "run"
  BY <1>1 DEF Finished, ViewMoved, Apps
<1>2. CASE job.kind = "sweep"
  <2> DEFINE u == Unlive(a, job.out)
  <2>1. /\ ViewMoved(a, u) /\ u.live.dir = a.live.dir
        /\ u.live.running = (a.live.running /\ a.live.dir # job.out)
        /\ u.current = a.current /\ u.rows = a.rows /\ u.report = a.report
    BY UnliveIs
  <2>2. Finished(a, job) = IF u.current = job.out THEN Analyse(Reload(u)) ELSE u
    BY <1>2 DEF Finished
  <2> HIDE DEF u
  <2>3. ViewMoved(u, Reload(u)) /\ Reload(u).live = u.live /\ Reload(u).current = u.current
        /\ Reload(u).report = u.report
        /\ Reload(u).rows = IF u.current = None THEN u.rows ELSE disk[u.current]
    BY <2>1, ReloadIs DEF ViewMoved
  <2>4. LET r == Reload(u)
        IN  /\ ViewMoved(r, Analyse(r)) /\ Analyse(r).live = r.live
            /\ Analyse(r).current = r.current /\ Analyse(r).rows = r.rows
            /\ Analyse(r).report = r.report
    BY <2>3, AnalyseIs DEF ViewMoved
  <2>5. QED BY <1>2, <2>1, <2>2, <2>3, <2>4 DEF ViewMoved
<1>3. job.kind \in {"run", "sweep"}
  BY DEF Job
<1>4. QED BY <1>1, <1>2, <1>3

(* The reports asked for become processes, and nothing else changes.       *)
LEMMA AskedIs ==
  ASSUME NEW a \in Apps, TypeOK, Asked(a)
  PROVE  /\ ViewMoved(a, app') /\ app'.live = a.live /\ app'.current = a.current
         /\ app'.rows = a.rows /\ app'.report = a.report
         /\ reports' \subseteq [k : Nat, dir : Dirs]
<1>1. a.asked \in Seq(Dirs) /\ <<>> \in Seq(Dirs) /\ a.nreports + Len(a.asked) \in Nat
  BY DEF Apps
<1>2. app' = [a EXCEPT !.asked = <<>>, !.nreports = a.nreports + Len(a.asked)]
  BY DEF Asked
<1>3. \A i \in DOMAIN a.asked : [k |-> app.nreports + i, dir |-> a.asked[i]] \in [k : Nat, dir : Dirs]
  <2>1. app.nreports \in Nat /\ \A i \in DOMAIN a.asked : i \in Nat /\ a.asked[i] \in Dirs
    BY <1>1 DEF TypeOK, Apps
  <2>2. QED BY <2>1
<1>4. reports' \subseteq [k : Nat, dir : Dirs]
  BY <1>3 DEF Asked, TypeOK
<1>5. QED BY <1>1, <1>2, <1>4 DEF ViewMoved, Apps
------------------------------------------------------------------------------
(* The inductive invariant, over a value a of the application, so that it  *)
(* can be followed through the operators that make up one message.         *)

Is(a, id, status) == id \in DOMAIN a.jobs /\ a.jobs[id].status = status
EndIn(stream) == \E k \in DOMAIN stream : stream[k].type \in Ending

(* A job that is not queued or running is over, and nothing of it is on    *)
(* its way; the event of its end is the last there is.                     *)
JobOK(a, p, s, id) ==
  /\ p[id].pc = "new" => s[id] = <<>>
  /\ \A k \in DOMAIN s[id] : s[id][k].type \in Ending => k = Len(s[id])
  /\ Is(a, id, "queued") => p[id].pc = "new" /\ id \notin a.cancel_requested
  /\ Is(a, id, "running") => (p[id].pc = "gone" <=> EndIn(s[id]))
  /\ ~Is(a, id, "queued") /\ ~Is(a, id, "running") =>
       p[id].pc \in {"new", "gone"} /\ s[id] = <<>>
  /\ p[id].pc \in {"cell", "print", "ending"} =>
       id \in DOMAIN a.jobs /\ a.jobs[id].kind = "sweep"
  /\ id \in a.cancel_requested =>
       /\ id < a.next_id
       /\ id \in DOMAIN a.jobs => Is(a, id, "running") \/ Is(a, id, "failed")
  /\ id >= a.next_id => p[id].pc = "new"

JobsOK(a, p, s) ==
  /\ \A id \in DOMAIN a.jobs :
       id < a.next_id /\ (a.jobs[id].kind = "sweep" <=> a.jobs[id].out # None)
  /\ \A id \in Ids : JobOK(a, p, s, id)

(* The view: a sweep that only waits has not touched what is shown yet.    *)
RunningInto(a, dir) == \E id \in DOMAIN a.jobs : Is(a, id, "running") /\ a.jobs[id].out = dir
ActiveInto(a, dir)  == \E id \in DOMAIN a.jobs : Active(a.jobs[id]) /\ a.jobs[id].out = dir
LiveOK(a)     == a.live.running => a.live.dir # None /\ ActiveInto(a, a.live.dir)
RowsOK(a, dk) == a.current # None /\ ~RunningInto(a, a.current) => a.rows = dk[a.current]
ReportOK(a)   == a.report # None => a.report = a.current
ViewOK(a, dk) == LiveOK(a) /\ RowsOK(a, dk) /\ ReportOK(a)

(* The queue: in order, and no slot idle.                                  *)
InOrder(a)    == \A i, j \in DOMAIN a.jobs : i < j /\ Is(a, i, "queued") => ~Is(a, j, "running")
NoIdle(a)     == Indices(a.jobs, "queued") # {} => Running(a) >= a.limit

IInv == /\ TypeOK
        /\ JobsOK(app, proc, events)
        /\ ViewOK(app, disk)
        /\ InOrder(app) /\ NoIdle(app)

------------------------------------------------------------------------------
(* The jobs, through what a message does to the application.               *)

LEMMA EnqueueKeepsJobs ==
  ASSUME NEW a \in Apps, NEW p, NEW s, JobsOK(a, p, s), a.next_id \in Ids,
         NEW kind \in {"run", "sweep"}, NEW out \in Shown, kind = "sweep" <=> out # None
  PROVE  JobsOK(Enqueue(a, kind, out), p, s)
<1> DEFINE b == Enqueue(a, kind, out)
           n == a.next_id
<1>1. n \notin DOMAIN a.jobs
  BY DEF JobsOK, Ids
<1>2. /\ DOMAIN b.jobs = DOMAIN a.jobs \cup {n}
      /\ \A i \in DOMAIN a.jobs : b.jobs[i] = a.jobs[i]
      /\ b.jobs[n].kind = kind /\ b.jobs[n].out = out /\ b.jobs[n].status = "queued"
      /\ b.next_id = n + 1 /\ b.cancel_requested = a.cancel_requested
  BY <1>1, EnqueueIs
<1> HIDE DEF b
<1>3. ASSUME NEW id \in Ids PROVE JobOK(b, p, s, id)
  <2>1. JobOK(a, p, s, id) /\ id \in Nat /\ n \in Nat
    BY DEF JobsOK, Ids
  <2>2. id \in DOMAIN b.jobs <=> id \in DOMAIN a.jobs \/ id = n
    BY <1>2
  <2>3. CASE id = n
    BY <1>1, <1>2, <2>1, <2>2, <2>3 DEF JobOK, Is
  <2>4. CASE id # n
    BY <1>2, <2>1, <2>2, <2>4 DEF JobOK, Is
  <2>5. QED BY <2>3, <2>4
<1>4. ASSUME NEW id \in DOMAIN b.jobs
      PROVE  id < b.next_id /\ (b.jobs[id].kind = "sweep" <=> b.jobs[id].out # None)
  <2>1. CASE id = n
    BY <1>2, <2>1 DEF Ids
  <2>2. CASE id # n
    <3>1. id \in DOMAIN a.jobs /\ id < n /\ id \in Nat /\ n \in Nat
      BY <1>2, <2>2, JobListIs DEF JobsOK, Apps, Ids
    <3>2. QED BY <1>2, <3>1 DEF JobsOK
  <2>3. QED BY <2>1, <2>2
<1>5. QED BY <1>3, <1>4 DEF JobsOK, b

LEMMA PumpKeepsJobs ==
  ASSUME NEW a \in Apps, NEW p, NEW s, JobsOK(a, p, s)
  PROVE  JobsOK(Pump(a), p, s)
<1> DEFINE b == Pump(a)
<1>1. JobsMoved(a, b) /\ b.next_id = a.next_id /\ b.cancel_requested = a.cancel_requested
  BY PumpIs, JobsMovedTypes
<1>2. \A i \in DOMAIN a.jobs : \/ b.jobs[i].status = a.jobs[i].status
                               \/ a.jobs[i].status = "queued" /\ b.jobs[i].status = "running"
  BY PumpIs
<1> HIDE DEF b
<1>3. ASSUME NEW id \in Ids PROVE JobOK(b, p, s, id)
  BY <1>1, <1>2 DEF JobsOK, JobOK, Is, JobsMoved, EndIn
<1>4. QED BY <1>1, <1>3 DEF JobsOK, JobsMoved, b

LEMMA ViewKeepsJobs ==
  ASSUME NEW a, NEW b, NEW p, NEW s, JobsOK(a, p, s), ViewMoved(a, b)
  PROVE  JobsOK(b, p, s)
  BY DEF JobsOK, JobOK, Is, ViewMoved

(* A job that is over may keep no cancel request but that of a failed one. *)
LEMMA OverKeepsJobs ==
  ASSUME NEW a \in Apps, NEW id \in DOMAIN a.jobs, NEW p, NEW s, NEW t, NEW status \in Statuses,
         JobsOK(a, p, s), status \notin {"queued", "running"},
         id \in a.cancel_requested => status = "failed",
         p[id].pc \in {"new", "gone"}, t[id] = <<>>, \A i \in Ids \ {id} : t[i] = s[i]
  PROVE  JobsOK([a EXCEPT !.jobs[id].status = status], p, t)
<1> DEFINE b == [a EXCEPT !.jobs[id].status = status]
<1>1. JobsMoved(a, b) /\ b.next_id = a.next_id /\ b.cancel_requested = a.cancel_requested
  BY StatusSet, JobsMovedTypes
<1>2. \A i \in DOMAIN a.jobs : b.jobs[i].status = IF i = id THEN status ELSE a.jobs[i].status
  BY StatusSet
<1> HIDE DEF b
<1>3. ASSUME NEW i \in Ids, i # id PROVE JobOK(b, p, t, i)
  BY <1>1, <1>2, <1>3 DEF JobsOK, JobOK, Is, JobsMoved, EndIn
<1>4. ASSUME id \in Ids PROVE JobOK(b, p, t, id)
  BY <1>1, <1>2, <1>4 DEF JobsOK, JobOK, Is, JobsMoved, EndIn
<1>5. QED BY <1>1, <1>3, <1>4 DEF JobsOK, JobsMoved, b

LEMMA NoneLeft ==
  ASSUME NEW T, NEW u \in Seq(T), Len(u) = 0
  PROVE  u = <<>>
  OBVIOUS

LEMMA TailIs ==
  ASSUME NEW T, NEW u \in Seq(T), u # <<>>
  PROVE  /\ Tail(u) \in Seq(T) /\ Len(Tail(u)) = Len(u) - 1
         /\ \A k \in DOMAIN Tail(u) : k \in Nat /\ k + 1 \in DOMAIN u /\ Tail(u)[k] = u[k+1]
         /\ \A k \in DOMAIN u : k # 1 => k - 1 \in DOMAIN Tail(u) /\ Tail(u)[k-1] = u[k]
<1>1. Len(u) \in Nat \ {0} /\ DOMAIN u = 1..Len(u)
  OBVIOUS
<1>2. Tail(u) \in Seq(T) /\ Len(Tail(u)) = Len(u) - 1
  OBVIOUS
<1>3. DOMAIN Tail(u) = 1..(Len(u) - 1)
  BY <1>1, <1>2
<1>4. \A k \in 1..(Len(u) - 1) : Tail(u)[k] = u[k+1]
  BY <1>1
<1>5. QED BY <1>1, <1>2, <1>3, <1>4

(* An event that is not the end is taken from the head of the stream.      *)
LEMMA TailKeepsJobs ==
  ASSUME NEW a, NEW p, NEW s \in Streams, NEW id \in Ids, JobsOK(a, p, s),
         s[id] # <<>>, Head(s[id]).type \notin Ending
  PROVE  JobsOK(a, p, [s EXCEPT ![id] = Tail(@)])
<1> DEFINE t == [s EXCEPT ![id] = Tail(@)]
<1>1. t[id] = Tail(s[id]) /\ \A i \in Ids \ {id} : t[i] = s[i]
  BY DEF Streams
<1>2. s[id] \in Seq(Event) /\ Len(s[id]) \in Nat \ {0}
  BY DEF Streams
<1>3. /\ Len(t[id]) = Len(s[id]) - 1
      /\ \A k \in DOMAIN t[id] : k + 1 \in DOMAIN s[id] /\ t[id][k] = s[id][k+1]
      /\ \A k \in DOMAIN s[id] : k # 1 => k - 1 \in DOMAIN t[id] /\ t[id][k-1] = s[id][k]
      /\ \A k \in DOMAIN t[id] : k \in Nat
  <2> DEFINE u == s[id]
  <2>1. u \in Seq(Event) /\ u # <<>> /\ t[id] = Tail(u)
    BY <1>1, <1>2
  <2> HIDE DEF u, t
  <2>2. QED BY <2>1, TailIs DEF u
<1> HIDE DEF t
<1>4. EndIn(t[id]) <=> EndIn(s[id])
  BY <1>2, <1>3 DEF EndIn
<1>5. JobOK(a, p, s, id)
  BY DEF JobsOK
<1>6. JobOK(a, p, t, id)
  <2>1. \A k \in DOMAIN t[id] : t[id][k].type \in Ending => k = Len(t[id])
    <3> SUFFICES ASSUME NEW k \in DOMAIN t[id], t[id][k].type \in Ending PROVE k = Len(t[id])
      OBVIOUS
    <3>1. k + 1 = Len(s[id])
      BY <1>3, <1>5 DEF JobOK
    <3>2. QED BY <1>2, <1>3, <3>1
  <2>2. p[id].pc # "new" /\ (Is(a, id, "queued") \/ Is(a, id, "running"))
    BY <1>5 DEF JobOK
  <2>3. QED BY <1>4, <1>5, <2>1, <2>2 DEF JobOK
<1>7. \A i \in Ids \ {id} : JobOK(a, p, t, i)
  BY <1>1 DEF JobsOK, JobOK
<1>8. QED BY <1>6, <1>7 DEF JobsOK, t

(* The process of a running job takes a step and may send an event.        *)
LEMMA StepKeepsJobs ==
  ASSUME NEW a \in Apps, NEW p, NEW q, NEW s \in Streams, NEW t, NEW id \in Ids, JobsOK(a, p, s),
         Is(a, id, "running"), p[id].pc # "gone", q[id].pc # "new",
         q[id].pc \in {"cell", "print", "ending"} => a.jobs[id].kind = "sweep",
         \A i \in Ids \ {id} : q[i] = p[i] /\ t[i] = s[i],
         \/ t[id] = s[id] /\ q[id].pc # "gone"
         \/ \E e \in Event : t[id] = Append(s[id], e) /\ (e.type \in Ending <=> q[id].pc = "gone")
  PROVE  JobsOK(a, q, t)
<1>1. JobOK(a, p, s, id)
  BY DEF JobsOK
<1>2. \A k \in DOMAIN s[id] : s[id][k].type \notin Ending
  BY <1>1 DEF JobOK, EndIn
<1>3. s[id] \in Seq(Event) /\ Len(s[id]) \in Nat
  BY DEF Streams
<1>4. /\ \A k \in DOMAIN t[id] : t[id][k].type \in Ending => k = Len(t[id])
      /\ EndIn(t[id]) <=> q[id].pc = "gone"
  <2> DEFINE Goal == /\ \A k \in DOMAIN t[id] : t[id][k].type \in Ending => k = Len(t[id])
                     /\ EndIn(t[id]) <=> q[id].pc = "gone"
  <2>1. CASE t[id] = s[id] /\ q[id].pc # "gone"
    BY <1>2, <2>1 DEF EndIn
  <2>2. ASSUME NEW e \in Event, t[id] = Append(s[id], e), e.type \in Ending <=> q[id].pc = "gone"
        PROVE  Goal
    <3>1. /\ Len(t[id]) = Len(s[id]) + 1 /\ DOMAIN t[id] = 1..(Len(s[id]) + 1)
          /\ t[id][Len(s[id]) + 1] = e
          /\ \A k \in DOMAIN s[id] : t[id][k] = s[id][k]
          /\ DOMAIN s[id] = 1..Len(s[id])
      BY <1>3, <2>2
    <3>2. \A k \in DOMAIN t[id] : t[id][k].type \in Ending => k = Len(t[id])
      BY <1>2, <1>3, <3>1
    <3>3. EndIn(t[id]) <=> e.type \in Ending
      BY <1>2, <1>3, <3>1, <3>2 DEF EndIn
    <3>4. QED BY <2>2, <3>2, <3>3
  <2>3. QED BY <2>1, <2>2
<1>5. JobOK(a, q, t, id)
  <2>1. id < a.next_id /\ id \in Nat /\ a.next_id \in Nat
    BY DEF JobsOK, Is, Apps, Ids
  <2>2. QED BY <1>1, <1>4, <2>1 DEF JobOK, Is
<1>6. \A i \in Ids \ {id} : JobOK(a, q, t, i)
  BY DEF JobsOK, JobOK
<1>7. QED BY <1>5, <1>6 DEF JobsOK

------------------------------------------------------------------------------
(* The view, through the same operators.                                   *)

LEMMA EnqueueKeepsView ==
  ASSUME NEW a \in Apps, NEW dk, ViewOK(a, dk), a.next_id \in Ids, a.next_id \notin DOMAIN a.jobs,
         NEW kind \in {"run", "sweep"}, NEW out \in Shown
  PROVE  ViewOK(Enqueue(a, kind, out), dk)
<1> DEFINE b == Enqueue(a, kind, out)
<1>1. /\ DOMAIN b.jobs = DOMAIN a.jobs \cup {a.next_id}
      /\ \A i \in DOMAIN a.jobs : b.jobs[i] = a.jobs[i]
      /\ b.live = a.live /\ b.current = a.current /\ b.rows = a.rows /\ b.report = a.report
  BY EnqueueIs
<1> HIDE DEF b
<1>2. \A dir : /\ ActiveInto(a, dir) => ActiveInto(b, dir)
               /\ RunningInto(a, dir) => RunningInto(b, dir)
  BY <1>1 DEF ActiveInto, RunningInto, Is
<1>3. QED BY <1>1, <1>2 DEF ViewOK, LiveOK, RowsOK, ReportOK, b

LEMMA PumpKeepsView ==
  ASSUME NEW a \in Apps, NEW dk, ViewOK(a, dk)
  PROVE  ViewOK(Pump(a), dk)
<1> DEFINE b == Pump(a)
<1>1. JobsMoved(a, b)
  BY PumpIs
<1>2. b.live = a.live /\ b.current = a.current /\ b.rows = a.rows /\ b.report = a.report
  BY <1>1, JobsMovedTypes
<1>3. \A i \in DOMAIN a.jobs : \/ b.jobs[i].status = a.jobs[i].status
                               \/ a.jobs[i].status = "queued" /\ b.jobs[i].status = "running"
  BY PumpIs
<1> HIDE DEF b
<1>4. \A dir : /\ ActiveInto(a, dir) => ActiveInto(b, dir)
               /\ RunningInto(a, dir) => RunningInto(b, dir)
  BY <1>1, <1>3 DEF ActiveInto, RunningInto, Is, Active, JobsMoved
<1>5. QED BY <1>2, <1>4 DEF ViewOK, LiveOK, RowsOK, ReportOK, b

(* What ends is taken out of the view and what it left is read again.      *)
LEMMA OverKeepsView ==
  ASSUME NEW a \in Apps, NEW id \in DOMAIN a.jobs, NEW status \in Statuses,
         disk \in Disks, ViewOK(a, disk),
         a.jobs[id].kind = "sweep" <=> a.jobs[id].out # None
  PROVE  ViewOK(Finished([a EXCEPT !.jobs[id].status = status], a.jobs[id]), disk)
<1> DEFINE b == [a EXCEPT !.jobs[id].status = status]
           c == Finished(b, a.jobs[id])
           out == a.jobs[id].out
<1>1. JobsMoved(a, b)
  BY StatusSet
<1>2. b \in Apps /\ b.live = a.live /\ b.current = a.current /\ b.rows = a.rows /\ b.report = a.report
  BY <1>1, JobsMovedTypes
<1>3. \A i \in DOMAIN a.jobs : i # id => b.jobs[i].status = a.jobs[i].status
  BY StatusSet
<1>4. a.jobs[id] \in Job
  BY JobListIs DEF Apps
<1> HIDE DEF b
<1>5. /\ ViewMoved(b, c) /\ c.live.dir = b.live.dir
      /\ c.live.running = (b.live.running /\ (a.jobs[id].kind = "sweep" => b.live.dir # out))
      /\ c.current = b.current /\ c.report = b.report
      /\ c.rows = IF a.jobs[id].kind = "sweep" /\ b.current = out /\ b.current # None
                    THEN disk[b.current] ELSE b.rows
  BY <1>2, <1>4, FinishedIs
<1> HIDE DEF c
<1>6. \A dir : dir # out => /\ ActiveInto(a, dir) => ActiveInto(c, dir)
                            /\ RunningInto(a, dir) => RunningInto(c, dir)
  <2> SUFFICES ASSUME NEW dir, dir # out
               PROVE  /\ ActiveInto(a, dir) => ActiveInto(c, dir)
                      /\ RunningInto(a, dir) => RunningInto(c, dir)
    OBVIOUS
  <2>1. c.jobs = b.jobs
    BY <1>5 DEF ViewMoved
  <2>2. QED BY <1>1, <1>3, <2>1 DEF ActiveInto, RunningInto, Is, Active, JobsMoved
<1>7. LiveOK(c)
  BY <1>2, <1>5, <1>6 DEF LiveOK, ViewOK
<1>8. RowsOK(c, disk)
  BY <1>2, <1>5, <1>6 DEF RowsOK, ViewOK
<1>9. ReportOK(c)
  BY <1>2, <1>5 DEF ReportOK, ViewOK
<1>10. QED BY <1>7, <1>8, <1>9 DEF ViewOK, c, b

------------------------------------------------------------------------------
(* The queue.                                                              *)

LEMMA IndicesAre ==
  ASSUME NEW js \in JobLists, NEW status
  PROVE  /\ Indices(js, status) \subseteq Ids /\ IsFiniteSet(Indices(js, status))
         /\ Cardinality(Indices(js, status)) \in Nat
<1>1. MaxJobs \in Nat
  BY GuiJobsAssumption
<1>2. IsFiniteSet(Ids)
  BY <1>1, FS_Interval DEF Ids
<1>3. Indices(js, status) \subseteq Ids
  BY JobListIs DEF Indices
<1>4. QED BY <1>2, <1>3, FS_Subset, FS_CardinalityType

Less == {p \in Nat \X Nat : p[1] < p[2]}

LEMMA Smallest ==
  ASSUME NEW T \in SUBSET Nat, T # {}
  PROVE  \E m \in T : \A n \in T : m <= n
<1>1. IsWellFoundedOn(Less, Nat)
  BY NatLessThanWellFounded DEF OpToRel, Less
<1>2. PICK m \in T : \A n \in T : ~(<<n, m>> \in Less)
  BY <1>1, WFMin
<1>3. \A n \in T : n \in Nat /\ m \in Nat
  OBVIOUS
<1>4. \A n \in T : ~(n < m)
  BY <1>2, <1>3 DEF Less
<1>5. QED BY <1>3, <1>4

LEMMA Largest ==
  ASSUME NEW N \in Nat, NEW T \in SUBSET (1..N), T # {}
  PROVE  \E m \in T : \A n \in T : n <= m
<1> DEFINE D == {N - n : n \in T}
<1>1. D \in SUBSET Nat
  OBVIOUS
<1> D # {}
  OBVIOUS
<1>2. PICK d \in D : \A k \in D : d <= k
  BY <1>1, Smallest
<1>3. PICK m \in T : d = N - m
  OBVIOUS
<1>4. \A n \in T : N - m <= N - n
  BY <1>2, <1>3
<1>5. QED BY <1>4

(* The jobs queued before a place.                                         *)
Ahead(a, i) == {j \in Indices(a.jobs, "queued") : j < i}

LEMMA StartsIs ==
  ASSUME NEW a, NEW i
  PROVE  Starts(a.jobs, i, a.limit) <=> Cardinality(Ahead(a, i)) + Running(a) < a.limit
  BY DEF Starts, RoomFor, Ahead, Running

(* A job that may start has only jobs that start before it.                *)
LEMMA StartsInARow ==
  ASSUME NEW a \in Apps, NEW i \in DOMAIN a.jobs, NEW j \in DOMAIN a.jobs, i < j,
         Starts(a.jobs, j, a.limit)
  PROVE  Starts(a.jobs, i, a.limit)
<1>1. a.jobs \in JobLists /\ a.limit \in Nat
  BY DEF Apps
<1>2. \A n \in DOMAIN a.jobs : n \in Nat
  BY <1>1, JobListIs DEF Ids
<1>3. Ahead(a, i) \subseteq Ahead(a, j)
  <2>1. \A n \in Indices(a.jobs, "queued") : n \in Nat
    BY <1>1, IndicesAre DEF Ids
  <2>2. QED BY <1>2, <2>1 DEF Ahead
<1>4. IsFiniteSet(Ahead(a, j))
  BY <1>1, IndicesAre, FS_Subset DEF Ahead
<1>5. Cardinality(Ahead(a, i)) <= Cardinality(Ahead(a, j))
      /\ Cardinality(Ahead(a, i)) \in Nat /\ Cardinality(Ahead(a, j)) \in Nat
  BY <1>3, <1>4, FS_Subset, FS_CardinalityType
<1>6. Running(a) \in Nat
  BY <1>1, IndicesAre DEF Running
<1>7. QED BY <1>1, <1>5, <1>6, StartsIs

LEMMA DisjointUnion ==
  ASSUME NEW S, IsFiniteSet(S), NEW T, IsFiniteSet(T), S \cap T = {}
  PROVE  Cardinality(S \cup T) = Cardinality(S) + Cardinality(T)
<1>1. Cardinality(S) \in Nat /\ Cardinality(T) \in Nat /\ Cardinality(S \cap T) = 0
  BY FS_CardinalityType, FS_EmptySet
<1>2. Cardinality(S \cup T) = Cardinality(S) + Cardinality(T) - Cardinality(S \cap T)
  BY FS_Union
<1>3. QED BY <1>1, <1>2

(* pump() keeps the order, leaves no slot idle, and starts no job beyond   *)
(* the limit.                                                              *)
LEMMA PumpKeepsOrder ==
  ASSUME NEW a \in Apps, InOrder(a)
  PROVE  InOrder(Pump(a))
<1>1. DOMAIN Pump(a).jobs = DOMAIN a.jobs
  BY PumpIs DEF JobsMoved
<1>2. SUFFICES ASSUME NEW i \in DOMAIN a.jobs, NEW j \in DOMAIN a.jobs, i < j,
                      Is(Pump(a), i, "queued"), Is(Pump(a), j, "running")
               PROVE  FALSE
  BY <1>1 DEF InOrder
<1>3. a.jobs[i].status = "queued" /\ ~Starts(a.jobs, i, a.limit)
  BY <1>2, PumpIs DEF Is
<1>4. ~(a.jobs[j].status = "running")
  BY <1>2, <1>3 DEF InOrder, Is
<1>5. Starts(a.jobs, j, a.limit)
  BY <1>2, <1>4, PumpIs DEF Is
<1>6. QED BY <1>2, <1>3, <1>5, StartsInARow

LEMMA PumpFills ==
  ASSUME NEW a \in Apps
  PROVE  NoIdle(Pump(a))
<1> DEFINE b == Pump(a)
           T == Indices(b.jobs, "queued")
           R == Indices(a.jobs, "running")
           Q == Indices(b.jobs, "running")
<1>1. JobsMoved(a, b) /\ b.limit = a.limit /\ b.jobs \in JobLists /\ a.jobs \in JobLists
  BY PumpIs, JobsMovedTypes DEF Apps
<1>2. \A i \in DOMAIN a.jobs :
        b.jobs[i].status = IF a.jobs[i].status = "queued" /\ Starts(a.jobs, i, a.limit)
                             THEN "running" ELSE a.jobs[i].status
  BY PumpIs
<1> HIDE DEF b
<1>3. SUFFICES ASSUME T # {} PROVE Running(b) >= b.limit
  BY DEF NoIdle, b
<1>4. T \subseteq Nat
  BY <1>1, IndicesAre DEF Ids
<1>5. PICK m \in T : \A n \in T : m <= n
  BY <1>3, <1>4, Smallest
<1>6. m \in DOMAIN a.jobs /\ a.jobs[m].status = "queued" /\ ~Starts(a.jobs, m, a.limit)
  BY <1>1, <1>2, <1>5 DEF Indices, JobsMoved
<1>7. Ahead(a, m) \subseteq Q
  <2> SUFFICES ASSUME NEW j \in Ahead(a, m) PROVE j \in Q
    OBVIOUS
  <2>1. j \in DOMAIN a.jobs /\ a.jobs[j].status = "queued" /\ j < m
    BY DEF Ahead, Indices
  <2>2. j \in Nat /\ m \in Nat
    BY <1>1, <1>4, <2>1, JobListIs DEF Ids
  <2>3. j \notin T
    BY <1>5, <2>1, <2>2
  <2>4. QED BY <1>1, <1>2, <2>1, <2>3 DEF Indices, JobsMoved
<1>8. R \subseteq Q
  BY <1>1, <1>2 DEF Indices, JobsMoved
<1>9. R \cap Ahead(a, m) = {}
  BY DEF Indices, Ahead
<1>10. IsFiniteSet(Q) /\ IsFiniteSet(R) /\ IsFiniteSet(Ahead(a, m))
  BY <1>1, <1>7, IndicesAre, FS_Subset
<1>11. Cardinality(R \cup Ahead(a, m)) = Cardinality(R) + Cardinality(Ahead(a, m))
  BY <1>9, <1>10, DisjointUnion
<1>12. Cardinality(R \cup Ahead(a, m)) <= Cardinality(Q)
  BY <1>7, <1>8, <1>10, FS_Subset
<1>13. /\ Cardinality(R) \in Nat /\ Cardinality(Ahead(a, m)) \in Nat /\ Cardinality(Q) \in Nat
       /\ a.limit \in Nat
  BY <1>10, FS_CardinalityType DEF Apps
<1>14. Cardinality(Ahead(a, m)) + Cardinality(R) >= a.limit
  BY <1>6, <1>13, StartsIs DEF Running
<1>15. QED BY <1>1, <1>11, <1>12, <1>13, <1>14 DEF Running

LEMMA PumpHasRoom ==
  ASSUME NEW a \in Apps
  PROVE  /\ Running(Pump(a)) \in Nat /\ Running(a) \in Nat
         /\ Running(Pump(a)) > Running(a) => Running(Pump(a)) <= a.limit
<1> DEFINE b == Pump(a)
           R == Indices(a.jobs, "running")
           Q == Indices(b.jobs, "running")
           S == {i \in Indices(a.jobs, "queued") : Starts(a.jobs, i, a.limit)}
<1>1. JobsMoved(a, b) /\ b.jobs \in JobLists /\ a.jobs \in JobLists
  BY PumpIs, JobsMovedTypes DEF Apps
<1>2. \A i \in DOMAIN a.jobs :
        b.jobs[i].status = IF a.jobs[i].status = "queued" /\ Starts(a.jobs, i, a.limit)
                             THEN "running" ELSE a.jobs[i].status
  BY PumpIs
<1> HIDE DEF b
<1>3. Q = R \cup S
  BY <1>1, <1>2 DEF Indices, JobsMoved
<1>4. IsFiniteSet(R) /\ IsFiniteSet(S) /\ S \subseteq Ids /\ Cardinality(R) \in Nat
      /\ Cardinality(Q) \in Nat /\ Cardinality(S) \in Nat
  BY <1>1, IndicesAre, FS_Subset, FS_CardinalityType
<1>5. Cardinality(Q) > Cardinality(R) => Cardinality(Q) <= a.limit
  <2>1. CASE S = {}
    BY <1>3, <1>4, <2>1
  <2>2. CASE S # {}
    <3>1. PICK m \in S : \A n \in S : n <= m
      BY <1>4, <2>2, Largest, GuiJobsAssumption DEF Ids
    <3>2. S \subseteq Ahead(a, m) \cup {m}
      <4> SUFFICES ASSUME NEW n \in S, n # m PROVE n < m
        BY DEF Ahead
      <4>1. n \in Nat /\ m \in Nat
        BY <1>4 DEF Ids
      <4>2. QED BY <3>1, <4>1
    <3>3. IsFiniteSet(Ahead(a, m)) /\ Cardinality(Ahead(a, m)) \in Nat
      BY <1>1, IndicesAre, FS_Subset, FS_CardinalityType DEF Ahead
    <3>4. m \notin Ahead(a, m)
      BY <1>4 DEF Ahead, Ids
    <3>5. IsFiniteSet(Ahead(a, m) \cup {m})
          /\ Cardinality(Ahead(a, m) \cup {m}) = Cardinality(Ahead(a, m)) + 1
      BY <3>3, <3>4, FS_AddElement
    <3>6. Cardinality(S) <= Cardinality(Ahead(a, m)) + 1
      BY <3>2, <3>5, FS_Subset
    <3>7. Cardinality(Ahead(a, m)) + Cardinality(R) < a.limit
      BY StartsIs DEF Running
    <3>8. R \cap S = {}
      BY DEF Indices
    <3>9. Cardinality(Q) = Cardinality(R) + Cardinality(S)
      BY <1>3, <1>4, <3>8, DisjointUnion
    <3>10. a.limit \in Nat
      BY DEF Apps
    <3>11. QED BY <1>4, <3>3, <3>6, <3>7, <3>9, <3>10
  <2>3. QED BY <2>1, <2>2
<1>6. QED BY <1>4, <1>5 DEF Running, b

------------------------------------------------------------------------------
(* Messages: what is true of the application before pump() and what after. *)

Good(a, p, s, dk) == a \in Apps /\ JobsOK(a, p, s) /\ ViewOK(a, dk) /\ InOrder(a)
Room(a, b) == Running(b) > Running(a) => Running(b) <= b.limit
Full(a, p, s, dk) == Good(a, p, s, dk) /\ NoIdle(a) /\ Room(app, a)

LEMMA FullIs == IInv => Full(app, proc, events, disk)
<1>1. ASSUME IInv PROVE Running(app) \in Nat
  BY <1>1, IndicesAre DEF IInv, TypeOK, Apps, Running
<1>2. QED BY <1>1 DEF IInv, Full, Good, Room, TypeOK

LEMMA PumpMakesFull ==
  ASSUME NEW a, NEW p, NEW s, NEW dk, Good(a, p, s, dk), Running(a) <= Running(app), app \in Apps
  PROVE  Full(PumpAfter(a), p, s, dk)
<1>1. a \in Apps
  BY DEF Good
<1>2. JobsMoved(a, Pump(a)) /\ Pump(a) \in Apps /\ Pump(a).limit = a.limit
  BY <1>1, PumpIs, JobsMovedTypes
<1>3. JobsOK(Pump(a), p, s) /\ ViewOK(Pump(a), dk) /\ InOrder(Pump(a)) /\ NoIdle(Pump(a))
  BY <1>1, PumpKeepsJobs, PumpKeepsView, PumpKeepsOrder, PumpFills DEF Good
<1>4. Running(app) \in Nat
  BY IndicesAre DEF Apps, Running
<1>5. Room(app, Pump(a))
  BY <1>1, <1>2, <1>4, PumpHasRoom DEF Room
<1>6. QED BY <1>2, <1>3, <1>5 DEF Full, Good, PumpAfter

(* A change of the view leaves the queue as it was.                        *)
LEMMA ViewKeepsQueue ==
  ASSUME NEW a, NEW b, ViewMoved(a, b)
  PROVE  /\ InOrder(a) => InOrder(b)
         /\ NoIdle(a) => NoIdle(b)
         /\ Running(b) = Running(a) /\ (Room(app, a) => Room(app, b))
  BY DEF ViewMoved, InOrder, Is, NoIdle, Running, Room

LEMMA ViewKeepsGood ==
  ASSUME NEW a, NEW b, NEW p, NEW s, NEW dk, ViewMoved(a, b), ViewOK(b, dk)
  PROVE  /\ Good(a, p, s, dk) => Good(b, p, s, dk)
         /\ Full(a, p, s, dk) => Full(b, p, s, dk)
  BY ViewKeepsJobs, ViewKeepsQueue DEF Good, Full, ViewMoved

LEMMA AskedMakesIInv ==
  ASSUME NEW a, TypeOK, Asked(a), Full(a, proc', events', disk'),
         proc' \in Procs, events' \in Streams, disk' \in Disks
  PROVE  IInv' /\ Room(app, app')
<1>1. a \in Apps
  BY DEF Full, Good
<1>2. /\ ViewMoved(a, app') /\ app'.live = a.live /\ app'.current = a.current
      /\ app'.rows = a.rows /\ app'.report = a.report
      /\ reports' \subseteq [k : Nat, dir : Dirs]
  BY <1>1, AskedIs
<1>3. ViewOK(app', disk')
  BY <1>2 DEF Full, Good, ViewOK, LiveOK, RowsOK, ReportOK, ActiveInto, RunningInto, Is, ViewMoved
<1>4. Full(app', proc', events', disk')
  BY <1>2, <1>3, ViewKeepsGood
<1>5. QED BY <1>2, <1>4 DEF Full, Good, IInv, TypeOK

LEMMA EndedIsFull ==
  ASSUME NEW a \in Apps, NEW id \in DOMAIN a.jobs, NEW s, NEW t, NEW status \in Statuses,
         TypeOK, Good(a, proc, s, disk), Running(a) <= Running(app),
         status \notin {"queued", "running"}, Is(a, id, "running"),
         id \in a.cancel_requested => status = "failed",
         proc[id].pc = "gone", t[id] = <<>>, \A i \in Ids \ {id} : t[i] = s[i]
  PROVE  Full(Ended(a, id, status), proc, t, disk)
<1> DEFINE b == [a EXCEPT !.jobs[id].status = status]
           c == Finished(b, a.jobs[id])
<1>1. JobsMoved(a, b) /\ b \in Apps
  BY StatusSet, JobsMovedTypes
<1>2. \A i \in DOMAIN a.jobs : b.jobs[i].status = IF i = id THEN status ELSE a.jobs[i].status
  BY StatusSet
<1>3. JobsOK(b, proc, t)
  BY OverKeepsJobs DEF Good
<1>4. ViewOK(c, disk)
  BY OverKeepsView DEF Good, TypeOK, JobsOK
<1> HIDE DEF b
<1>5. a.jobs[id] \in Job
  BY JobListIs DEF Apps
<1>6. ViewMoved(b, c)
  BY <1>1, <1>5, FinishedIs DEF TypeOK
<1> HIDE DEF c
<1>7. InOrder(b)
  BY <1>1, <1>2 DEF InOrder, Good, Is, JobsMoved
<1>8. Running(b) <= Running(a)
  <2>1. Indices(b.jobs, "running") \subseteq Indices(a.jobs, "running")
    BY <1>1, <1>2 DEF Indices, JobsMoved
  <2>2. IsFiniteSet(Indices(a.jobs, "running"))
    BY IndicesAre DEF Apps
  <2>3. QED BY <2>1, <2>2, FS_Subset DEF Running
<1>9. Good(c, proc, t, disk) /\ Running(c) = Running(b)
  BY <1>3, <1>4, <1>6, <1>7, ViewKeepsJobs, ViewKeepsQueue DEF Good, ViewMoved
<1>10. Running(c) <= Running(app)
  <2>1. Running(a) \in Nat /\ Running(b) \in Nat /\ Running(app) \in Nat
    BY <1>1, IndicesAre DEF Running, Apps, TypeOK
  <2>2. QED BY <1>8, <1>9, <2>1
<1>11. QED BY <1>9, <1>10, PumpMakesFull DEF Ended, c, b, TypeOK

LEMMA EnqueueIsGood ==
  ASSUME NEW a \in Apps, NEW p, NEW s, NEW dk, Good(a, p, s, dk), a.next_id \in Ids,
         NEW kind \in {"run", "sweep"}, NEW out \in Shown, kind = "sweep" <=> out # None
  PROVE  LET b == Enqueue(a, kind, out)
         IN  Good(b, p, s, dk) /\ Running(b) = Running(a)
<1> DEFINE b == Enqueue(a, kind, out)
<1>1. a.next_id \notin DOMAIN a.jobs /\ \A id \in DOMAIN a.jobs : id < a.next_id
  BY DEF Good, JobsOK, Ids
<1>2. /\ DOMAIN b.jobs = DOMAIN a.jobs \cup {a.next_id}
      /\ \A i \in DOMAIN a.jobs : b.jobs[i] = a.jobs[i]
      /\ b.jobs[a.next_id].status = "queued" /\ b \in Apps
  BY <1>1, EnqueueIs
<1>3. JobsOK(b, p, s)
  BY EnqueueKeepsJobs DEF Good
<1>4. ViewOK(b, dk)
  BY <1>1, EnqueueKeepsView DEF Good
<1> HIDE DEF b
<1>5. InOrder(b)
  <2> SUFFICES ASSUME NEW i \in DOMAIN b.jobs, NEW j \in DOMAIN b.jobs, i < j,
                      Is(b, i, "queued"), Is(b, j, "running")
               PROVE  FALSE
    BY DEF InOrder
  <2>1. j \in DOMAIN a.jobs
    BY <1>2 DEF Is
  <2>2. i # a.next_id
    BY <1>1, <2>1, JobListIs DEF Ids, Apps
  <2>3. QED BY <1>2, <2>1, <2>2 DEF Good, InOrder, Is
<1>6. Indices(b.jobs, "running") = Indices(a.jobs, "running")
  BY <1>1, <1>2 DEF Indices
<1>7. QED BY <1>2, <1>3, <1>4, <1>5, <1>6 DEF Good, Running, b

LEMMA StartRunKeeps ==
  ASSUME IInv, StartRun
  PROVE  IInv' /\ Room(app, app')
<1>1. Good(app, proc, events, disk) /\ app \in Apps /\ TypeOK
  BY FullIs DEF Full, IInv, TypeOK
<1> DEFINE b == Enqueue(app, "run", None)
<1>2. Good(b, proc, events, disk) /\ Running(b) = Running(app)
  BY <1>1, EnqueueIsGood DEF StartRun, Shown
<1> HIDE DEF b
<1>3. Running(app) \in Nat
  BY <1>1, IndicesAre DEF Running, Apps
<1>4. Full(PumpAfter(b), proc, events, disk)
  BY <1>1, <1>2, <1>3, PumpMakesFull
<1>5. Asked(PumpAfter(b)) /\ UNCHANGED <<proc, events, disk>>
  BY DEF StartRun, b
<1>6. QED BY <1>1, <1>4, <1>5, AskedMakesIInv DEF TypeOK

LEMMA StartSweepKeeps ==
  ASSUME IInv, NEW dir \in Dirs, StartSweep(dir)
  PROVE  IInv' /\ Room(app, app')
<1>1. Good(app, proc, events, disk) /\ app \in Apps /\ TypeOK /\ disk \in Disks
  BY FullIs DEF Full, IInv, TypeOK
<1>2. dir # None /\ dir \in Shown
  BY GuiJobsAssumption DEF Shown
<1> DEFINE b == Enqueue(app, "sweep", dir)
           c == ViewSelect(b, dir)
           d == [c EXCEPT !.live = [dir |-> dir, running |-> TRUE]]
<1>3. Good(b, proc, events, disk) /\ Running(b) = Running(app)
  BY <1>1, <1>2, EnqueueIsGood DEF StartSweep
<1>4. ActiveInto(b, dir)
  <2>1. app.next_id \notin DOMAIN app.jobs
    BY <1>1 DEF Good, JobsOK, StartSweep, Ids
  <2>2. /\ app.next_id \in DOMAIN b.jobs /\ b.jobs[app.next_id].out = dir
        /\ b.jobs[app.next_id].status = "queued"
    BY <1>1, <1>2, <2>1, EnqueueIs DEF StartSweep
  <2>3. QED BY <2>2 DEF ActiveInto, Active
<1> HIDE DEF b
<1>5. /\ ViewMoved(b, c) /\ c.live = b.live /\ c.current = dir /\ c.rows = disk[dir]
      /\ c.report = IF b.current = dir THEN b.report ELSE None
  BY <1>1, <1>3, ViewSelectIs DEF Good
<1> HIDE DEF c
<1>6. /\ ViewMoved(b, d) /\ d.live = [dir |-> dir, running |-> TRUE]
      /\ d.current = c.current /\ d.rows = c.rows /\ d.report = c.report
  BY <1>2, <1>5 DEF ViewMoved, Apps
<1> HIDE DEF d
<1>7. ViewOK(d, disk)
  <2>1. LiveOK(d)
    BY <1>2, <1>4, <1>6 DEF LiveOK, ActiveInto, ViewMoved
  <2>2. RowsOK(d, disk)
    BY <1>5, <1>6 DEF RowsOK
  <2>3. ReportOK(d)
    BY <1>3, <1>5, <1>6 DEF ReportOK, Good, ViewOK
  <2>4. QED BY <2>1, <2>2, <2>3 DEF ViewOK
<1>8. Good(d, proc, events, disk) /\ Running(d) = Running(app)
  BY <1>3, <1>6, <1>7, ViewKeepsGood, ViewKeepsQueue
<1>9. Running(app) \in Nat
  BY <1>1, IndicesAre DEF Running, Apps
<1>10. Full(PumpAfter(d), proc, events, disk)
  BY <1>1, <1>8, <1>9, PumpMakesFull
<1>11. Asked(PumpAfter(d)) /\ UNCHANGED <<proc, events, disk>>
  BY DEF StartSweep, b, c, d
<1>12. QED BY <1>1, <1>10, <1>11, AskedMakesIInv DEF TypeOK

LEMMA ApplyKeeps ==
  ASSUME IInv, NEW limit \in Limits, Apply(limit)
  PROVE  IInv' /\ Room(app, app')
<1>1. Good(app, proc, events, disk) /\ app \in Apps
  BY FullIs DEF Full, IInv, TypeOK
<1> DEFINE b == [app EXCEPT !.limit = limit]
<1>2. limit \in Nat
  BY GuiJobsAssumption
<1>3. /\ b \in Apps /\ b.jobs = app.jobs /\ b.next_id = app.next_id
      /\ b.cancel_requested = app.cancel_requested /\ b.live = app.live
      /\ b.current = app.current /\ b.rows = app.rows /\ b.report = app.report
  BY <1>1, <1>2 DEF Apps
<1>4. app' = PumpAfter(b) /\ UNCHANGED <<proc, events, disk, reports>>
  BY DEF Apply
<1> HIDE DEF b
<1>5. JobsOK(b, proc, events)
  BY <1>1, <1>3 DEF Good, JobsOK, JobOK, Is
<1>6. ViewOK(b, disk)
  BY <1>1, <1>3 DEF Good, ViewOK, LiveOK, RowsOK, ReportOK, ActiveInto, RunningInto, Is
<1>7. InOrder(b) /\ Running(b) = Running(app)
  BY <1>1, <1>3 DEF Good, InOrder, Is, Running
<1>8. Running(app) \in Nat
  BY <1>1, IndicesAre DEF Running, Apps
<1>9. Full(app', proc, events, disk)
  BY <1>1, <1>3, <1>4, <1>5, <1>6, <1>7, <1>8, PumpMakesFull DEF Good
<1>10. QED BY <1>4, <1>9 DEF Full, Good, IInv, TypeOK

LEMMA RefreshKeeps ==
  ASSUME IInv, Refresh
  PROVE  IInv' /\ Room(app, app')
<1>1. Full(app, proc, events, disk) /\ app \in Apps /\ disk \in Disks
  BY FullIs DEF IInv, TypeOK
<1>2. /\ ViewMoved(app, app') /\ app'.live = app.live /\ app'.current = app.current
      /\ app'.report = app.report
      /\ app'.rows = IF app.current = None THEN app.rows ELSE disk[app.current]
  BY <1>1, ReloadIs DEF Refresh
<1>3. ViewOK(app', disk)
  BY <1>1, <1>2 DEF Full, Good, ViewOK, LiveOK, RowsOK, ReportOK, ActiveInto, ViewMoved
<1>4. Full(app', proc, events, disk)
  BY <1>1, <1>2, <1>3, ViewKeepsGood
<1>5. QED BY <1>4 DEF Full, Good, IInv, TypeOK, Refresh

LEMMA SelectKeeps ==
  ASSUME IInv, NEW dir \in Dirs, Select(dir)
  PROVE  IInv' /\ Room(app, app')
<1>1. Full(app, proc, events, disk) /\ app \in Apps /\ disk \in Disks /\ TypeOK
  BY FullIs DEF IInv, TypeOK
<1> DEFINE a == ViewSelect(app, dir)
           b == IF a.rows # <<>> /\ ~(LiveIs(a, dir) /\ a.live.running) THEN Analyse(a) ELSE a
<1>2. /\ ViewMoved(app, a) /\ a.live = app.live /\ a.current = dir /\ a.rows = disk[dir]
      /\ a.report = IF app.current = dir THEN app.report ELSE None
  BY <1>1, ViewSelectIs
<1>3. Asked(b) /\ UNCHANGED <<proc, events, disk>>
  BY DEF Select
<1> HIDE DEF a
<1>4. /\ ViewMoved(app, b) /\ b.live = a.live /\ b.current = a.current /\ b.rows = a.rows
      /\ b.report = a.report
  BY <1>2, AnalyseIs DEF ViewMoved
<1> HIDE DEF b
<1>5. ViewOK(b, disk)
  BY <1>1, <1>2, <1>4 DEF Full, Good, ViewOK, LiveOK, RowsOK, ReportOK, ActiveInto, ViewMoved
<1>6. Full(b, proc, events, disk)
  BY <1>1, <1>4, <1>5, ViewKeepsGood
<1>7. QED BY <1>1, <1>3, <1>6, AskedMakesIInv DEF TypeOK

LEMMA AskReportKeeps ==
  ASSUME IInv, AskReport
  PROVE  IInv' /\ Room(app, app')
<1>1. Full(app, proc, events, disk) /\ app \in Apps /\ TypeOK
  BY FullIs DEF IInv, TypeOK
<1> DEFINE b == Analyse(app)
<1>2. /\ ViewMoved(app, b) /\ b.live = app.live /\ b.current = app.current
      /\ b.rows = app.rows /\ b.report = app.report
  BY <1>1, AnalyseIs
<1>3. Asked(b) /\ UNCHANGED <<proc, events, disk>>
  BY DEF AskReport
<1> HIDE DEF b
<1>4. ViewOK(b, disk)
  BY <1>1, <1>2 DEF Full, Good, ViewOK, LiveOK, RowsOK, ReportOK, ActiveInto, RunningInto, Is,
                    ViewMoved
<1>5. Full(b, proc, events, disk)
  BY <1>1, <1>2, <1>4, ViewKeepsGood
<1>6. QED BY <1>1, <1>3, <1>5, AskedMakesIInv DEF TypeOK

LEMMA AnalysedKeeps ==
  ASSUME IInv, NEW r \in reports, Analysed(r)
  PROVE  IInv' /\ Room(app, app')
<1>1. Full(app, proc, events, disk) /\ app \in Apps /\ r.dir \in Dirs /\ TypeOK
  BY FullIs DEF IInv, TypeOK
<1>2. /\ ViewMoved(app, app') /\ app'.live = app.live /\ app'.current = app.current
      /\ app'.rows = app.rows /\ (app'.report = app.report \/ app'.report = app.current)
  BY <1>1 DEF Analysed, TakeReport, TakeAnyReport, ViewMoved, Apps, Shown
<1>3. ViewOK(app', disk)
  BY <1>1, <1>2 DEF Full, Good, ViewOK, LiveOK, RowsOK, ReportOK, ActiveInto, RunningInto, Is,
                    ViewMoved
<1>4. Full(app', proc, events, disk)
  BY <1>1, <1>2, <1>3, ViewKeepsGood
<1>5. QED BY <1>1, <1>4 DEF Full, Good, IInv, TypeOK, Analysed

LEMMA CancelQueuedKeeps ==
  ASSUME IInv, NEW i \in DOMAIN app.jobs, app.jobs[i].status = "queued",
         app' = CancelQueued([app EXCEPT !.jobs[i].status = "cancelled"], app.jobs[i]),
         UNCHANGED <<proc, events, disk, reports>>
  PROVE  IInv' /\ Room(app, app')
<1>1. Full(app, proc, events, disk) /\ app \in Apps /\ TypeOK
  BY FullIs DEF IInv, TypeOK
<1> DEFINE b == [app EXCEPT !.jobs[i].status = "cancelled"]
           out == app.jobs[i].out
<1>2. "cancelled" \in Statuses
  BY DEF Statuses
<1>3. JobsMoved(app, b)
  BY <1>1, <1>2, StatusSet
<1>4. /\ b \in Apps /\ b.live = app.live /\ b.current = app.current /\ b.rows = app.rows
      /\ b.report = app.report /\ b.limit = app.limit
  BY <1>1, <1>3, JobsMovedTypes
<1>5. \A j \in DOMAIN app.jobs :
        b.jobs[j].status = IF j = i THEN "cancelled" ELSE app.jobs[j].status
  BY <1>1, <1>2, StatusSet
<1>6. JobsOK(b, proc, events)
  <2>1. /\ i \in Ids /\ i \notin app.cancel_requested
        /\ proc[i].pc = "new" /\ events[i] = <<>>
    <3>1. i \in Ids
      BY <1>1, JobListIs DEF Apps
    <3>2. JobOK(app, proc, events, i)
      BY <1>1, <3>1 DEF Full, Good, JobsOK
    <3>3. QED BY <3>1, <3>2 DEF JobOK, Is
  <2>2. QED BY <1>1, <1>2, <2>1, OverKeepsJobs DEF Full, Good
<1> HIDE DEF b
<1>7. InOrder(b)
  BY <1>1, <1>3, <1>5 DEF Full, Good, InOrder, Is, JobsMoved
<1>8. Indices(b.jobs, "running") = Indices(app.jobs, "running")
      /\ Indices(b.jobs, "queued") \subseteq Indices(app.jobs, "queued")
  BY <1>3, <1>5 DEF Indices, JobsMoved
<1>9. NoIdle(b) /\ Room(app, b)
  BY <1>1, <1>4, <1>8 DEF Full, NoIdle, Running, Room
<1>10. /\ ViewMoved(b, app') /\ app'.live.dir = b.live.dir
       /\ app'.live.running = (b.live.running /\ (app.jobs[i].kind = "sweep" => b.live.dir # out))
       /\ app'.current = b.current /\ app'.rows = b.rows /\ app'.report = b.report
  <2>1. app' = CancelQueued(b, app.jobs[i])
    BY DEF b
  <2>2. CASE app.jobs[i].kind = "sweep"
    BY <1>4, <2>1, <2>2, UnliveIs DEF CancelQueued
  <2>3. CASE app.jobs[i].kind # "sweep"
    BY <1>4, <2>1, <2>3 DEF CancelQueued, ViewMoved, Apps
  <2>4. QED BY <2>2, <2>3
<1>11. \A dir : RunningInto(app, dir) => RunningInto(app', dir)
  BY <1>3, <1>5, <1>10 DEF RunningInto, Is, JobsMoved, ViewMoved
<1>12. \A dir : dir # out /\ ActiveInto(app, dir) => ActiveInto(app', dir)
  <2> SUFFICES ASSUME NEW dir, dir # out, ActiveInto(app, dir) PROVE ActiveInto(app', dir)
    OBVIOUS
  <2>1. PICK id \in DOMAIN app.jobs : Active(app.jobs[id]) /\ app.jobs[id].out = dir
    BY DEF ActiveInto
  <2>2. id # i
    BY <2>1
  <2>3. QED BY <1>3, <1>5, <1>10, <2>1, <2>2 DEF ActiveInto, Active, JobsMoved, ViewMoved
<1>13. app.jobs[i].kind = "sweep" <=> out # None
  BY <1>1 DEF Full, Good, JobsOK
<1>14. ViewOK(app', disk)
  <2>1. LiveOK(app')
    BY <1>1, <1>4, <1>10, <1>12, <1>13 DEF Full, Good, ViewOK, LiveOK
  <2>2. RowsOK(app', disk)
    BY <1>1, <1>4, <1>10, <1>11 DEF Full, Good, ViewOK, RowsOK
  <2>3. ReportOK(app')
    BY <1>1, <1>4, <1>10 DEF Full, Good, ViewOK, ReportOK
  <2>4. QED BY <2>1, <2>2, <2>3 DEF ViewOK
<1>15. JobsOK(app', proc, events) /\ InOrder(app') /\ NoIdle(app') /\ Room(app, app')
  BY <1>6, <1>7, <1>9, <1>10, ViewKeepsJobs, ViewKeepsQueue
<1>16. app' \in Apps
  BY <1>10 DEF ViewMoved
<1>17. QED BY <1>1, <1>14, <1>15, <1>16 DEF IInv, TypeOK

LEMMA CancelRunningKeeps ==
  ASSUME IInv, NEW i \in DOMAIN app.jobs, app.jobs[i].status = "running",
         app' = [app EXCEPT !.cancel_requested = @ \cup {i}],
         proc' = IF app.jobs[i].pid THEN [proc EXCEPT ![i].signalled = TRUE] ELSE proc,
         UNCHANGED <<events, disk, reports>>
  PROVE  IInv' /\ Room(app, app')
<1>1. Full(app, proc, events, disk) /\ app \in Apps /\ TypeOK
  BY FullIs DEF IInv, TypeOK
<1>2. i \in Ids
  BY <1>1, JobListIs DEF Apps
<1>3. /\ app' \in Apps /\ app'.jobs = app.jobs /\ app'.next_id = app.next_id
      /\ app'.cancel_requested = app.cancel_requested \cup {i} /\ app'.live = app.live
      /\ app'.current = app.current /\ app'.rows = app.rows /\ app'.report = app.report
      /\ app'.limit = app.limit
  BY <1>1, <1>2 DEF Apps
<1>4. proc' \in Procs /\ \A id \in Ids : proc'[id].pc = proc[id].pc
  BY <1>1, <1>2 DEF TypeOK, Procs
<1>5. \A id \in Ids : JobOK(app, proc, events, id)
  BY <1>1 DEF Full, Good, JobsOK
<1>6. ASSUME NEW id \in Ids PROVE JobOK(app', proc', events, id)
  <2>1. i < app.next_id
    BY <1>1 DEF Full, Good, JobsOK
  <2>2. CASE id = i
    BY <1>3, <1>4, <1>5, <2>1, <2>2 DEF JobOK, Is
  <2>3. CASE id # i
    BY <1>3, <1>4, <1>5, <2>3 DEF JobOK, Is
  <2>4. QED BY <2>2, <2>3
<1>7. JobsOK(app', proc', events)
  BY <1>1, <1>3, <1>6 DEF Full, Good, JobsOK
<1>8. ViewOK(app', disk)
  BY <1>1, <1>3 DEF Full, Good, ViewOK, LiveOK, RowsOK, ReportOK, ActiveInto, RunningInto, Is
<1>9. InOrder(app') /\ NoIdle(app') /\ Room(app, app')
  BY <1>1, <1>3 DEF Full, Good, InOrder, Is, NoIdle, Running, Room
<1>10. QED BY <1>1, <1>3, <1>4, <1>7, <1>8, <1>9 DEF IInv, TypeOK

LEMMA ClearFinishedKeeps ==
  ASSUME IInv, ClearFinished
  PROVE  IInv' /\ Room(app, app')
<1>1. Full(app, proc, events, disk) /\ app \in Apps /\ TypeOK
  BY FullIs DEF IInv, TypeOK
<1>2. DOMAIN app.jobs \in SUBSET Ids /\ app.jobs \in [DOMAIN app.jobs -> Job]
  BY <1>1, JobListIs DEF Apps
<1> DEFINE L == {i \in DOMAIN app.jobs : Active(app.jobs[i])}
           js == [i \in L |-> app.jobs[i]]
<1>3. app' = [app EXCEPT !.jobs = js]
  BY DEF ClearFinished, Restrict
<1>4. js \in JobLists
  BY <1>2, JobListIs
<1>5. /\ app' \in Apps /\ app'.jobs = js /\ app'.next_id = app.next_id
      /\ app'.cancel_requested = app.cancel_requested /\ app'.live = app.live
      /\ app'.current = app.current /\ app'.rows = app.rows /\ app'.report = app.report
      /\ app'.limit = app.limit
  BY <1>1, <1>3, <1>4 DEF Apps
<1>6. DOMAIN js = L /\ \A i \in L : js[i] = app.jobs[i]
  OBVIOUS
<1> HIDE DEF js
<1>7. \A id : /\ Is(app, id, "queued") <=> Is(app', id, "queued")
              /\ Is(app, id, "running") <=> Is(app', id, "running")
  BY <1>5, <1>6 DEF Is, Active
<1>8. ASSUME NEW id \in Ids PROVE JobOK(app', proc, events, id)
  <2>1. JobOK(app, proc, events, id)
    BY <1>1 DEF Full, Good, JobsOK
  <2>2. id \in DOMAIN app'.jobs => id \in DOMAIN app.jobs /\ app'.jobs[id] = app.jobs[id]
    BY <1>5, <1>6
  <2>3. id \in DOMAIN app'.jobs => Is(app', id, "queued") \/ Is(app', id, "running")
    BY <1>5, <1>6 DEF Is, Active
  <2>4. proc[id].pc \in {"cell", "print", "ending"} => Is(app, id, "running")
    BY <2>1 DEF JobOK
  <2>5. QED BY <1>5, <1>7, <2>1, <2>2, <2>3, <2>4 DEF JobOK, Is
<1>9. JobsOK(app', proc, events)
  BY <1>1, <1>5, <1>6, <1>8 DEF Full, Good, JobsOK
<1>10. \A dir : /\ ActiveInto(app, dir) => ActiveInto(app', dir)
                /\ RunningInto(app, dir) => RunningInto(app', dir)
  BY <1>5, <1>6 DEF ActiveInto, RunningInto, Is, Active
<1>11. ViewOK(app', disk)
  BY <1>1, <1>5, <1>10 DEF Full, Good, ViewOK, LiveOK, RowsOK, ReportOK
<1>12. InOrder(app')
  BY <1>1, <1>5, <1>6, <1>7 DEF Full, Good, InOrder
<1>13. /\ Indices(app'.jobs, "running") = Indices(app.jobs, "running")
       /\ Indices(app'.jobs, "queued") = Indices(app.jobs, "queued")
  BY <1>5, <1>6 DEF Indices, Active
<1>14. NoIdle(app') /\ Room(app, app')
  BY <1>1, <1>5, <1>13 DEF Full, NoIdle, Running, Room
<1>15. QED BY <1>1, <1>5, <1>9, <1>11, <1>12, <1>14 DEF IInv, TypeOK, ClearFinished

(* An event is handled; it is one of a job that is listed and runs.        *)
LEMMA DeliverKeeps ==
  ASSUME IInv, NEW id \in Ids, Deliver(id)
  PROVE  IInv' /\ Room(app, app')
<1>1. Full(app, proc, events, disk) /\ app \in Apps /\ TypeOK /\ events \in Streams
      /\ disk \in Disks
  BY FullIs DEF IInv, TypeOK
<1> DEFINE e == Head(events[id])
           t == [events EXCEPT ![id] = Tail(@)]
<1>2. events[id] \in Seq(Event) /\ events[id] # <<>> /\ e \in Event /\ Tail(events[id]) \in Seq(Event)
  BY <1>1 DEF Streams, Deliver
<1>3. events' = t /\ UNCHANGED <<proc, disk>>
  BY DEF Deliver
<1>4. t \in Streams /\ t[id] = Tail(events[id]) /\ \A i \in Ids \ {id} : t[i] = events[i]
  BY <1>1, <1>2 DEF Streams
<1>5. JobsOK(app, proc, events) /\ JobOK(app, proc, events, id)
  BY <1>1 DEF Full, Good, JobsOK
<1>6. Is(app, id, "running") /\ id \in DOMAIN app.jobs
  BY <1>2, <1>5 DEF JobOK, Is
<1>7. Asked(OnJobEvent(app, id, e))
  BY <1>6 DEF Deliver
<1>8. Running(app) \in Nat
  BY <1>1, IndicesAre DEF Running, Apps
<1> HIDE DEF e, t
<1>9. SUFFICES Full(OnJobEvent(app, id, e), proc, t, disk)
  BY <1>1, <1>3, <1>4, <1>7, AskedMakesIInv DEF TypeOK
<1>10. ASSUME e.type \notin Ending PROVE JobsOK(app, proc, t)
  BY <1>1, <1>2, <1>5, <1>10, TailKeepsJobs DEF e, t
<1>11. ASSUME e.type \in Ending PROVE proc[id].pc = "gone" /\ t[id] = <<>>
  <2>1. 1 \in DOMAIN events[id] /\ events[id][1] = e /\ Len(events[id]) \in Nat
    BY <1>2 DEF e
  <2>2. proc[id].pc = "gone"
    BY <1>5, <1>6, <1>11, <2>1 DEF JobOK, EndIn
  <2>3. Len(events[id]) = 1
    BY <1>5, <1>11, <2>1 DEF JobOK
  <2>4. Len(Tail(events[id])) = 0
    BY <1>2, <2>3, TailIs
  <2>5. Tail(events[id]) = <<>>
    BY <1>2, <2>4, NoneLeft
  <2>6. QED BY <1>4, <2>2, <2>5
<1>12. CASE e.type = "started"
  <2> DEFINE b == [app EXCEPT !.jobs[id].pid = TRUE]
  <2>1. JobsMoved(app, b) /\ \A i \in DOMAIN app.jobs : b.jobs[i].status = app.jobs[i].status
    BY <1>1, <1>6, PidSet
  <2>2. /\ b \in Apps /\ b.next_id = app.next_id /\ b.limit = app.limit
        /\ b.cancel_requested = app.cancel_requested /\ b.live = app.live
        /\ b.current = app.current /\ b.rows = app.rows /\ b.report = app.report
    BY <1>1, <2>1, JobsMovedTypes
  <2>3. OnJobEvent(app, id, e) = b
    BY <1>12 DEF OnJobEvent
  <2> HIDE DEF b
  <2>4. JobsOK(app, proc, t)
    BY <1>10, <1>12 DEF Ending
  <2>5. \A i \in Ids : JobOK(b, proc, t, i)
    BY <2>1, <2>2, <2>4 DEF JobsOK, JobOK, Is, JobsMoved
  <2>6. JobsOK(b, proc, t)
    BY <2>1, <2>2, <2>4, <2>5 DEF JobsOK, JobsMoved
  <2>7. ViewOK(b, disk)
    BY <1>1, <2>1, <2>2 DEF Full, Good, ViewOK, LiveOK, RowsOK, ReportOK, ActiveInto, RunningInto,
                            Is, Active, JobsMoved
  <2>8. InOrder(b)
    BY <1>1, <2>1 DEF Full, Good, InOrder, Is, JobsMoved
  <2>9. /\ Indices(b.jobs, "running") = Indices(app.jobs, "running")
        /\ Indices(b.jobs, "queued") = Indices(app.jobs, "queued")
    BY <2>1 DEF Indices, JobsMoved
  <2>10. NoIdle(b) /\ Room(app, b)
    BY <1>1, <2>2, <2>9 DEF Full, NoIdle, Running, Room
  <2>11. QED BY <2>2, <2>3, <2>6, <2>7, <2>8, <2>10 DEF Full, Good
<1>13. CASE e.type \in {"row", "done"}
  <2> DEFINE dir == app.jobs[id].out
             b == OnSweepEvent(app, dir, e)
  <2>1. OnJobEvent(app, id, e) = b
    BY <1>13 DEF OnJobEvent
  <2>2. /\ ViewMoved(app, b)
        /\ b.live.dir = app.live.dir /\ (b.live.running => app.live.running)
        /\ b.current = app.current
        /\ app.current # dir => b.rows = app.rows
        /\ b.report \in {app.report, None}
    BY <1>1, <1>2, <1>13, OnSweepEventIs
  <2> HIDE DEF b
  <2>3. JobsOK(app, proc, t)
    BY <1>10, <1>13 DEF Ending
  <2>4. RunningInto(b, dir)
    BY <1>6, <2>2 DEF RunningInto, Is, ViewMoved
  <2>5. ViewOK(b, disk)
    BY <1>1, <2>2, <2>4 DEF Full, Good, ViewOK, LiveOK, RowsOK, ReportOK, ActiveInto, RunningInto,
                            Is, ViewMoved
  <2>6. Full(app, proc, t, disk)
    BY <1>1, <2>3 DEF Full, Good
  <2>7. QED BY <2>1, <2>2, <2>5, <2>6, ViewKeepsGood
<1>14. CASE e.type = "spawn_failed"
  <2>1. OnJobEvent(app, id, e) = Ended(app, id, "failed")
    BY <1>14 DEF OnJobEvent
  <2>2. "failed" \in Statuses
    BY DEF Statuses
  <2>3. Good(app, proc, events, disk) /\ Running(app) <= Running(app)
    BY <1>1, <1>8 DEF Full
  <2>4. proc[id].pc = "gone" /\ t[id] = <<>>
    BY <1>11, <1>14 DEF Ending
  <2>5. Full(Ended(app, id, "failed"), proc, t, disk)
    BY <1>1, <1>4, <1>6, <2>2, <2>3, <2>4, EndedIsFull
  <2>6. QED BY <2>1, <2>5
<1>15. CASE e.type = "exited"
  <2> DEFINE status == IF id \in app.cancel_requested THEN "cancelled" ELSE "finished"
             b == [app EXCEPT !.cancel_requested = @ \ {id}]
  <2>1. OnJobEvent(app, id, e) = Ended(b, id, status)
    BY <1>15 DEF OnJobEvent, Exited
  <2>2. status \in Statuses /\ status \notin {"queued", "running"}
    BY DEF Statuses
  <2>3. /\ b \in Apps /\ b.jobs = app.jobs /\ b.next_id = app.next_id /\ b.limit = app.limit
        /\ b.cancel_requested = app.cancel_requested \ {id} /\ b.live = app.live
        /\ b.current = app.current /\ b.rows = app.rows /\ b.report = app.report
    BY <1>1 DEF Apps
  <2> HIDE DEF b, status
  <2>4. \A i \in Ids : JobOK(b, proc, events, i)
    BY <1>5, <2>3 DEF JobsOK, JobOK, Is
  <2>5. JobsOK(b, proc, events)
    BY <1>5, <2>3, <2>4 DEF JobsOK
  <2>6. ViewOK(b, disk) /\ InOrder(b) /\ Running(b) = Running(app)
    BY <1>1, <2>3 DEF Full, Good, ViewOK, LiveOK, RowsOK, ReportOK, ActiveInto, RunningInto, Is,
                      InOrder, Running
  <2>7. Good(b, proc, events, disk) /\ Running(b) <= Running(app) /\ Is(b, id, "running")
    BY <1>6, <1>8, <2>3, <2>5, <2>6 DEF Good, Is
  <2>8. id \notin b.cancel_requested /\ id \in DOMAIN b.jobs
    BY <1>6, <2>3
  <2>9. proc[id].pc = "gone" /\ t[id] = <<>>
    BY <1>11, <1>15 DEF Ending
  <2>10. Full(Ended(b, id, status), proc, t, disk)
    BY <1>1, <1>4, <2>2, <2>3, <2>7, <2>8, <2>9, EndedIsFull
  <2>11. QED BY <2>1, <2>10
<1>16. e.type \in {"started", "row", "done", "spawn_failed", "exited"}
  BY <1>2 DEF Event
<1>17. QED BY <1>12, <1>13, <1>14, <1>15, <1>16

(* A process takes a step: the application does not, and only a directory  *)
(* that a running sweep writes can change.                                 *)
LEMMA ProcessKeeps ==
  ASSUME IInv, NEW id \in Ids, Is(app, id, "running"), proc[id].pc # "gone",
         UNCHANGED <<app, reports>>,
         proc' \in Procs, events' \in Streams, disk' \in Disks,
         proc'[id].pc # "new",
         proc'[id].pc \in {"cell", "print", "ending"} => app.jobs[id].kind = "sweep",
         \A i \in Ids \ {id} : proc'[i] = proc[i] /\ events'[i] = events[i],
         \/ events'[id] = events[id] /\ proc'[id].pc # "gone"
         \/ \E e \in Event : /\ events'[id] = Append(events[id], e)
                             /\ e.type \in Ending <=> proc'[id].pc = "gone",
         \A dir \in Dirs : dir # app.jobs[id].out => disk'[dir] = disk[dir]
  PROVE  IInv' /\ Room(app, app')
<1>1. app \in Apps /\ events \in Streams /\ reports \subseteq [k : Nat, dir : Dirs]
      /\ JobsOK(app, proc, events) /\ ViewOK(app, disk)
  BY DEF IInv, TypeOK
<1>2. JobsOK(app, proc', events')
  BY <1>1, StepKeepsJobs
<1>3. ASSUME app.current # None, ~RunningInto(app, app.current)
      PROVE  disk'[app.current] = disk[app.current]
  <2>1. app.current \in Dirs
    BY <1>1, <1>3 DEF Apps, Shown
  <2>2. QED BY <1>3, <2>1 DEF RunningInto, Is
<1>4. ViewOK(app, disk')
  BY <1>1, <1>3 DEF ViewOK, RowsOK
<1>5. IInv'
  BY <1>1, <1>2, <1>4 DEF IInv, TypeOK, InOrder, Is, NoIdle, Running
<1>6. Running(app) \in Nat
  BY <1>1, IndicesAre DEF Running, Apps
<1>7. QED BY <1>5, <1>6 DEF Room

LEMMA StepKeeps ==
  ASSUME IInv, NEW id \in Ids, Step(id)
  PROVE  IInv' /\ Room(app, app')
<1>1. /\ proc \in Procs /\ events \in Streams /\ disk \in Disks /\ app \in Apps
      /\ JobOK(app, proc, events, id) /\ JobsOK(app, proc, events)
      /\ events[id] \in Seq(Event) /\ proc[id].done \in Nat
  BY DEF IInv, TypeOK, JobsOK, Streams, Procs
<1>2. proc[id].pc \in Under => Is(app, id, "running")
  BY <1>1 DEF JobOK, Under
<1>3. id \in DOMAIN app.jobs /\ app.jobs[id].kind = "sweep" => app.jobs[id].out \in Dirs
  BY <1>1, JobListIs DEF JobsOK, Apps, Job, Shown
<1>4. \A e \in Event : [events EXCEPT ![id] = Append(@, e)] \in Streams
  BY <1>1 DEF Streams
<1>5. /\ \A type \in {"started", "done", "spawn_failed", "exited"} : [type |-> type] \in Event
      /\ \A row \in Row : [type |-> "row", row |-> row] \in Event
  BY DEF Event
<1>6. CASE Spawn(id)
  <2>1. PICK e \in Event : /\ events' = [events EXCEPT ![id] = Append(@, e)]
                           /\ \/ proc' = [proc EXCEPT ![id].pc = "boot"] /\ e.type = "started"
                              \/ proc' = [proc EXCEPT ![id].pc = "gone"] /\ e.type = "spawn_failed"
    BY <1>5, <1>6 DEF Spawn, Send
  <2>2. proc' \in Procs /\ \A i \in Ids \ {id} : proc'[i] = proc[i] /\ events'[i] = events[i]
    BY <1>1, <2>1 DEF Procs, Streams, Stages
  <2>3. /\ events'[id] = Append(events[id], e) /\ proc'[id].pc \in {"boot", "gone"}
        /\ e.type \in Ending <=> proc'[id].pc = "gone"
    BY <1>1, <2>1 DEF Procs, Streams, Ending
  <2>4. Is(app, id, "running") /\ proc[id].pc = "new" /\ UNCHANGED <<app, disk, reports>>
    BY <1>6 DEF Spawn, Is
  <2>5. QED BY <1>1, <1>4, <2>1, <2>2, <2>3, <2>4, ProcessKeeps
<1>7. CASE OpenRows(id)
  <2>1. proc[id].pc = "boot" /\ app.jobs[id].kind = "sweep" /\ UNCHANGED <<app, events, reports>>
    BY <1>7 DEF OpenRows
  <2>2. Is(app, id, "running")
    BY <1>2, <2>1 DEF Under
  <2>3. disk' \in Disks /\ \A dir \in Dirs : dir # app.jobs[id].out => disk'[dir] = disk[dir]
    BY <1>1, <1>3, <1>7, <2>1, <2>2 DEF OpenRows, Disks, Is
  <2>4. proc' \in Procs /\ proc'[id].pc = "cell" /\ \A i \in Ids \ {id} : proc'[i] = proc[i]
    BY <1>1, <1>7 DEF OpenRows, Procs, Stages
  <2>5. QED BY <1>1, <2>1, <2>2, <2>3, <2>4, ProcessKeeps
<1>8. CASE WriteRow(id)
  <2>1. proc[id].pc = "cell" /\ UNCHANGED <<app, events, reports>>
    BY <1>8 DEF WriteRow
  <2>2. Is(app, id, "running") /\ app.jobs[id].kind = "sweep"
    BY <1>1, <1>2, <2>1 DEF Under, JobOK
  <2>3. <<id, proc[id].done + 1>> \in Row
    BY <1>1 DEF Row, Ids
  <2>4. disk' \in Disks /\ \A dir \in Dirs : dir # app.jobs[id].out => disk'[dir] = disk[dir]
    BY <1>1, <1>3, <1>8, <2>2, <2>3 DEF WriteRow, Disks, Is
  <2>5. proc' \in Procs /\ proc'[id].pc = "print" /\ \A i \in Ids \ {id} : proc'[i] = proc[i]
    BY <1>1, <1>8 DEF WriteRow, Procs, Stages
  <2>6. QED BY <1>1, <2>1, <2>2, <2>4, <2>5, ProcessKeeps
<1>9. CASE PrintRow(id)
  <2> DEFINE e == [type |-> "row", row |-> <<id, proc[id].done>>]
  <2>1. proc[id].pc = "print" /\ UNCHANGED <<app, disk, reports>>
        /\ events' = [events EXCEPT ![id] = Append(@, e)]
    BY <1>9 DEF PrintRow, Send
  <2>2. Is(app, id, "running") /\ app.jobs[id].kind = "sweep"
    BY <1>1, <1>2, <2>1 DEF Under, JobOK
  <2>3. e \in Event /\ e.type \notin Ending
    BY <1>1, <1>5 DEF Row, Ids, Ending
  <2>4. proc' \in Procs /\ proc'[id].pc = "cell" /\ \A i \in Ids \ {id} : proc'[i] = proc[i]
    BY <1>1, <1>9 DEF PrintRow, Procs, Stages
  <2>5. events'[id] = Append(events[id], e) /\ \A i \in Ids \ {id} : events'[i] = events[i]
    BY <1>1, <2>1 DEF Streams
  <2> HIDE DEF e
  <2>6. QED BY <1>1, <1>4, <2>1, <2>2, <2>3, <2>4, <2>5, ProcessKeeps
<1>10. CASE PrintDone(id)
  <2> DEFINE e == [type |-> "done"]
  <2>1. proc[id].pc = "cell" /\ UNCHANGED <<app, disk, reports>>
        /\ events' = [events EXCEPT ![id] = Append(@, e)]
    BY <1>10 DEF PrintDone, Send
  <2>2. Is(app, id, "running") /\ app.jobs[id].kind = "sweep"
    BY <1>1, <1>2, <2>1 DEF Under, JobOK
  <2>3. e \in Event /\ e.type \notin Ending
    BY <1>5 DEF Ending
  <2>4. proc' \in Procs /\ proc'[id].pc = "ending" /\ \A i \in Ids \ {id} : proc'[i] = proc[i]
    BY <1>1, <1>10 DEF PrintDone, Procs, Stages
  <2>5. events'[id] = Append(events[id], e) /\ \A i \in Ids \ {id} : events'[i] = events[i]
    BY <1>1, <2>1 DEF Streams
  <2> HIDE DEF e
  <2>6. QED BY <1>1, <1>4, <2>1, <2>2, <2>3, <2>4, <2>5, ProcessKeeps
<1>11. CASE Exit(id)
  <2> DEFINE e == [type |-> "exited"]
  <2>1. proc[id].pc \in Under /\ UNCHANGED <<app, disk, reports>>
        /\ events' = [events EXCEPT ![id] = Append(@, e)]
    BY <1>11 DEF Exit, Send, Under
  <2>2. Is(app, id, "running") /\ proc[id].pc # "gone"
    BY <1>2, <2>1 DEF Under
  <2>3. e \in Event /\ e.type \in Ending
    BY <1>5 DEF Ending
  <2>4. proc' \in Procs /\ proc'[id].pc = "gone" /\ \A i \in Ids \ {id} : proc'[i] = proc[i]
    BY <1>1, <1>11 DEF Exit, Procs, Stages
  <2>5. events'[id] = Append(events[id], e) /\ \A i \in Ids \ {id} : events'[i] = events[i]
    BY <1>1, <2>1 DEF Streams
  <2> HIDE DEF e
  <2>6. QED BY <1>1, <1>4, <2>1, <2>2, <2>3, <2>4, <2>5, ProcessKeeps
<1>12. QED BY <1>6, <1>7, <1>8, <1>9, <1>10, <1>11 DEF Step

------------------------------------------------------------------------------
(* The theorems.                                                           *)

LEMMA InitIInv == Init => IInv
<1> SUFFICES ASSUME Init PROVE IInv
  OBVIOUS
<1>1. app.jobs = <<>> /\ DOMAIN app.jobs = {}
  BY DEF Init
<1>2. <<>> \in JobLists
  <2>1. <<>> = [i \in {} |-> <<>>]
    OBVIOUS
  <2>2. <<>> \in [{} -> Job]
    BY <2>1
  <2>3. QED BY <2>2 DEF JobLists
<1>3. TypeOK
  BY <1>2, GuiJobsAssumption DEF Init, TypeOK, Apps, Procs, Streams, Disks, Live0, Shown, Stages
<1>4. JobsOK(app, proc, events)
  BY <1>1 DEF Init, JobsOK, JobOK, Is, Ids
<1>5. ViewOK(app, disk)
  BY DEF Init, ViewOK, LiveOK, RowsOK, ReportOK, Live0
<1>6. InOrder(app)
  BY <1>1 DEF InOrder
<1>7. NoIdle(app)
  BY <1>1 DEF NoIdle, Indices
<1>8. QED BY <1>3, <1>4, <1>5, <1>6, <1>7 DEF IInv

LEMMA StutterKeeps ==
  ASSUME IInv, UNCHANGED vars
  PROVE  IInv' /\ Room(app, app')
<1>1. IInv'
  BY DEF IInv, TypeOK, JobsOK, JobOK, EndIn, ViewOK, LiveOK, RowsOK, ReportOK, ActiveInto,
         RunningInto, InOrder, Is, NoIdle, Running, vars
<1>2. Room(app, app)
  BY FullIs DEF Full
<1>3. QED BY <1>1, <1>2 DEF vars

LEMMA NextKeeps == IInv /\ [Next]_vars => IInv' /\ Room(app, app')
<1> SUFFICES ASSUME IInv, [Next]_vars PROVE IInv' /\ Room(app, app')
  OBVIOUS
<1>1. CASE StartRun
  BY <1>1, StartRunKeeps
<1>2. ASSUME NEW dir \in Dirs, StartSweep(dir) PROVE IInv' /\ Room(app, app')
  BY <1>2, StartSweepKeeps
<1>3. ASSUME NEW i \in DOMAIN app.jobs, Cancel(i) PROVE IInv' /\ Room(app, app')
  <2>1. CASE app.jobs[i].status = "queued"
    BY <1>3, <2>1, CancelQueuedKeeps DEF Cancel
  <2>2. CASE app.jobs[i].status = "running"
    BY <1>3, <2>2, CancelRunningKeeps DEF Cancel
  <2>3. QED BY <1>3, <2>1, <2>2 DEF Cancel
<1>4. CASE ClearFinished
  BY <1>4, ClearFinishedKeeps
<1>5. ASSUME NEW limit \in Limits, Apply(limit) PROVE IInv' /\ Room(app, app')
  BY <1>5, ApplyKeeps
<1>6. CASE Refresh
  BY <1>6, RefreshKeeps
<1>7. ASSUME NEW dir \in Dirs, Select(dir) PROVE IInv' /\ Room(app, app')
  BY <1>7, SelectKeeps
<1>8. CASE AskReport
  BY <1>8, AskReportKeeps
<1>9. ASSUME NEW id \in Ids, Deliver(id) PROVE IInv' /\ Room(app, app')
  BY <1>9, DeliverKeeps
<1>10. ASSUME NEW id \in Ids, Step(id) PROVE IInv' /\ Room(app, app')
  BY <1>10, StepKeeps
<1>11. ASSUME NEW r \in reports, Analysed(r) PROVE IInv' /\ Room(app, app')
  BY <1>11, AnalysedKeeps
<1>12. CASE UNCHANGED vars
  BY <1>12, StutterKeeps
<1>13. QED
  BY <1>1, <1>2, <1>3, <1>4, <1>5, <1>6, <1>7, <1>8, <1>9, <1>10, <1>11, <1>12 DEF Next, User

(* Every message of a user, a job or a report leaves the application, its  *)
(* processes and its files as app.rs and jobs.rs mean them to be.          *)
THEOREM GuiInductive == Spec => []IInv
<1>1. Init => IInv
  BY InitIInv
<1>2. IInv /\ [Next]_vars => IInv'
  BY NextKeeps
<1>3. QED BY <1>1, <1>2, PTL DEF Spec

(* app, processes, event streams and files keep their types.               *)
THEOREM GuiTypes == Spec => []TypeOK
<1>1. IInv => TypeOK
  BY DEF IInv
<1>2. QED BY <1>1, GuiInductive, PTL

(* What the list of jobs says of a job is true of its process, whatever is *)
(* on its way and whenever the user cancels (on_job_event, Cancel).        *)
THEOREM StatusIsAlwaysTrue == Spec => []StatusIsTrue
<1>1. IInv => StatusIsTrue
  <2> SUFFICES ASSUME IInv, NEW id \in DOMAIN app.jobs
               PROVE  LET status == app.jobs[id].status
                      IN  /\ CASE status = "queued" -> proc[id].pc = "new"
                               [] status = "running" -> proc[id].pc = "gone" <=> EndIsComing(id)
                               [] OTHER -> proc[id].pc \in {"new", "gone"} /\ events[id] = <<>>
                          /\ id \in app.cancel_requested => status \in {"running", "failed"}
    BY DEF StatusIsTrue
  <2>1. id \in Ids
    BY JobListIs DEF IInv, TypeOK, Apps
  <2>2. JobOK(app, proc, events, id)
    BY <2>1 DEF IInv, JobsOK
  <2>3. EndIsComing(id) <=> EndIn(events[id])
    BY DEF EndIsComing, EndIn
  <2>4. CASE app.jobs[id].status = "queued"
    BY <2>2, <2>4 DEF JobOK, Is
  <2>5. CASE app.jobs[id].status = "running"
    BY <2>2, <2>3, <2>5 DEF JobOK, Is
  <2>6. CASE app.jobs[id].status # "queued" /\ app.jobs[id].status # "running"
    BY <2>2, <2>6 DEF JobOK, Is
  <2>7. QED BY <2>4, <2>5, <2>6
<1>2. QED BY <1>1, GuiInductive, PTL

(* pump() is called wherever it has to be: no slot is idle while jobs wait.*)
THEOREM NoSlotIsIdle == Spec => []NoIdleSlot
<1>1. IInv => NoIdleSlot
  BY DEF IInv, NoIdle, NoIdleSlot
<1>2. QED BY <1>1, GuiInductive, PTL

(* A sweep shown as running is queued or running: on every path on which   *)
(* it ends or never begins, finished() or Cancel takes the mark away.      *)
THEOREM LiveIsAlwaysReal == Spec => []LiveIsReal
<1>1. IInv => LiveIsReal
  BY DEF IInv, ViewOK, LiveOK, ActiveInto, LiveIsReal, Sweeping
<1>2. QED BY <1>1, GuiInductive, PTL

(* When no sweep writes the directory shown, the rows shown are those on   *)
(* disk, by whichever of the two ways they came (results.rs, run.py).      *)
THEOREM SettledRowsAreAlwaysOnDisk == Spec => []SettledRowsAreOnDisk
<1>1. IInv => SettledRowsAreOnDisk
  <2> SUFFICES ASSUME IInv, app.current # None, ~Sweeping(app.current)
               PROVE  app.rows = disk[app.current]
    BY DEF SettledRowsAreOnDisk
  <2>1. ~RunningInto(app, app.current)
    BY DEF RunningInto, Is, Sweeping, Active
  <2>2. QED BY <2>1 DEF IInv, ViewOK, RowsOK
<1>2. QED BY <1>1, GuiInductive, PTL

(* A report shown is of the directory shown, in whatever order the reports *)
(* asked for come back (State::update, Analysed).                          *)
THEOREM ReportIsAlwaysOfCurrent == Spec => []ReportIsOfCurrent
<1>1. IInv => ReportIsOfCurrent
  BY DEF IInv, ViewOK, ReportOK, ReportIsOfCurrent
<1>2. QED BY <1>1, GuiInductive, PTL

(* pump() starts jobs first come first served and never one beyond the     *)
(* limit, also when the limit was lowered while more were running.         *)
THEOREM AlwaysStartsInOrder == Spec => StartsInOrder
<1> DEFINE A == /\ Running(app') > Running(app) => Running(app') <= app'.limit
                /\ \A i, j \in DOMAIN app'.jobs :
                     i < j /\ app'.jobs[i].status = "queued" => app'.jobs[j].status # "running"
<1>1. IInv /\ [Next]_vars => A
  <2> SUFFICES ASSUME IInv, [Next]_vars PROVE A
    OBVIOUS
  <2>1. IInv' /\ Room(app, app')
    BY NextKeeps
  <2>2. InOrder(app')
    BY <2>1 DEF IInv
  <2>3. QED BY <2>1, <2>2 DEF Room, InOrder, Is
<1>2. IInv /\ [Next]_vars => [A]_vars
  BY <1>1
<1> HIDE DEF A
<1>3. Spec => [][A]_vars
  BY <1>2, GuiInductive, PTL DEF Spec
<1>4. QED BY <1>3 DEF StartsInOrder, A
==============================================================================
