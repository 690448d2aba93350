------------------------------ MODULE SweepProofs -----------------------------
(***************************************************************************)
(* Theorems about SweepCells, for every number of sweeps, every choice of  *)
(* what they are asked for, any number of kills and any limits of the      *)
(* simulation driver.                                                      *)
(***************************************************************************)
EXTENDS SweepCells, Integers, TLAPS

Verdicts == {"none", "good", "bad"}
Pcs == {"off", "cell", "mesh", "copy", "header", "calibrate", "calibrating", "rates",
        "generate", "build",
        "launch", "simulate", "report", "reported", "collect", "row", "done", "killed"}
Watching == {"simulate", "report", "reported"}

Measured == {Absent, Torn} \cup {Whole(b) : b \in Boards}
Programs == {Absent, Torn} \cup {Whole(p) : p \in [board : Boards, rates : Boards]}
Statuses == {"ok", "wrong-result", "stalled", "no-metrics"}
Outcomes == [by : Sweeps, program : Programs, said : Verdicts, status : Statuses]
Results  == {Absent, Torn} \cup {Whole(o) : o \in Outcomes}
RowSet   == [cell : Cells, board : Boards, by : Sweeps,
             status : Statuses \cup {"invalid", "error", "failed"}, result : Results]
States   == [pc : Pcs, dir : Dirs \cup {"none"}, board : Boards \cup {"none"},
             cells : Seq(Cells), k : Nat, program : Programs, row : RowSet \cup {Absent},
             fresh : BOOLEAN]
Sims     == [running : BOOLEAN, out : Seq(Lines), silent : Nat, age : Nat, stalled : BOOLEAN,
             verdict : Verdicts, said : Verdicts]
Works    == [board : Boards, cell : Cells]

Begun(s) == sweep[s].pc # "off"

SweepTypes ==
  /\ sweep \in [Sweeps -> States]
  /\ \A s \in Sweeps : IF Begun(s) THEN /\ Dir(s) \in Dirs /\ Board(s) \in Boards
                                        /\ sweep[s].k \in 1..Len(sweep[s].cells)
                       ELSE Dir(s) = "none"
  /\ \A s \in Sweeps : At(s, "row") => sweep[s].row \in RowSet

DataTypes ==
  /\ sim \in [Sweeps -> Sims]
  /\ rates \in [Dirs -> [Designs -> Measured]]
  /\ result \in [Dirs -> [Cells -> Results]]
  /\ rows \in [Dirs -> Seq(RowSet)]
  /\ work \in [Works -> Programs]

------------------------------------------------------------------------------
(* What a step does to the sweep that takes it, field by field.            *)

Kept(s) == /\ sweep'[s].dir = sweep[s].dir /\ sweep'[s].board = sweep[s].board
           /\ sweep'[s].cells = sweep[s].cells /\ sweep'[s].fresh = sweep[s].fresh
Others(s) == \A t \in Sweeps \ {s} : sweep'[t] = sweep[t]

LEMMA Tags ==
  /\ Absent.state = "absent" /\ Torn.state = "torn"
  /\ \A x : Whole(x).state = "whole" /\ Whole(x).of = x
BY DEF Absent, Torn, Whole

LEMMA NoneIsNoDir == "none" \notin Dirs
BY AskedAssumption DEF Dirs, Asks

LEMMA CellOf ==
  ASSUME SweepTypes, NEW s \in Sweeps, Begun(s)
  PROVE  Cell(s) \in Cells /\ Design(s) \in Designs /\ Work(s) \in Works
<1>1. sweep[s].cells \in Seq(Cells) /\ sweep[s].k \in 1..Len(sweep[s].cells) /\ Board(s) \in Boards
  BY DEF SweepTypes, States
<1>2. Cell(s) \in Cells
  BY <1>1 DEF Cell
<1> QED
  BY <1>1, <1>2 DEF Design, Designs, Work, Works

LEMMA GotoStep ==
  ASSUME SweepTypes, NEW s \in Sweeps, Begun(s), NEW pc \in Pcs \ {"off", "row"}, Goto(s, pc)
  PROVE  /\ SweepTypes' /\ Kept(s) /\ Others(s)
         /\ sweep'[s].pc = pc /\ sweep'[s].k = sweep[s].k /\ sweep'[s].program = sweep[s].program
<1>1. sweep \in [Sweeps -> States] /\ sweep' = [sweep EXCEPT ![s].pc = pc]
  BY DEF SweepTypes, Goto
<1>2. /\ sweep'[s].pc = pc /\ sweep'[s].k = sweep[s].k /\ sweep'[s].program = sweep[s].program
      /\ sweep'[s] \in States /\ Kept(s) /\ Others(s) /\ sweep' \in [Sweeps -> States]
  BY <1>1, ZenonT(30) DEF States, Kept, Others
<1> QED
  BY <1>2 DEF SweepTypes, Begun, Dir, Board, Kept, Others, At

LEMMA RowStep ==
  ASSUME SweepTypes, NEW s \in Sweeps, Begun(s),
         NEW st \in Statuses \cup {"invalid", "error", "failed"}, NEW r \in Results,
         EndCell(s, st, r)
  PROVE  /\ SweepTypes' /\ Kept(s) /\ Others(s)
         /\ sweep'[s].pc = "row" /\ sweep'[s].k = sweep[s].k /\ sweep'[s].program = sweep[s].program
         /\ sweep'[s].row = Row(s, st, r)
<1>0. Row(s, st, r) \in RowSet
  BY CellOf DEF Row, RowSet, SweepTypes
<1>1. sweep \in [Sweeps -> States]
      /\ sweep' = [sweep EXCEPT ![s].pc = "row", ![s].row = Row(s, st, r)]
  BY DEF SweepTypes, EndCell, RecordRow
<1>a. sweep' = [sweep EXCEPT ![s] = [sweep[s] EXCEPT !.pc = "row", !.row = Row(s, st, r)]]
  BY <1>1
<1>b. [sweep[s] EXCEPT !.pc = "row", !.row = Row(s, st, r)] \in States
  BY <1>0, <1>1 DEF States, Pcs
<1>2. /\ sweep'[s].pc = "row" /\ sweep'[s].k = sweep[s].k /\ sweep'[s].program = sweep[s].program
      /\ sweep'[s].row = Row(s, st, r)
      /\ sweep'[s] \in States /\ Kept(s) /\ Others(s) /\ sweep' \in [Sweeps -> States]
  BY <1>a, <1>b, <1>1 DEF States, Kept, Others
<1> QED
  BY <1>0, <1>2 DEF SweepTypes, Begun, Dir, Board, Kept, Others, At

LEMMA LaunchStep ==
  ASSUME SweepTypes, DataTypes, NEW s \in Sweeps, Launch(s)
  PROVE  /\ SweepTypes' /\ Kept(s) /\ Others(s) /\ Begun(s)
         /\ sweep'[s].pc = "simulate" /\ sweep'[s].k = sweep[s].k
         /\ sweep'[s].program = work[Work(s)]
<1>0. Begun(s)
  BY DEF Launch, At, Begun
<1>1. work[Work(s)] \in Programs
  BY <1>0, CellOf DEF DataTypes
<1>2. sweep \in [Sweeps -> States]
      /\ sweep' = [sweep EXCEPT ![s].pc = "simulate", ![s].program = work[Work(s)]]
  BY DEF SweepTypes, Launch, WorkDir
<1>a. sweep' = [sweep EXCEPT ![s] = [sweep[s] EXCEPT !.pc = "simulate", !.program = work[Work(s)]]]
  BY <1>2
<1>b. [sweep[s] EXCEPT !.pc = "simulate", !.program = work[Work(s)]] \in States
  BY <1>1, <1>2 DEF States, Pcs
<1>3. /\ sweep'[s].pc = "simulate" /\ sweep'[s].k = sweep[s].k /\ sweep'[s].program = work[Work(s)]
      /\ sweep'[s] \in States /\ Kept(s) /\ Others(s) /\ sweep' \in [Sweeps -> States]
  BY <1>a, <1>b, <1>2 DEF States, Kept, Others
<1> QED
  BY <1>0, <1>3 DEF SweepTypes, Begun, Dir, Board, Kept, Others, At

LEMMA WriteRowStep ==
  ASSUME SweepTypes, NEW s \in Sweeps, WriteRow(s)
  PROVE  /\ SweepTypes' /\ Kept(s) /\ Others(s) /\ Begun(s) /\ sweep[s].row \in RowSet
         /\ sweep'[s].program = Absent
         /\ IF Last(s) THEN sweep'[s].pc = "done" /\ sweep'[s].k = sweep[s].k
                       ELSE sweep'[s].pc = "cell" /\ sweep'[s].k = sweep[s].k + 1
<1>0. Begun(s) /\ sweep[s].row \in RowSet
  BY DEF WriteRow, At, Begun, SweepTypes
<1>1. /\ sweep \in [Sweeps -> States]
      /\ sweep' = [sweep EXCEPT ![s].pc = IF Last(s) THEN "done" ELSE "cell",
                                ![s].k = IF Last(s) THEN @ ELSE @ + 1,
                                ![s].row = Absent, ![s].program = Absent]
  BY DEF SweepTypes, WriteRow
<1> DEFINE next == [sweep[s] EXCEPT !.pc = IF Last(s) THEN "done" ELSE "cell",
                                    !.k = IF Last(s) THEN @ ELSE @ + 1,
                                    !.row = Absent, !.program = Absent]
<1>a. sweep' = [sweep EXCEPT ![s] = next]
  BY <1>1
<1>b. next \in States
  <2>1. CASE Last(s)
    <3>1. next = [sweep[s] EXCEPT !.pc = "done", !.row = Absent, !.program = Absent]
      BY <1>1, <2>1 DEF States
    <3>2. [sweep[s] EXCEPT !.pc = "done", !.row = Absent, !.program = Absent] \in States
      BY <1>1, ZenonT(30) DEF States, Pcs, Programs
    <3> QED
      BY <3>1, <3>2
  <2>2. CASE ~Last(s)
    <3>1. next = [sweep[s] EXCEPT !.pc = "cell", !.k = sweep[s].k + 1, !.row = Absent, !.program = Absent]
      BY <1>1, <2>2 DEF States
    <3>2. ASSUME NEW j \in Nat
          PROVE  [sweep[s] EXCEPT !.pc = "cell", !.k = j, !.row = Absent, !.program = Absent] \in States
      BY <1>1, ZenonT(30) DEF States, Pcs, Programs
    <3>3. sweep[s].k + 1 \in Nat
      BY <1>1 DEF States
    <3> QED
      BY <3>1, <3>2, <3>3
  <2> QED
    BY <2>1, <2>2
<1>2. /\ sweep'[s].program = Absent
      /\ IF Last(s) THEN sweep'[s].pc = "done" /\ sweep'[s].k = sweep[s].k
                    ELSE sweep'[s].pc = "cell" /\ sweep'[s].k = sweep[s].k + 1
      /\ sweep'[s] \in States /\ Kept(s) /\ Others(s) /\ sweep' \in [Sweeps -> States]
  BY <1>a, <1>b, <1>1 DEF States, Kept, Others
<1>3. sweep'[s].k \in 1..Len(sweep'[s].cells)
  <2>1. sweep[s].cells \in Seq(Cells) /\ sweep[s].k \in 1..Len(sweep[s].cells)
    BY <1>0, <1>1 DEF SweepTypes, States
  <2> QED
    BY <1>2, <2>1 DEF Last, Kept
<1> QED
  BY <1>0, <1>2, <1>3 DEF SweepTypes, Begun, Dir, Board, Kept, Others, At

LEMMA KillStep ==
  ASSUME SweepTypes, NEW s \in Sweeps, Kill(s)
  PROVE  /\ SweepTypes' /\ Kept(s) /\ Others(s) /\ Begun(s)
         /\ sweep'[s].pc = "killed" /\ sweep'[s].k = sweep[s].k /\ sweep'[s].program = Absent
<1>0. Begun(s)
  BY DEF Kill, Active, Begun
<1>1. /\ sweep \in [Sweeps -> States]
      /\ sweep' = [sweep EXCEPT ![s].pc = "killed", ![s].row = Absent, ![s].program = Absent]
  BY DEF SweepTypes, Kill
<1>a. sweep' = [sweep EXCEPT ![s] = [sweep[s] EXCEPT !.pc = "killed", !.row = Absent, !.program = Absent]]
  BY <1>1
<1>b. [sweep[s] EXCEPT !.pc = "killed", !.row = Absent, !.program = Absent] \in States
  <2>1. sweep[s] \in States
    BY <1>1
  <2>2. "killed" \in Pcs /\ Absent \in Programs
    BY DEF Pcs, Programs
  <2>3. QED BY <2>1, <2>2 DEF States
<1>2. /\ sweep'[s].pc = "killed" /\ sweep'[s].k = sweep[s].k /\ sweep'[s].program = Absent
      /\ sweep'[s] \in States /\ Kept(s) /\ Others(s) /\ sweep' \in [Sweeps -> States]
  BY <1>a, <1>b, <1>1 DEF States, Kept, Others
<1> QED
  BY <1>0, <1>2 DEF SweepTypes, Begun, Dir, Board, Kept, Others, At

LEMMA StartStep ==
  ASSUME SweepTypes, NEW s \in Sweeps, NEW ask \in Asked[s], Start(s, ask)
  PROVE  /\ SweepTypes' /\ Others(s) /\ ~Begun(s)
         /\ ask.dir \in Dirs /\ ask.dir # "none"
         /\ sweep'[s].pc = "cell" /\ sweep'[s].dir = ask.dir /\ sweep'[s].board = ask.board
         /\ sweep'[s].cells = ask.cells /\ sweep'[s].k = 1 /\ sweep'[s].program = Absent
         /\ sweep'[s].fresh = (\A t \in Sweeps : Dir(t) # ask.dir)
<1>1. /\ ask.dir \in Dirs /\ ask.board \in Boards /\ ask.dir # "none"
      /\ ask.cells \in Seq(Cells) /\ ask.cells # <<>>
  BY AskedAssumption DEF Dirs, Boards, Asks
<1>2. 1 \in 1..Len(ask.cells)
  BY <1>1
<1> DEFINE new == [pc |-> "cell", dir |-> ask.dir, board |-> ask.board, cells |-> ask.cells,
                   k |-> 1, program |-> Absent, row |-> Absent,
                   fresh |-> \A t \in Sweeps : Dir(t) # ask.dir]
<1>3. sweep \in [Sweeps -> States] /\ sweep' = [sweep EXCEPT ![s] = new] /\ ~Begun(s)
  BY DEF SweepTypes, Start, At, Begun
<1>4. (\A t \in Sweeps : Dir(t) # ask.dir) \in BOOLEAN
  OBVIOUS
<1>5. new \in States
  BY <1>1, <1>4 DEF States, Pcs, Programs
<1>6. sweep'[s] = new /\ Others(s) /\ sweep' \in [Sweeps -> States]
  BY <1>3, <1>5 DEF Others
<1>7. SweepTypes'
  BY <1>1, <1>2, <1>6 DEF SweepTypes, Begun, Dir, Board, Others, At
<1> QED
  BY <1>1, <1>3, <1>6, <1>7

------------------------------------------------------------------------------
(* The simulation that is watched.                                         *)

\* The loop believes nothing the program has not said.
Heard(x) == /\ x.verdict \in {"none", x.said}
            /\ \A i \in DOMAIN x.out : x.out[i] \in {"beacon", x.said}

LEMMA SimStart ==
  /\ Idle \in Sims /\ Heard(Idle) /\ Idle.said = "none"
  /\ Launched \in Sims /\ Heard(Launched) /\ Launched.said = "none"
<1>1. Idle \in Sims
  BY DEF Idle, Sims, Verdicts
<1>2. Launched \in Sims
  BY <1>1 DEF Launched, Sims
<1>3. Idle.out = <<>> /\ Idle.verdict = "none" /\ Idle.said = "none"
  BY DEF Idle
<1>4. Launched.out = <<>> /\ Launched.verdict = "none" /\ Launched.said = "none"
  BY <1>3 DEF Launched, Idle
<1>5. DOMAIN <<>> = {}
  OBVIOUS
<1> QED
  BY <1>1, <1>2, <1>3, <1>4, <1>5 DEF Heard

LEMMA SimPrints ==
  ASSUME NEW x \in Sims, Heard(x), NEW line \in Lines, CanPrint(x)
  PROVE  Printed(x, line) \in Sims /\ Heard(Printed(x, line))
<1>1. x.said = "none" /\ x.out \in Seq(Lines)
  BY DEF CanPrint, Sims
<1> DEFINE out == Append(x.out, line)
           said == IF line = "beacon" THEN x.said ELSE line
<1>2. out \in Seq(Lines) /\ said \in Verdicts
  BY <1>1 DEF Lines, Verdicts
<1>3. \A i \in DOMAIN out : out[i] \in {"beacon", said}
  <2> SUFFICES ASSUME NEW i \in DOMAIN out PROVE out[i] \in {"beacon", said}
    OBVIOUS
  <2>1. CASE i = Len(x.out) + 1
    BY <1>1, <2>1
  <2>2. CASE i # Len(x.out) + 1
    <3>1. i \in DOMAIN x.out /\ out[i] = x.out[i]
      BY <1>1, <2>2
    <3>2. x.out[i] = "beacon"
      BY <1>1, <3>1 DEF Heard, Lines
    <3> QED
      BY <3>1, <3>2
  <2> QED
    BY <2>1, <2>2
<1>4. x.verdict = "none"
  BY <1>1 DEF Heard
<1>5. Printed(x, line) = [x EXCEPT !.out = out, !.said = said]
  BY DEF Printed, Sims
<1> HIDE DEF out, said
<1>6. Printed(x, line) \in Sims
  BY <1>2, <1>5 DEF Sims
<1>7. Printed(x, line).out = out /\ Printed(x, line).said = said /\ Printed(x, line).verdict = "none"
  BY <1>4, <1>5 DEF Sims
<1> QED
  BY <1>3, <1>6, <1>7 DEF Heard

\* What the other steps leave of a simulation.
LEMMA SimGoesOn ==
  ASSUME NEW x \in Sims, Heard(x)
  PROVE  /\ Ticked(x) \in Sims /\ Heard(Ticked(x)) /\ Ticked(x).said = x.said
         /\ Left(x) \in Sims /\ Heard(Left(x)) /\ Left(x).said = x.said
         /\ LET y == [x EXCEPT !.running = FALSE] IN y \in Sims /\ Heard(y) /\ y.said = x.said
<1>1. x.silent \in Nat /\ x.age \in Nat
  BY DEF Sims
<1>2. Later(x.silent, Stall) \in Nat /\ Later(x.age, Limit) \in Nat
  BY <1>1 DEF Later
<1>3. Ticked(x) \in Sims /\ Heard(Ticked(x)) /\ Ticked(x).said = x.said
  <2>1. \A i, j \in Nat : [x EXCEPT !.silent = i, !.age = j] \in Sims
    BY DEF Sims
  <2>2. Ticked(x) = [x EXCEPT !.silent = Later(x.silent, Stall), !.age = Later(x.age, Limit)]
    BY DEF Ticked, Sims
  <2> QED
    BY <1>2, <2>1, <2>2 DEF Heard, Sims
<1>4. Left(x) \in Sims /\ Heard(Left(x)) /\ Left(x).said = x.said
  <2>1. Stalled(x) \in BOOLEAN
    BY DEF Stalled
  <2>2. ASSUME NEW b \in BOOLEAN
        PROVE  [x EXCEPT !.running = FALSE, !.out = <<>>, !.stalled = b] \in Sims
    <3>1. \A q \in Seq(Lines) : [x EXCEPT !.running = FALSE, !.out = q, !.stalled = b] \in Sims
      BY DEF Sims
    <3>2. <<>> \in Seq(Lines)
      OBVIOUS
    <3> QED
      BY <3>1, <3>2
  <2>3. Left(x).out = <<>> /\ Left(x).verdict = x.verdict /\ Left(x).said = x.said
    BY DEF Left, Sims
  <2>4. DOMAIN <<>> = {}
    OBVIOUS
  <2> QED
    BY <2>1, <2>2, <2>3, <2>4 DEF Left, Heard
<1> QED
  BY <1>3, <1>4 DEF Heard, Sims

LEMMA SimTakes ==
  ASSUME NEW x \in Sims, Heard(x), x.out # <<>>
  PROVE  Took(x) \in Sims /\ Heard(Took(x)) /\ Took(x).said = x.said
<1>1. x.out \in Seq(Lines)
  BY DEF Sims
<1>2. /\ Head(x.out) \in Lines /\ Head(x.out) \in {"beacon", x.said} /\ Tail(x.out) \in Seq(Lines)
      /\ \A i \in DOMAIN Tail(x.out) : Tail(x.out)[i] \in {"beacon", x.said}
  BY <1>1 DEF Heard
<1> DEFINE silent == IF Head(x.out) = "beacon" THEN 0 ELSE x.silent
           verdict == IF Head(x.out) = "beacon" THEN x.verdict ELSE Head(x.out)
<1>3. silent \in Nat /\ verdict \in Verdicts /\ verdict \in {"none", x.said}
  BY <1>2 DEF Sims, Lines, Verdicts, Heard
<1>4. Took(x) = [x EXCEPT !.out = Tail(x.out), !.silent = silent, !.verdict = verdict]
  BY DEF Took, Sims
<1> HIDE DEF silent, verdict
<1>5. Took(x) \in Sims
  BY <1>2, <1>3, <1>4 DEF Sims
<1>6. Took(x).out = Tail(x.out) /\ Took(x).said = x.said /\ Took(x).verdict = verdict
  BY <1>4 DEF Sims
<1> QED
  BY <1>2, <1>3, <1>5, <1>6 DEF Heard

\* A run ends ok only on a good verdict.
LEMMA SimStatus ==
  ASSUME NEW x \in Sims, NEW app \in BOOLEAN
  PROVE  Status(x, app) \in Statuses /\ (Status(x, app) = "ok" => x.verdict = "good")
<1>1. x.verdict \in Verdicts /\ x.stalled \in BOOLEAN
  BY DEF Sims
<1>2. CASE x.stalled /\ ~(app /\ x.verdict # "none")
  BY <1>1, <1>2 DEF Status, Statuses, Verdicts
<1>3. CASE ~x.stalled /\ x.verdict = "none"
  BY <1>1, <1>3 DEF Status, Statuses, Verdicts
<1>4. CASE x.verdict # "none" /\ (app \/ ~x.stalled)
  BY <1>1, <1>4 DEF Status, Statuses, Verdicts
<1> QED
  BY <1>1, <1>2, <1>3, <1>4

------------------------------------------------------------------------------
(* The invariant.                                                          *)

\* Two sweeps that go on do not share their directory: main() of the second
\* would truncate the rows of the first.
Apart == \A s, t \in Sweeps : s # t /\ Active(s) /\ Active(t) => Dir(s) # Dir(t)

\* A directory no sweep has used holds nothing.
Unused == \A d \in Dirs : (\A s \in Sweeps : Dir(s) # d) =>
  /\ \A e \in Designs : rates[d][e] = Absent
  /\ \A c \in Cells : result[d][c] = Absent
  /\ rows[d] = <<>>

\* A program speaks only when it is whole and being watched.
SimInv(s) ==
  /\ Heard(sim[s])
  /\ sweep[s].pc \notin Watching => sim[s].said = "none"
  /\ sim[s].said # "none" => sweep[s].program.state = "whole"
  /\ sweep[s].pc \in Watching => sweep[s].program.state # "absent"
  /\ sweep[s].pc \in {"build", "launch"} => work[Work(s)].state # "absent"
  /\ sweep[s].pc = "build" => rates[Dir(s)][Design(s)].state = "whole"

\* The rows of a sweep that goes on are those of the cells behind it.
RowsInv(s) ==
  /\ Active(s) => /\ Len(rows[Dir(s)]) = sweep[s].k - 1
                  /\ \A i \in DOMAIN rows[Dir(s)] : /\ rows[Dir(s)][i].by = s
                                                   /\ rows[Dir(s)][i].cell = sweep[s].cells[i]
  /\ At(s, "row") => sweep[s].row.by = s /\ sweep[s].row.cell = Cell(s)
  /\ At(s, "done") /\ (\A t \in Sweeps \ {s} : Dir(t) # Dir(s)) =>
       Len(rows[Dir(s)]) = Len(sweep[s].cells)

\* What a directory of its own holds is the sweep's own.
AllFresh == \A s \in Sweeps : At(s, "off") \/ sweep[s].fresh
OwnProgram(board) == Whole([board |-> board, rates |-> board])
OwnResult(s, r) ==
  r.state = "whole" /\ r.of.status = "ok" =>
    r.of.by = s /\ r.of.said = "good" /\ r.of.program = OwnProgram(Board(s))
OwnInv(s) ==
  /\ \A e \in Designs : rates[Dir(s)][e].state = "whole" => rates[Dir(s)][e].of = Board(s)
  /\ \A c \in Cells : OwnResult(s, result[Dir(s)][c])
  /\ sweep[s].program.state = "whole" => sweep[s].program = OwnProgram(Board(s))
  /\ At(s, "row") => SaysWhatWasRun(sweep[s].row)
  /\ \A i \in DOMAIN rows[Dir(s)] : SaysWhatWasRun(rows[Dir(s)][i])

OwnDirs == \A s, t \in Sweeps : s # t /\ Begun(s) /\ Begun(t) => Dir(s) # Dir(t)
OwnWork == \A w \in Works : work[w].state = "whole" => work[w] = OwnProgram(w.board)
OwnSweeps == \A s \in Sweeps : Begun(s) => OwnInv(s)

Inv ==
  /\ SweepTypes /\ DataTypes /\ Apart /\ Unused
  /\ \A s \in Sweeps : SimInv(s) /\ RowsInv(s)
  /\ AllFresh => OwnDirs /\ OwnWork /\ OwnSweeps

\* A step of a sweep touches nothing of the others but the work directory.
StepOf(s) ==
  /\ SweepTypes' /\ DataTypes' /\ Kept(s) /\ Others(s)
  /\ Active(s) /\ sweep'[s].pc # "off"
  /\ \A t \in Sweeps \ {s} : sim'[t] = sim[t]
  /\ \A d \in Dirs : d # Dir(s) => rates'[d] = rates[d] /\ result'[d] = result[d] /\ rows'[d] = rows[d]
  /\ \A w \in Works : work'[w] = work[w] \/ work'[w].state # "absent"

LEMMA StepElsewhere ==
  ASSUME Inv, NEW s \in Sweeps, StepOf(s)
  PROVE  /\ Apart' /\ Unused' /\ (AllFresh' => AllFresh) /\ (AllFresh => OwnDirs')
         /\ \A t \in Sweeps \ {s} : SimInv(t)' /\ RowsInv(t)' /\ (AllFresh /\ Begun(t)' => OwnInv(t)')
<1>0. /\ SweepTypes /\ DataTypes /\ Apart /\ Unused /\ Active(s) /\ Begun(s)
      /\ \A t \in Sweeps : SimInv(t) /\ RowsInv(t)
      /\ AllFresh => OwnDirs /\ OwnWork /\ OwnSweeps
  BY DEF Inv, StepOf, Active, Begun
<1>1. \A t \in Sweeps : /\ sweep'[t].dir = sweep[t].dir /\ sweep'[t].board = sweep[t].board
                        /\ sweep'[t].fresh = sweep[t].fresh
                        /\ (sweep'[t].pc = "off" <=> sweep[t].pc = "off")
  BY <1>0 DEF StepOf, Kept, Others, Begun
<1>2. Apart'
  <2>1. \A t \in Sweeps : Active(t)' => Active(t)
    BY <1>0 DEF StepOf, Others, Active
  <2> QED
    BY <1>0, <1>1, <2>1 DEF Apart, Dir
<1>3. Unused'
  <2> SUFFICES ASSUME NEW d \in Dirs, \A t \in Sweeps : Dir(t)' # d
               PROVE  /\ \A e \in Designs : rates'[d][e] = Absent
                      /\ \A c \in Cells : result'[d][c] = Absent
                      /\ rows'[d] = <<>>
    BY DEF Unused
  <2>1. (\A t \in Sweeps : Dir(t) # d) /\ d # Dir(s)
    BY <1>1 DEF Dir
  <2> QED
    BY <1>0, <2>1 DEF StepOf, Unused
<1>4. AllFresh' => AllFresh
  BY <1>1 DEF AllFresh, At
<1>5. AllFresh => OwnDirs'
  BY <1>0, <1>1 DEF OwnDirs, Begun, Dir
<1>6. ASSUME NEW t \in Sweeps \ {s} PROVE SimInv(t)'
  <2>1. sweep'[t] = sweep[t] /\ sim'[t] = sim[t] /\ SimInv(t)
    BY <1>0, <1>6 DEF StepOf, Others
  <2>2. sweep[t].pc \in {"build", "launch"} => work'[Work(t)].state # "absent"
    <3>1. Begun(t) /\ sweep[t].pc \in {"build", "launch"} => Work(t) \in Works
      BY <1>0, CellOf
    <3> QED
      BY <1>6, <2>1, <3>1 DEF StepOf, SimInv, Begun
  <2>3. sweep[t].pc = "build" => rates'[Dir(t)] = rates[Dir(t)]
    <3>1. sweep[t].pc = "build" => Dir(t) \in Dirs /\ Dir(t) # Dir(s)
      BY <1>0, <1>6 DEF Apart, Active, SweepTypes, Begun
    <3> QED
      BY <3>1 DEF StepOf
  <2> QED
    BY <2>1, <2>2, <2>3 DEF SimInv, Work, Design, Cell, Board, Dir
<1>7. ASSUME NEW t \in Sweeps \ {s} PROVE RowsInv(t)'
  <2>1. sweep'[t] = sweep[t] /\ RowsInv(t)
    BY <1>0, <1>7 DEF StepOf, Others
  <2>2. Begun(t) /\ Dir(t) # Dir(s) => rows'[Dir(t)] = rows[Dir(t)]
    BY <1>0, <1>7 DEF StepOf, SweepTypes
  <2>3. Active(t) => Dir(t) # Dir(s) /\ Begun(t)
    BY <1>0, <1>7 DEF Apart, Active, Begun
  <2>4. At(t, "done") /\ (\A u \in Sweeps \ {t} : Dir(u)' # Dir(t)') => Dir(t) # Dir(s) /\ Begun(t)
    BY <1>1, <1>7 DEF At, Begun, Dir
  <2> QED
    BY <1>1, <2>1, <2>2, <2>3, <2>4 DEF RowsInv, Active, At, Dir, Cell
<1>8. ASSUME NEW t \in Sweeps \ {s}, AllFresh, Begun(t)' PROVE OwnInv(t)'
  <2>1. sweep'[t] = sweep[t] /\ Begun(t) /\ OwnInv(t)
    BY <1>0, <1>8 DEF StepOf, Others, Begun, OwnSweeps
  <2>2. Dir(t) \in Dirs /\ Dir(t) # Dir(s)
    BY <1>0, <1>8, <2>1 DEF OwnDirs, SweepTypes
  <2>3. rates'[Dir(t)] = rates[Dir(t)] /\ result'[Dir(t)] = result[Dir(t)] /\ rows'[Dir(t)] = rows[Dir(t)]
    BY <2>2 DEF StepOf
  <2> QED
    BY <2>1, <2>3 DEF OwnInv, OwnResult, Dir, Board, At
<1> QED
  BY <1>2, <1>3, <1>4, <1>5, <1>6, <1>7, <1>8

\* So a step is shown to keep the invariant by what it does to its own sweep.
LEMMA StepKeeps ==
  ASSUME Inv, NEW s \in Sweeps, StepOf(s), SimInv(s)', RowsInv(s)',
         AllFresh => OwnInv(s)' /\ OwnWork'
  PROVE  Inv'
<1>1. AllFresh' => OwnDirs' /\ OwnWork' /\ OwnSweeps'
  BY StepElsewhere DEF OwnSweeps
<1> QED
  BY <1>1, StepElsewhere DEF Inv, StepOf
------------------------------------------------------------------------------
(* The steps of a sweep that change nothing but where it is.               *)

Quiet == UNCHANGED <<sim, rates, result, rows, work>>

LEMMA Facts ==
  ASSUME Inv, NEW s \in Sweeps, Begun(s)
  PROVE  /\ SweepTypes /\ DataTypes /\ SimInv(s) /\ RowsInv(s)
         /\ Dir(s) \in Dirs /\ Board(s) \in Boards
         /\ Cell(s) \in Cells /\ Design(s) \in Designs /\ Work(s) \in Works
         /\ AllFresh => OwnInv(s) /\ OwnWork
BY CellOf DEF Inv, SweepTypes, OwnSweeps

LEMMA QuietGoto ==
  ASSUME Inv, NEW s \in Sweeps, Active(s), sweep[s].pc \notin Watching,
         NEW pc \in {"mesh", "copy", "header", "calibrate", "calibrating", "generate", "collect"},
         Goto(s, pc), Quiet
  PROVE  Inv'
<1>0. Begun(s)
  BY DEF Active, Begun
<1>1. /\ SweepTypes' /\ Kept(s) /\ Others(s)
      /\ sweep'[s].pc = pc /\ sweep'[s].k = sweep[s].k /\ sweep'[s].program = sweep[s].program
  BY <1>0, Facts, GotoStep DEF Pcs
<1>2. StepOf(s)
  BY <1>0, <1>1, Facts DEF StepOf, Quiet, DataTypes
<1>3. SimInv(s)'
  BY <1>0, <1>1, Facts DEF SimInv, Quiet, Watching
<1>4. RowsInv(s)'
  BY <1>0, <1>1, Facts DEF RowsInv, Quiet, Kept, Active, At, Dir, Cell
<1>5. AllFresh => OwnWork'
  BY <1>0, Facts DEF OwnWork, Quiet
<1>6. ASSUME AllFresh PROVE OwnInv(s)'
  <2>1. OwnInv(s)
    BY <1>0, <1>6, Facts
  <2>2. ~At(s, "row")'
    BY <1>1 DEF At
  <2> QED
    BY <1>1, <2>1, <2>2 DEF OwnInv, OwnResult, Quiet, Kept, Dir, Board
<1> QED
  BY <1>2, <1>3, <1>4, <1>5, <1>6, StepKeeps

LEMMA QuietRow ==
  ASSUME Inv, NEW s \in Sweeps, Active(s), sweep[s].pc \notin Watching,
         NEW st \in Statuses \cup {"invalid", "error", "failed"}, NEW r \in Results,
         EndCell(s, st, r), Quiet,
         AllFresh => SaysWhatWasRun(Row(s, st, r))
  PROVE  Inv'
<1>0. Begun(s)
  BY DEF Active, Begun
<1>1. /\ SweepTypes' /\ Kept(s) /\ Others(s)
      /\ sweep'[s].pc = "row" /\ sweep'[s].k = sweep[s].k /\ sweep'[s].program = sweep[s].program
      /\ sweep'[s].row = Row(s, st, r)
  BY <1>0, Facts, RowStep
<1>2. StepOf(s)
  BY <1>0, <1>1, Facts DEF StepOf, Quiet, DataTypes
<1>3. SimInv(s)'
  BY <1>0, <1>1, Facts DEF SimInv, Quiet, Watching
<1>a. Row(s, st, r).by = s /\ Row(s, st, r).cell = Cell(s)
  BY DEF Row
<1>4. RowsInv(s)'
  <2>1. RowsInv(s)
    BY <1>0, Facts
  <2>2. sweep'[s].row.by = s /\ sweep'[s].row.cell = Cell(s) /\ Cell(s)' = Cell(s)
    BY <1>1, <1>a DEF Kept, Cell
  <2>3. ~At(s, "done")' /\ rows' = rows /\ Dir(s)' = Dir(s) /\ sweep'[s].cells = sweep[s].cells
    BY <1>1 DEF At, Quiet, Kept, Dir
  <2> QED
    BY <1>1, <2>1, <2>2, <2>3 DEF RowsInv
<1>5. AllFresh => OwnWork'
  BY <1>0, Facts DEF OwnWork, Quiet
<1>6. ASSUME AllFresh PROVE OwnInv(s)'
  <2>1. OwnInv(s)
    BY <1>0, <1>6, Facts
  <2>2. SaysWhatWasRun(sweep'[s].row)
    BY <1>1, <1>6
  <2> QED
    BY <1>1, <2>1, <2>2 DEF OwnInv, OwnResult, Quiet, Kept, Dir, Board
<1> QED
  BY <1>2, <1>3, <1>4, <1>5, <1>6, StepKeeps

LEMMA ErrorRow ==
  ASSUME Inv, NEW s \in Sweeps, Active(s), sweep[s].pc \notin Watching,
         NEW st \in {"invalid", "error", "failed"}, EndCell(s, st, Absent), Quiet
  PROVE  Inv'
<1>1. SaysWhatWasRun(Row(s, st, Absent))
  BY DEF SaysWhatWasRun, Row
<1>2. Absent \in Results
  BY DEF Results
<1> QED
  BY <1>1, <1>2, QuietRow

LEMMA NothingChanges ==
  ASSUME Inv, UNCHANGED sweep, Quiet
  PROVE  Inv'
<1> USE DEF Quiet
<1>1. SweepTypes' /\ DataTypes'
  BY DEF Inv, SweepTypes, DataTypes, Begun, At, Dir, Board, Cell
<1>2. Apart' /\ Unused'
  BY DEF Inv, Apart, Unused, Active, Dir
<1>3. \A s \in Sweeps : SimInv(s)' /\ RowsInv(s)'
  <2> TAKE s \in Sweeps
  <2>1. SimInv(s) /\ RowsInv(s)
    BY DEF Inv
  <2>2. SimInv(s)'
    BY <2>1 DEF SimInv, Heard, Work, Design, Dir, Board, Cell
  <2>3. RowsInv(s)'
    BY <2>1 DEF RowsInv, Active, At, Dir, Cell
  <2>4. QED BY <2>2, <2>3
<1>4. AllFresh' => OwnDirs' /\ OwnWork'
  BY DEF Inv, AllFresh, OwnDirs, OwnWork, At, Begun, Dir
<1>5. AllFresh' => OwnSweeps'
  BY DEF Inv, AllFresh, OwnSweeps, OwnInv, OwnResult, At, Begun, Dir, Board
<1> QED
  BY <1>1, <1>2, <1>3, <1>4, <1>5 DEF Inv

LEMMA ValidateKeeps ==
  ASSUME Inv, NEW s \in Sweeps, Validate(s)
  PROVE  Inv'
<1>1. Active(s) /\ sweep[s].pc \notin Watching /\ Quiet
  BY DEF Validate, At, Active, Watching, Quiet
<1>2. CASE Design(s) \in Buildable
  BY <1>1, <1>2, QuietGoto DEF Validate
<1>3. CASE Design(s) \notin Buildable
  BY <1>1, <1>3, ErrorRow DEF Validate
<1> QED
  BY <1>2, <1>3

LEMMA PrepareKeeps ==
  ASSUME Inv, NEW s \in Sweeps, Prepare(s)
  PROVE  Inv'
<1>1. Active(s) /\ sweep[s].pc \notin Watching /\ Quiet
  BY DEF Prepare, At, Active, Watching, Quiet
<1>2. Goto(s, "copy") \/ Goto(s, "header")
  BY DEF Prepare
<1> QED
  BY <1>1, <1>2, QuietGoto

LEMMA CopyKeeps ==
  ASSUME Inv, NEW s \in Sweeps, Copy(s)
  PROVE  Inv'
<1>1. Active(s) /\ sweep[s].pc \notin Watching /\ Quiet
  BY DEF Copy, At, Active, Watching, Quiet
<1>2. Goto(s, "header") \/ UNCHANGED sweep
  BY DEF Copy
<1> QED
  BY <1>1, <1>2, QuietGoto, NothingChanges

LEMMA HeaderKeeps ==
  ASSUME Inv, NEW s \in Sweeps, Header(s)
  PROVE  Inv'
<1>1. Active(s) /\ sweep[s].pc \notin Watching /\ Quiet
  BY DEF Header, At, Active, Watching, Quiet
<1>2. Goto(s, "calibrate") \/ Goto(s, "generate") \/ EndCell(s, "error", Absent)
  BY DEF Header
<1> QED
  BY <1>1, <1>2, QuietGoto, ErrorRow

\* What a sweep collects is a result of its own when its directory is.
LEMMA CollectKeeps ==
  ASSUME Inv, NEW s \in Sweeps, Collect(s)
  PROVE  Inv'
<1>1. Active(s) /\ sweep[s].pc \notin Watching /\ Quiet /\ Begun(s)
  BY DEF Collect, At, Active, Watching, Quiet, Begun
<1> DEFINE r == result[Dir(s)][Cell(s)]
<1>2. r \in Results
  BY <1>1, Facts DEF DataTypes
<1>3. CASE r.state = "absent"
  BY <1>1, <1>3, ErrorRow DEF Collect
<1>4. CASE r.state = "torn"
  BY <1>1, <1>4, ErrorRow DEF Collect
<1>5. CASE r.state = "whole"
  <2>1. r.of \in Outcomes
    BY <1>2, <1>5, Tags DEF Results
  <2>2. EndCell(s, r.of.status, r)
    BY <1>5 DEF Collect
  <2>3. ASSUME AllFresh PROVE SaysWhatWasRun(Row(s, r.of.status, r))
    <3>1. OwnResult(s, r)
      BY <1>1, <2>3, Facts DEF OwnInv
    <3> QED
      BY <1>5, <3>1 DEF SaysWhatWasRun, Row, OwnResult, OwnProgram
  <2>4. r.of.status \in Statuses
    BY <2>1 DEF Outcomes
  <2> QED
    BY <1>1, <1>2, <2>2, <2>3, <2>4, QuietRow
<1> QED
  BY <1>2, <1>3, <1>4, <1>5, Tags DEF Results
------------------------------------------------------------------------------
(* The steps that write to a directory or to the work directory.           *)

LEMMA Nested ==
  ASSUME NEW A, NEW B, NEW S, NEW f \in [A -> [B -> S]], NEW a \in A, NEW b \in B, NEW x \in S,
         NEW g, g = [f EXCEPT ![a][b] = x]
  PROVE  /\ g \in [A -> [B -> S]] /\ g[a][b] = x
         /\ \A d \in A : d # a => g[d] = f[d]
         /\ \A c \in B : c # b => g[a][c] = f[a][c]
<1>1. g = [f EXCEPT ![a] = [f[a] EXCEPT ![b] = x]]
  OBVIOUS
<1>2. [f[a] EXCEPT ![b] = x] \in [B -> S]
  OBVIOUS
<1> QED
  BY <1>1, <1>2

\* rates.json begun, or written for the board of the sweep.
LEMMA RatesKeep ==
  ASSUME Inv, NEW s \in Sweeps, sweep[s].pc \in {"calibrating", "rates"},
         NEW pc \in {"rates", "generate"}, Goto(s, pc),
         NEW m \in {Torn, Whole(Board(s))},
         rates' = [rates EXCEPT ![Dir(s)][Design(s)] = m],
         UNCHANGED <<sim, result, rows, work>>
  PROVE  Inv'
<1>0. Begun(s) /\ Active(s) /\ sweep[s].pc \notin Watching
  BY DEF Active, Begun, Watching
<1>1. /\ SweepTypes' /\ Kept(s) /\ Others(s)
      /\ sweep'[s].pc = pc /\ sweep'[s].k = sweep[s].k /\ sweep'[s].program = sweep[s].program
  BY <1>0, Facts, GotoStep DEF Pcs
<1>2. m \in Measured
  BY <1>0, Facts DEF Measured
<1>3. rates \in [Dirs -> [Designs -> Measured]] /\ Dir(s) \in Dirs /\ Design(s) \in Designs
  BY <1>0, Facts DEF DataTypes
<1>4. /\ rates' \in [Dirs -> [Designs -> Measured]] /\ rates'[Dir(s)][Design(s)] = m
      /\ \A d \in Dirs : d # Dir(s) => rates'[d] = rates[d]
      /\ \A e \in Designs : e # Design(s) => rates'[Dir(s)][e] = rates[Dir(s)][e]
  BY <1>2, <1>3, Nested
<1>5. StepOf(s)
  BY <1>0, <1>1, <1>4, Facts DEF StepOf, DataTypes
<1>6. SimInv(s)'
  BY <1>0, <1>1, Facts DEF SimInv, Watching
<1>7. RowsInv(s)'
  BY <1>0, <1>1, Facts DEF RowsInv, Kept, Active, At, Dir, Cell
<1>8. AllFresh => OwnWork'
  BY <1>0, Facts DEF OwnWork
<1>9. ASSUME AllFresh PROVE OwnInv(s)'
  <2>1. OwnInv(s)
    BY <1>0, <1>9, Facts
  <2>2. \A e \in Designs : rates'[Dir(s)][e].state = "whole" => rates'[Dir(s)][e].of = Board(s)
    BY <1>4, <2>1, Tags DEF OwnInv
  <2>3. ~At(s, "row")'
    BY <1>1 DEF At
  <2>4. Dir(s)' = Dir(s) /\ Board(s)' = Board(s)
    BY <1>1 DEF Kept, Dir, Board
  <2> QED
    BY <1>1, <2>1, <2>2, <2>3, <2>4 DEF OwnInv, OwnResult
<1> QED
  BY <1>5, <1>6, <1>7, <1>8, <1>9, StepKeeps

LEMMA CalibrateKeeps ==
  ASSUME Inv, NEW s \in Sweeps, Calibrate(s)
  PROVE  Inv'
<1>1. Active(s) /\ sweep[s].pc \notin Watching /\ Quiet
  BY DEF Calibrate, At, Active, Watching, Quiet
<1>2. Goto(s, "calibrating") \/ EndCell(s, "error", Absent)
  BY DEF Calibrate
<1> QED
  BY <1>1, <1>2, QuietGoto, ErrorRow

LEMMA CalibratedKeeps ==
  ASSUME Inv, NEW s \in Sweeps, Calibrated(s)
  PROVE  Inv'
<1>1. sweep[s].pc = "calibrating" /\ Active(s) /\ sweep[s].pc \notin Watching
  BY DEF Calibrated, At, Active, Watching
<1>2. CASE EndCell(s, "error", Absent) /\ UNCHANGED rates
  BY <1>1, <1>2, ErrorRow DEF Calibrated, Quiet
<1>3. CASE Goto(s, "rates") /\ rates' = [rates EXCEPT ![Dir(s)][Design(s)] = Torn]
  BY <1>1, <1>3, RatesKeep DEF Calibrated
<1> QED
  BY <1>2, <1>3 DEF Calibrated

LEMMA WriteRatesKeeps ==
  ASSUME Inv, NEW s \in Sweeps, WriteRates(s)
  PROVE  Inv'
BY RatesKeep DEF WriteRates, At

\* The work directory: a program begun, or built from what the sweep has.
LEMMA WorkKeeps ==
  ASSUME Inv, NEW s \in Sweeps, sweep[s].pc \in {"generate", "build"},
         NEW pc \in {"build", "launch"}, Goto(s, pc),
         NEW p \in Programs \ {Absent}, work' = [work EXCEPT ![Work(s)] = p],
         pc = "build" => rates[Dir(s)][Design(s)].state = "whole",
         AllFresh /\ p.state = "whole" => p = OwnProgram(Board(s)),
         UNCHANGED <<sim, rates, result, rows>>
  PROVE  Inv'
<1>0. Begun(s) /\ Active(s) /\ sweep[s].pc \notin Watching
  BY DEF Active, Begun, Watching
<1>1. /\ SweepTypes' /\ Kept(s) /\ Others(s)
      /\ sweep'[s].pc = pc /\ sweep'[s].k = sweep[s].k /\ sweep'[s].program = sweep[s].program
  BY <1>0, Facts, GotoStep DEF Pcs
<1>2. p.state # "absent"
  BY Tags DEF Programs
<1>3. /\ work' \in [Works -> Programs] /\ work'[Work(s)] = p
      /\ \A w \in Works : w # Work(s) => work'[w] = work[w]
  BY <1>0, Facts DEF DataTypes
<1>4. StepOf(s)
  BY <1>0, <1>1, <1>2, <1>3, Facts DEF StepOf, DataTypes
<1>5. /\ Dir(s)' = Dir(s) /\ Board(s)' = Board(s) /\ Design(s)' = Design(s) /\ Work(s)' = Work(s)
      /\ Cell(s)' = Cell(s)
  BY <1>1 DEF Kept, Dir, Board, Design, Work, Cell
<1>6. SimInv(s)'
  BY <1>0, <1>1, <1>2, <1>3, <1>5, Facts DEF SimInv, Watching
<1>7. RowsInv(s)'
  BY <1>0, <1>1, <1>5, Facts DEF RowsInv, Kept, Active, At
<1>8. ASSUME AllFresh PROVE OwnWork'
  <2>1. OwnWork /\ Work(s).board = Board(s)
    BY <1>0, <1>8, Facts DEF Work
  <2> QED
    BY <1>3, <1>8, <2>1 DEF OwnWork
<1>9. ASSUME AllFresh PROVE OwnInv(s)'
  <2>1. OwnInv(s)
    BY <1>0, <1>9, Facts
  <2>2. ~At(s, "row")'
    BY <1>1 DEF At
  <2> QED
    BY <1>1, <1>5, <2>1, <2>2 DEF OwnInv, OwnResult
<1> QED
  BY <1>4, <1>6, <1>7, <1>8, <1>9, StepKeeps

LEMMA GenerateKeeps ==
  ASSUME Inv, NEW s \in Sweeps, Generate(s)
  PROVE  Inv'
<1>1. sweep[s].pc = "generate" /\ Active(s) /\ sweep[s].pc \notin Watching
  BY DEF Generate, At, Active, Watching
<1>2. CASE Goto(s, "collect") /\ UNCHANGED work
  BY <1>1, <1>2, QuietGoto DEF Generate, Quiet
<1>3. CASE /\ rates[Dir(s)][Design(s)].state = "whole" /\ Goto(s, "build")
           /\ work' = [work EXCEPT ![WorkDir(s)] = Torn]
  <2>1. Torn \in Programs \ {Absent} /\ Torn.state # "whole"
    BY Tags DEF Programs
  <2> QED
    BY <1>1, <1>3, <2>1, WorkKeeps DEF Generate, WorkDir
<1> QED
  BY <1>2, <1>3 DEF Generate

LEMMA BuildKeeps ==
  ASSUME Inv, NEW s \in Sweeps, Build(s)
  PROVE  Inv'
<1>1. sweep[s].pc = "build" /\ Active(s) /\ Begun(s) /\ sweep[s].pc \notin Watching
  BY DEF Build, At, Active, Begun, Watching
<1>2. CASE Goto(s, "collect") /\ UNCHANGED work
  BY <1>1, <1>2, QuietGoto DEF Build, Quiet
<1> DEFINE m == rates[Dir(s)][Design(s)]
           p == Whole([board |-> Board(s), rates |-> m.of])
<1>3. CASE Goto(s, "launch") /\ work' = [work EXCEPT ![WorkDir(s)] = p]
  <2>1. m \in Measured /\ m.state = "whole"
    BY <1>1, Facts DEF DataTypes, SimInv
  <2>2. m.of \in Boards
    BY <2>1, Tags DEF Measured
  <2>3. p \in Programs \ {Absent}
    BY <1>1, <2>2, Facts, Tags DEF Programs
  <2>4. AllFresh => m.of = Board(s)
    BY <1>1, <2>1, Facts DEF OwnInv
  <2> QED
    BY <1>1, <1>3, <2>3, <2>4, WorkKeeps DEF Build, WorkDir, OwnProgram
<1> QED
  BY <1>2, <1>3 DEF Build
------------------------------------------------------------------------------
(* The simulation, its result and its row.                                 *)

LEMMA LaunchKeeps ==
  ASSUME Inv, NEW s \in Sweeps, Launch(s)
  PROVE  Inv'
<1>0. Begun(s) /\ Active(s) /\ sweep[s].pc = "launch"
  BY DEF Launch, At, Active, Begun
<1>1. /\ SweepTypes' /\ Kept(s) /\ Others(s)
      /\ sweep'[s].pc = "simulate" /\ sweep'[s].k = sweep[s].k
      /\ sweep'[s].program = work[Work(s)]
  BY <1>0, Facts, LaunchStep
<1>2. /\ sim' = [sim EXCEPT ![s] = Launched]
      /\ UNCHANGED <<mesh, rates, result, rows, work, kills>>
  BY DEF Launch
<1>3. sim' \in [Sweeps -> Sims] /\ sim'[s] = Launched /\ \A t \in Sweeps \ {s} : sim'[t] = sim[t]
  BY <1>0, <1>2, Facts, SimStart DEF DataTypes
<1>4. StepOf(s)
  BY <1>0, <1>1, <1>2, <1>3, Facts DEF StepOf, DataTypes
<1>5. SimInv(s)'
  BY <1>0, <1>1, <1>3, Facts, SimStart DEF SimInv, Watching
<1>6. RowsInv(s)'
  BY <1>0, <1>1, <1>2, Facts DEF RowsInv, Kept, Active, At, Dir, Cell
<1>7. AllFresh => OwnWork'
  BY <1>0, <1>2, Facts DEF OwnWork
<1>8. ASSUME AllFresh PROVE OwnInv(s)'
  <2>1. OwnInv(s) /\ OwnWork /\ Work(s) \in Works /\ Work(s).board = Board(s)
    BY <1>0, <1>8, Facts DEF Work
  <2>2. work[Work(s)].state = "whole" => work[Work(s)] = OwnProgram(Board(s))
    BY <2>1 DEF OwnWork
  <2>3. ~At(s, "row")' /\ Dir(s)' = Dir(s) /\ Board(s)' = Board(s)
    BY <1>1 DEF At, Kept, Dir, Board
  <2> QED
    BY <1>1, <1>2, <2>1, <2>2, <2>3 DEF OwnInv, OwnResult
<1> QED
  BY <1>4, <1>5, <1>6, <1>7, <1>8, StepKeeps

LEMMA SimKeeps ==
  ASSUME Inv, NEW s \in Sweeps, sweep[s].pc = "simulate",
         NEW x \in Sims, Heard(x), x.said = sim[s].said \/ sweep[s].program.state = "whole",
         sim' = [sim EXCEPT ![s] = x],
         UNCHANGED sweep \/ Goto(s, "report"),
         UNCHANGED <<rates, result, rows, work>>
  PROVE  Inv'
<1>0. Begun(s) /\ Active(s)
  BY DEF Active, Begun
<1>1. /\ SweepTypes' /\ Kept(s) /\ Others(s)
      /\ sweep'[s].pc \in {"simulate", "report"}
      /\ sweep'[s].k = sweep[s].k /\ sweep'[s].program = sweep[s].program
  <2>1. CASE UNCHANGED sweep
    BY <1>0, <2>1, Facts DEF SweepTypes, Kept, Others, Begun, At, Dir, Board
  <2>2. CASE Goto(s, "report")
    BY <1>0, <2>2, Facts, GotoStep DEF Pcs
  <2> QED
    BY <2>1, <2>2
<1>2. sim' \in [Sweeps -> Sims] /\ sim'[s] = x /\ \A t \in Sweeps \ {s} : sim'[t] = sim[t]
  BY <1>0, Facts DEF DataTypes
<1>3. StepOf(s)
  BY <1>0, <1>1, <1>2, Facts DEF StepOf, DataTypes
<1>4. SimInv(s)'
  BY <1>0, <1>1, <1>2, Facts DEF SimInv, Watching
<1>5. RowsInv(s)'
  BY <1>0, <1>1, Facts DEF RowsInv, Kept, Active, At, Dir, Cell
<1>6. AllFresh => OwnWork'
  BY <1>0, Facts DEF OwnWork
<1>7. ASSUME AllFresh PROVE OwnInv(s)'
  <2>1. OwnInv(s)
    BY <1>0, <1>7, Facts
  <2>2. ~At(s, "row")' /\ Dir(s)' = Dir(s) /\ Board(s)' = Board(s)
    BY <1>1 DEF At, Kept, Dir, Board
  <2> QED
    BY <1>1, <2>1, <2>2 DEF OwnInv, OwnResult
<1> QED
  BY <1>3, <1>4, <1>5, <1>6, <1>7, StepKeeps

LEMMA SayKeeps ==
  ASSUME Inv, NEW s \in Sweeps, NEW line \in Lines, Say(s, line)
  PROVE  Inv'
<1>1. sweep[s].pc = "simulate" /\ Begun(s) /\ CanPrint(sim[s]) /\ sweep[s].program # Torn
  BY DEF Say, At, Begun
<1>2. sim[s] \in Sims /\ Heard(sim[s]) /\ sweep[s].program.state # "absent" /\ sweep[s].program \in Programs
  BY <1>1, Facts DEF DataTypes, SimInv, Watching, SweepTypes, States
<1>3. sweep[s].program.state = "whole"
  BY <1>1, <1>2, Tags DEF Programs
<1>4. sim' = [sim EXCEPT ![s] = Printed(sim[s], line)]
  BY <1>1, Facts DEF Say, DataTypes
<1>5. Printed(sim[s], line) \in Sims /\ Heard(Printed(sim[s], line))
  BY <1>1, <1>2, SimPrints
<1> QED
  BY <1>1, <1>3, <1>4, <1>5, SimKeeps DEF Say

LEMMA RunKeeps ==
  ASSUME Inv, NEW s \in Sweeps, Exit(s) \/ Tick(s) \/ Watch(s)
  PROVE  Inv'
<1>1. sweep[s].pc = "simulate" /\ Begun(s) /\ UNCHANGED <<rates, result, rows, work>>
  BY DEF Exit, Tick, Watch, At, Begun
<1>2. sim[s] \in Sims /\ Heard(sim[s]) /\ sim \in [Sweeps -> Sims]
  BY <1>1, Facts DEF DataTypes, SimInv
<1>3. CASE Exit(s)
  <2>1. sim' = [sim EXCEPT ![s] = [sim[s] EXCEPT !.running = FALSE]]
    BY <1>2, <1>3 DEF Exit
  <2>2. UNCHANGED sweep
    BY <1>3 DEF Exit
  <2> QED
    BY <1>1, <1>2, <2>1, <2>2, SimGoesOn, SimKeeps
<1>4. CASE Tick(s)
  BY <1>1, <1>2, <1>4, SimGoesOn, SimKeeps DEF Tick
<1>5. CASE Watch(s)
  <2>1. CASE sim[s].out # <<>> /\ sim' = [sim EXCEPT ![s] = Took(sim[s])] /\ UNCHANGED sweep
    BY <1>1, <1>2, <2>1, SimTakes, SimKeeps
  <2>2. CASE sim' = [sim EXCEPT ![s] = Left(sim[s])] /\ Goto(s, "report")
    BY <1>1, <1>2, <2>2, SimGoesOn, SimKeeps
  <2> QED
    BY <1>2, <1>5, <2>1, <2>2 DEF Watch
<1> QED
  BY <1>3, <1>4, <1>5
LEMMA ResultKeeps ==
  ASSUME Inv, NEW s \in Sweeps, sweep[s].pc \in {"report", "reported"},
         NEW pc \in {"reported", "collect"}, Goto(s, pc),
         NEW r \in Results, AllFresh => OwnResult(s, r),
         result' = [result EXCEPT ![Dir(s)][Cell(s)] = r],
         IF pc = "reported" THEN UNCHANGED sim ELSE sim' = [sim EXCEPT ![s] = Idle],
         UNCHANGED <<rates, rows, work>>
  PROVE  Inv'
<1>0. Begun(s) /\ Active(s)
  BY DEF Active, Begun
<1>1. /\ SweepTypes' /\ Kept(s) /\ Others(s)
      /\ sweep'[s].pc = pc /\ sweep'[s].k = sweep[s].k /\ sweep'[s].program = sweep[s].program
  BY <1>0, Facts, GotoStep DEF Pcs
<1>2. /\ sim' \in [Sweeps -> Sims] /\ \A t \in Sweeps \ {s} : sim'[t] = sim[t]
      /\ IF pc = "reported" THEN sim'[s] = sim[s] ELSE sim'[s] = Idle
  BY <1>0, Facts, SimStart DEF DataTypes
<1>3. result \in [Dirs -> [Cells -> Results]] /\ Dir(s) \in Dirs /\ Cell(s) \in Cells
  BY <1>0, Facts DEF DataTypes
<1>4. /\ result' \in [Dirs -> [Cells -> Results]] /\ result'[Dir(s)][Cell(s)] = r
      /\ \A d \in Dirs : d # Dir(s) => result'[d] = result[d]
      /\ \A c \in Cells : c # Cell(s) => result'[Dir(s)][c] = result[Dir(s)][c]
  BY <1>3, Nested
<1>5. StepOf(s)
  BY <1>0, <1>1, <1>2, <1>4, Facts DEF StepOf, DataTypes
<1>6. SimInv(s)'
  <2>1. SimInv(s)
    BY <1>0, Facts
  <2>2. CASE pc = "reported"
    BY <1>1, <1>2, <2>1, <2>2 DEF SimInv, Watching
  <2>3. CASE pc = "collect"
    BY <1>1, <1>2, <2>3, SimStart DEF SimInv, Watching
  <2> QED
    BY <2>2, <2>3
<1>7. RowsInv(s)'
  BY <1>0, <1>1, Facts DEF RowsInv, Kept, Active, At, Dir, Cell
<1>8. AllFresh => OwnWork'
  BY <1>0, Facts DEF OwnWork
<1>9. ASSUME AllFresh PROVE OwnInv(s)'
  <2>1. OwnInv(s) /\ OwnResult(s, r)
    BY <1>0, <1>9, Facts
  <2>2. \A c \in Cells : OwnResult(s, result'[Dir(s)][c])
    BY <1>4, <2>1 DEF OwnInv
  <2>3. ~At(s, "row")' /\ Dir(s)' = Dir(s) /\ Board(s)' = Board(s)
    BY <1>1 DEF At, Kept, Dir, Board
  <2> QED
    BY <1>1, <2>1, <2>2, <2>3 DEF OwnInv, OwnResult
<1> QED
  BY <1>5, <1>6, <1>7, <1>8, <1>9, StepKeeps

LEMMA ReportKeeps ==
  ASSUME Inv, NEW s \in Sweeps, Report(s)
  PROVE  Inv'
<1>1. Torn \in Results /\ OwnResult(s, Torn)
  BY Tags DEF Results, OwnResult
<1> QED
  BY <1>1, ResultKeeps DEF Report, At

\* A good verdict came from the program that was launched, so that was whole.
LEMMA ReportedKeeps ==
  ASSUME Inv, NEW s \in Sweeps, Reported(s)
  PROVE  Inv'
<1>1. sweep[s].pc = "reported" /\ Begun(s)
  BY DEF Reported, At, Begun
<1>2. /\ sim[s] \in Sims /\ Heard(sim[s]) /\ sweep[s].program \in Programs /\ SimInv(s)
      /\ sweep[s].program.state # "absent"
  BY <1>1, Facts DEF DataTypes, SimInv, Watching, SweepTypes, States
<1> DEFINE app == Cell(s).model \in Apps
           o == [by |-> s, program |-> sweep[s].program, said |-> sim[s].said,
                 status |-> Status(sim[s], app)]
<1>a. app \in BOOLEAN
  OBVIOUS
<1>3. o.status \in Statuses /\ (o.status = "ok" => sim[s].verdict = "good")
  <2> HIDE DEF app
  <2>1. /\ Status(sim[s], app) \in Statuses
        /\ Status(sim[s], app) = "ok" => sim[s].verdict = "good"
    BY <1>2, <1>a, SimStatus
  <2> QED
    BY <2>1
<1>4. o \in Outcomes /\ Whole(o) \in Results
  BY <1>2, <1>3 DEF Outcomes, Results, Sims
<1>5. ASSUME AllFresh PROVE OwnResult(s, Whole(o))
  <2>1. OwnInv(s)
    BY <1>1, <1>5, Facts
  <2>2. o.status = "ok" => sim[s].said = "good"
    BY <1>2, <1>3 DEF Heard
  <2>3. o.status = "ok" => sweep[s].program = OwnProgram(Board(s))
    BY <1>2, <2>1, <2>2 DEF SimInv, OwnInv
  <2> QED
    BY <2>2, <2>3, Tags DEF OwnResult
<1>6. /\ result' = [result EXCEPT ![Dir(s)][Cell(s)] = Whole(o)] /\ Goto(s, "collect")
      /\ sim' = [sim EXCEPT ![s] = Idle] /\ UNCHANGED <<rates, rows, work>>
  BY DEF Reported
<1> HIDE DEF o
<1> QED
  BY <1>1, <1>4, <1>5, <1>6, ResultKeeps

LEMMA WriteRowKeeps ==
  ASSUME Inv, NEW s \in Sweeps, WriteRow(s)
  PROVE  Inv'
<1>0. sweep[s].pc = "row" /\ Begun(s) /\ Active(s)
  BY DEF WriteRow, At, Active, Begun
<1>1. /\ SweepTypes' /\ Kept(s) /\ Others(s) /\ sweep[s].row \in RowSet
      /\ sweep'[s].program = Absent
      /\ IF Last(s) THEN sweep'[s].pc = "done" /\ sweep'[s].k = sweep[s].k
                    ELSE sweep'[s].pc = "cell" /\ sweep'[s].k = sweep[s].k + 1
  BY <1>0, Facts, WriteRowStep
<1> DEFINE old == rows[Dir(s)]
           new == Append(old, sweep[s].row)
<1>2. rows' = [rows EXCEPT ![Dir(s)] = new] /\ UNCHANGED <<sim, mesh, rates, result, work, kills>>
  BY DEF WriteRow
<1>3. rows \in [Dirs -> Seq(RowSet)] /\ Dir(s) \in Dirs /\ old \in Seq(RowSet)
  BY <1>0, Facts DEF DataTypes
<1>4. /\ new \in Seq(RowSet) /\ Len(new) = Len(old) + 1 /\ DOMAIN new = 1..(Len(old) + 1)
      /\ DOMAIN old = 1..Len(old)
      /\ \A i \in 1..Len(old) : new[i] = old[i]
      /\ new[Len(old) + 1] = sweep[s].row
  BY <1>1, <1>3
<1>5. rows' \in [Dirs -> Seq(RowSet)] /\ rows'[Dir(s)] = new /\ \A d \in Dirs : d # Dir(s) => rows'[d] = rows[d]
  BY <1>2, <1>3, <1>4
<1> HIDE DEF new
<1>6. StepOf(s)
  <2>1. sweep'[s].pc # "off"
    BY <1>1
  <2> QED
    BY <1>0, <1>1, <1>2, <1>5, <2>1, Facts DEF StepOf, DataTypes
<1>7. SimInv(s)'
  <2>1. SimInv(s)
    BY <1>0, Facts
  <2>2. sweep'[s].pc \in {"done", "cell"} /\ sim' = sim
    BY <1>1, <1>2
  <2>3. sim[s].said = "none"
    BY <1>0, <2>1 DEF SimInv, Watching
  <2> QED
    BY <2>1, <2>2, <2>3 DEF SimInv, Watching
<1>8. RowsInv(s)'
  <2>1. RowsInv(s)
    BY <1>0, Facts
  <2>2. /\ Len(old) = sweep[s].k - 1 /\ sweep[s].row.by = s /\ sweep[s].row.cell = sweep[s].cells[sweep[s].k]
        /\ \A i \in DOMAIN old : old[i].by = s /\ old[i].cell = sweep[s].cells[i]
    BY <1>0, <2>1 DEF RowsInv, At, Cell
  <2>3. sweep[s].k \in 1..Len(sweep[s].cells) /\ sweep[s].cells \in Seq(Cells) /\ sweep[s].k \in Nat
    BY <1>0, Facts DEF SweepTypes, States
  <2>4. Len(new) = sweep[s].k
    BY <1>4, <2>2, <2>3
  <2>5. \A i \in DOMAIN new : new[i].by = s /\ new[i].cell = sweep[s].cells[i]
    BY <1>4, <2>2, <2>3, SMTT(20)
  <2>6. rows'[Dir(s)'] = new /\ sweep'[s].cells = sweep[s].cells
    BY <1>1, <1>5 DEF Kept, Dir
  <2>7. CASE Last(s)
    <3>1. sweep'[s].pc = "done" /\ Len(new) = Len(sweep[s].cells)
      BY <1>1, <2>4, <2>7 DEF Last
    <3> QED
      BY <3>1, <2>6 DEF RowsInv, Active, At, Dir
  <2>8. CASE ~Last(s)
    <3>1. sweep'[s].pc = "cell" /\ Len(new) = sweep'[s].k - 1
      BY <1>1, <2>3, <2>4, <2>8
    <3> QED
      BY <3>1, <2>5, <2>6 DEF RowsInv, Active, At, Dir
  <2> QED
    BY <2>7, <2>8
<1>9. AllFresh => OwnWork'
  BY <1>0, <1>2, Facts DEF OwnWork
<1>10. ASSUME AllFresh PROVE OwnInv(s)'
  <2>1. OwnInv(s) /\ SaysWhatWasRun(sweep[s].row)
    BY <1>0, <1>10, Facts DEF OwnInv, At
  <2>2. \A i \in DOMAIN new : SaysWhatWasRun(new[i])
    BY <1>4, <2>1 DEF OwnInv
  <2>3. /\ ~At(s, "row")' /\ Dir(s)' = Dir(s) /\ Board(s)' = Board(s)
        /\ sweep'[s].program.state # "whole"
    BY <1>1, Tags DEF At, Kept, Dir, Board
  <2> QED
    BY <1>2, <1>5, <2>1, <2>2, <2>3 DEF OwnInv, OwnResult
<1> QED
  BY <1>6, <1>7, <1>8, <1>9, <1>10, StepKeeps

LEMMA KillKeeps ==
  ASSUME Inv, NEW s \in Sweeps, Kill(s)
  PROVE  Inv'
<1>0. Begun(s) /\ Active(s)
  BY DEF Kill, Active, Begun
<1>1. /\ SweepTypes' /\ Kept(s) /\ Others(s)
      /\ sweep'[s].pc = "killed" /\ sweep'[s].k = sweep[s].k /\ sweep'[s].program = Absent
  BY <1>0, Facts, KillStep
<1>2. sim' = [sim EXCEPT ![s] = Idle] /\ UNCHANGED <<mesh, rates, result, rows, work>>
  BY DEF Kill
<1>3. sim' \in [Sweeps -> Sims] /\ sim'[s] = Idle /\ \A t \in Sweeps \ {s} : sim'[t] = sim[t]
  BY <1>0, <1>2, Facts, SimStart DEF DataTypes
<1>4. StepOf(s)
  BY <1>0, <1>1, <1>2, <1>3, Facts DEF StepOf, DataTypes
<1>5. SimInv(s)'
  BY <1>1, <1>3, SimStart DEF SimInv, Watching
<1>6. RowsInv(s)'
  BY <1>1 DEF RowsInv, Active, At
<1>7. AllFresh => OwnWork'
  BY <1>0, <1>2, Facts DEF OwnWork
<1>8. ASSUME AllFresh PROVE OwnInv(s)'
  <2>1. OwnInv(s)
    BY <1>0, <1>8, Facts
  <2>2. /\ ~At(s, "row")' /\ Dir(s)' = Dir(s) /\ Board(s)' = Board(s)
        /\ sweep'[s].program.state # "whole"
    BY <1>1, Tags DEF At, Kept, Dir, Board
  <2> QED
    BY <1>2, <2>1, <2>2 DEF OwnInv, OwnResult
<1> QED
  BY <1>4, <1>5, <1>6, <1>7, <1>8, StepKeeps
------------------------------------------------------------------------------
(* A sweep that starts: its directory is its own, or has been used.        *)

LEMMA StartKeeps ==
  ASSUME Inv, NEW s \in Sweeps, NEW ask \in Asked[s], Start(s, ask)
  PROVE  Inv'
<1>0. /\ SweepTypes /\ DataTypes /\ Apart /\ Unused
      /\ \A t \in Sweeps : SimInv(t) /\ RowsInv(t)
      /\ AllFresh => OwnDirs /\ OwnWork /\ OwnSweeps
  BY DEF Inv
<1>1. /\ SweepTypes' /\ Others(s) /\ ~Begun(s)
      /\ ask.dir \in Dirs /\ ask.dir # "none"
      /\ sweep'[s].pc = "cell" /\ sweep'[s].dir = ask.dir /\ sweep'[s].board = ask.board
      /\ sweep'[s].cells = ask.cells /\ sweep'[s].k = 1 /\ sweep'[s].program = Absent
      /\ sweep'[s].fresh = (\A t \in Sweeps : Dir(t) # ask.dir)
  BY <1>0, StartStep
<1>2. /\ rows' = [rows EXCEPT ![ask.dir] = <<>>] /\ UNCHANGED <<sim, rates, result, work>>
      /\ \A t \in Sweeps : Active(t) => Dir(t) # ask.dir
  BY DEF Start
<1>3. /\ rows' \in [Dirs -> Seq(RowSet)] /\ rows'[ask.dir] = <<>>
      /\ \A d \in Dirs : d # ask.dir => rows'[d] = rows[d]
  <2>1. rows \in [Dirs -> Seq(RowSet)] /\ <<>> \in Seq(RowSet)
    BY <1>0 DEF DataTypes
  <2> QED
    BY <1>1, <1>2, <2>1
<1>4. DataTypes'
  BY <1>0, <1>2, <1>3 DEF DataTypes
<1>5. \A t \in Sweeps \ {s} : /\ sweep'[t] = sweep[t] /\ Dir(t)' = Dir(t)
                              /\ (Active(t)' <=> Active(t)) /\ (Begun(t)' <=> Begun(t))
  BY <1>1 DEF Others, Dir, Active, Begun
<1>6. Dir(s)' = ask.dir /\ Board(s)' = ask.board /\ Active(s)' /\ Begun(s)' /\ Dir(s) = "none"
  BY <1>0, <1>1 DEF Dir, Board, Active, Begun, SweepTypes
<1>7. Apart'
  BY <1>0, <1>2, <1>5, <1>6 DEF Apart
<1>8. Unused'
  <2> SUFFICES ASSUME NEW d \in Dirs, \A t \in Sweeps : Dir(t)' # d
               PROVE  /\ \A e \in Designs : rates'[d][e] = Absent
                      /\ \A c \in Cells : result'[d][c] = Absent
                      /\ rows'[d] = <<>>
    BY DEF Unused
  <2>1. d # ask.dir /\ \A t \in Sweeps \ {s} : Dir(t) # d
    BY <1>5, <1>6
  <2>2. CASE Dir(s) # d
    BY <1>0, <1>2, <1>3, <2>1, <2>2 DEF Unused
  <2>3. CASE Dir(s) = d
    BY <1>6, <2>3, NoneIsNoDir
  <2> QED
    BY <2>2, <2>3
<1>9. \A t \in Sweeps : SimInv(t)'
  <2>1. SimInv(s)'
    <3>1. sim[s].said = "none" /\ Heard(sim[s])
      BY <1>0, <1>1 DEF SimInv, Begun, Watching
    <3> QED
      BY <1>1, <1>2, <3>1 DEF SimInv, Watching
  <2>2. ASSUME NEW t \in Sweeps \ {s} PROVE SimInv(t)'
    <3>1. SimInv(t) /\ sweep'[t] = sweep[t]
      BY <1>0, <1>5
    <3> QED
      BY <1>2, <3>1 DEF SimInv, Work, Design, Cell, Board, Dir
  <2> QED
    BY <2>1, <2>2
<1>10. \A t \in Sweeps : RowsInv(t)'
  <2>1. RowsInv(s)'
    <3>1. Len(rows'[ask.dir]) = 0 /\ DOMAIN rows'[ask.dir] = {}
      BY <1>3
    <3> QED
      BY <1>1, <1>6, <3>1 DEF RowsInv, At
  <2>2. ASSUME NEW t \in Sweeps \ {s} PROVE RowsInv(t)'
    <3>1. RowsInv(t) /\ sweep'[t] = sweep[t] /\ (Begun(t) => Dir(t) \in Dirs)
      BY <1>0, <1>5 DEF SweepTypes
    <3>2. Active(t) => Dir(t) # ask.dir
      BY <1>2
    <3>3. At(t, "done") /\ (\A u \in Sweeps \ {t} : Dir(u)' # Dir(t)')
            => Dir(t) # ask.dir /\ \A u \in Sweeps \ {t} : Dir(u) # Dir(t)
      <4>1. At(t, "done") => Begun(t) /\ Dir(t) # "none"
        BY <3>1, NoneIsNoDir DEF At, Begun
      <4> QED
        BY <1>5, <1>6, <4>1
    <3>4. Active(t) => Begun(t)
      BY DEF Active, Begun
    <3>5. At(t, "done") => Begun(t)
      BY DEF At, Begun
    <3> QED
      BY <1>3, <3>1, <3>2, <3>3, <3>4, <3>5 DEF RowsInv, Active, At, Dir, Cell
  <2> QED
    BY <2>1, <2>2
<1>11. ASSUME AllFresh' PROVE OwnDirs' /\ OwnWork' /\ OwnSweeps'
  <2>1. AllFresh /\ \A t \in Sweeps : Dir(t) # ask.dir
    <3>1. sweep'[s].fresh
      BY <1>1, <1>11 DEF AllFresh, At
    <3>2. \A t \in Sweeps \ {s} : At(t, "off") \/ sweep[t].fresh
      BY <1>5, <1>11 DEF AllFresh, At
    <3>3. At(s, "off")
      BY <1>1 DEF Begun, At
    <3> QED
      BY <1>1, <3>1, <3>2, <3>3 DEF AllFresh
  <2>2. OwnDirs /\ OwnWork /\ OwnSweeps
    BY <1>0, <2>1
  <2>3. OwnDirs'
    BY <1>5, <1>6, <2>1, <2>2 DEF OwnDirs
  <2>4. OwnWork'
    BY <1>2, <2>2 DEF OwnWork
  <2>5. OwnInv(s)'
    <3>1. /\ \A e \in Designs : rates'[ask.dir][e] = Absent
          /\ \A c \in Cells : result'[ask.dir][c] = Absent
          /\ DOMAIN rows'[ask.dir] = {}
      BY <1>0, <1>1, <1>2, <1>3, <2>1 DEF Unused
    <3> QED
      BY <1>1, <1>6, <3>1, Tags DEF OwnInv, OwnResult, At
  <2>6. ASSUME NEW t \in Sweeps \ {s}, Begun(t)' PROVE OwnInv(t)'
    <3>1. OwnInv(t) /\ sweep'[t] = sweep[t] /\ Dir(t) \in Dirs /\ Dir(t) # ask.dir
      BY <1>0, <1>5, <2>1, <2>2, <2>6 DEF OwnSweeps, SweepTypes
    <3> QED
      BY <1>2, <1>3, <3>1 DEF OwnInv, OwnResult, Dir, Board, At
  <2> QED
    BY <2>3, <2>4, <2>5, <2>6 DEF OwnSweeps
<1> QED
  BY <1>1, <1>4, <1>7, <1>8, <1>9, <1>10, <1>11 DEF Inv

------------------------------------------------------------------------------
(* The invariant holds, and says what it should.                           *)

LEMMA InitInv == Init => Inv
<1> SUFFICES ASSUME Init PROVE Inv
  OBVIOUS
<1>1. Off \in States
  <2>1. <<>> \in Seq(Cells)
    OBVIOUS
  <2> QED
    BY <2>1 DEF Off, States, Pcs, Programs
<1>2. \A s \in Sweeps : /\ sweep[s] = Off /\ sim[s] = Idle /\ ~Begun(s) /\ ~Active(s) /\ Dir(s) = "none"
                        /\ ~At(s, "row") /\ ~At(s, "done") /\ At(s, "off")
  BY DEF Init, Off, Begun, Active, Dir, At
<1>3. SweepTypes
  BY <1>1, <1>2 DEF SweepTypes, Init
<1>4. DataTypes
  <2>1. Absent \in Measured /\ Absent \in Results /\ Absent \in Programs /\ <<>> \in Seq(RowSet)
    BY DEF Measured, Results, Programs
  <2> QED
    BY <2>1, SimStart DEF DataTypes, Init, Works
<1>5. Apart /\ Unused
  BY <1>2 DEF Apart, Unused, Init
<1>6. \A s \in Sweeps : SimInv(s) /\ RowsInv(s)
  BY <1>2, SimStart DEF SimInv, RowsInv, Off, Watching
<1>7. OwnDirs /\ OwnWork /\ OwnSweeps
  BY <1>2, Tags DEF OwnDirs, OwnWork, OwnSweeps, Init, Works
<1> QED
  BY <1>3, <1>4, <1>5, <1>6, <1>7 DEF Inv

LEMMA NextInv == Inv /\ [Next]_vars => Inv'
<1> SUFFICES ASSUME Inv, [Next]_vars PROVE Inv'
  OBVIOUS
<1>1. CASE UNCHANGED vars
  BY <1>1, NothingChanges DEF vars, Quiet
<1>2. ASSUME NEW s \in Sweeps, NEW ask \in Asked[s], Start(s, ask) PROVE Inv'
  BY <1>2, StartKeeps
<1>3. ASSUME NEW s \in Sweeps, Drive(s) PROVE Inv'
  BY <1>3, ValidateKeeps, PrepareKeeps, CopyKeeps, HeaderKeeps, CalibrateKeeps, WriteRatesKeeps,
     GenerateKeeps, BuildKeeps, LaunchKeeps, RunKeeps, ReportKeeps, ReportedKeeps, CollectKeeps,
     WriteRowKeeps DEF Drive
<1>4. ASSUME NEW s \in Sweeps, NEW line \in Lines, Say(s, line) PROVE Inv'
  BY <1>4, SayKeeps
<1>5. ASSUME NEW s \in Sweeps, Calibrated(s) \/ Exit(s) \/ Tick(s) \/ Kill(s) PROVE Inv'
  BY <1>5, CalibratedKeeps, RunKeeps, KillKeeps
<1> QED
  BY <1>1, <1>2, <1>3, <1>4, <1>5 DEF Next

LEMMA InvIsTruth == Inv => OwnDirectoriesTellTheTruth
<1> SUFFICES ASSUME Inv, AllFresh, NEW d \in Dirs, NEW i \in DOMAIN rows[d]
             PROVE  SaysWhatWasRun(rows[d][i])
  BY DEF OwnDirectoriesTellTheTruth, RowsOnDisk, AllFresh
<1>1. DOMAIN <<>> = {}
  OBVIOUS
<1>2. PICK s \in Sweeps : Dir(s) = d
  BY <1>1 DEF Inv, Unused
<1>3. Begun(s)
  BY <1>2, NoneIsNoDir DEF Inv, SweepTypes
<1> QED
  BY <1>2, <1>3 DEF Inv, OwnSweeps, OwnInv

LEMMA InvIsComplete == Inv => NoCellIsDropped
<1> SUFFICES ASSUME Inv, NEW s \in Sweeps
             PROVE  LET written == IF Dir(s) \in Dirs THEN rows[Dir(s)] ELSE <<>>
                        alone   == \A t \in Sweeps \ {s} : Dir(t) # Dir(s)
                    IN  /\ Active(s) => /\ Len(written) = sweep[s].k - 1
                                        /\ \A i \in DOMAIN written : written[i].by = s /\ written[i].cell = sweep[s].cells[i]
                        /\ At(s, "done") /\ alone => Len(written) = Len(sweep[s].cells)
  BY DEF NoCellIsDropped
<1>1. RowsInv(s) /\ (Begun(s) => Dir(s) \in Dirs)
  BY DEF Inv, SweepTypes
<1>2. Active(s) \/ At(s, "done") => Begun(s)
  BY DEF Active, At, Begun
<1> QED
  BY <1>1, <1>2 DEF RowsInv

\* Sweeps that each have a directory of their own report only what they ran,
\* on their own board with its own rates, whatever is killed or fails and
\* although they share the work directory (run.py:293-427,
\* run_hetero.py:487-535).
THEOREM OwnRowsAreTrue == Spec => []OwnDirectoriesTellTheTruth
<1>1. Spec => []Inv
  BY InitInv, NextInv, PTL DEF Spec
<1> QED
  BY <1>1, InvIsTruth, PTL

\* One row for every cell of a sweep, in order, whatever fails in it
\* (run.py:23-25, 380-427).
THEOREM EveryCellHasItsRow == Spec => []NoCellIsDropped
<1>1. Spec => []Inv
  BY InitInv, NextInv, PTL DEF Spec
<1> QED
  BY <1>1, InvIsComplete, PTL
=============================================================================
