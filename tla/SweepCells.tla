----------------------------- MODULE SweepCells ------------------------------
(***************************************************************************)
(* Sweeps (pipeline/sweep/run.py) and what they leave on disk.  A sweep    *)
(* goes through its cells; for every cell it copies runtime/mesh, measures *)
(* the design's rates once, and has run_hetero.py map, build and simulate  *)
(* the model.  An output directory may have been used before, by a sweep   *)
(* for another board that was killed at any point; two sweeps into two     *)
(* directories may run at once and share the work directory, which is      *)
(* named after the board, the design and the model alone.                  *)
(*                                                                         *)
(* A board is a host and a main-memory device.  Simulations are watched as *)
(* SimWatch says, but not those of a calibration, which may hang for ever; *)
(* compilers and code generators may fail at any time and do end.          *)
(***************************************************************************)
EXTENDS SimWatch, FiniteSets

CONSTANTS
  Sweeps,       \* bound: the sweeps started in a behaviour, by number
  Asked,        \* what each may be asked for: --out, the board, and the
                \* design and the model of every cell, in order
  Buildable,    \* designs that validate() lets through
  Apps,         \* models with a program of their own that scores itself
  Files,        \* the files of runtime/mesh
  MaxKills      \* bound: sweeps killed in a behaviour

VARIABLES
  sweep,        \* what every sweep is doing
  sim,          \* the simulation it watches
  mesh,         \* per directory and design: the copy of runtime/mesh
  rates,        \* per directory and design: rates.json
  result,       \* per directory and cell: result.json
  rows,         \* per directory: sweep.jsonl
  work,         \* per board, design and model: the program run_hetero.py built
  kills

vars == <<sweep, sim, mesh, rates, result, rows, work, kills>>

Asks    == UNION {Asked[s] : s \in Sweeps}
Dirs    == {ask.dir : ask \in Asks}
Boards  == {ask.board : ask \in Asks}
Cells   == UNION {{ask.cells[k] : k \in DOMAIN ask.cells} : ask \in Asks}
Designs == {c.design : c \in Cells}

\* A sweep has a cell to run: the baseline is always among its designs, and
\* --models asks for one model at least.
ASSUME AskedAssumption ==
  /\ Sweeps \subseteq Nat
  /\ \A s \in Sweeps : \A ask \in Asked[s] :
       ask.dir # "none" /\ ask.cells \in Seq(Cells) /\ ask.cells # <<>>

Absent  == [state |-> "absent"]
Torn    == [state |-> "torn"]           \* being written, or left half-written
Whole(x) == [state |-> "whole", of |-> x]

Off == [pc |-> "off", dir |-> "none", board |-> "none", cells |-> <<>>, k |-> 0,
        program |-> Absent, row |-> Absent, fresh |-> FALSE]

Dir(s)    == sweep[s].dir
Board(s)  == sweep[s].board
Cell(s)   == sweep[s].cells[sweep[s].k]
Last(s)   == sweep[s].k = Len(sweep[s].cells)
Design(s) == Cell(s).design
Active(s) == sweep[s].pc \notin {"off", "done", "killed"}

\* --tag keeps two designs apart, the variant two boards.
Work(s) == [board |-> Board(s), cell |-> Cell(s)]
\* A mutant: the board is not part of the name.
WorkOfOneBoard(s) == [Work(s) EXCEPT !.board = CHOOSE b \in Boards : TRUE]
WorkDir(s) == Work(s)

At(s, pc) == sweep[s].pc = pc
Goto(s, pc) == sweep' = [sweep EXCEPT ![s].pc = pc]
Row(s, status, r) == [cell |-> Cell(s), board |-> Board(s), by |-> s, status |-> status, result |-> r]
RecordRow(s, status, r) ==
  sweep' = [sweep EXCEPT ![s].pc = "row", ![s].row = Row(s, status, r)]
\* A mutant: a cell that fails is passed over.
SkipRow(s, status, r) ==
  IF status = "ok" THEN RecordRow(s, status, r)
  ELSE sweep' = [sweep EXCEPT ![s].pc = IF Last(s) THEN "done" ELSE "cell",
                              ![s].k = IF Last(s) THEN @ ELSE @ + 1]
EndCell(s, status, r) == RecordRow(s, status, r)

------------------------------------------------------------------------------
\* main(): the directory is not in use; sweep.jsonl starts empty.
Start(s, ask) ==
  /\ At(s, "off") /\ \A t \in Sweeps : /\ Active(t) => Dir(t) # ask.dir
                                       /\ t < s => ~At(t, "off")
  /\ sweep' = [sweep EXCEPT ![s] =
                 [pc |-> "cell", dir |-> ask.dir, board |-> ask.board, cells |-> ask.cells, k |-> 1,
                  program |-> Absent, row |-> Absent, fresh |-> \A t \in Sweeps : Dir(t) # ask.dir]]
  /\ rows' = [rows EXCEPT ![ask.dir] = <<>>]
  /\ UNCHANGED <<sim, mesh, rates, result, work, kills>>

\* run_cell(): a design that cannot be built is a row at once.
Validate(s) ==
  /\ At(s, "cell")
  /\ IF Design(s) \in Buildable THEN Goto(s, "mesh") ELSE EndCell(s, "invalid", Absent)
  /\ UNCHANGED <<sim, mesh, rates, result, rows, work, kills>>

\* prepare(): a copy that exists is taken as it is; copytree() copies file by
\* file into a directory it has made.
Prepare(s) ==
  /\ At(s, "mesh")
  /\ IF mesh[Dir(s)][Design(s)] = Absent
       THEN /\ mesh' = [mesh EXCEPT ![Dir(s)][Design(s)] = Whole({})]
            /\ Goto(s, "copy")
       ELSE /\ Goto(s, "header") /\ UNCHANGED mesh
  /\ UNCHANGED <<sim, rates, result, rows, work, kills>>

Copy(s) ==
  /\ At(s, "copy")
  /\ LET left == Files \ mesh[Dir(s)][Design(s)].of
     IN  IF left = {} THEN Goto(s, "header") /\ UNCHANGED mesh
         ELSE /\ \E f \in left : mesh' = [mesh EXCEPT ![Dir(s)][Design(s)].of = @ \cup {f}]
              /\ UNCHANGED sweep
  /\ UNCHANGED <<sim, rates, result, rows, work, kills>>

\* gen_system_header.py writes the header; calibrate() takes rates that are
\* there, whatever board they were measured on.
Header(s) ==
  /\ At(s, "header")
  /\ \/ Goto(s, IF rates[Dir(s)][Design(s)] = Absent THEN "calibrate" ELSE "generate")
     \/ EndCell(s, "error", Absent)
  /\ UNCHANGED <<sim, mesh, rates, result, rows, work, kills>>

\* calibrate(): the programs are built and simulated ...
Calibrate(s) ==
  /\ At(s, "calibrate")
  /\ \/ Files \subseteq mesh[Dir(s)][Design(s)].of /\ Goto(s, "calibrating")
     \/ EndCell(s, "error", Absent)
  /\ UNCHANGED <<sim, mesh, rates, result, rows, work, kills>>

\* ... without any limit.  If the simulation ends, calibrate.py writes the
\* table, or refuses a run that failed and writes nothing.
Calibrated(s) ==
  /\ At(s, "calibrating")
  /\ \/ /\ rates' = [rates EXCEPT ![Dir(s)][Design(s)] = Torn]
        /\ Goto(s, "rates")
     \/ EndCell(s, "error", Absent) /\ UNCHANGED rates
  /\ UNCHANGED <<sim, mesh, result, rows, work, kills>>

WriteRates(s) ==
  /\ At(s, "rates")
  /\ rates' = [rates EXCEPT ![Dir(s)][Design(s)] = Whole(Board(s))]
  /\ Goto(s, "generate")
  /\ UNCHANGED <<sim, mesh, result, rows, work, kills>>

------------------------------------------------------------------------------
\* run_hetero.py: the mapper loads the rates and the three programs are built
\* in place; either may fail, a torn table and a missing file do.
Generate(s) ==
  /\ At(s, "generate")
  /\ \/ /\ rates[Dir(s)][Design(s)].state = "whole" /\ Files \subseteq mesh[Dir(s)][Design(s)].of
        /\ work' = [work EXCEPT ![WorkDir(s)] = Torn]
        /\ Goto(s, "build")
     \/ Goto(s, "collect") /\ UNCHANGED work
  /\ UNCHANGED <<sim, mesh, rates, result, rows, kills>>

Build(s) ==
  /\ At(s, "build")
  /\ \/ /\ work' = [work EXCEPT ![WorkDir(s)] =
                      Whole([board |-> Board(s), rates |-> rates[Dir(s)][Design(s)].of])]
        /\ Goto(s, "launch")
     \/ Goto(s, "collect") /\ UNCHANGED work
  /\ UNCHANGED <<sim, mesh, rates, result, rows, kills>>

Launch(s) ==
  /\ At(s, "launch")
  /\ sim' = [sim EXCEPT ![s] = Launched]
  /\ sweep' = [sweep EXCEPT ![s].pc = "simulate", ![s].program = work[WorkDir(s)]]
  /\ UNCHANGED <<mesh, rates, result, rows, work, kills>>

\* The simulator: a program that is not whole ends without a word.
Say(s, line) ==
  /\ At(s, "simulate") /\ CanPrint(sim[s]) /\ sweep[s].program # Torn
  /\ sim' = [sim EXCEPT ![s] = Printed(@, line)]
  /\ UNCHANGED <<sweep, mesh, rates, result, rows, work, kills>>

Exit(s) ==
  /\ At(s, "simulate") /\ sim[s].running
  /\ sim' = [sim EXCEPT ![s].running = FALSE]
  /\ UNCHANGED <<sweep, mesh, rates, result, rows, work, kills>>

Tick(s) ==
  /\ At(s, "simulate") /\ Ticked(sim[s]) # sim[s]
  /\ sim' = [sim EXCEPT ![s] = Ticked(@)]
  /\ UNCHANGED <<sweep, mesh, rates, result, rows, work, kills>>

\* One turn of the loop of simulate(); the second clause is its end.
Watch(s) ==
  /\ At(s, "simulate")
  /\ \/ /\ ~TimeIsUp(sim[s]) /\ sim[s].out # <<>>
        /\ sim' = [sim EXCEPT ![s] = Took(@)]
        /\ UNCHANGED sweep
     \/ /\ TimeIsUp(sim[s]) \/ (~sim[s].running /\ sim[s].out = <<>>)
        /\ sim' = [sim EXCEPT ![s] = Left(@)]
        /\ Goto(s, "report")
  /\ UNCHANGED <<mesh, rates, result, rows, work, kills>>

\* report(): the result is written whatever its status.
Report(s) ==
  /\ At(s, "report")
  /\ result' = [result EXCEPT ![Dir(s)][Cell(s)] = Torn]
  /\ Goto(s, "reported")
  /\ UNCHANGED <<sim, mesh, rates, rows, work, kills>>

Reported(s) ==
  /\ At(s, "reported")
  /\ result' = [result EXCEPT ![Dir(s)][Cell(s)] =
                  Whole([by |-> s, program |-> sweep[s].program, said |-> sim[s].said,
                         status |-> Status(sim[s], Cell(s).model \in Apps)])]
  /\ Goto(s, "collect")
  /\ sim' = [sim EXCEPT ![s] = Idle]
  /\ UNCHANGED <<mesh, rates, rows, work, kills>>

------------------------------------------------------------------------------
\* run_cell() again: what counts is whether there is a result, not whether
\* run_hetero.py has just written it.
Collect(s) ==
  /\ At(s, "collect")
  /\ LET r == result[Dir(s)][Cell(s)]
     IN  CASE r.state = "absent" -> EndCell(s, "failed", Absent)
           [] r.state = "torn"   -> EndCell(s, "error", Absent)
           [] r.state = "whole"  -> EndCell(s, r.of.status, r)
  /\ UNCHANGED <<sim, mesh, rates, result, rows, work, kills>>

WriteRow(s) ==
  /\ At(s, "row")
  /\ rows' = [rows EXCEPT ![Dir(s)] = Append(@, sweep[s].row)]
  /\ sweep' = [sweep EXCEPT ![s].pc = IF Last(s) THEN "done" ELSE "cell",
                            ![s].k = IF Last(s) THEN @ ELSE @ + 1,
                            ![s].row = Absent, ![s].program = Absent]
  /\ UNCHANGED <<sim, mesh, rates, result, work, kills>>

\* The process group is killed (backend.rs), or the machine goes down.
Kill(s) ==
  /\ kills < MaxKills /\ Active(s)
  /\ sweep' = [sweep EXCEPT ![s].pc = "killed", ![s].row = Absent, ![s].program = Absent]
  /\ sim' = [sim EXCEPT ![s] = Idle]
  /\ kills' = kills + 1
  /\ UNCHANGED <<mesh, rates, result, rows, work>>

------------------------------------------------------------------------------
Init ==
  /\ sweep  = [s \in Sweeps |-> Off]
  /\ sim    = [s \in Sweeps |-> Idle]
  /\ mesh   = [d \in Dirs |-> [e \in Designs |-> Absent]]
  /\ rates  = [d \in Dirs |-> [e \in Designs |-> Absent]]
  /\ result = [d \in Dirs |-> [c \in Cells |-> Absent]]
  /\ rows   = [d \in Dirs |-> <<>>]
  /\ work   = [w \in [board : Boards, cell : Cells] |-> Absent]
  /\ kills  = 0

Drive(s) ==
  \/ Validate(s) \/ Prepare(s) \/ Copy(s) \/ Header(s) \/ Calibrate(s) \/ WriteRates(s)
  \/ Generate(s) \/ Build(s) \/ Launch(s) \/ Watch(s) \/ Report(s) \/ Reported(s)
  \/ Collect(s) \/ WriteRow(s)

Next == \E s \in Sweeps :
  \/ \E ask \in Asked[s] : Start(s, ask)
  \/ Drive(s)
  \/ \E line \in Lines : Say(s, line)
  \/ Calibrated(s) \/ Exit(s) \/ Tick(s) \/ Kill(s)

Spec == Init /\ [][Next]_vars

\* A sweep goes on and its clock runs; nothing is asked of the simulator, nor
\* that a calibration, which nobody watches, comes to an end.
FairSpec == Spec /\ \A s \in Sweeps : WF_vars(Drive(s)) /\ WF_vars(Tick(s))

------------------------------------------------------------------------------
RowsOnDisk == UNION {{rows[d][i] : i \in DOMAIN rows[d]} : d \in Dirs}

\* A row that says ok stands for a simulation by the sweep that wrote it, of a
\* program built for its board, mapped with rates measured on that board, that
\* gave a good verdict.
SaysWhatWasRun(row) ==
  row.status = "ok" =>
    /\ row.result.of.by = row.by /\ row.result.of.said = "good"
    /\ row.result.of.program = Whole([board |-> row.board, rates |-> row.board])

\* Sweeps that each have a directory of their own report only what they ran,
\* whatever is killed or fails and although they share the work directory
\* (run.py:293-427, run_hetero.py:487-535).
OwnDirectoriesTellTheTruth ==
  (\A s \in Sweeps : At(s, "off") \/ sweep[s].fresh) => \A row \in RowsOnDisk : SaysWhatWasRun(row)

\* The same of any directory: pipeline/sweep/run.py:6-8, "For each (design
\* point, model) it writes one JSONL row ... so a row says what was run, not
\* what was asked for".
RowsAreTrue == \A row \in RowsOnDisk : SaysWhatWasRun(row)

\* No cell is dropped, whatever fails in it: the rows are those of the cells
\* behind the sweep, in order, and all of them once it is done (run.py:23-25).
NoCellIsDropped == \A s \in Sweeps :
  LET written == IF Dir(s) \in Dirs THEN rows[Dir(s)] ELSE <<>>
      alone   == \A t \in Sweeps \ {s} : Dir(t) # Dir(s)
  IN  /\ Active(s) => /\ Len(written) = sweep[s].k - 1
                      /\ \A i \in DOMAIN written : written[i].by = s /\ written[i].cell = sweep[s].cells[i]
      /\ At(s, "done") /\ alone => Len(written) = Len(sweep[s].cells)

\* A sweep that is not killed comes to its end, even if the simulation of a
\* cell hangs, silent or printing (run_hetero.py:163-189), unless a simulation
\* it calibrates with never ends (run.py:325).
SweepEnds == \A s \in Sweeps :
  []<>~At(s, "calibrating") => (Active(s) ~> ~Active(s))
==============================================================================
