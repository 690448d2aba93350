------------------------------ MODULE SimWatch -------------------------------
(***************************************************************************)
(* simulate() of pipeline/run_hetero.py: a simulator that prints, a thread *)
(* that moves its lines into a queue, and a loop that takes them one by    *)
(* one and, between two lines, looks at how long there has been no beacon  *)
(* and how long the run has taken.  The simulator may hang, silent or      *)
(* not.  One record holds all of it, the queue included.                   *)
(***************************************************************************)
EXTENDS Naturals, Sequences

CONSTANTS
  Stall,        \* --stall-timeout, in ticks of the clock
  Limit,        \* --timeout
  MaxLines      \* bound: lines printed and not yet read

ASSUME WatchAssumption == Stall \in Nat /\ Limit \in Nat /\ MaxLines \in Nat \ {0}

Idle == [running |-> FALSE, out |-> <<>>, silent |-> 0, age |-> 0, stalled |-> FALSE,
         verdict |-> "none", said |-> "none"]
Launched == [Idle EXCEPT !.running = TRUE]

\* Lines: a node's beacon, and the verdict the program ends with.
Lines == {"beacon", "good", "bad"}

\* A program gives one verdict, at its end.
CanPrint(x) == x.running /\ x.said = "none" /\ Len(x.out) < MaxLines
Printed(x, line) ==
  [x EXCEPT !.out = Append(@, line), !.said = IF line = "beacon" THEN @ ELSE line]

Later(t, bound) == IF t > bound THEN t ELSE t + 1
Ticked(x) == [x EXCEPT !.silent = Later(@, Stall), !.age = Later(@, Limit)]

Stalled(x) == x.silent > Stall
\* A mutant: only a silent run is given up.
OnlyStallsAreUp(x) == Stalled(x)
TimeIsUp(x) == Stalled(x) \/ x.age > Limit

\* The loop takes the next line; a beacon sets the stall clock back.
Took(x) ==
  [x EXCEPT !.out = Tail(@),
            !.silent = IF Head(x.out) = "beacon" THEN 0 ELSE @,
            !.verdict = IF Head(x.out) = "beacon" THEN @ ELSE Head(x.out)]

\* The loop is left, and the simulator killed if it is still there.
Left(x) == [x EXCEPT !.running = FALSE, !.out = <<>>, !.stalled = Stalled(x)]

\* The verdict of a program that scores itself counts even after a stall.
Status(x, app) ==
  CASE x.stalled /\ ~(app /\ x.verdict # "none")  -> "stalled"
    [] ~x.stalled /\ x.verdict = "none"           -> "no-metrics"
    [] x.verdict = "good" /\ (app \/ ~x.stalled)  -> "ok"
    [] x.verdict = "bad" /\ (app \/ ~x.stalled)   -> "wrong-result"
==============================================================================
