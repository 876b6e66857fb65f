------------------------------- MODULE Report -------------------------------
(***************************************************************************)
(* What a user of beryl-bench is promised, and nothing of how: a table     *)
(* with one row for each test of each pass, in that order; each row counts *)
(* --runs replies to that test alone and is timed by them; the run is only *)
(* called finished when the table is complete.  A run may be aborted at    *)
(* any point, and then the rows already printed stand.                     *)
(***************************************************************************)
EXTENDS Integers, Sequences

CONSTANTS
  Ops,        \* replies that make a row
  Table       \* the tests of the rows, in order

VARIABLES printed, state

reportSpecVars == <<printed, state>>

FullRow(t) == [test |-> t, begin |-> t, own |-> Ops]

Init == printed = <<>> /\ state = "running"

PrintRow ==
  /\ state = "running"
  /\ Len(printed) < Len(Table)
  /\ printed' = Append(printed, FullRow(Table[Len(printed) + 1]))
  /\ UNCHANGED state

Finish ==
  /\ state = "running"
  /\ Len(printed) = Len(Table)
  /\ state' = "finished"
  /\ UNCHANGED printed

Abort ==
  /\ state = "running"
  /\ state' = "aborted"
  /\ UNCHANGED printed

Next == PrintRow \/ Finish \/ Abort

Spec == Init /\ [][Next]_reportSpecVars /\ WF_reportSpecVars(Next)
=============================================================================
