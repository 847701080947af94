------------------------------- MODULE Register -------------------------------
(***************************************************************************)
(* What the log promises: the numbers of a day are given out one after the *)
(* other; each ends in one row or is lost, for good; rows are only added;  *)
(* and each copy of a row ends in one job or is missing, for good.         *)
(***************************************************************************)
EXTENDS Naturals, Sequences

CONSTANTS Date, Copy

VARIABLES
  given,    \* the last number given out on each day
  open,     \* the numbers given out of which nothing has become yet
  rows,     \* the numbers of the rows, in their order
  lost,     \* the numbers that become no row
  owed,     \* <<number, copy>>: the jobs of which nothing has become yet
  jobs,     \* the jobs written
  missing   \* the jobs that are not going to be

vars == <<given, open, rows, lost, owed, jobs, missing>>

Init ==
  /\ given = [d \in Date |-> 0]
  /\ rows = <<>>
  /\ open = {} /\ lost = {} /\ owed = {} /\ jobs = {} /\ missing = {}

GiveOut(d) ==
  /\ given' = [given EXCEPT ![d] = @ + 1]
  /\ open' = open \cup {<<d, given[d] + 1>>}
  /\ UNCHANGED <<rows, lost, owed, jobs, missing>>

\* An open number ends, in a row or in none.
Enter(x) ==
  /\ rows' = Append(rows, x)
  /\ open' = open \ {x}
  /\ owed' = owed \cup ({x} \X Copy)
  /\ UNCHANGED <<given, lost, jobs, missing>>

Lose(x) ==
  /\ lost' = lost \cup {x}
  /\ open' = open \ {x}
  /\ UNCHANGED <<given, rows, owed, jobs, missing>>

\* So does a job that is owed.
Write(j) ==
  /\ jobs' = jobs \cup {j}
  /\ owed' = owed \ {j}
  /\ UNCHANGED <<given, open, rows, lost, missing>>

\* Some jobs of one row are given up.
Drop(x, copies) ==
  /\ missing' = missing \cup ({x} \X copies)
  /\ {x} \X copies \subseteq owed
  /\ owed' = owed \ ({x} \X copies)
  /\ UNCHANGED <<given, open, rows, lost, jobs>>

Next ==
  \/ \E d \in Date : GiveOut(d)
  \/ \E x \in open : Enter(x) \/ Lose(x)
  \/ \E j \in owed : Write(j) \/ \E copies \in SUBSET Copy : Drop(j[1], copies)

Spec == Init /\ [][Next]_vars
=============================================================================
