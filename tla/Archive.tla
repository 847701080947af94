-------------------------------- MODULE Archive --------------------------------
(***************************************************************************)
(* What the export promises: rows are added to files one at a time and     *)
(* none is taken away; a record gets the one row it is owed in a format,   *)
(* and more only for a reason; what is shown as saved was added, and stays *)
(* saved unless somebody asks for another row.                             *)
(***************************************************************************)
EXTENDS Integers

CONSTANTS Record, Root

Format == {"TXT", "XLSX"}
File == Root \X Format
Item == Record \X Format

VARIABLES
  rows,   \* how often each record is in each file
  state,  \* "whole", "open" while it is written anew, or "broken" for good
  owed,   \* how many rows of each item are still to be added
  saved,  \* the items shown as saved
  asked   \* the items somebody asked to be added again

vars == <<rows, state, owed, saved, asked>>

Added(i) == \E f \in File : f[2] = i[2] /\ rows[f][i[1]] > 0

Init ==
  /\ rows = [f \in File |-> [r \in Record |-> 0]]
  /\ state = [f \in File |-> "whole"]
  /\ owed = [i \in Item |-> 1]
  /\ saved = {}
  /\ asked = {}

Open(f) ==
  /\ state[f] = "whole"
  /\ state' = [state EXCEPT ![f] = "open"]
  /\ UNCHANGED <<rows, owed, saved, asked>>

Break(files) ==
  /\ state' = [f \in File |-> IF f \in files THEN "broken" ELSE state[f]]
  /\ UNCHANGED <<rows, owed, saved, asked>>

\* A TXT file is added to as it is, a workbook only when it was opened.
Add(f, r) ==
  /\ state[f] = IF f[2] = "TXT" THEN "whole" ELSE "open"
  /\ owed[<<r, f[2]>>] > 0
  /\ rows' = [rows EXCEPT ![f][r] = @ + 1]
  /\ owed' = [owed EXCEPT ![<<r, f[2]>>] = @ - 1]
  /\ state' = [state EXCEPT ![f] = "whole"]
  /\ UNCHANGED <<saved, asked>>

Confirm(i) ==
  /\ Added(i)
  /\ saved' = saved \cup {i}
  /\ UNCHANGED <<rows, state, owed, asked>>

\* The one who adds does not learn that it was done.
Forget(i) ==
  /\ Added(i)
  /\ owed' = [owed EXCEPT ![i] = @ + 1]
  /\ UNCHANGED <<rows, state, saved, asked>>

Ask(i) ==
  /\ asked' = asked \cup {i}
  /\ saved' = saved \ {i}
  /\ owed' = [owed EXCEPT ![i] = @ + 1]
  /\ UNCHANGED <<rows, state>>

\* Adding it again failed.
Withdraw(i) ==
  /\ i \in asked
  /\ saved' = saved \ {i}
  /\ UNCHANGED <<rows, state, owed, asked>>

Next ==
  \/ \E f \in File : Open(f)
  \/ \E files \in SUBSET {f \in File : state[f] = "open"} : Break(files)
  \/ \E f \in File, r \in Record : Add(f, r)
  \/ \E i \in Item : Confirm(i) \/ Forget(i) \/ Ask(i) \/ Withdraw(i)

Spec == Init /\ [][Next]_vars
=============================================================================
