-------------------------------- MODULE Mirror --------------------------------
(***************************************************************************)
(* What the synchronisation promises: a copy of the log grows elsewhere,   *)
(* never loses a record, and what is known here to be copied was copied.   *)
(***************************************************************************)
CONSTANT Record

VARIABLES
  copied,  \* the records of the copy
  known    \* the records this side takes for copied

vars == <<copied, known>>

Init == copied = {} /\ known = {}

Copy(r) ==
  /\ copied' = copied \cup {r}
  /\ UNCHANGED known

Learn(r) ==
  /\ r \in copied
  /\ known' = known \cup {r}
  /\ UNCHANGED copied

Next == \E r \in Record : Copy(r) \/ Learn(r)

Spec == Init /\ [][Next]_vars
=============================================================================
