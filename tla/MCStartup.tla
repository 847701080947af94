------------------------------ MODULE MCStartup ------------------------------
(***************************************************************************)
(* Startup on small instances: a migration that may run twice and one that *)
(* may not, with two statements, like 0001 to 0003 and 0004.               *)
(***************************************************************************)
EXTENDS Startup

MCScript == <<[statements |-> 1, repeatable |-> TRUE], [statements |-> 2, repeatable |-> FALSE]>>

=============================================================================
