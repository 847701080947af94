------------------------------ MODULE MCSettings ------------------------------
(***************************************************************************)
(* Settings on small instances.  The screens are interchangeable.          *)
(***************************************************************************)
EXTENDS Settings

Pages == Permutations(Page)

=============================================================================
