---------------------------- MODULE MCLogPipeline ----------------------------
(***************************************************************************)
(* Instances of LogPipeline for TLC.                                       *)
(***************************************************************************)
EXTENDS LogPipeline, TLC

\* Processes and days are interchangeable.
Symmetry == Permutations(Process) \cup Permutations(Date)
=============================================================================
