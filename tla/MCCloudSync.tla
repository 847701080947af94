----------------------------- MODULE MCCloudSync -----------------------------
(***************************************************************************)
(* CloudSync for TLC; the configurations say which mishaps may happen and  *)
(* how many.                                                               *)
(***************************************************************************)
EXTENDS CloudSync
=============================================================================
